------------------------------- MODULE CList -------------------------------
(***************************************************************************)
(* The intrusive ring list of clinkc (src/clinkc/src/cybergarage/util/     *)
(* clist.c): every device, service, subscriber and thread of the library   *)
(* begins with the two pointers of a CgList.  A ring that is only changed  *)
(* by cg_list_add and cg_list_remove is the sequence of its nodes from the *)
(* header on; a node out of every ring is linked to itself.                *)
(***************************************************************************)
EXTENDS Integers, Sequences

\* The nodes a walk from the header meets (cg_list_next until NULL).
Nodes(list) == {list[i] : i \in 1 .. Len(list)}

\* No node is linked twice.
NoTwice(list) ==
  \A i, j \in 1 .. Len(list) : list[i] = list[j] => i = j

Place(list, node) == CHOOSE i \in 1 .. Len(list) : list[i] = node

\* cg_list_next(header)
FirstOf(list, null) == IF list = << >> THEN null ELSE list[1]

\* cg_list_next: NULL at the end; a node out of the ring is its own next.
NextOf(list, node, null) ==
  IF node \notin Nodes(list) THEN node
  ELSE IF Place(list, node) = Len(list) THEN null
  ELSE list[Place(list, node) + 1]

\* cg_list_add: at the end of the ring.
Linked(list, node) == Append(list, node)

\* cg_list_remove: a node that is its own ring is left alone.
Unlinked(list, node) ==
  IF node \notin Nodes(list) THEN list
  ELSE [i \in 1 .. (Len(list) - 1) |->
          IF i < Place(list, node) THEN list[i] ELSE list[i + 1]]
=============================================================================
