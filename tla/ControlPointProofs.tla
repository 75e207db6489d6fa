------------------------- MODULE ControlPointProofs -------------------------
(***************************************************************************)
(* Proofs about the ring list and about the control point, for every set   *)
(* of threads, devices, offers and heap addresses.                         *)
(***************************************************************************)
EXTENDS ControlPoint, SequenceTheorems, NaturalsInduction, WellFoundedInduction, TLAPS

-----------------------------------------------------------------------------
(* The ring list.                                                           *)

\* The place of a linked node is where it is.
LEMMA PlaceOfNode ==
  ASSUME NEW S, NEW l \in Seq(S), NEW x \in Nodes(l)
  PROVE  Place(l, x) \in 1 .. Len(l) /\ l[Place(l, x)] = x
BY DEF Nodes, Place

\* cg_list_add links the new node and keeps the others, each once.
LEMMA LinkedNodes ==
  ASSUME NEW S, NEW l \in Seq(S), NEW x \in S, x \notin Nodes(l), NoTwice(l)
  PROVE  /\ Linked(l, x) \in Seq(S)
         /\ Nodes(Linked(l, x)) = Nodes(l) \cup {x}
         /\ NoTwice(Linked(l, x))
<1> DEFINE k == Append(l, x)
<1>1. k \in Seq(S) /\ Len(k) = Len(l) + 1 /\ Len(l) \in Nat
  OBVIOUS
<1>2. /\ \A i \in 1 .. Len(l) : k[i] = l[i]
      /\ k[Len(l) + 1] = x
  OBVIOUS
<1> HIDE DEF k
<1>3. Nodes(k) = Nodes(l) \cup {x}
  <2>1. ASSUME NEW y \in Nodes(k) PROVE y \in Nodes(l) \cup {x}
    <3>1. PICK i \in 1 .. Len(k) : k[i] = y  BY DEF Nodes
    <3>2. CASE i \in 1 .. Len(l)  BY <1>2, <3>1, <3>2 DEF Nodes
    <3>3. CASE i = Len(l) + 1  BY <1>2, <3>1, <3>3
    <3> QED  BY <1>1, <3>1, <3>2, <3>3
  <2>2. ASSUME NEW y \in Nodes(l) PROVE y \in Nodes(k)
    <3>1. PICK i \in 1 .. Len(l) : l[i] = y  BY DEF Nodes
    <3>2. i \in 1 .. Len(k) /\ k[i] = y  BY <1>1, <1>2, <3>1
    <3> QED  BY <3>2 DEF Nodes
  <2>3. x \in Nodes(k)
    <3>1. Len(l) + 1 \in 1 .. Len(k)  BY <1>1
    <3> QED  BY <1>2, <3>1 DEF Nodes
  <2> QED  BY <2>1, <2>2, <2>3
<1>4. NoTwice(k)
  <2> SUFFICES ASSUME NEW i \in 1 .. Len(k), NEW j \in 1 .. Len(k), k[i] = k[j]
               PROVE  i = j
    BY DEF NoTwice
  <2>1. \A n \in 1 .. Len(l) : l[n] # x  BY DEF Nodes
  <2>2. CASE i \in 1 .. Len(l) /\ j \in 1 .. Len(l)
    BY <1>2, <2>2 DEF NoTwice
  <2>3. CASE i = Len(l) + 1 \/ j = Len(l) + 1
    BY <1>1, <1>2, <2>1, <2>3
  <2> QED  BY <1>1, <2>2, <2>3
<1> QED  BY <1>1, <1>3, <1>4 DEF Linked, k

\* cg_list_remove unlinks the node and keeps the others, each once.
LEMMA UnlinkedNodes ==
  ASSUME NEW S, NEW l \in Seq(S), NEW x, NoTwice(l)
  PROVE  /\ Unlinked(l, x) \in Seq(S)
         /\ Nodes(Unlinked(l, x)) = Nodes(l) \ {x}
         /\ NoTwice(Unlinked(l, x))
<1>1. CASE x \notin Nodes(l)
  BY <1>1 DEF Unlinked
<1>2. CASE x \in Nodes(l)
  <2> DEFINE p == Place(l, x)
             k == [i \in 1 .. (Len(l) - 1) |-> IF i < p THEN l[i] ELSE l[i + 1]]
  <2>1. p \in 1 .. Len(l) /\ l[p] = x
    BY <1>2, PlaceOfNode
  <2>2. Unlinked(l, x) = k
    BY <1>2 DEF Unlinked
  <2> HIDE DEF p
  <2>3. Len(l) - 1 \in Nat /\ Len(l) \in Nat
    BY <2>1
  <2>4. k \in Seq(S)
    <3>1. \A i \in 1 .. (Len(l) - 1) : (IF i < p THEN l[i] ELSE l[i + 1]) \in S
      BY <2>1, <2>3
    <3> QED  BY <2>3, <3>1, IsASeq
  <2>5. Len(k) = Len(l) - 1
    BY <2>3, <2>4
  <2>6. \A i \in 1 .. (Len(l) - 1) : k[i] = IF i < p THEN l[i] ELSE l[i + 1]
    OBVIOUS
  <2> HIDE DEF k
  <2>7. Nodes(k) = Nodes(l) \ {x}
    <3>1. ASSUME NEW y \in Nodes(k) PROVE y \in Nodes(l) \ {x}
      <4>1. PICK i \in 1 .. (Len(l) - 1) : k[i] = y  BY <2>5 DEF Nodes
      <4> DEFINE q == IF i < p THEN i ELSE i + 1
      <4>2. q \in 1 .. Len(l) /\ q # p /\ l[q] = y  BY <2>1, <2>3, <2>6, <4>1
      <4>3. y \in Nodes(l)  BY <4>2 DEF Nodes
      <4>4. y # x  BY <2>1, <4>2 DEF NoTwice
      <4> QED  BY <4>3, <4>4
    <3>2. ASSUME NEW y \in Nodes(l), y # x PROVE y \in Nodes(k)
      <4>1. PICK q \in 1 .. Len(l) : l[q] = y  BY DEF Nodes
      <4>2. q # p  BY <2>1, <3>2, <4>1
      <4> DEFINE i == IF q < p THEN q ELSE q - 1
      <4>3. i \in 1 .. (Len(l) - 1) /\ k[i] = y  BY <2>1, <2>3, <2>6, <4>1, <4>2
      <4> QED  BY <2>5, <4>3 DEF Nodes
    <3> QED  BY <3>1, <3>2
  <2>8. NoTwice(k)
    <3> SUFFICES ASSUME NEW i \in 1 .. (Len(l) - 1), NEW j \in 1 .. (Len(l) - 1),
                        k[i] = k[j]
                 PROVE  i = j
      BY <2>5 DEF NoTwice
    <3> DEFINE q == IF i < p THEN i ELSE i + 1
               r == IF j < p THEN j ELSE j + 1
    <3>1. /\ q \in 1 .. Len(l) /\ k[i] = l[q]
          /\ r \in 1 .. Len(l) /\ k[j] = l[r]
      BY <2>1, <2>3, <2>6
    <3>2. q = r  BY <3>1 DEF NoTwice
    <3> QED  BY <2>1, <3>2
  <2> QED  BY <2>2, <2>4, <2>7, <2>8
<1> QED  BY <1>1, <1>2

\* cg_list_next stays on the ring.
LEMMA NextNode ==
  ASSUME NEW S, NEW l \in Seq(S), NEW null, NEW x
  PROVE  /\ FirstOf(l, null) \in Nodes(l) \cup {null}
         /\ x \in Nodes(l) => NextOf(l, x, null) \in Nodes(l) \cup {null}
         /\ NextOf(l, x, null) \in Nodes(l) \cup {null, x}
<1>1. FirstOf(l, null) \in Nodes(l) \cup {null}
  <2>1. CASE l = << >>  BY <2>1 DEF FirstOf
  <2>2. CASE l # << >>
    <3>1. 1 \in 1 .. Len(l)  BY <2>2, EmptySeq
    <3> QED  BY <2>2, <3>1 DEF FirstOf, Nodes
  <2> QED  BY <2>1, <2>2
<1>2. ASSUME x \in Nodes(l) PROVE NextOf(l, x, null) \in Nodes(l) \cup {null}
  <2>1. Place(l, x) \in 1 .. Len(l)  BY <1>2, PlaceOfNode
  <2>2. CASE Place(l, x) = Len(l)  BY <1>2, <2>2 DEF NextOf
  <2>3. CASE Place(l, x) # Len(l)
    <3>1. Place(l, x) + 1 \in 1 .. Len(l)  BY <2>1, <2>3
    <3> QED  BY <1>2, <2>3, <3>1 DEF NextOf, Nodes
  <2> QED  BY <2>2, <2>3
<1>3. x \notin Nodes(l) => NextOf(l, x, null) = x
  BY DEF NextOf
<1> QED  BY <1>1, <1>2, <1>3

-----------------------------------------------------------------------------
(* The inductive invariant.                                                 *)

\* Who holds the lock is where it is held, and the other way round.
HoldersAreRight ==
  /\ \A t \in Receivers : lock = t <=> pc[t] \in {"parse", "fetch", "added", "updated"}
  /\ lock = Handler <=> pc[Handler] = "scan"

\* An announcement that waits for the lock, or for a description, is one of a
\* device.
JobsAreRight ==
  \A t \in Receivers : pc[t] \in {"add", "parse", "fetch"} =>
    job[t] \in [udn : Udns, loc : Locations, age : Nat]

\* The object being made is allocated and in no list, and no listed one has the
\* name it was made for.
CreationIsRight ==
  \A t \in Receivers : pc[t] = "fetch" =>
    /\ ptr[t] \in Slots \ Listed /\ Live(ptr[t])
    /\ \A s \in Listed : heap[s].name # job[t].udn

\* The object whose description is read again has the packet that asked for it.
UpdateIsRight ==
  \A t \in Receivers : pc[t] = "parse" => heap[ptr[t]].udn = job[t].udn

\* A listed object has the name of its packet, or both names are in doubt.
NamesAreRight ==
  \A s \in Listed :
    \/ heap[s].name = heap[s].udn
    \/ heap[s].udn \in misnamed /\ heap[s].name \in misnamed \cup {Null}

\* Where a remembered pointer is used, there is one.
PointersAreThere ==
  /\ \A t \in Threads : pc[t] = "delete" => ptr[t] \in Slots
  /\ pc[Handler] = "drop" => ptr[Handler] \in Slots

\* Every listed object is allocated, and listed once.
ListIsGood ==
  NoTwice(list) /\ \A s \in Listed : s \in Slots /\ Live(s)

\* Every allocated object is listed or being made.
NothingLost ==
  \A s \in Slots : Live(s) =>
    s \in Listed \/ \E t \in Receivers : lock = t /\ pc[t] = "fetch" /\ ptr[t] = s

IInv ==
  /\ TypeOK /\ HoldersAreRight /\ JobsAreRight /\ CreationIsRight /\ PointersAreThere
  /\ UpdateIsRight /\ ListIsGood /\ NothingLost /\ OneObjectPerUdn /\ NamesAreRight
  /\ HeldPointersAreGood

-----------------------------------------------------------------------------
(* The list and the look-up, in a state of the invariant.                   *)

\* Walking the list gives listed devices, or NULL.
LEMMA OnTheList ==
  ASSUME TypeOK
  PROVE  /\ Listed \subseteq Slots
         /\ FirstOf(list, Null) \in Listed \cup {Null}
         /\ \A s \in Listed : NextOf(list, s, Null) \in Listed \cup {Null}
         /\ \A s \in Slots : NextOf(list, s, Null) \in Slots \cup {Null}
<1>1. list \in Seq(Slots)  BY DEF TypeOK
<1>2. Listed \subseteq Slots  BY <1>1 DEF Listed, Nodes
<1>3. FirstOf(list, Null) \in Listed \cup {Null}  BY <1>1, NextNode DEF Listed
<1>4. ASSUME NEW s PROVE /\ s \in Listed => NextOf(list, s, Null) \in Listed \cup {Null}
                         /\ NextOf(list, s, Null) \in Listed \cup {Null, s}
  BY <1>1, NextNode DEF Listed
<1> QED  BY <1>2, <1>3, <1>4

Below == {nm \in Nat \X Nat : nm[1] < nm[2]}

\* A set of places that is not empty has a first one.
LEMMA First ==
  ASSUME NEW T, T \subseteq Nat, T # {}
  PROVE  \E n \in T : \A m \in T : n <= m
<1>1. OpToRel(<, Nat) = Below  BY DEF OpToRel, Below
<1>2. IsWellFoundedOn(Below, Nat)  BY <1>1, NatLessThanWellFounded
<1>3. PICK n \in T : \A m \in T : ~ (<<m, n>> \in Below)  BY <1>2, WFMin
<1>4. ASSUME NEW m \in T PROVE n <= m
  <2>1. n \in Nat /\ m \in Nat  OBVIOUS
  <2>2. ~ (m < n)  BY <1>3, <2>1 DEF Below
  <2> QED  BY <2>1, <2>2
<1> QED  BY <1>4

\* The look-up finds a listed device of that name, or there is none.
LEMMA FoundDevice ==
  ASSUME TypeOK, NEW u
  PROVE  /\ Lookup(u) \in Slots \cup {Null}
         /\ Lookup(u) # Null => Lookup(u) \in Listed /\ heap[Lookup(u)].name = u
         /\ Lookup(u) = Null => \A s \in Listed : heap[s].name # u
<1>1. CASE Named(u) # {}
  <2>1. Named(u) \subseteq Nat  BY DEF Named
  <2>2. \E i \in Named(u) : \A j \in Named(u) : i <= j  BY <1>1, <2>1, First
  <2> DEFINE i == CHOOSE i \in Named(u) : \A j \in Named(u) : i <= j
  <2>3. i \in Named(u)  BY <2>2
  <2>4. Lookup(u) = list[i]  BY <1>1 DEF Lookup
  <2> HIDE DEF i
  <2>5. Lookup(u) \in Listed /\ heap[Lookup(u)].name = u
    BY <2>3, <2>4 DEF Named, Listed, Nodes
  <2> QED  BY <2>5, OnTheList, HeapAssumption
<1>2. CASE Named(u) = {}
  <2>1. Lookup(u) = Null  BY <1>2 DEF Lookup
  <2>2. \A s \in Listed : heap[s].name # u  BY <1>2 DEF Named, Listed, Nodes
  <2> QED  BY <2>1, <2>2
<1> QED  BY <1>1, <1>2

-----------------------------------------------------------------------------
(* Every action keeps the invariant.                                        *)


\* An announcement or an answer is received.
LEMMA AliveStep ==
  ASSUME IInv, NEW t \in Receivers, Alive(t)
  PROVE  IInv'
<1> USE ThreadAssumption, HeapAssumption, OfferAssumption
    DEF IInv, Alive, Receive, Threads, Receivers, Goto, handlerVars, networkVars, Packet,
        NoPacket, Free, Device, ReceiverPlaces, HandlerPlaces
<1>1. TypeOK'  BY DEF TypeOK, Live
<1>2. HoldersAreRight'  BY DEF TypeOK, HoldersAreRight
<1>3. JobsAreRight'  BY DEF TypeOK, JobsAreRight
<1>4. CreationIsRight'  BY DEF TypeOK, CreationIsRight, Listed, Live
<1>5. PointersAreThere'  BY DEF TypeOK, PointersAreThere
<1>6. ListIsGood'  BY DEF TypeOK, ListIsGood, Listed, Live
<1>7. NothingLost'  BY DEF TypeOK, NothingLost, HoldersAreRight, Listed, Live
<1>8. OneObjectPerUdn' /\ NamesAreRight'  BY DEF TypeOK, OneObjectPerUdn, NamesAreRight, Listed
<1>9. HeldPointersAreGood'  BY DEF TypeOK, HeldPointersAreGood, HoldersAreRight, Listed, ListIsGood
<1>10. UpdateIsRight'  BY DEF TypeOK, UpdateIsRight, HoldersAreRight, HeldPointersAreGood, ListIsGood, Listed
<1> QED  BY <1>1, <1>2, <1>3, <1>4, <1>5, <1>6, <1>7, <1>8, <1>9, <1>10

\* A byebye is received.
LEMMA ByeByeStep ==
  ASSUME IInv, NEW t \in Receivers, ByeBye(t)
  PROVE  IInv'
<1> USE ThreadAssumption, HeapAssumption, OfferAssumption
    DEF IInv, ByeBye, Receive, Threads, Receivers, Goto, handlerVars, networkVars, Packet,
        NoPacket, Free, Device, ReceiverPlaces, HandlerPlaces
<1>1. TypeOK'  BY DEF TypeOK, Live
<1>2. HoldersAreRight'  BY DEF TypeOK, HoldersAreRight
<1>3. JobsAreRight'  BY DEF TypeOK, JobsAreRight
<1>4. CreationIsRight'  BY DEF TypeOK, CreationIsRight, Listed, Live
<1>5. PointersAreThere'  BY DEF TypeOK, PointersAreThere
<1>6. ListIsGood'  BY DEF TypeOK, ListIsGood, Listed, Live
<1>7. NothingLost'  BY DEF TypeOK, NothingLost, HoldersAreRight, Listed, Live
<1>8. OneObjectPerUdn' /\ NamesAreRight'  BY DEF TypeOK, OneObjectPerUdn, NamesAreRight, Listed
<1>9. HeldPointersAreGood'  BY DEF TypeOK, HeldPointersAreGood, HoldersAreRight, Listed, ListIsGood
<1>10. UpdateIsRight'  BY DEF TypeOK, UpdateIsRight, HoldersAreRight, HeldPointersAreGood, ListIsGood, Listed
<1> QED  BY <1>1, <1>2, <1>3, <1>4, <1>5, <1>6, <1>7, <1>8, <1>9, <1>10

\* The listener begins its walk.
LEMMA ListenStep ==
  ASSUME IInv, NEW t \in Receivers, Listen(t)
  PROVE  IInv'
<1> USE ThreadAssumption, HeapAssumption, OfferAssumption
    DEF IInv, Listen, Threads, Receivers, Goto, handlerVars, networkVars, Packet,
        NoPacket, Free, Device, ReceiverPlaces, HandlerPlaces
<1>0. /\ Listed \subseteq Slots
      /\ FirstOf(list, Null) \in Listed \cup {Null}
      /\ \A s \in Listed : NextOf(list, s, Null) \in Listed \cup {Null}
      /\ \A s \in Slots : NextOf(list, s, Null) \in Slots \cup {Null}
  BY OnTheList
<1>1. TypeOK'  BY <1>0 DEF TypeOK, Live
<1>2. HoldersAreRight'  BY DEF TypeOK, HoldersAreRight
<1>3. JobsAreRight'  BY DEF TypeOK, JobsAreRight
<1>4. CreationIsRight'  BY DEF TypeOK, CreationIsRight, Listed, Live
<1>5. PointersAreThere'  BY DEF TypeOK, PointersAreThere
<1>6. ListIsGood'  BY DEF TypeOK, ListIsGood, Listed, Live
<1>7. NothingLost'  BY DEF TypeOK, NothingLost, HoldersAreRight, Listed, Live
<1>8. OneObjectPerUdn' /\ NamesAreRight'  BY DEF TypeOK, OneObjectPerUdn, NamesAreRight, Listed
<1>9. HeldPointersAreGood'  BY <1>0 DEF TypeOK, HeldPointersAreGood, HoldersAreRight, Listed, ListIsGood
<1>10. UpdateIsRight'  BY DEF TypeOK, UpdateIsRight, HoldersAreRight, HeldPointersAreGood, ListIsGood, Listed
<1> QED  BY <1>1, <1>2, <1>3, <1>4, <1>5, <1>6, <1>7, <1>8, <1>9, <1>10

\* The listener's walk goes on, or meets a freed object.
LEMMA WalkStep ==
  ASSUME IInv, NEW t \in Receivers, Walk(t)
  PROVE  IInv'
<1> USE ThreadAssumption, HeapAssumption, OfferAssumption
    DEF IInv, Walk, Threads, Receivers, Goto, handlerVars, networkVars, Packet,
        NoPacket, Free, Device, ReceiverPlaces, HandlerPlaces
<1>0. /\ Listed \subseteq Slots
      /\ FirstOf(list, Null) \in Listed \cup {Null}
      /\ \A s \in Listed : NextOf(list, s, Null) \in Listed \cup {Null}
      /\ \A s \in Slots : NextOf(list, s, Null) \in Slots \cup {Null}
  BY OnTheList
<1>1. TypeOK'
  <2>1. crashed' \in BOOLEAN  BY Zenon DEF TypeOK
  <2>2. CASE Live(ptr[t])  BY <2>1, <2>2, <1>0 DEF TypeOK, Live
  <2>3. CASE ~(Live(ptr[t]))  BY <2>1, <2>3, <1>0 DEF TypeOK, Live
  <2> QED  BY <2>2, <2>3
<1>2. HoldersAreRight'  BY DEF TypeOK, HoldersAreRight
<1>3. JobsAreRight'  BY DEF TypeOK, JobsAreRight
<1>4. CreationIsRight'  BY SMTT(30) DEF TypeOK, CreationIsRight, Listed, Live
<1>5. PointersAreThere'  BY DEF TypeOK, PointersAreThere
<1>6. ListIsGood'  BY DEF TypeOK, ListIsGood, Listed, Live
<1>7. NothingLost'  BY DEF TypeOK, NothingLost, HoldersAreRight, Listed, Live
<1>8. OneObjectPerUdn' /\ NamesAreRight'  BY DEF TypeOK, OneObjectPerUdn, NamesAreRight, Listed
<1>9. HeldPointersAreGood'  BY <1>0 DEF TypeOK, HeldPointersAreGood, HoldersAreRight, Listed, ListIsGood
<1>10. UpdateIsRight'  BY DEF TypeOK, UpdateIsRight, HoldersAreRight, HeldPointersAreGood, ListIsGood, Listed
<1> QED  BY <1>1, <1>2, <1>3, <1>4, <1>5, <1>6, <1>7, <1>8, <1>9, <1>10

\* The listener reads what it collected.
LEMMA ShowStep ==
  ASSUME IInv, NEW t \in Receivers, Show(t)
  PROVE  IInv'
<1> USE ThreadAssumption, HeapAssumption, OfferAssumption
    DEF IInv, Show, Done, Threads, Receivers, Goto, handlerVars, networkVars, Packet,
        NoPacket, Free, Device, ReceiverPlaces, HandlerPlaces
<1>1. TypeOK'
  <2>1. crashed' \in BOOLEAN  BY Zenon DEF TypeOK
  <2>2. pc' \in [Threads -> ReceiverPlaces \cup HandlerPlaces]  BY DEF TypeOK
  <2>3. \A r \in Receivers : pc'[r] \in ReceiverPlaces  BY DEF TypeOK
  <2>4. pc'[Handler] \in HandlerPlaces  BY DEF TypeOK
  <2>5. rows' \in [Threads -> SUBSET Slots]  BY DEF TypeOK
  <2> QED  BY <2>1, <2>2, <2>3, <2>4, <2>5 DEF TypeOK
<1>2. HoldersAreRight'  BY SMTT(30) DEF TypeOK, HoldersAreRight
<1>3. JobsAreRight'  BY DEF TypeOK, JobsAreRight
<1>4. CreationIsRight'  BY DEF TypeOK, CreationIsRight, Listed, Live
<1>5. PointersAreThere'  BY DEF TypeOK, PointersAreThere
<1>6. ListIsGood'  BY DEF TypeOK, ListIsGood, Listed, Live
<1>7. NothingLost'  BY DEF TypeOK, NothingLost, HoldersAreRight, Listed, Live
<1>8. OneObjectPerUdn' /\ NamesAreRight'  BY DEF TypeOK, OneObjectPerUdn, NamesAreRight, Listed
<1>9. HeldPointersAreGood'  BY DEF TypeOK, HeldPointersAreGood, HoldersAreRight, Listed, ListIsGood
<1>10. UpdateIsRight'  BY DEF TypeOK, UpdateIsRight, HoldersAreRight, HeldPointersAreGood, ListIsGood, Listed
<1> QED  BY <1>1, <1>2, <1>3, <1>4, <1>5, <1>6, <1>7, <1>8, <1>9, <1>10

\* There is nothing to remove.
LEMMA NothingToRemoveStep ==
  ASSUME IInv, NEW t \in Threads, NothingToRemove(t)
  PROVE  IInv'
<1> USE ThreadAssumption, HeapAssumption, OfferAssumption
    DEF IInv, NothingToRemove, Removed, Threads, Receivers, Goto, handlerVars, networkVars, Packet,
        NoPacket, Free, Device, ReceiverPlaces, HandlerPlaces
<1>1. TypeOK'  BY DEF TypeOK, Live
<1>2. HoldersAreRight'  BY DEF TypeOK, HoldersAreRight
<1>3. JobsAreRight'  BY DEF TypeOK, JobsAreRight
<1>4. CreationIsRight'  BY DEF TypeOK, CreationIsRight, Listed, Live
<1>5. PointersAreThere'  BY DEF TypeOK, PointersAreThere
<1>6. ListIsGood'  BY DEF TypeOK, ListIsGood, Listed, Live
<1>7. NothingLost'  BY DEF TypeOK, NothingLost, HoldersAreRight, Listed, Live
<1>8. OneObjectPerUdn' /\ NamesAreRight'  BY DEF TypeOK, OneObjectPerUdn, NamesAreRight, Listed
<1>9. HeldPointersAreGood'  BY DEF TypeOK, HeldPointersAreGood, HoldersAreRight, Listed, ListIsGood
<1>10. UpdateIsRight'  BY DEF TypeOK, UpdateIsRight, HoldersAreRight, HeldPointersAreGood, ListIsGood, Listed
<1> QED  BY <1>1, <1>2, <1>3, <1>4, <1>5, <1>6, <1>7, <1>8, <1>9, <1>10

\* The object to remove is found and the lock released.
LEMMA FindToRemoveStep ==
  ASSUME IInv, NEW t \in Threads, FindToRemove(t)
  PROVE  IInv'
<1> USE ThreadAssumption, HeapAssumption, OfferAssumption
    DEF IInv, FindToRemove, Threads, Receivers, Goto, handlerVars, networkVars, Packet,
        NoPacket, Free, Device, ReceiverPlaces, HandlerPlaces
<1>0. Lookup(job[t].udn) \in Slots
  BY FoundDevice
<1>1. TypeOK'  BY <1>0 DEF TypeOK, Live
<1>2. HoldersAreRight'  BY DEF TypeOK, HoldersAreRight
<1>3. JobsAreRight'  BY DEF TypeOK, JobsAreRight
<1>4. CreationIsRight'  BY DEF TypeOK, CreationIsRight, Listed, Live
<1>5. PointersAreThere'  BY <1>0 DEF TypeOK, PointersAreThere
<1>6. ListIsGood'  BY DEF TypeOK, ListIsGood, Listed, Live
<1>7. NothingLost'  BY DEF TypeOK, NothingLost, HoldersAreRight, Listed, Live
<1>8. OneObjectPerUdn' /\ NamesAreRight'  BY DEF TypeOK, OneObjectPerUdn, NamesAreRight, Listed
<1>9. HeldPointersAreGood'  BY DEF TypeOK, HeldPointersAreGood, HoldersAreRight, Listed, ListIsGood
<1>10. UpdateIsRight'  BY DEF TypeOK, UpdateIsRight, HoldersAreRight, HeldPointersAreGood, ListIsGood, Listed
<1> QED  BY <1>1, <1>2, <1>3, <1>4, <1>5, <1>6, <1>7, <1>8, <1>9, <1>10

\* The handler begins a pass.
LEMMA StartPassStep ==
  ASSUME IInv, StartPass
  PROVE  IInv'
<1> USE ThreadAssumption, HeapAssumption, OfferAssumption
    DEF IInv, StartPass, Threads, Receivers, Goto, handlerVars, networkVars, Packet,
        NoPacket, Free, Device, ReceiverPlaces, HandlerPlaces
<1>1. TypeOK'  BY DEF TypeOK, Live
<1>2. HoldersAreRight'  BY DEF TypeOK, HoldersAreRight
<1>3. JobsAreRight'  BY DEF TypeOK, JobsAreRight
<1>4. CreationIsRight'  BY DEF TypeOK, CreationIsRight, Listed, Live
<1>5. PointersAreThere'  BY DEF TypeOK, PointersAreThere
<1>6. ListIsGood'  BY DEF TypeOK, ListIsGood, Listed, Live
<1>7. NothingLost'  BY DEF TypeOK, NothingLost, HoldersAreRight, Listed, Live
<1>8. OneObjectPerUdn' /\ NamesAreRight'  BY DEF TypeOK, OneObjectPerUdn, NamesAreRight, Listed
<1>9. HeldPointersAreGood'  BY DEF TypeOK, HeldPointersAreGood, HoldersAreRight, Listed, ListIsGood
<1>10. UpdateIsRight'  BY DEF TypeOK, UpdateIsRight, HoldersAreRight, HeldPointersAreGood, ListIsGood, Listed
<1> QED  BY <1>1, <1>2, <1>3, <1>4, <1>5, <1>6, <1>7, <1>8, <1>9, <1>10

\* A lease that runs is looked at.
LEMMA CheckLeaseStep ==
  ASSUME IInv, CheckLease
  PROVE  IInv'
<1> USE ThreadAssumption, HeapAssumption, OfferAssumption
    DEF IInv, CheckLease, Threads, Receivers, Goto, handlerVars, networkVars, Packet,
        NoPacket, Free, Device, ReceiverPlaces, HandlerPlaces
<1>0. /\ Listed \subseteq Slots
      /\ FirstOf(list, Null) \in Listed \cup {Null}
      /\ \A s \in Listed : NextOf(list, s, Null) \in Listed \cup {Null}
      /\ \A s \in Slots : NextOf(list, s, Null) \in Slots \cup {Null}
  BY OnTheList
<1>1. TypeOK'  BY <1>0 DEF TypeOK, Live
<1>2. HoldersAreRight'  BY DEF TypeOK, HoldersAreRight
<1>3. JobsAreRight'  BY DEF TypeOK, JobsAreRight
<1>4. CreationIsRight'  BY DEF TypeOK, CreationIsRight, Listed, Live
<1>5. PointersAreThere'  BY DEF TypeOK, PointersAreThere
<1>6. ListIsGood'  BY DEF TypeOK, ListIsGood, Listed, Live
<1>7. NothingLost'  BY DEF TypeOK, NothingLost, HoldersAreRight, Listed, Live
<1>8. OneObjectPerUdn' /\ NamesAreRight'  BY DEF TypeOK, OneObjectPerUdn, NamesAreRight, Listed
<1>9. HeldPointersAreGood'  BY <1>0 DEF TypeOK, HeldPointersAreGood, HoldersAreRight, Listed, ListIsGood
<1>10. UpdateIsRight'  BY DEF TypeOK, UpdateIsRight, HoldersAreRight, HeldPointersAreGood, ListIsGood, Listed
<1> QED  BY <1>1, <1>2, <1>3, <1>4, <1>5, <1>6, <1>7, <1>8, <1>9, <1>10

\* The packet of the expired device is read.
LEMMA ReadItsPacketStep ==
  ASSUME IInv, ReadItsPacket
  PROVE  IInv'
<1> USE ThreadAssumption, HeapAssumption, OfferAssumption
    DEF IInv, ReadItsPacket, Threads, Receivers, Goto, handlerVars, networkVars, Packet,
        NoPacket, Free, Device, ReceiverPlaces, HandlerPlaces
<1>1. TypeOK'
  <2>1. crashed' \in BOOLEAN  BY Zenon DEF TypeOK
  <2>2. CASE Live(ptr[Handler])  BY <2>1, <2>2 DEF TypeOK, Live, PointersAreThere
  <2>3. CASE ~(Live(ptr[Handler]))  BY <2>1, <2>3 DEF TypeOK, Live, PointersAreThere
  <2> QED  BY <2>2, <2>3
<1>2. HoldersAreRight'  BY DEF TypeOK, HoldersAreRight
<1>3. JobsAreRight'  BY DEF TypeOK, JobsAreRight
<1>4. CreationIsRight'  BY DEF TypeOK, CreationIsRight, Listed, Live
<1>5. PointersAreThere'  BY DEF TypeOK, PointersAreThere
<1>6. ListIsGood'  BY DEF TypeOK, ListIsGood, Listed, Live
<1>7. NothingLost'  BY DEF TypeOK, NothingLost, HoldersAreRight, Listed, Live
<1>8. OneObjectPerUdn' /\ NamesAreRight'  BY DEF TypeOK, OneObjectPerUdn, NamesAreRight, Listed
<1>9. HeldPointersAreGood'  BY DEF TypeOK, HeldPointersAreGood, HoldersAreRight, Listed, ListIsGood
<1>10. UpdateIsRight'  BY DEF TypeOK, UpdateIsRight, HoldersAreRight, HeldPointersAreGood, ListIsGood, Listed
<1> QED  BY <1>1, <1>2, <1>3, <1>4, <1>5, <1>6, <1>7, <1>8, <1>9, <1>10

\* The handler goes to sleep.
LEMMA SleepStep ==
  ASSUME IInv, Sleep
  PROVE  IInv'
<1> USE ThreadAssumption, HeapAssumption, OfferAssumption
    DEF IInv, Sleep, Threads, Receivers, Goto, handlerVars, networkVars, Packet,
        NoPacket, Free, Device, ReceiverPlaces, HandlerPlaces
<1>1. TypeOK'  BY DEF TypeOK, Live
<1>2. HoldersAreRight'  BY DEF TypeOK, HoldersAreRight
<1>3. JobsAreRight'  BY DEF TypeOK, JobsAreRight
<1>4. CreationIsRight'  BY DEF TypeOK, CreationIsRight, Listed, Live
<1>5. PointersAreThere'  BY DEF TypeOK, PointersAreThere
<1>6. ListIsGood'  BY DEF TypeOK, ListIsGood, Listed, Live
<1>7. NothingLost'  BY DEF TypeOK, NothingLost, HoldersAreRight, Listed, Live
<1>8. OneObjectPerUdn' /\ NamesAreRight'  BY DEF TypeOK, OneObjectPerUdn, NamesAreRight, Listed
<1>9. HeldPointersAreGood'  BY DEF TypeOK, HeldPointersAreGood, HoldersAreRight, Listed, ListIsGood
<1>10. UpdateIsRight'  BY DEF TypeOK, UpdateIsRight, HoldersAreRight, HeldPointersAreGood, ListIsGood, Listed
<1> QED  BY <1>1, <1>2, <1>3, <1>4, <1>5, <1>6, <1>7, <1>8, <1>9, <1>10

\* Its wait times out.
LEMMA TimeOutStep ==
  ASSUME IInv, TimeOut
  PROVE  IInv'
<1> USE ThreadAssumption, HeapAssumption, OfferAssumption
    DEF IInv, TimeOut, Threads, Receivers, Goto, handlerVars, networkVars, Packet,
        NoPacket, Free, Device, ReceiverPlaces, HandlerPlaces
<1>1. TypeOK'  BY DEF TypeOK, Live
<1>2. HoldersAreRight'  BY DEF TypeOK, HoldersAreRight
<1>3. JobsAreRight'  BY DEF TypeOK, JobsAreRight
<1>4. CreationIsRight'  BY DEF TypeOK, CreationIsRight, Listed, Live
<1>5. PointersAreThere'  BY DEF TypeOK, PointersAreThere
<1>6. ListIsGood'  BY DEF TypeOK, ListIsGood, Listed, Live
<1>7. NothingLost'  BY DEF TypeOK, NothingLost, HoldersAreRight, Listed, Live
<1>8. OneObjectPerUdn' /\ NamesAreRight'  BY DEF TypeOK, OneObjectPerUdn, NamesAreRight, Listed
<1>9. HeldPointersAreGood'  BY DEF TypeOK, HeldPointersAreGood, HoldersAreRight, Listed, ListIsGood
<1>10. UpdateIsRight'  BY DEF TypeOK, UpdateIsRight, HoldersAreRight, HeldPointersAreGood, ListIsGood, Listed
<1> QED  BY <1>1, <1>2, <1>3, <1>4, <1>5, <1>6, <1>7, <1>8, <1>9, <1>10

\* It takes expMutex again.
LEMMA WakeStep ==
  ASSUME IInv, Wake
  PROVE  IInv'
<1> USE ThreadAssumption, HeapAssumption, OfferAssumption
    DEF IInv, Wake, Threads, Receivers, Goto, handlerVars, networkVars, Packet,
        NoPacket, Free, Device, ReceiverPlaces, HandlerPlaces
<1>1. TypeOK'  BY DEF TypeOK, Live
<1>2. HoldersAreRight'  BY DEF TypeOK, HoldersAreRight
<1>3. JobsAreRight'  BY DEF TypeOK, JobsAreRight
<1>4. CreationIsRight'  BY DEF TypeOK, CreationIsRight, Listed, Live
<1>5. PointersAreThere'  BY DEF TypeOK, PointersAreThere
<1>6. ListIsGood'  BY DEF TypeOK, ListIsGood, Listed, Live
<1>7. NothingLost'  BY DEF TypeOK, NothingLost, HoldersAreRight, Listed, Live
<1>8. OneObjectPerUdn' /\ NamesAreRight'  BY DEF TypeOK, OneObjectPerUdn, NamesAreRight, Listed
<1>9. HeldPointersAreGood'  BY DEF TypeOK, HeldPointersAreGood, HoldersAreRight, Listed, ListIsGood
<1>10. UpdateIsRight'  BY DEF TypeOK, UpdateIsRight, HoldersAreRight, HeldPointersAreGood, ListIsGood, Listed
<1> QED  BY <1>1, <1>2, <1>3, <1>4, <1>5, <1>6, <1>7, <1>8, <1>9, <1>10

\* Time passes.
LEMMA TickStep ==
  ASSUME IInv, Tick
  PROVE  IInv'
<1> USE ThreadAssumption, HeapAssumption, OfferAssumption
    DEF IInv, Tick, Threads, Receivers, Goto, handlerVars, networkVars, Packet,
        NoPacket, Free, Device, ReceiverPlaces, HandlerPlaces
<1>1. TypeOK'  BY DEF TypeOK, Live
<1>2. HoldersAreRight'  BY DEF TypeOK, HoldersAreRight
<1>3. JobsAreRight'  BY DEF TypeOK, JobsAreRight
<1>4. CreationIsRight'  BY DEF TypeOK, CreationIsRight, Listed, Live
<1>5. PointersAreThere'  BY DEF TypeOK, PointersAreThere
<1>6. ListIsGood'  BY DEF TypeOK, ListIsGood, Listed, Live
<1>7. NothingLost'  BY DEF TypeOK, NothingLost, HoldersAreRight, Listed, Live
<1>8. OneObjectPerUdn' /\ NamesAreRight'  BY DEF TypeOK, OneObjectPerUdn, NamesAreRight, Listed
<1>9. HeldPointersAreGood'  BY DEF TypeOK, HeldPointersAreGood, HoldersAreRight, Listed, ListIsGood
<1>10. UpdateIsRight'  BY DEF TypeOK, UpdateIsRight, HoldersAreRight, HeldPointersAreGood, ListIsGood, Listed
<1> QED  BY <1>1, <1>2, <1>3, <1>4, <1>5, <1>6, <1>7, <1>8, <1>9, <1>10

\* The handler takes the lock: its cursor is on the list.
LEMMA LockListStep ==
  ASSUME IInv, LockList
  PROVE  IInv'
<1> USE ThreadAssumption, HeapAssumption, OfferAssumption
    DEF IInv, LockList, Threads, Receivers, Goto, handlerVars, networkVars, Packet,
        NoPacket, Free, Device, ReceiverPlaces, HandlerPlaces
<1>0. /\ Listed \subseteq Slots
      /\ FirstOf(list, Null) \in Listed \cup {Null}
      /\ \A s \in Listed : NextOf(list, s, Null) \in Listed \cup {Null}
      /\ \A s \in Slots : NextOf(list, s, Null) \in Slots \cup {Null}
  BY OnTheList
<1>1. TypeOK'  BY <1>0 DEF TypeOK, Live
<1>2. HoldersAreRight'  BY DEF TypeOK, HoldersAreRight
<1>3. JobsAreRight'  BY DEF TypeOK, JobsAreRight
<1>4. CreationIsRight'  BY DEF TypeOK, CreationIsRight, Listed, Live
<1>5. PointersAreThere'  BY DEF TypeOK, PointersAreThere
<1>6. ListIsGood'  BY DEF TypeOK, ListIsGood, Listed, Live
<1>7. NothingLost'  BY DEF TypeOK, NothingLost, HoldersAreRight, Listed, Live
<1>8. OneObjectPerUdn' /\ NamesAreRight'  BY DEF TypeOK, OneObjectPerUdn, NamesAreRight, Listed
<1>9. HeldPointersAreGood'  BY <1>0 DEF TypeOK, HeldPointersAreGood, HoldersAreRight, Listed, ListIsGood
<1>10. UpdateIsRight'  BY DEF TypeOK, UpdateIsRight, HoldersAreRight, HeldPointersAreGood, ListIsGood, Listed
<1> QED  BY <1>1, <1>2, <1>3, <1>4, <1>5, <1>6, <1>7, <1>8, <1>9, <1>10

\* An expired device is found and the lock released.
LEMMA FindExpiredStep ==
  ASSUME IInv, FindExpired
  PROVE  IInv'
<1> USE ThreadAssumption, HeapAssumption, OfferAssumption
    DEF IInv, FindExpired, Expired, Threads, Receivers, Goto, handlerVars, networkVars, Packet,
        NoPacket, Free, Device, ReceiverPlaces, HandlerPlaces
<1>0. /\ Listed \subseteq Slots
      /\ FirstOf(list, Null) \in Listed \cup {Null}
      /\ \A s \in Listed : NextOf(list, s, Null) \in Listed \cup {Null}
      /\ \A s \in Slots : NextOf(list, s, Null) \in Slots \cup {Null}
  BY OnTheList
<1>1. TypeOK'  BY <1>0 DEF TypeOK, Live
<1>2. HoldersAreRight'  BY DEF TypeOK, HoldersAreRight
<1>3. JobsAreRight'  BY DEF TypeOK, JobsAreRight
<1>4. CreationIsRight'  BY DEF TypeOK, CreationIsRight, Listed, Live
<1>5. PointersAreThere'  BY DEF TypeOK, PointersAreThere
<1>6. ListIsGood'  BY DEF TypeOK, ListIsGood, Listed, Live
<1>7. NothingLost'  BY DEF TypeOK, NothingLost, HoldersAreRight, Listed, Live
<1>8. OneObjectPerUdn' /\ NamesAreRight'  BY DEF TypeOK, OneObjectPerUdn, NamesAreRight, Listed
<1>9. HeldPointersAreGood'  BY <1>0 DEF TypeOK, HeldPointersAreGood, HoldersAreRight, Listed, ListIsGood
<1>10. UpdateIsRight'  BY DEF TypeOK, UpdateIsRight, HoldersAreRight, HeldPointersAreGood, ListIsGood, Listed
<1> QED  BY <1>1, <1>2, <1>3, <1>4, <1>5, <1>6, <1>7, <1>8, <1>9, <1>10

\* The handler is back: a cursor that is still allocated is still listed.
LEMMA ResumeStep ==
  ASSUME IInv, Resume
  PROVE  IInv'
<1> USE ThreadAssumption, HeapAssumption, OfferAssumption
    DEF IInv, Resume, Threads, Receivers, Goto, handlerVars, networkVars, Packet,
        NoPacket, Free, Device, ReceiverPlaces, HandlerPlaces
<1>0. /\ Listed \subseteq Slots
      /\ FirstOf(list, Null) \in Listed \cup {Null}
      /\ \A s \in Listed : NextOf(list, s, Null) \in Listed \cup {Null}
      /\ \A s \in Slots : NextOf(list, s, Null) \in Slots \cup {Null}
  BY OnTheList
<1>01. cursor = Null \/ Live(cursor) => cursor \in Listed \cup {Null}
  BY DEF TypeOK, NothingLost, HoldersAreRight
<1>1. TypeOK'  BY ZenonT(60), <1>0 DEF TypeOK, Live
<1>2. HoldersAreRight'  BY DEF TypeOK, HoldersAreRight
<1>3. JobsAreRight'  BY DEF TypeOK, JobsAreRight
<1>4. CreationIsRight'  BY DEF TypeOK, CreationIsRight, Listed, Live
<1>5. PointersAreThere'  BY DEF TypeOK, PointersAreThere
<1>6. ListIsGood'  BY DEF TypeOK, ListIsGood, Listed, Live
<1>7. NothingLost'  BY DEF TypeOK, NothingLost, HoldersAreRight, Listed, Live
<1>8. OneObjectPerUdn' /\ NamesAreRight'  BY DEF TypeOK, OneObjectPerUdn, NamesAreRight, Listed
<1>9. HeldPointersAreGood'  BY <1>0, <1>01 DEF TypeOK, HeldPointersAreGood, HoldersAreRight, Listed, ListIsGood
<1>10. UpdateIsRight'  BY DEF TypeOK, UpdateIsRight, HoldersAreRight, HeldPointersAreGood, ListIsGood, Listed
<1> QED  BY <1>1, <1>2, <1>3, <1>4, <1>5, <1>6, <1>7, <1>8, <1>9, <1>10

\* A pass ends.
LEMMA EndPassStep ==
  ASSUME IInv, EndPass
  PROVE  IInv'
<1> USE ThreadAssumption, HeapAssumption, OfferAssumption
    DEF IInv, EndPass, Threads, Receivers, Goto, handlerVars, networkVars, Packet,
        NoPacket, Free, Device, ReceiverPlaces, HandlerPlaces
<1>1. TypeOK'  BY DEF TypeOK, Live
<1>2. HoldersAreRight'  BY DEF TypeOK, HoldersAreRight
<1>3. JobsAreRight'  BY DEF TypeOK, JobsAreRight
<1>4. CreationIsRight'  BY DEF TypeOK, CreationIsRight, Listed, Live
<1>5. PointersAreThere'  BY DEF TypeOK, PointersAreThere
<1>6. ListIsGood'  BY DEF TypeOK, ListIsGood, Listed, Live
<1>7. NothingLost'  BY DEF TypeOK, NothingLost, HoldersAreRight, Listed, Live
<1>8. OneObjectPerUdn' /\ NamesAreRight'  BY DEF TypeOK, OneObjectPerUdn, NamesAreRight, Listed
<1>9. HeldPointersAreGood'  BY DEF TypeOK, HeldPointersAreGood, HoldersAreRight, Listed, ListIsGood
<1>10. UpdateIsRight'  BY DEF TypeOK, UpdateIsRight, HoldersAreRight, HeldPointersAreGood, ListIsGood, Listed
<1> QED  BY <1>1, <1>2, <1>3, <1>4, <1>5, <1>6, <1>7, <1>8, <1>9, <1>10

\* The handler is woken and the lock released.
LEMMA SignalStep ==
  ASSUME IInv, NEW t \in Receivers, Signal(t)
  PROVE  IInv'
<1> USE ThreadAssumption, HeapAssumption, OfferAssumption
    DEF IInv, Signal, Threads, Receivers, Goto, handlerVars, networkVars, Packet,
        NoPacket, Free, Device, ReceiverPlaces, HandlerPlaces
<1>1. TypeOK'  BY DEF TypeOK, Live
<1>2. HoldersAreRight'  BY DEF TypeOK, HoldersAreRight
<1>3. JobsAreRight'  BY DEF TypeOK, JobsAreRight
<1>4. CreationIsRight'  BY DEF TypeOK, CreationIsRight, Listed, Live
<1>5. PointersAreThere'  BY DEF TypeOK, PointersAreThere
<1>6. ListIsGood'  BY DEF TypeOK, ListIsGood, Listed, Live
<1>7. NothingLost'  BY DEF TypeOK, NothingLost, HoldersAreRight, Listed, Live
<1>8. OneObjectPerUdn' /\ NamesAreRight'  BY DEF TypeOK, OneObjectPerUdn, NamesAreRight, Listed
<1>9. HeldPointersAreGood'  BY DEF TypeOK, HeldPointersAreGood, HoldersAreRight, Listed, ListIsGood
<1>10. UpdateIsRight'  BY DEF TypeOK, UpdateIsRight, HoldersAreRight, HeldPointersAreGood, ListIsGood, Listed
<1> QED  BY <1>1, <1>2, <1>3, <1>4, <1>5, <1>6, <1>7, <1>8, <1>9, <1>10

\* What a description does to the names in doubt.
LEMMA DoubtedNames ==
  ASSUME TypeOK, NEW packet, packet.udn \in Udns, NEW name \in Udns \cup {Null}
  PROVE  /\ Misnamed(packet, name) \subseteq Udns
         /\ misnamed \subseteq Misnamed(packet, name)
         /\ \/ name = packet.udn
            \/ /\ packet.udn \in Misnamed(packet, name)
               /\ name \in Misnamed(packet, name) \cup {Null}
  BY HeapAssumption DEF TypeOK, Misnamed

\* The packet that is copied, in an object.
LEMMA CopiedDevice ==
  ASSUME TypeOK, NEW packet \in [udn : Udns, loc : Locations, age : Nat],
         NEW name \in Udns \cup {Null}
  PROVE  /\ Copied(packet, name) \in Device
         /\ Copied(packet, name).udn = packet.udn
         /\ Copied(packet, name).name = name
  BY DEF TypeOK, Copied, Device

\* A description has come: the new device is listed under the name it gives.
LEMMA DescribedStep ==
  ASSUME IInv, NEW t \in Receivers, Described(t)
  PROVE  IInv'
<1> USE ThreadAssumption, HeapAssumption, OfferAssumption
    DEF IInv, Described, Threads, Receivers, Goto, handlerVars, networkVars, Packet,
        NoPacket, Free, Device, ReceiverPlaces, HandlerPlaces
<1>01. job[t] \in [udn : Udns, loc : Locations, age : Nat]
  BY DEF JobsAreRight
<1>02. PICK name \in Udns :
         /\ heap' = [heap EXCEPT ![ptr[t]] = Copied(job[t], name)]
         /\ misnamed' = Misnamed(job[t], name)
  OBVIOUS
<1> DEFINE copy == Copied(job[t], name)
<1>03. copy \in Device /\ copy.udn = job[t].udn /\ copy.name = name
  BY <1>01, CopiedDevice
<1>04. /\ misnamed' \subseteq Udns /\ misnamed \subseteq misnamed'
       /\ name = job[t].udn \/ (job[t].udn \in misnamed' /\ name \in misnamed')
  BY <1>01, <1>02, DoubtedNames
<1> HIDE DEF copy
<1>05. /\ ptr[t] \in Slots \ Listed
       /\ \A s \in Listed : heap[s].name # job[t].udn
       /\ \A r \in Receivers : pc'[r] \notin {"fetch", "parse"}
  BY DEF CreationIsRight, HoldersAreRight, TypeOK
<1>06. /\ heap' = [heap EXCEPT ![ptr[t]] = copy]
       /\ heap'[ptr[t]] = copy
       /\ \A s \in Listed : heap'[s] = heap[s]
  <2>1. heap' = [heap EXCEPT ![ptr[t]] = copy]  BY <1>02 DEF copy
  <2>2. Listed \subseteq Slots /\ DOMAIN heap = Slots  BY OnTheList DEF TypeOK
  <2> QED  BY <1>05, <2>1, <2>2
<1>0. /\ Listed' = Listed \cup {ptr[t]}
      /\ list' \in Seq(Slots) /\ NoTwice(list')
  BY LinkedNodes DEF CreationIsRight, ListIsGood, TypeOK, Listed
<1>1. TypeOK'
  <2>1. heap' \in [Slots -> Device \cup {Free}]  BY <1>03, <1>06 DEF TypeOK
  <2>2. pc' \in [Threads -> ReceiverPlaces \cup HandlerPlaces]  BY DEF TypeOK
  <2>3. \A r \in Receivers : pc'[r] \in ReceiverPlaces  BY DEF TypeOK
  <2>4. pc'[Handler] \in HandlerPlaces  BY DEF TypeOK
  <2> QED  BY <1>0, <1>04, <2>1, <2>2, <2>3, <2>4 DEF TypeOK
<1>2. HoldersAreRight'  BY DEF TypeOK, HoldersAreRight
<1>3. JobsAreRight'  BY DEF TypeOK, JobsAreRight
<1>4. CreationIsRight'  BY <1>05 DEF CreationIsRight
<1>5. PointersAreThere'  BY DEF TypeOK, PointersAreThere
<1>6. ListIsGood'  BY <1>0, <1>03, <1>05, <1>06 DEF ListIsGood, Live
<1>7. NothingLost'
  <2>1. \A r \in Receivers : pc[r] = "fetch" => r = t  BY DEF HoldersAreRight
  <2> QED  BY <1>0, <1>03, <1>06, <2>1 DEF TypeOK, NothingLost, Live
<1>8. OneObjectPerUdn' /\ NamesAreRight'
  <2>1. NamesAreRight'  BY <1>0, <1>03, <1>04, <1>05, <1>06 DEF NamesAreRight
  <2>2. ASSUME NEW s1 \in Listed', NEW s2 \in Listed', heap'[s1].udn \notin misnamed'
        PROVE  /\ heap'[s1].name = heap'[s1].udn
               /\ heap'[s1].udn \in {heap'[s2].udn, heap'[s2].name} => s1 = s2
    <3>1. heap'[s1].name = heap'[s1].udn  BY <2>1, <2>2 DEF NamesAreRight
    <3>2. CASE s1 \in Listed /\ s2 \in Listed
      BY <1>04, <1>06, <2>2, <3>1, <3>2 DEF OneObjectPerUdn
    <3>3. CASE s1 = ptr[t] /\ s2 \in Listed
      <4>1. heap'[s1].udn = job[t].udn /\ job[t].udn \notin misnamed
        BY <1>03, <1>04, <1>06, <2>2, <3>3
      <4>2. heap[s2].name # job[t].udn /\ heap[s2].udn # job[t].udn
        BY <1>05, <3>3, <4>1 DEF NamesAreRight
      <4> QED  BY <1>06, <3>1, <3>3, <4>1, <4>2
    <3>4. CASE s1 \in Listed /\ s2 = ptr[t]
      <4>1. heap[s1].name = heap[s1].udn /\ heap[s1].udn # job[t].udn
        BY <1>05, <1>06, <3>1, <3>4
      <4>2. heap'[s2].udn = job[t].udn /\ heap'[s2].name = name
        BY <1>03, <1>06, <3>4
      <4>3. name # heap[s1].udn  BY <1>04, <1>06, <2>2, <3>4, <4>1
      <4> QED  BY <1>06, <3>1, <3>4, <4>1, <4>2, <4>3
    <3>5. CASE s1 = ptr[t] /\ s2 = ptr[t]  BY <3>1, <3>5
    <3> QED  BY <1>0, <3>2, <3>3, <3>4, <3>5
  <2> QED  BY <2>1, <2>2 DEF OneObjectPerUdn
<1>9. HeldPointersAreGood'  BY <1>0 DEF TypeOK, HeldPointersAreGood, HoldersAreRight
<1>10. UpdateIsRight'  BY <1>05 DEF UpdateIsRight
<1> QED  BY <1>1, <1>2, <1>3, <1>4, <1>5, <1>6, <1>7, <1>8, <1>9, <1>10

\* The description of a device that moved is read again: the name may change.
LEMMA ReparsedStep ==
  ASSUME IInv, NEW t \in Receivers, Reparsed(t)
  PROVE  IInv'
<1> USE ThreadAssumption, HeapAssumption, OfferAssumption
    DEF IInv, Reparsed, Threads, Receivers, Goto, handlerVars, networkVars, Packet,
        NoPacket, Free, Device, ReceiverPlaces, HandlerPlaces
<1>01. job[t] \in [udn : Udns, loc : Locations, age : Nat]
  BY DEF JobsAreRight
<1>02. PICK name \in Udns \cup {Null} :
         /\ heap' = [heap EXCEPT ![ptr[t]].name = name]
         /\ misnamed' = Misnamed(job[t], name)
  OBVIOUS
<1>04. /\ misnamed' \subseteq Udns /\ misnamed \subseteq misnamed'
       /\ \/ name = job[t].udn
          \/ job[t].udn \in misnamed' /\ name \in misnamed' \cup {Null}
  BY <1>01, <1>02, DoubtedNames
<1>05. /\ ptr[t] \in Listed /\ ptr[t] \in Slots
       /\ heap[ptr[t]].udn = job[t].udn /\ heap[ptr[t]] \in Device
       /\ \A r \in Receivers : pc'[r] \notin {"fetch", "parse"}
  BY DEF HeldPointersAreGood, UpdateIsRight, ListIsGood, Live, HoldersAreRight, TypeOK
<1>06. /\ heap'[ptr[t]] = [heap[ptr[t]] EXCEPT !.name = name]
       /\ \A s \in Slots \ {ptr[t]} : heap'[s] = heap[s]
  BY <1>02, <1>05 DEF TypeOK
<1>07. /\ heap'[ptr[t]] \in Device
       /\ heap'[ptr[t]].udn = job[t].udn /\ heap'[ptr[t]].name = name
  BY <1>05, <1>06
<1>08. Listed' = Listed /\ Listed \subseteq Slots
  BY OnTheList DEF Listed
<1>1. TypeOK'
  <2>1. heap' \in [Slots -> Device \cup {Free}]  BY <1>02, <1>06, <1>07 DEF TypeOK
  <2>2. pc' \in [Threads -> ReceiverPlaces \cup HandlerPlaces]  BY DEF TypeOK
  <2>3. \A r \in Receivers : pc'[r] \in ReceiverPlaces  BY DEF TypeOK
  <2>4. pc'[Handler] \in HandlerPlaces  BY DEF TypeOK
  <2> QED  BY <1>04, <2>1, <2>2, <2>3, <2>4 DEF TypeOK
<1>2. HoldersAreRight'  BY DEF TypeOK, HoldersAreRight
<1>3. JobsAreRight'  BY DEF TypeOK, JobsAreRight
<1>4. CreationIsRight'  BY <1>05 DEF CreationIsRight
<1>5. PointersAreThere'  BY DEF TypeOK, PointersAreThere
<1>6. ListIsGood'  BY <1>06, <1>07, <1>08 DEF ListIsGood, Live
<1>7. NothingLost'
  <2>1. \A r \in Receivers : pc[r] # "fetch"  BY DEF HoldersAreRight
  <2>2. \A s \in Slots : Live(s)' => s \in Listed  BY <1>05, <1>06, <2>1 DEF NothingLost, Live
  <2> QED  BY <1>08, <2>2 DEF NothingLost
<1>8. OneObjectPerUdn' /\ NamesAreRight'
  <2>1. NamesAreRight'  BY <1>04, <1>06, <1>07, <1>08 DEF NamesAreRight
  <2>2. \A s \in Listed : /\ heap'[s].udn = heap[s].udn
                           /\ heap'[s].name \in misnamed' \cup {Null, heap[s].udn, heap[s].name}
    BY <1>04, <1>05, <1>06, <1>07, <1>08
  <2>3. \A s \in Listed : heap[s].udn \notin misnamed => heap[s].name = heap[s].udn
    BY DEF NamesAreRight
  <2>4. \A s \in Listed : heap[s].udn # Null
    BY DEF ListIsGood, Live, TypeOK
  <2>5. ASSUME NEW s1 \in Listed, NEW s2 \in Listed, heap'[s1].udn \notin misnamed'
        PROVE  /\ heap'[s1].name = heap'[s1].udn
               /\ heap'[s1].udn \in {heap'[s2].udn, heap'[s2].name} => s1 = s2
    <3>1. heap'[s1].name = heap'[s1].udn  BY <1>08, <2>1, <2>5 DEF NamesAreRight
    <3>2. heap[s1].udn \notin misnamed  BY <1>04, <2>2, <2>5
    <3>3. ASSUME heap'[s1].udn \in {heap'[s2].udn, heap'[s2].name}
          PROVE  heap[s1].udn \in {heap[s2].udn, heap[s2].name}
      BY <2>2, <2>4, <2>5, <3>3
    <3> QED  BY <3>1, <3>2, <3>3 DEF OneObjectPerUdn
  <2> QED  BY <1>08, <2>1, <2>5 DEF OneObjectPerUdn
<1>9. HeldPointersAreGood'  BY <1>05, <1>08 DEF TypeOK, HeldPointersAreGood, HoldersAreRight
<1>10. UpdateIsRight'  BY <1>05 DEF UpdateIsRight
<1> QED  BY <1>1, <1>2, <1>3, <1>4, <1>5, <1>6, <1>7, <1>8, <1>9, <1>10

\* A known device is updated: it has the name of its packet.
LEMMA UpdateKnownStep ==
  ASSUME IInv, NEW t \in Receivers, UpdateKnown(t)
  PROVE  IInv'
<1> USE ThreadAssumption, HeapAssumption, OfferAssumption
    DEF IInv, UpdateKnown, Threads, Receivers, Goto, handlerVars, networkVars, Packet,
        NoPacket, Free, Device, ReceiverPlaces, HandlerPlaces
<1>01. job[t] \in [udn : Udns, loc : Locations, age : Nat]
  BY DEF JobsAreRight
<1>0. PICK dev \in Listed :
        /\ dev \in Slots /\ heap[dev].name = job[t].udn
        /\ heap' = [heap EXCEPT ![dev] = Copied(job[t], @.name)]
        /\ ptr' = [ptr EXCEPT ![t] = dev]
        /\ pc' = [pc EXCEPT ![t] = IF heap[dev].loc = job[t].loc THEN "updated" ELSE "parse"]
  BY FoundDevice, OnTheList
<1> DEFINE copy == Copied(job[t], heap[dev].name)
<1>02. copy \in Device /\ copy.udn = job[t].udn /\ copy.name = job[t].udn
  BY <1>01, <1>0, CopiedDevice
<1>03. heap' = [heap EXCEPT ![dev] = copy]
  BY <1>0 DEF TypeOK
<1> HIDE DEF copy
<1>04. /\ heap'[dev] = copy
       /\ \A s \in Slots \ {dev} : heap'[s] = heap[s]
       /\ Listed' = Listed /\ Listed \subseteq Slots
  BY <1>0, <1>03, OnTheList DEF TypeOK, Listed
<1>05. \A r \in Receivers : pc'[r] # "fetch" /\ (pc'[r] = "parse" => r = t)
  BY <1>0 DEF HoldersAreRight, TypeOK
<1>1. TypeOK'  BY <1>0, <1>02, <1>03 DEF TypeOK
<1>2. HoldersAreRight'  BY <1>0 DEF TypeOK, HoldersAreRight
<1>3. JobsAreRight'  BY <1>0, <1>01 DEF TypeOK, JobsAreRight
<1>4. CreationIsRight'  BY <1>05 DEF CreationIsRight
<1>5. PointersAreThere'  BY <1>0 DEF TypeOK, PointersAreThere
<1>6. ListIsGood'  BY <1>02, <1>04 DEF ListIsGood, Live
<1>7. NothingLost'
  <2>1. \A r \in Receivers : pc[r] # "fetch"  BY DEF HoldersAreRight
  <2>2. \A s \in Slots : Live(s)' => s \in Listed  BY <1>04, <2>1 DEF NothingLost, Live
  <2> QED  BY <1>04, <2>2 DEF NothingLost
<1>8. OneObjectPerUdn' /\ NamesAreRight'
  <2>1. NamesAreRight'  BY <1>02, <1>04 DEF NamesAreRight
  <2>2. ASSUME NEW s1 \in Listed, NEW s2 \in Listed, heap'[s1].udn \notin misnamed
        PROVE  heap'[s1].udn \in {heap'[s2].udn, heap'[s2].name} => s1 = s2
    <3>1. heap'[s1].name = heap'[s1].udn /\ heap'[s1].name = heap[s1].name
      BY <1>0, <1>02, <1>04, <2>1, <2>2 DEF NamesAreRight
    <3>2. heap[s1].udn = heap[s1].name
      <4>1. heap[s1].name \notin misnamed  BY <2>2, <3>1
      <4>2. heap[s1].udn \in Udns
        BY <1>04 DEF ListIsGood, Live, TypeOK
      <4>3. heap'[s1].udn # Null  BY <1>01, <1>02, <1>04, <4>2
      <4> QED  BY <3>1, <4>1, <4>3 DEF NamesAreRight
    <3>3. heap'[s2].name = heap[s2].name /\ heap'[s2].udn \in {heap[s2].udn, heap[s2].name}
      BY <1>0, <1>02, <1>04
    <3> QED  BY <2>2, <3>1, <3>2, <3>3 DEF OneObjectPerUdn
  <2>3. misnamed' = misnamed  OBVIOUS
  <2>4. ASSUME NEW s1 \in Listed, heap'[s1].udn \notin misnamed
        PROVE  heap'[s1].name = heap'[s1].udn
    BY <1>04, <2>1, <2>3, <2>4 DEF NamesAreRight
  <2>5. OneObjectPerUdn'
    BY <1>04, <2>2, <2>3, <2>4 DEF OneObjectPerUdn
  <2> QED  BY <2>1, <2>5
<1>9. HeldPointersAreGood'  BY <1>0, <1>04 DEF TypeOK, HeldPointersAreGood, HoldersAreRight
<1>10. UpdateIsRight'  BY <1>0, <1>02, <1>04, <1>05 DEF UpdateIsRight, TypeOK
<1> QED  BY <1>1, <1>2, <1>3, <1>4, <1>5, <1>6, <1>7, <1>8, <1>9, <1>10

\* A new object is made: no listed one has the name it is made for.
LEMMA CreateNewStep ==
  ASSUME IInv, NEW t \in Receivers, CreateNew(t)
  PROVE  IInv'
<1> USE ThreadAssumption, HeapAssumption, OfferAssumption
    DEF IInv, CreateNew, Threads, Receivers, Goto, handlerVars, networkVars, Packet,
        NoPacket, Free, Device, ReceiverPlaces, HandlerPlaces
<1> DEFINE copy == Copied(job[t], Null)
<1>01. copy \in Device
  BY CopiedDevice DEF JobsAreRight
<1> HIDE DEF copy
<1>0. PICK dev \in Slots :
        /\ ~Live(dev)
        /\ heap' = [heap EXCEPT ![dev] = copy]
        /\ ptr' = [ptr EXCEPT ![t] = dev]
  BY DEF copy
<1>00. \A s \in Listed : heap[s].name # job[t].udn
  BY FoundDevice
<1>02. /\ dev \notin Listed /\ Listed' = Listed
       /\ \A s \in Listed : heap'[s] = heap[s]
  BY <1>0 DEF ListIsGood, Listed, TypeOK
<1>03. \A r \in Receivers : pc'[r] # "parse" /\ (pc'[r] = "fetch" => r = t)
  BY DEF HoldersAreRight, TypeOK
<1>1. TypeOK'  BY <1>0, <1>01 DEF TypeOK
<1>2. HoldersAreRight'  BY DEF TypeOK, HoldersAreRight
<1>3. JobsAreRight'  BY DEF TypeOK, JobsAreRight
<1>4. CreationIsRight'
  BY <1>0, <1>00, <1>01, <1>02, <1>03 DEF TypeOK, CreationIsRight, Live
<1>5. PointersAreThere'  BY <1>0 DEF TypeOK, PointersAreThere
<1>6. ListIsGood'  BY <1>02 DEF ListIsGood, Live
<1>7. NothingLost'  BY <1>0, <1>01, <1>02 DEF TypeOK, NothingLost, HoldersAreRight, Live
<1>8. OneObjectPerUdn' /\ NamesAreRight'  BY <1>02 DEF OneObjectPerUdn, NamesAreRight
<1>9. HeldPointersAreGood'  BY <1>0, <1>02 DEF TypeOK, HeldPointersAreGood, HoldersAreRight
<1>10. UpdateIsRight'  BY <1>03 DEF UpdateIsRight
<1> QED  BY <1>1, <1>2, <1>3, <1>4, <1>5, <1>6, <1>7, <1>8, <1>9, <1>10

\* A description has not come: the object is unlinked and freed.
LEMMA NotDescribedStep ==
  ASSUME IInv, NEW t \in Receivers, NotDescribed(t)
  PROVE  IInv'
<1> USE ThreadAssumption, HeapAssumption, OfferAssumption
    DEF IInv, NotDescribed, Delete, Done, Threads, Receivers, Goto, handlerVars, networkVars, Packet,
        NoPacket, Free, Device, ReceiverPlaces, HandlerPlaces
<1>0. /\ Listed' = Listed \ {ptr[t]}
      /\ list' \in Seq(Slots) /\ NoTwice(list')
  BY UnlinkedNodes DEF ListIsGood, TypeOK, Listed
<1>1. TypeOK'  BY <1>0 DEF TypeOK, Live
<1>2. HoldersAreRight'  BY <1>0 DEF TypeOK, HoldersAreRight
<1>3. JobsAreRight'  BY <1>0 DEF TypeOK, JobsAreRight
<1>4. CreationIsRight'  BY <1>0 DEF TypeOK, CreationIsRight, Live, HoldersAreRight
<1>5. PointersAreThere'  BY <1>0 DEF TypeOK, PointersAreThere
<1>6. ListIsGood'  BY <1>0 DEF TypeOK, ListIsGood, Live
<1>7. NothingLost'  BY <1>0 DEF TypeOK, NothingLost, HoldersAreRight, Live
<1>8. OneObjectPerUdn' /\ NamesAreRight'  BY <1>0 DEF TypeOK, OneObjectPerUdn, NamesAreRight
<1>9. HeldPointersAreGood'  BY <1>0 DEF TypeOK, HeldPointersAreGood, HoldersAreRight, Listed, ListIsGood
<1>10. UpdateIsRight'  BY DEF TypeOK, UpdateIsRight, HoldersAreRight, HeldPointersAreGood, ListIsGood, Listed
<1> QED  BY <1>1, <1>2, <1>3, <1>4, <1>5, <1>6, <1>7, <1>8, <1>9, <1>10

\* The object found before is unlinked and freed, if it still is one.
LEMMA DeleteFoundStep ==
  ASSUME IInv, NEW t \in Threads, DeleteFound(t)
  PROVE  IInv'
<1> USE ThreadAssumption, HeapAssumption, OfferAssumption
    DEF IInv, DeleteFound, Delete, Removed, Threads, Receivers, Goto, handlerVars, networkVars, Packet,
        NoPacket, Free, Device, ReceiverPlaces, HandlerPlaces
<1>0. /\ Listed' = Listed \ {ptr[t]}
      /\ list' \in Seq(Slots) /\ NoTwice(list')
  BY UnlinkedNodes DEF ListIsGood, TypeOK, Listed
<1>1. TypeOK'
  <2>1. crashed' \in BOOLEAN  BY Zenon DEF TypeOK
  <2>2. pc' \in [Threads -> ReceiverPlaces \cup HandlerPlaces]  BY DEF TypeOK
  <2>3. \A r \in Receivers : pc'[r] \in ReceiverPlaces  BY ZenonT(60) DEF TypeOK
  <2>4. pc'[Handler] \in HandlerPlaces  BY DEF TypeOK
  <2>5. heap' \in [Slots -> Device \cup {Free}]  BY DEF TypeOK
  <2>6. /\ job' \in [Threads -> Packet \cup {NoPacket}]
        /\ ptr' \in [Threads -> Slots \cup {Null}]
    BY DEF TypeOK
  <2> QED  BY <1>0, <2>1, <2>2, <2>3, <2>4, <2>5, <2>6 DEF TypeOK
<1>2. HoldersAreRight'  BY <1>0 DEF TypeOK, HoldersAreRight
<1>3. JobsAreRight'
  <2>1. \A r \in Receivers : pc'[r] \in {"add", "parse", "fetch"} => pc'[r] = pc[r] /\ job'[r] = job[r]
    BY ZenonT(60) DEF TypeOK
  <2> QED  BY <2>1 DEF JobsAreRight
<1>4. CreationIsRight'
  <2>1. \A r \in Receivers : pc[r] # "fetch"  BY DEF HoldersAreRight
  <2>2. \A r \in Receivers : pc'[r] # "fetch"  BY <2>1 DEF TypeOK
  <2> QED  BY <2>2 DEF CreationIsRight
<1>5. PointersAreThere'  BY ZenonT(60), <1>0 DEF TypeOK, PointersAreThere
<1>6. ListIsGood'  BY <1>0 DEF TypeOK, ListIsGood, Live
<1>7. NothingLost'  BY <1>0 DEF TypeOK, NothingLost, HoldersAreRight, Live
<1>8. OneObjectPerUdn' /\ NamesAreRight'
  <2>1. \A s \in Listed' : s \in Listed /\ heap'[s] = heap[s]
    BY <1>0 DEF TypeOK, ListIsGood
  <2> QED  BY <2>1 DEF OneObjectPerUdn, NamesAreRight
<1>9. HeldPointersAreGood'
  <2>1. /\ \A r \in Receivers : pc[r] \notin {"parse", "added", "updated"}
        /\ pc[Handler] # "scan"
    BY DEF HoldersAreRight
  <2>2. /\ \A r \in Receivers : pc'[r] \notin {"parse", "added", "updated"}
        /\ pc'[Handler] # "scan"
    BY <2>1, ZenonT(60) DEF TypeOK
  <2> QED  BY <2>2 DEF HeldPointersAreGood
<1>10. UpdateIsRight'
  <2>1. \A r \in Receivers : pc[r] # "parse"  BY DEF HoldersAreRight
  <2>2. \A r \in Receivers : pc'[r] # "parse"  BY <2>1, ZenonT(60) DEF TypeOK
  <2> QED  BY <2>2 DEF UpdateIsRight
<1> QED  BY <1>1, <1>2, <1>3, <1>4, <1>5, <1>6, <1>7, <1>8, <1>9, <1>10

-----------------------------------------------------------------------------
(* The theorems.                                                            *)

\* The invariant holds before any packet.
LEMMA InitStep == Init => IInv
<1> SUFFICES ASSUME Init PROVE IInv
  OBVIOUS
<1> USE ThreadAssumption DEF Init, Threads, Receivers
<1>1. Listed = {}  BY DEF Listed, Nodes
<1>2. TypeOK
  <2>1. list \in Seq(Slots)  OBVIOUS
  <2>2. heap \in [Slots -> Device \cup {Free}]  OBVIOUS
  <2>3. /\ pc \in [Threads -> ReceiverPlaces \cup HandlerPlaces]
        /\ \A t \in Receivers : pc[t] \in ReceiverPlaces
        /\ pc[Handler] \in HandlerPlaces
    BY DEF ReceiverPlaces, HandlerPlaces
  <2>4. /\ job \in [Threads -> Packet \cup {NoPacket}]
        /\ ptr \in [Threads -> Slots \cup {Null}]
        /\ rows \in [Threads -> SUBSET Slots]
    OBVIOUS
  <2> QED  BY <2>1, <2>2, <2>3, <2>4 DEF TypeOK
<1>3. /\ HoldersAreRight /\ JobsAreRight /\ CreationIsRight /\ PointersAreThere
      /\ HeldPointersAreGood /\ UpdateIsRight
  BY DEF HoldersAreRight, JobsAreRight, CreationIsRight, PointersAreThere,
         HeldPointersAreGood, UpdateIsRight
<1>4. ListIsGood /\ NothingLost /\ OneObjectPerUdn /\ NamesAreRight
  BY <1>1 DEF ListIsGood, NothingLost, OneObjectPerUdn, NamesAreRight, NoTwice, Live
<1> QED  BY <1>2, <1>3, <1>4 DEF IInv

\* Every step keeps it.
LEMMA NextKeepsIInv == IInv /\ [Next]_vars => IInv'
<1> SUFFICES ASSUME IInv, [Next]_vars PROVE IInv'
  OBVIOUS
<1>1. CASE UNCHANGED vars
  BY <1>1 DEF IInv, vars, TypeOK, HoldersAreRight, JobsAreRight, CreationIsRight,
     PointersAreThere, UpdateIsRight, ListIsGood, NothingLost, OneObjectPerUdn, NamesAreRight,
     HeldPointersAreGood,
     Listed, Live
<1>2. ASSUME NEW t \in Receivers, Alive(t) \/ ByeBye(t) PROVE IInv'
  BY <1>2, AliveStep, ByeByeStep
<1>3. ASSUME NEW t \in Threads, Remove(t) PROVE IInv'
  BY <1>3, NothingToRemoveStep, FindToRemoveStep, DeleteFoundStep DEF Remove
<1>4. ASSUME NEW t \in Receivers, Handle(t) PROVE IInv'
  BY <1>3, <1>4, UpdateKnownStep, ReparsedStep, CreateNewStep, DescribedStep, NotDescribedStep,
     SignalStep, ListenStep, WalkStep, ShowStep DEF Handle, Threads
<1>5. CASE Expire
  BY <1>3, <1>5, StartPassStep, LockListStep, CheckLeaseStep, FindExpiredStep,
     ReadItsPacketStep, ResumeStep, EndPassStep, SleepStep, TimeOutStep, WakeStep
     DEF Expire, Threads
<1>6. CASE Tick
  BY <1>6, TickStep
<1> QED  BY <1>1, <1>2, <1>4, <1>5, <1>6 DEF Next, Receivers

\* IInv is an invariant of the control point.
THEOREM Invariance == Spec => []IInv
  BY InitStep, NextKeepsIInv, PTL DEF Spec

\* Every variable keeps its type.
THEOREM TypeCorrect == Spec => []TypeOK
<1>1. IInv => TypeOK  BY DEF IInv
<1> QED  BY <1>1, Invariance, PTL

\* A device is listed once and under its own name, whatever the receivers handle
\* at the same time, as long as no description gave one of its objects another
\* name or none, nor its name to another device.
THEOREM ListedOnce == Spec => []OneObjectPerUdn
<1>1. IInv => OneObjectPerUdn  BY DEF IInv
<1> QED  BY <1>1, Invariance, PTL

\* Allocated objects are those of the list and those being made.
THEOREM NoLeak == Spec => []NothingLeaks
<1>1. IInv => NothingLeaks
  BY DEF IInv, NothingLeaks, ListIsGood, NothingLost, CreationIsRight
<1> QED  BY <1>1, Invariance, PTL

\* A pointer found under the lock is good until the lock is released.
THEOREM LockProtects == Spec => []HeldPointersAreGood
<1>1. IInv => HeldPointersAreGood  BY DEF IInv
<1> QED  BY <1>1, Invariance, PTL
=============================================================================
