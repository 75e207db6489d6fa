------------------------------- MODULE Delivery -------------------------------
(***************************************************************************)
(* What the app is promised of the frames the set-top box sends: whichever *)
(* way the bytes are cut into reads, a frame reaches a handler at most     *)
(* once, never before it was sent and never after a later one; frames may  *)
(* be lost, and no handler is given anything but what was sent.            *)
(*                                                                         *)
(* FrameParser implements it; its `taken` is this module's `given`.        *)
(***************************************************************************)
EXTENDS Naturals, Sequences

CONSTANTS
  Items,       \* what may be sent
  Takers(_)    \* Takers(item): the handlers that may be given item

VARIABLES
  sent,         \* the items sent, in order
  given         \* what was given to whom: [item: its index in sent, to: handler]

vars == <<sent, given>>

Init == sent = <<>> /\ given = <<>>

Submit ==
  /\ \E x \in Items : sent' = Append(sent, x)
  /\ UNCHANGED given

\* Later than everything given so far; what lies between is lost.
Deliver ==
  /\ \E i \in 1..Len(sent) :
       /\ \A k \in 1..Len(given) : given[k].item < i
       /\ \E h \in Takers(sent[i]) :
            given' = Append(given, [item |-> i, to |-> h])
  /\ UNCHANGED sent

Spec == Init /\ [][Submit \/ Deliver]_vars
===============================================================================
