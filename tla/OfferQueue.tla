------------------------------ MODULE OfferQueue ------------------------------
(***************************************************************************)
(* What the user is promised of the pushes from other phones: they wait in *)
(* a queue and are offered one at a time, in the order in which they came. *)
(* A push that offers what is playing when its turn comes is passed over;  *)
(* no other is lost, none is offered twice, and none is offered over       *)
(* another.  How an offer ends, and how long the next one takes to come,   *)
(* is left open.                                                           *)
(*                                                                         *)
(* PushQueue implements it.                                                *)
(***************************************************************************)
EXTENDS Naturals, Sequences

CONSTANTS
  Items,       \* what may be offered
  None

VARIABLES
  waiting,     \* the pushes not yet offered, oldest first
  offer,       \* the one on offer, or None
  playing      \* what is playing, or None

vars == <<waiting, offer, playing>>

Init == waiting = << >> /\ offer = None /\ playing \in Items \cup {None}

\* queue without its first k.
After(queue, k) == SubSeq(queue, k + 1, Len(queue))

\* The first k of queue are all playing.
PassesOver(queue, k) == \A i \in 1..k : queue[i] = playing

Arrive ==
  /\ \E x \in Items : waiting' = Append(waiting, x)
  /\ UNCHANGED <<offer, playing>>

\* The first of queue that is not playing is offered.
Show(queue) ==
  /\ offer = None
  /\ \E k \in 1..Len(queue) :
       /\ PassesOver(queue, k - 1) /\ queue[k] # playing
       /\ offer' = queue[k]
       /\ waiting' = After(queue, k)
  /\ UNCHANGED playing

ShowNext == Show(waiting)

\* One that finds nobody waiting may be offered as it comes.
ShowAtOnce == waiting = << >> /\ \E x \in Items : Show(<<x>>)

Pass ==
  /\ offer = None
  /\ \E k \in 1..Len(waiting) :
       PassesOver(waiting, k) /\ waiting' = After(waiting, k)
  /\ UNCHANGED <<offer, playing>>

Dismiss ==
  /\ offer # None /\ offer' = None
  /\ UNCHANGED <<waiting, playing>>

Play ==
  /\ playing' \in Items \cup {None}
  /\ UNCHANGED <<waiting, offer>>

Next == Arrive \/ ShowNext \/ ShowAtOnce \/ Pass \/ Dismiss \/ Play

Spec == Init /\ [][Next]_vars
===============================================================================
