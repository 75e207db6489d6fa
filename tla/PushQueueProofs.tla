--------------------------- MODULE PushQueueProofs ---------------------------
(***************************************************************************)
(* That pushes are offered one at a time, and that what is taken off the   *)
(* queue is what was offered, for any number of pushes, lists and seconds. *)
(* OneAtATime and OffersItsHead are inductive together: only a queue that  *)
(* was empty, or the block of the alert closed last, takes up a push, and  *)
(* by OffersItsHead an alert that is up, or a block that is due, keeps the *)
(* queue from being empty.  With them, each step of the array is one of    *)
(* OfferQueue or none.                                                     *)
(***************************************************************************)
EXTENDS PushQueue, SequenceTheorems, TLAPS

\* An alert that is up has seconds left.
SecondsLeft == shown # None => left > 0

IInv == TypeOK /\ OneAtATime /\ OffersItsHead /\ SecondsLeft

\* No alert is up and no timer runs.
Idle == shown = None /\ timers = [running |-> 0, mine |-> FALSE]

\* Both lists are lists of programmes.
LEMMA ListTyped ==
  ASSUME TypeOK, NEW p
  PROVE  ListOf(p) \in Seq(Programmes)
  BY DEF TypeOK, ListOf

\* The look-up finds a row of what is offered if there is one.
LEMMA RowFound ==
  ASSUME TypeOK, NEW p \in Programmes, FindRow(p)
  PROVE  /\ row' \in Nat
         /\ (\E k \in 1..Len(ListOf(p)) : ListOf(p)[k] = p)
              => row' \in 1..Len(ListOf(p)) /\ ListOf(p)[row'] = p
<1>1. Len(ListOf(p)) \in Nat
  BY ListTyped
<1>2. CASE \E k \in 1..Len(ListOf(p)) : IsRowOf(k, p) /\ row' = k
  BY <1>1, <1>2 DEF IsRowOf
<1>3. CASE (\A k \in 1..Len(ListOf(p)) : ListOf(p)[k] # p) /\ row' = row
  BY <1>3 DEF TypeOK
<1>. QED
  BY <1>2, <1>3 DEF FindRow

\* An alert that comes up when none is up.
LEMMA OfferStep ==
  ASSUME TypeOK, ~covered, Idle, NEW p \in Programmes, Offer(p),
         channelList' = channelList, recordingList' = recordingList
  PROVE  /\ shown' = p /\ shown' # None /\ left' \in Nat /\ left' > 0 /\ row' \in Nat
         /\ timers' = [running |-> 1, mine |-> TRUE]
         /\ covered' = FALSE /\ moved' = FALSE
         /\ (\E k \in 1..Len(ListOf(shown)') : ListOf(shown)'[k] = shown')
              => row' \in 1..Len(ListOf(shown)') /\ ListOf(shown)'[row'] = shown'
<1>1. /\ shown' = p /\ left' = Seconds /\ moved' = FALSE
      /\ timers' = [running |-> timers.running + 1, mine |-> TRUE]
      /\ covered' = (covered \/ shown # None) /\ FindRow(p)
  BY DEF Offer
<1>2. p # None /\ Seconds \in Nat /\ Seconds > 0
  BY PushAssumption
<1>3. timers.running + 1 = 1
  BY DEF Idle
<1>4. covered' = FALSE
  BY <1>1 DEF Idle
<1>5. ListOf(shown)' = ListOf(p)
  BY <1>1 DEF ListOf
<1>. QED
  BY <1>1, <1>2, <1>3, <1>4, <1>5, RowFound

\* Taking up the head of a queue while no alert is up and no block is due.
LEMMA TakeUpStep ==
  ASSUME TypeOK, ~covered, Idle, NEW queue \in Seq(Programmes), TakeUp(queue),
         channelList' = channelList, recordingList' = recordingList, closed' = << >>
  PROVE  /\ pushes' \in Seq(Programmes) /\ starved' \in BOOLEAN
         /\ shown' \in Programmes \cup {None} /\ row' \in Nat /\ left' \in Nat
         /\ timers' \in [running : Nat, mine : BOOLEAN]
         /\ covered' \in BOOLEAN /\ moved' \in BOOLEAN
         /\ OneAtATime' /\ OffersItsHead' /\ SecondsLeft'
<1>1. PICK k \in 0..Len(queue) :
        /\ pushes' = SubSeq(queue, k + 1, Len(queue))
        /\ IF k = Len(queue) \/ current = None
           THEN UNCHANGED alert ELSE Offer(queue[k + 1])
        /\ starved' = (starved \/ (k < Len(queue) /\ current = None))
  BY DEF TakeUp
<1>2. Len(queue) \in Nat /\ k \in Nat /\ k <= Len(queue) /\ k + 1 \in Int
      /\ Len(queue) \in Int
  BY <1>1
<1>3. \A i \in (k + 1)..Len(queue) : queue[i] \in Programmes
  <2>1. \A i \in 1..Len(queue) : queue[i] \in Programmes
    BY ElementOfSeq
  <2>. QED
    BY <1>2, <2>1
<1>4. /\ pushes' \in Seq(Programmes)
      /\ Len(pushes') = IF k + 1 <= Len(queue) THEN Len(queue) - (k + 1) + 1 ELSE 0
      /\ \A i \in 1..(Len(queue) - (k + 1) + 1) : pushes'[i] = queue[(k + 1) + i - 1]
  BY <1>1, <1>2, <1>3, SubSeqProperties
<1>5. starved' \in BOOLEAN
  BY <1>1 DEF TypeOK
<1>6. closed' = << >> /\ Len(closed') = 0
  BY EmptySeq
<1>7. CASE k = Len(queue) \/ current = None
  <2>1. /\ shown' = shown /\ row' = row /\ left' = left /\ timers' = timers
        /\ covered' = covered /\ moved' = moved
    BY <1>1, <1>7 DEF alert
  <2>2. shown' = None /\ timers' = [running |-> 0, mine |-> FALSE] /\ covered' = FALSE
    BY <2>1 DEF Idle, TypeOK
  <2>3. OneAtATime' /\ OffersItsHead' /\ SecondsLeft'
    BY <1>6, <2>2 DEF OneAtATime, OffersItsHead, SecondsLeft
  <2>. QED
    BY <1>4, <1>5, <2>1, <2>3 DEF TypeOK
<1>8. CASE k < Len(queue) /\ current # None
  <2>1. queue[k + 1] \in Programmes /\ Offer(queue[k + 1])
    BY <1>1, <1>2, <1>3, <1>8
  <2>2. /\ shown' = queue[k + 1] /\ shown' # None /\ left' \in Nat /\ left' > 0
        /\ row' \in Nat /\ timers' = [running |-> 1, mine |-> TRUE]
        /\ covered' = FALSE /\ moved' = FALSE
        /\ (\E j \in 1..Len(ListOf(shown)') : ListOf(shown)'[j] = shown')
             => row' \in 1..Len(ListOf(shown)') /\ ListOf(shown)'[row'] = shown'
    BY <2>1, OfferStep
  <2>3. Len(pushes') > 0 /\ pushes'[1] = queue[k + 1]
    <3>1. 1 \in 1..(Len(queue) - (k + 1) + 1) /\ (k + 1) + 1 - 1 = k + 1
      BY <1>2, <1>8
    <3>. QED
      BY <1>2, <1>4, <1>8, <3>1
  <2>4. pushes' # << >> /\ Head(pushes') = queue[k + 1]
    BY <1>4, <2>3, EmptySeq
  <2>5. OneAtATime'
    BY <1>6, <2>2 DEF OneAtATime
  <2>6. OffersItsHead'
    BY <1>6, <2>2, <2>4 DEF OffersItsHead
  <2>7. SecondsLeft'
    BY <2>2 DEF SecondsLeft
  <2>. QED
    BY <1>4, <1>5, <2>1, <2>2, <2>5, <2>6, <2>7
<1>. QED
  BY <1>2, <1>7, <1>8

\* Nothing follows the only element.
LEMMA TailOfOne ==
  ASSUME NEW s \in Seq(Programmes), s # << >>, Len(s) <= 1
  PROVE  Tail(s) = << >>
<1>1. Len(s) \in Nat /\ Len(s) # 0
  BY EmptySeq
<1>2. \A n \in Nat : n # 0 /\ n <= 1 => n - 1 = 0
  OBVIOUS
<1>3. Tail(s) \in Seq(Programmes) /\ Len(Tail(s)) = Len(s) - 1
  BY HeadTailProperties
<1>4. Len(Tail(s)) = 0
  BY <1>1, <1>2, <1>3
<1>. QED
  BY <1>3, <1>4, EmptySeq

\* At the start nothing is queued, up or due.
LEMMA InitInv == Init => IInv
<1> SUFFICES ASSUME Init PROVE IInv
  OBVIOUS
<1>1. << >> \in Seq(Programmes) /\ Len(<< >>) = 0
  BY EmptySeq
<1>2. TypeOK
  <2>1. timers \in [running : Nat, mine : BOOLEAN]
    BY DEF Init
  <2>. QED
    BY <1>1, <2>1 DEF Init, TypeOK
<1>3. OneAtATime
  BY <1>1 DEF Init, OneAtATime
<1>4. OffersItsHead /\ SecondsLeft
  BY DEF Init, OffersItsHead, SecondsLeft
<1>. QED
  BY <1>2, <1>3, <1>4 DEF IInv

\* A push that is taken up finds the queue empty, so nothing is up or due.
LEMMA PushStep ==
  ASSUME IInv, NEW p \in Programmes, Push(p)
  PROVE  IInv'
<1>1. /\ received' = received + 1 /\ tv' = tv /\ current' = current /\ closed' = closed
      /\ channelList' = channelList /\ recordingList' = recordingList /\ lists' = lists
  BY DEF Push
<1>2. CASE UNCHANGED <<pushes, alert, starved>>
  BY <1>1, <1>2 DEF IInv, TypeOK, OneAtATime, OffersItsHead, SecondsLeft, ListOf, alert
<1>3. CASE pushes = << >> /\ TakeUp(<<p>>)
  <2>1. shown = None /\ closed = << >>
    BY <1>3 DEF IInv, OffersItsHead
  <2>2. Idle /\ ~covered /\ closed' = << >>
    BY <1>1, <2>1 DEF IInv, OneAtATime, Idle
  <2>3. <<p>> \in Seq(Programmes) /\ TypeOK
    BY DEF IInv
  <2>4. /\ pushes' \in Seq(Programmes) /\ starved' \in BOOLEAN
        /\ shown' \in Programmes \cup {None} /\ row' \in Nat /\ left' \in Nat
        /\ timers' \in [running : Nat, mine : BOOLEAN]
        /\ covered' \in BOOLEAN /\ moved' \in BOOLEAN
        /\ OneAtATime' /\ OffersItsHead' /\ SecondsLeft'
    BY <1>1, <1>3, <2>2, <2>3, TakeUpStep
  <2>5. closed' \in Seq(Programmes)
    BY <2>2
  <2>6. TypeOK'
    BY <1>1, <2>3, <2>4, <2>5 DEF TypeOK
  <2>. QED
    BY <2>4, <2>6 DEF IInv
<1>4. CASE /\ pushes # << >> /\ pushes' = Append(pushes, p)
           /\ UNCHANGED <<alert, starved>>
  <2>1. /\ pushes \in Seq(Programmes) /\ pushes' \in Seq(Programmes)
        /\ Len(pushes') > 0 /\ Len(pushes) > 0 /\ pushes'[1] = pushes[1]
    BY <1>4 DEF IInv, TypeOK
  <2>2. pushes' # << >> /\ Head(pushes') = Head(pushes)
    BY <2>1, EmptySeq
  <2>3. TypeOK'
    BY <1>1, <1>4, <2>1 DEF IInv, TypeOK, alert
  <2>4. OneAtATime' /\ SecondsLeft'
    BY <1>1, <1>4 DEF IInv, OneAtATime, SecondsLeft, alert
  <2>5. OffersItsHead'
    BY <1>1, <1>4, <2>2 DEF IInv, OffersItsHead, ListOf, alert
  <2>. QED
    BY <2>3, <2>4, <2>5 DEF IInv
<1>. QED
  BY <1>2, <1>3, <1>4 DEF Push

\* Closing the alert that is up leaves one block, which knows its head.
LEMMA CloseStep ==
  ASSUME IInv, shown # None, Close, left' \in Nat,
         UNCHANGED <<tv, current, channelList, recordingList, pushes, received,
                     lists, starved>>
  PROVE  IInv'
<1>1. /\ closed = << >> /\ shown \in Programmes /\ pushes # << >>
      /\ shown = Head(pushes) /\ timers = [running |-> 1, mine |-> TRUE] /\ ~covered
  BY DEF IInv, TypeOK, OneAtATime, OffersItsHead
<1>2. closed' = <<shown>> /\ shown' = None
  BY <1>1 DEF Close
<1>3. closed' \in Seq(Programmes) /\ Len(closed') = 1 /\ Head(closed') = shown
  BY <1>1, <1>2
<1>4. timers' = [running |-> 0, mine |-> FALSE]
  <2>1. timers.running - (IF timers.mine THEN 1 ELSE 0) = 0
    BY <1>1
  <2>. QED
    BY <2>1 DEF Close
<1>5. row' = row /\ covered' = covered /\ moved' = moved
  BY DEF Close
<1>6. TypeOK'
  BY <1>2, <1>3, <1>4, <1>5 DEF IInv, TypeOK
<1>7. OneAtATime'
  BY <1>1, <1>2, <1>3, <1>4, <1>5 DEF OneAtATime
<1>8. OffersItsHead' /\ SecondsLeft'
  BY <1>1, <1>2, <1>3 DEF OffersItsHead, SecondsLeft
<1>. QED
  BY <1>6, <1>7, <1>8 DEF IInv

\* A button closes the alert that is up.
LEMMA AnswerStep == ASSUME IInv, Answer PROVE IInv'
<1>1. left' \in Nat
  BY DEF IInv, TypeOK, Answer
<1>. QED
  BY <1>1, CloseStep DEF Answer

\* A timer that runs is that of the alert that is up.
LEMMA TickStep == ASSUME IInv, Tick PROVE IInv'
<1>1. shown # None /\ left > 0 /\ left \in Nat
  BY DEF IInv, TypeOK, OneAtATime, SecondsLeft, Tick
<1>2. CASE left > 1
  <2>1. left' \in Nat /\ left' > 0
    BY <1>1, <1>2 DEF Tick
  <2>2. /\ shown' = shown /\ row' = row /\ timers' = timers /\ covered' = covered
        /\ moved' = moved /\ closed' = closed
    BY <1>2 DEF Tick
  <2>3. UNCHANGED <<tv, current, channelList, recordingList, pushes, received, lists,
                    starved>>
    BY DEF Tick
  <2>. QED
    BY <2>1, <2>2, <2>3
    DEF IInv, TypeOK, OneAtATime, OffersItsHead, SecondsLeft, ListOf
<1>3. CASE ~(left > 1)
  <2>1. left' \in Nat
    BY <1>1 DEF Tick
  <2>. QED
    BY <1>1, <1>3, <2>1, CloseStep DEF Tick
<1>. QED
  BY <1>2, <1>3

\* The only block that is due finds no alert up.
LEMMA ReduceStep == ASSUME IInv, Reduce PROVE IInv'
<1>1. /\ closed # << >> /\ Len(closed) <= 1 /\ closed \in Seq(Programmes)
      /\ shown = None /\ ~covered /\ Idle /\ pushes # << >> /\ pushes \in Seq(Programmes)
      /\ TypeOK
  BY DEF IInv, TypeOK, OneAtATime, OffersItsHead, Reduce, Idle
<1>2. closed' = << >>
  BY <1>1, TailOfOne DEF Reduce
<1>3. Tail(pushes) \in Seq(Programmes) /\ TakeUp(Tail(pushes))
  BY <1>1, HeadTailProperties DEF Reduce
<1>4. /\ tv' = tv /\ current' = current /\ channelList' = channelList
      /\ recordingList' = recordingList /\ received' = received /\ lists' = lists
  BY DEF Reduce
<1>5. closed' \in Seq(Programmes)
  BY <1>2
<1>. QED
  BY <1>1, <1>2, <1>3, <1>4, <1>5, TakeUpStep DEF IInv, TypeOK

\* A list that is replaced is not that of the offer, or `moved` says so.
LEMMA NewListStep == ASSUME IInv, NewList PROVE IInv'
<1>1. PICK l \in Orders :
        \/ /\ l \in Seq(Channels) /\ channelList' = l /\ recordingList' = recordingList
           /\ moved' = (moved \/ shown \in Channels)
        \/ /\ l \in Seq(Recordings) /\ recordingList' = l /\ channelList' = channelList
           /\ moved' = (moved \/ shown \in Recordings)
  BY DEF NewList
<1>2. /\ tv' = tv /\ current' = current /\ pushes' = pushes /\ shown' = shown
      /\ row' = row /\ left' = left /\ timers' = timers /\ closed' = closed
      /\ received' = received /\ covered' = covered /\ starved' = starved
      /\ lists' = lists + 1
  BY DEF NewList
<1>3. TypeOK'
  <2>1. channelList' \in Seq(Programmes) /\ recordingList' \in Seq(Programmes)
    BY <1>1, PushAssumption DEF IInv, TypeOK
  <2>2. moved' \in BOOLEAN
    BY <1>1 DEF IInv, TypeOK
  <2>. QED
    BY <1>2, <2>1, <2>2 DEF IInv, TypeOK
<1>4. OneAtATime' /\ SecondsLeft'
  BY <1>2 DEF IInv, OneAtATime, SecondsLeft
<1>5. ~moved' /\ shown # None => ~moved /\ ListOf(shown)' = ListOf(shown)
  BY <1>1, <1>2, PushAssumption DEF IInv, TypeOK, ListOf, Programmes
<1>6. OffersItsHead'
  BY <1>2, <1>5 DEF IInv, OffersItsHead
<1>. QED
  BY <1>3, <1>4, <1>6 DEF IInv

\* One step per action.
LEMMA NextInv == IInv /\ [Next]_vars => IInv'
<1> SUFFICES ASSUME IInv, [Next]_vars PROVE IInv'
  OBVIOUS
<1>1. ASSUME NEW p \in Programmes, Push(p) PROVE IInv'
  BY <1>1, PushStep
<1>2. CASE Answer
  BY <1>2, AnswerStep
<1>3. CASE Tick
  BY <1>3, TickStep
<1>4. CASE Reduce
  BY <1>4, ReduceStep
<1>5. CASE NewList
  BY <1>5, NewListStep
<1>6. CASE HistoryChanges
  BY <1>6 DEF HistoryChanges, IInv, TypeOK, OneAtATime, OffersItsHead, SecondsLeft,
              ListOf, alert
<1>7. CASE TurnPage
  BY <1>7 DEF TurnPage, IInv, TypeOK, OneAtATime, OffersItsHead, SecondsLeft, ListOf,
              alert
<1>8. CASE UNCHANGED vars
  BY <1>8 DEF vars, IInv, TypeOK, OneAtATime, OffersItsHead, SecondsLeft, ListOf, alert
<1>. QED
  BY <1>1, <1>2, <1>3, <1>4, <1>5, <1>6, <1>7, <1>8 DEF Next

\* The inductive invariant holds in every reachable state.
THEOREM Invariant == Spec => []IInv
  BY InitInv, NextInv, PTL DEF Spec

\* Every reachable state is well typed: the seconds never go below zero and no
\* block is due but for an alert that was up.
THEOREM TypeCorrect == Spec => []TypeOK
<1>1. IInv => TypeOK
  BY DEF IInv
<1>. QED
  BY <1>1, Invariant, PTL

\* No alert is put over another, for any number of pushes (shareViewArr.count
\* == 1 in addPushMutableArr, and the block of `close`).
THEOREM NeverTwoAlerts == Spec => []OneAtATime
<1>1. IInv => OneAtATime
  BY DEF IInv
<1>. QED
  BY <1>1, Invariant, PTL

\* What is on offer is the head of the queue, and Watch plays it.
THEOREM HeadIsOffered == Spec => []OffersItsHead
<1>1. IInv => OffersItsHead
  BY DEF IInv
<1>. QED
  BY <1>1, Invariant, PTL
-----------------------------------------------------------------------------
(* The array and its alerts implement the queue of OfferQueue.             *)

\* What is left of a queue behind its first k.
LEMMA AfterFacts ==
  ASSUME NEW s \in Seq(Programmes), NEW k \in 0..Len(s)
  PROVE  /\ Offers!After(s, k) \in Seq(Programmes)
         /\ Len(Offers!After(s, k)) = Len(s) - k
         /\ \A i \in 1..(Len(s) - k) : Offers!After(s, k)[i] = s[k + i]
<1>1. Len(s) \in Nat /\ k \in Nat /\ k + 1 \in Int /\ Len(s) \in Int
  OBVIOUS
<1>2. \A i \in (k + 1)..Len(s) : s[i] \in Programmes
  <2>1. \A i \in 1..Len(s) : s[i] \in Programmes
    BY ElementOfSeq
  <2>. QED
    BY <1>1, <2>1
<1> DEFINE r == SubSeq(s, k + 1, Len(s))
<1>3. /\ r \in Seq(Programmes)
      /\ Len(r) = IF k + 1 <= Len(s) THEN Len(s) - (k + 1) + 1 ELSE 0
      /\ \A i \in 1..(Len(s) - (k + 1) + 1) : r[i] = s[(k + 1) + i - 1]
  BY <1>1, <1>2, SubSeqProperties
<1>4. Offers!After(s, k) = r
  BY DEF Offers!After
<1> HIDE DEF r
<1>5. Len(r) = Len(s) - k
  BY <1>1, <1>3
<1>6. \A i \in 1..(Len(s) - k) : i \in 1..(Len(s) - (k + 1) + 1) /\ (k + 1) + i - 1 = k + i
  BY <1>1
<1>7. \A i \in 1..(Len(s) - k) : r[i] = s[k + i]
  BY <1>3, <1>6
<1>. QED
  BY <1>3, <1>4, <1>5, <1>7

\* All of it, nothing, or one less.
LEMMA AfterEnds ==
  ASSUME NEW s \in Seq(Programmes)
  PROVE  /\ Offers!After(s, 0) = s
         /\ Offers!After(s, Len(s)) = << >>
         /\ \A k \in 0..Len(s) :
              k < Len(s) => Tail(Offers!After(s, k)) = Offers!After(s, k + 1)
<1>1. Len(s) \in Nat /\ 0 \in 0..Len(s) /\ Len(s) \in 0..Len(s)
  OBVIOUS
<1>2. Offers!After(s, 0) = s
  <2>1. /\ Offers!After(s, 0) \in Seq(Programmes) /\ Len(Offers!After(s, 0)) = Len(s) - 0
        /\ \A i \in 1..(Len(s) - 0) : Offers!After(s, 0)[i] = s[0 + i]
    BY <1>1, AfterFacts
  <2>2. Len(s) - 0 = Len(s) /\ \A i \in 1..Len(s) : 0 + i = i
    BY <1>1
  <2>3. /\ Len(Offers!After(s, 0)) = Len(s)
        /\ \A i \in 1..Len(Offers!After(s, 0)) : Offers!After(s, 0)[i] = s[i]
    BY <2>1, <2>2
  <2>. QED
    BY <2>1, <2>3, SeqEqual
<1>3. Offers!After(s, Len(s)) = << >>
  <2>1. /\ Offers!After(s, Len(s)) \in Seq(Programmes)
        /\ Len(Offers!After(s, Len(s))) = Len(s) - Len(s)
    BY <1>1, AfterFacts
  <2>2. Len(s) - Len(s) = 0
    BY <1>1
  <2>. QED
    BY <2>1, <2>2, EmptySeq
<1>4. ASSUME NEW k \in 0..Len(s), k < Len(s)
      PROVE  Tail(Offers!After(s, k)) = Offers!After(s, k + 1)
  <2> DEFINE a == Offers!After(s, k)
             b == Offers!After(s, k + 1)
  <2>1. k \in Nat /\ k + 1 \in 0..Len(s) /\ Len(s) - k > 0
    BY <1>1, <1>4
  <2>2. /\ a \in Seq(Programmes) /\ Len(a) = Len(s) - k
        /\ \A i \in 1..(Len(s) - k) : a[i] = s[k + i]
    BY AfterFacts
  <2>3. /\ b \in Seq(Programmes) /\ Len(b) = Len(s) - (k + 1)
        /\ \A i \in 1..(Len(s) - (k + 1)) : b[i] = s[(k + 1) + i]
    BY <2>1, AfterFacts
  <2> HIDE DEF a, b
  <2>4. a # << >>
    BY <2>1, <2>2, EmptySeq
  <2>5. /\ Tail(a) \in Seq(Programmes) /\ Len(Tail(a)) = Len(a) - 1
        /\ \A i \in 1..Len(Tail(a)) : Tail(a)[i] = a[i + 1]
    BY <2>2, <2>4, HeadTailProperties
  <2>6. Len(Tail(a)) = Len(b)
    BY <1>1, <2>1, <2>2, <2>3, <2>5
  <2>7. \A i \in 1..Len(Tail(a)) :
          /\ i + 1 \in 1..(Len(s) - k) /\ i \in 1..(Len(s) - (k + 1))
          /\ k + (i + 1) = (k + 1) + i
    BY <1>1, <2>1, <2>2, <2>5
  <2>8. \A i \in 1..Len(Tail(a)) : Tail(a)[i] = b[i]
    BY <2>2, <2>3, <2>5, <2>7
  <2>9. Tail(a) = b
    BY <2>3, <2>5, <2>6, <2>8, SeqEqual
  <2>. QED
    BY <2>9 DEF a, b
<1>. QED
  BY <1>2, <1>3, <1>4

\* Taking up a queue offers its first that is not playing, or passes over some.
LEMMA TakeUpShows ==
  ASSUME TypeOK, Idle, NEW queue \in Seq(Programmes), TakeUp(queue),
         closed' = << >>, current' = current
  PROVE  \/ Offers!Show(queue)
         \/ /\ shown' = None
            /\ \E k \in 0..Len(queue) :
                 Offers!PassesOver(queue, k) /\ Waiting' = Offers!After(queue, k)
<1>1. PICK k \in 0..Len(queue) :
        /\ \A i \in 1..k : queue[i] = current
        /\ k < Len(queue) => queue[k + 1] # current
        /\ pushes' = SubSeq(queue, k + 1, Len(queue))
        /\ IF k = Len(queue) \/ current = None
           THEN UNCHANGED alert ELSE Offer(queue[k + 1])
  BY DEF TakeUp
<1>2. /\ Len(queue) \in Nat /\ k \in Nat /\ k <= Len(queue)
      /\ k < Len(queue) => k + 1 \in 1..Len(queue)
  OBVIOUS
<1>3. pushes' = Offers!After(queue, k)
  BY <1>1 DEF Offers!After
<1>4. Offers!PassesOver(queue, k)
  BY <1>1 DEF Offers!PassesOver
<1>5. \A i \in 1..Len(queue) : queue[i] \in Programmes
  BY ElementOfSeq
<1>6. CASE k = Len(queue) \/ current = None
  <2>1. shown' = None
    BY <1>1, <1>6 DEF alert, Idle
  <2>2. Waiting' = Offers!After(queue, k)
    BY <1>3, <2>1 DEF Waiting
  <2>. QED
    BY <1>4, <2>1, <2>2
<1>7. CASE k < Len(queue) /\ current # None
  <2>1. Offer(queue[k + 1]) /\ queue[k + 1] # current /\ queue[k + 1] \in Programmes
    BY <1>1, <1>2, <1>5, <1>7
  <2>2. shown' = queue[k + 1] /\ shown' # None
    BY <2>1, PushAssumption DEF Offer
  <2>3. Waiting' = Tail(pushes')
    BY <2>2 DEF Waiting
  <2>4. Waiting' = Offers!After(queue, k + 1)
    BY <1>3, <1>7, <2>3, AfterEnds
  <2>5. k + 1 \in 1..Len(queue) /\ (k + 1) - 1 = k
    BY <1>2, <1>7
  <2>6. Offers!PassesOver(queue, (k + 1) - 1)
    BY <1>4, <2>5
  <2>7. shown = None /\ current' = current
    BY DEF Idle
  <2>. QED
    BY <2>1, <2>2, <2>4, <2>5, <2>6, <2>7 DEF Offers!Show
<1>. QED
  BY <1>2, <1>6, <1>7

\* Joining a queue that is not empty is joining what waits behind its head.
LEMMA TailOfAppend ==
  ASSUME NEW s \in Seq(Programmes), s # << >>, NEW p \in Programmes
  PROVE  Tail(Append(s, p)) = Append(Tail(s), p)
<1> DEFINE a == Append(s, p)
           t == Tail(s)
           b == Append(t, p)
<1>1. /\ a \in Seq(Programmes) /\ a # << >> /\ Len(a) = Len(s) + 1
      /\ (\A i \in 1..Len(s) : a[i] = s[i]) /\ a[Len(s) + 1] = p
  BY AppendProperties
<1>2. /\ t \in Seq(Programmes) /\ Len(t) = Len(s) - 1
      /\ \A i \in 1..Len(t) : t[i] = s[i + 1]
  BY HeadTailProperties
<1> HIDE DEF t
<1>3. /\ b \in Seq(Programmes) /\ Len(b) = Len(t) + 1
      /\ (\A i \in 1..Len(t) : b[i] = t[i]) /\ b[Len(t) + 1] = p
  BY <1>2, AppendProperties
<1> HIDE DEF a, b
<1>4. /\ Tail(a) \in Seq(Programmes) /\ Len(Tail(a)) = Len(a) - 1
      /\ \A i \in 1..Len(Tail(a)) : Tail(a)[i] = a[i + 1]
  BY <1>1, HeadTailProperties
<1>5. Len(s) \in Nat /\ Len(s) > 0
  BY EmptySeq
<1>6. Len(Tail(a)) = Len(s) /\ Len(b) = Len(s)
  BY <1>1, <1>2, <1>3, <1>4, <1>5
<1>7. \A i \in 1..Len(s) : Tail(a)[i] = b[i]
  <2> SUFFICES ASSUME NEW i \in 1..Len(s) PROVE Tail(a)[i] = b[i]
    OBVIOUS
  <2>1. Tail(a)[i] = a[i + 1]
    BY <1>4, <1>6
  <2>2. CASE i = Len(s)
    <3>1. a[i + 1] = p /\ Len(t) + 1 = i
      BY <1>1, <1>2, <1>5, <2>2
    <3>. QED
      BY <1>3, <2>1, <3>1
  <2>3. CASE i < Len(s)
    <3>1. i \in 1..Len(t) /\ i + 1 \in 1..Len(s)
      BY <1>2, <1>5, <2>3
    <3>. QED
      BY <1>1, <1>2, <1>3, <2>1, <3>1
  <2>4. i = Len(s) \/ i < Len(s)
    BY <1>5
  <2>. QED
    BY <2>2, <2>3, <2>4
<1>8. Tail(a) = b
  BY <1>3, <1>4, <1>6, <1>7, SeqEqual
<1>. QED
  BY <1>8 DEF a, b, t

\* A push joins those that wait, or is shown or passed over as it comes.
LEMMA PushOffers ==
  ASSUME IInv, NEW p \in Programmes, Push(p)
  PROVE  [Offers!Next]_(Offers!vars)
<1>1. current' = current /\ closed' = closed
  BY DEF Push
<1>2. CASE UNCHANGED <<pushes, alert, starved>>
  <2>1. Waiting' = Waiting /\ shown' = shown
    BY <1>1, <1>2 DEF Waiting, alert
  <2>. QED
    BY <1>1, <2>1 DEF Offers!vars
<1>3. CASE pushes = << >> /\ TakeUp(<<p>>)
  <2>1. shown = None /\ closed = << >>
    BY <1>3 DEF IInv, OffersItsHead
  <2>2. Idle /\ TypeOK
    BY <2>1 DEF IInv, OneAtATime, Idle
  <2>3. <<p>> \in Seq(Programmes) /\ Len(<<p>>) = 1
    OBVIOUS
  <2>4. Waiting = << >>
    BY <1>3, <2>1 DEF Waiting
  <2>5. \/ Offers!Show(<<p>>)
        \/ /\ shown' = None
           /\ \E k \in 0..1 : Waiting' = Offers!After(<<p>>, k)
    BY <1>1, <1>3, <2>1, <2>2, <2>3, TakeUpShows
  <2>6. CASE Offers!Show(<<p>>)
    BY <2>4, <2>6 DEF Offers!Next, Offers!ShowAtOnce
  <2>7. CASE shown' = None /\ Waiting' = Offers!After(<<p>>, 0)
    <3>1. Waiting' = <<p>>
      BY <2>3, <2>7, AfterEnds
    <3>2. Append(<< >>, p) = <<p>>
      OBVIOUS
    <3>3. Waiting' = Append(Waiting, p)
      BY <2>4, <3>1, <3>2
    <3>. QED
      BY <1>1, <2>1, <2>7, <3>3 DEF Offers!Next, Offers!Arrive
  <2>8. CASE shown' = None /\ Waiting' = Offers!After(<<p>>, 1)
    <3>1. Waiting' = << >>
      BY <2>3, <2>8, AfterEnds
    <3>. QED
      BY <1>1, <2>1, <2>4, <2>8, <3>1 DEF Offers!vars
  <2>. QED
    BY <2>5, <2>6, <2>7, <2>8
<1>4. CASE /\ pushes # << >> /\ pushes' = Append(pushes, p)
           /\ UNCHANGED <<alert, starved>>
  <2>1. shown' = shown /\ pushes \in Seq(Programmes)
    BY <1>4 DEF IInv, TypeOK, alert
  <2>2. Waiting' = Append(Waiting, p)
    BY <1>1, <1>4, <2>1, TailOfAppend DEF Waiting
  <2>. QED
    BY <1>1, <2>1, <2>2 DEF Offers!Next, Offers!Arrive
<1>. QED
  BY <1>2, <1>3, <1>4 DEF Push

\* The block that is due offers the next of those that wait.
LEMMA ReduceOffers == ASSUME IInv, Reduce PROVE [Offers!Next]_(Offers!vars)
<1>1. /\ closed # << >> /\ Len(closed) <= 1 /\ closed \in Seq(Programmes)
      /\ Idle /\ pushes # << >> /\ pushes \in Seq(Programmes) /\ TypeOK
  BY DEF IInv, TypeOK, OneAtATime, OffersItsHead, Reduce, Idle
<1>2. closed' = << >> /\ current' = current
  BY <1>1, TailOfOne DEF Reduce
<1>3. Waiting = Tail(pushes) /\ Waiting \in Seq(Programmes) /\ TakeUp(Waiting)
  BY <1>1, HeadTailProperties DEF Reduce, Waiting
<1>4. \/ Offers!Show(Waiting)
      \/ /\ shown' = None
         /\ \E k \in 0..Len(Waiting) :
              Offers!PassesOver(Waiting, k) /\ Waiting' = Offers!After(Waiting, k)
  BY <1>1, <1>2, <1>3, TakeUpShows
<1>5. CASE Offers!Show(Waiting)
  BY <1>5 DEF Offers!Next, Offers!ShowNext
<1>6. ASSUME shown' = None,
             NEW k \in 0..Len(Waiting),
             Offers!PassesOver(Waiting, k), Waiting' = Offers!After(Waiting, k)
      PROVE  [Offers!Next]_(Offers!vars)
  <2>1. shown = None /\ shown' = shown
    BY <1>1, <1>6 DEF Idle
  <2>2. CASE k = 0
    <3>1. Waiting' = Waiting
      BY <1>3, <1>6, <2>2, AfterEnds
    <3>. QED
      BY <1>2, <2>1, <3>1 DEF Offers!vars
  <2>3. CASE k # 0
    <3>1. k \in 1..Len(Waiting)
      BY <1>3, <2>3
    <3>. QED
      BY <1>2, <1>6, <2>1, <3>1 DEF Offers!Next, Offers!Pass
  <2>. QED
    BY <2>2, <2>3
<1>. QED
  BY <1>4, <1>5, <1>6

\* However an alert closes, its push has left those that wait before.
LEMMA CloseOffers ==
  ASSUME IInv, shown # None, Close, UNCHANGED <<current, pushes>>
  PROVE  [Offers!Next]_(Offers!vars)
<1>1. shown' = None /\ closed' = Append(closed, shown)
  BY DEF Close
<1>2. closed' # << >>
  <2>1. closed \in Seq(Programmes) /\ shown \in Programmes
    BY DEF IInv, TypeOK
  <2>. QED
    BY <1>1, <2>1, AppendProperties
<1>3. Waiting' = Waiting
  BY <1>2 DEF Waiting
<1>. QED
  BY <1>1, <1>3 DEF Offers!Next, Offers!Dismiss

\* One step per action.
LEMMA StepOffers == IInv /\ [Next]_vars => [Offers!Next]_(Offers!vars)
<1> SUFFICES ASSUME IInv, [Next]_vars PROVE [Offers!Next]_(Offers!vars)
  OBVIOUS
<1>1. ASSUME NEW p \in Programmes, Push(p) PROVE [Offers!Next]_(Offers!vars)
  BY <1>1, PushOffers
<1>2. CASE Answer
  BY <1>2, CloseOffers DEF Answer
<1>3. CASE Tick
  <2>1. shown # None /\ UNCHANGED <<current, pushes>>
    BY <1>3 DEF IInv, OneAtATime, Tick
  <2>2. CASE left > 1
    <3>1. shown' = shown /\ closed' = closed
      BY <1>3, <2>2 DEF Tick
    <3>. QED
      BY <2>1, <3>1 DEF Waiting, Offers!vars
  <2>3. CASE ~(left > 1)
    BY <1>3, <2>1, <2>3, CloseOffers DEF Tick
  <2>. QED
    BY <2>2, <2>3
<1>4. CASE Reduce
  BY <1>4, ReduceOffers
<1>5. CASE NewList \/ TurnPage \/ UNCHANGED vars
  BY <1>5 DEF NewList, TurnPage, vars, alert, Waiting, Offers!vars
<1>6. CASE HistoryChanges
  <2>1. UNCHANGED <<pushes, shown, closed>> /\ current' \in Programmes \cup {None}
    BY <1>6 DEF HistoryChanges, alert
  <2>2. Waiting' = Waiting
    BY <2>1 DEF Waiting
  <2>. QED
    BY <2>1, <2>2 DEF Offers!Next, Offers!Play
<1>. QED
  BY <1>1, <1>2, <1>3, <1>4, <1>5, <1>6 DEF Next

\* shareViewArr and its alerts implement the queue of OfferQueue, for any number
\* of pushes and seconds: each push is offered once, in the order in which they
\* came, and none is passed over but for being on already (addPushMutableArr,
\* OtherDevicePushToPhone, reducePushSharingViewNotific).
THEOREM ImplementsOfferQueue == Spec => IsOfferQueue
<1>1. Init => Offers!Init
  BY DEF Init, Waiting, Offers!Init
<1>2. IInv /\ [Next]_vars => [Offers!Next]_(Offers!vars)
  BY StepOffers
<1>. QED
  BY <1>1, <1>2, Invariant, PTL DEF Spec, IsOfferQueue, Offers!Spec
==============================================================================
