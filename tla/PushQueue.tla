------------------------------ MODULE PushQueue ------------------------------
(***************************************************************************)
(* Pushes from other phones: TVViewController.m keeps them in shareViewArr *)
(* and offers them one at a time, in an alert with a Cancel and a Watch    *)
(* button that closes by itself when its seconds have run down             *)
(* (ext/PushAlertView/GetPushInfoAlertView.m).                             *)
(*                                                                         *)
(* Everything runs on the main run loop, and an action is a whole callback.*)
(* The head of the queue stays there while its alert is up and until 0.3 s *)
(* after it was closed.  What Watch sets off is the matter of History and  *)
(* PlayFlow; here it is only that the last entry of the history may change *)
(* at any time.                                                            *)
(***************************************************************************)
EXTENDS Naturals, Sequences

CONSTANTS
  Channels,      \* programmes pushed as "Service"
  Recordings,    \* programmes pushed as "Live"
  None,
  Orders,        \* the lists of channels or recordings the STB may send
  Seconds,       \* timeNum of a new alert; the code has 60
  MaxPushes,     \* bound: pushes received
  MaxLists       \* bound: lists received while the app runs

Programmes == Channels \cup Recordings

ASSUME PushAssumption ==
  /\ None \notin Programmes /\ Channels \cap Recordings = {}
  /\ Orders \subseteq Seq(Programmes)
  /\ Seconds \in Nat \ {0} /\ MaxPushes \in Nat /\ MaxLists \in Nat

VARIABLES
  tv,          \* self.showTVView
  current,     \* the last programme of the history, None when it is empty
  channelList, recordingList,   \* serviceData, categorysToCategoryViewContainREC
  pushes,      \* shareViewArr
  shown,       \* what the alert offers, None when it is closed
  row,         \* pushChannelId, from 1: what Watch would play
  left,        \* timeNum
  timers,      \* the timers that run, and whether pushTVTimer is one of them
  closed,      \* the blocks of `close` that are due, by what their alert offered
  received, lists,
  covered,     \* ghost: an alert was put over another
  moved,       \* ghost: the list of what is offered was replaced since
  starved      \* ghost: a push was taken up while the history was empty

alert == <<shown, row, left, timers, covered, moved>>
vars == <<tv, current, channelList, recordingList, pushes, alert, closed, received,
          lists, starved>>

ListOf(p) == IF p \in Recordings THEN recordingList ELSE channelList

\* The look-up goes through the whole list: the last row that fits.
IsRowOf(k, p) ==
  /\ k \in 1..Len(ListOf(p)) /\ ListOf(p)[k] = p
  /\ \A j \in 1..Len(ListOf(p)) : ListOf(p)[j] = p => j <= k

Init ==
  /\ tv = TRUE /\ current \in Programmes \cup {None}
  /\ channelList = << >> /\ recordingList = << >>
  /\ pushes = << >> /\ shown = None /\ row = 1 /\ left = 0
  /\ timers = [running |-> 0, mine |-> FALSE]
  /\ closed = << >> /\ received = 0 /\ lists = 0
  /\ covered = FALSE /\ moved = FALSE /\ starved = FALSE

-----------------------------------------------------------------------------
(* Taking up the head of the queue.                                        *)

\* A programme that is no longer in its list leaves the row of an earlier push.
FindRow(p) ==
  \/ \E k \in 1..Len(ListOf(p)) : IsRowOf(k, p) /\ row' = k
  \/ (\A k \in 1..Len(ListOf(p)) : ListOf(p)[k] # p) /\ row' = row

\* createGetAlertView, createLiveGetAlertView
Offer(p) ==
  /\ FindRow(p)
  /\ shown' = p /\ left' = Seconds
  /\ timers' = [running |-> timers.running + 1, mine |-> TRUE]
  /\ covered' = (covered \/ shown # None)
  /\ moved' = FALSE

\* Mutant: a push of the programme that is playing is left where it is.
TakeUpKeeping(queue) ==
  /\ pushes' = queue
  /\ IF queue = << >> \/ current = None \/ Head(queue) = current
     THEN UNCHANGED alert
     ELSE Offer(Head(queue))
  /\ starved' = (starved \/ (queue # << >> /\ current = None))

\* Mutant: only the first push is compared with what is playing.
TakeUpOnce(queue) ==
  LET rest == IF queue # << >> /\ Head(queue) = current THEN Tail(queue) ELSE queue
  IN  /\ pushes' = rest
      /\ IF rest = << >> \/ current = None THEN UNCHANGED alert ELSE Offer(Head(rest))
      /\ starved' = (starved \/ (rest # << >> /\ current = None))

\* OtherDevicePushToPhone, OtherDevicePushToPhoneLive: what is playing already
\* is dropped from the head, and with an empty history nothing happens at all.
TakeUp(queue) ==
  \E k \in 0..Len(queue) :
    /\ \A i \in 1..k : queue[i] = current
    /\ k < Len(queue) => queue[k + 1] # current
    /\ pushes' = SubSeq(queue, k + 1, Len(queue))
    /\ IF k = Len(queue) \/ current = None
       THEN UNCHANGED alert
       ELSE Offer(queue[k + 1])
    /\ starved' = (starved \/ (k < Len(queue) /\ current = None))

-----------------------------------------------------------------------------
\* Mutant: every push is taken up as it comes.
PushTakesUp(p) ==
  /\ received < MaxPushes /\ received' = received + 1
  /\ IF p \in Recordings \/ tv THEN TakeUp(Append(pushes, p))
     ELSE UNCHANGED <<pushes, alert, starved>>
  /\ UNCHANGED <<tv, current, channelList, recordingList, closed, lists>>

\* addPushMutableArr, only with the TV page on screen, and addPushLiveMutableArr:
\* a push joins the queue, and is taken up at once when it is alone in it.
Push(p) ==
  /\ received < MaxPushes /\ received' = received + 1
  /\ IF ~(p \in Recordings \/ tv)
     THEN UNCHANGED <<pushes, alert, starved>>
     ELSE IF pushes = << >>
     THEN TakeUp(<<p>>)
     ELSE pushes' = Append(pushes, p) /\ UNCHANGED <<alert, starved>>
  /\ UNCHANGED <<tv, current, channelList, recordingList, closed, lists>>

\* Mutant: the timer runs on.
CloseTicking ==
  /\ shown' = None
  /\ closed' = Append(closed, shown)
  /\ UNCHANGED <<row, timers, covered, moved>>

\* [pushTVTimer invalidate]; [JXAlertView close], whose block comes 0.3 s later.
Close ==
  /\ timers' = [running |-> timers.running - (IF timers.mine THEN 1 ELSE 0),
                mine |-> FALSE]
  /\ shown' = None
  /\ closed' = Append(closed, shown)
  /\ UNCHANGED <<row, covered, moved>>

\* One of the two buttons.
Answer ==
  /\ shown # None
  /\ Close
  /\ UNCHANGED <<tv, current, channelList, recordingList, pushes, left, received,
                 lists, starved>>

\* pushTVTimerReduce
Tick ==
  /\ timers.running > 0
  /\ left' = left - 1
  /\ IF left > 1 THEN UNCHANGED <<shown, row, timers, covered, moved, closed>>
     ELSE Close
  /\ UNCHANGED <<tv, current, channelList, recordingList, pushes, received, lists,
                 starved>>

\* Mutant: the next is taken up before the first is taken off.
ReduceLate ==
  /\ closed # << >> /\ closed' = Tail(closed)
  /\ IF Len(pushes) < 2
     THEN pushes' = << >> /\ UNCHANGED <<alert, starved>>
     ELSE pushes' = Tail(pushes) /\ Offer(Head(pushes)) /\ UNCHANGED starved
  /\ UNCHANGED <<tv, current, channelList, recordingList, received, lists>>

\* reducePushSharingViewNotific, posted by the block of `close`.
Reduce ==
  /\ closed # << >> /\ closed' = Tail(closed)
  /\ IF pushes = << >> THEN UNCHANGED <<pushes, alert, starved>>
     ELSE TakeUp(Tail(pushes))
  /\ UNCHANGED <<tv, current, channelList, recordingList, received, lists>>

\* A new list of channels or of recordings.
NewList ==
  /\ lists < MaxLists /\ lists' = lists + 1
  /\ \E l \in Orders :
       \/ l \in Seq(Channels) /\ channelList' = l /\ UNCHANGED recordingList
          /\ moved' = (moved \/ shown \in Channels)
       \/ l \in Seq(Recordings) /\ recordingList' = l /\ UNCHANGED channelList
          /\ moved' = (moved \/ shown \in Recordings)
  /\ UNCHANGED <<tv, current, pushes, shown, row, left, timers, closed, received,
                 covered, starved>>

\* Something else is played, or the history emptied on its page.
HistoryChanges ==
  /\ \/ current' \in Programmes
     \/ ~tv /\ current' = None
  /\ UNCHANGED <<tv, channelList, recordingList, pushes, alert, closed, received,
                 lists, starved>>

TurnPage ==
  /\ tv' = ~tv
  /\ UNCHANGED <<current, channelList, recordingList, pushes, alert, closed, received,
                 lists, starved>>

Next ==
  \/ \E p \in Programmes : Push(p)
  \/ Answer \/ Tick \/ Reduce \/ NewList \/ HistoryChanges \/ TurnPage

\* Timers tick and blocks that are due run; the user need not answer.
Fairness == WF_vars(Tick) /\ WF_vars(Reduce)

Spec == Init /\ [][Next]_vars /\ Fairness

-----------------------------------------------------------------------------
(* Properties.                                                             *)

TypeOK ==
  /\ tv \in BOOLEAN
  /\ current \in Programmes \cup {None} /\ shown \in Programmes \cup {None}
  /\ channelList \in Seq(Programmes) /\ recordingList \in Seq(Programmes)
  /\ pushes \in Seq(Programmes) /\ closed \in Seq(Programmes)
  /\ row \in Nat /\ left \in Nat
  /\ timers \in [running : Nat, mine : BOOLEAN]
  /\ received \in Nat /\ lists \in Nat
  /\ covered \in BOOLEAN /\ moved \in BOOLEAN /\ starved \in BOOLEAN

\* However pushes, answers, seconds and the delayed blocks interleave, no alert
\* is put over another, an alert has one timer, which is the one its buttons
\* stop, and while a closed one waits for its block none is up.
OneAtATime ==
  /\ ~covered
  /\ timers = IF shown # None THEN [running |-> 1, mine |-> TRUE]
              ELSE [running |-> 0, mine |-> FALSE]
  /\ Len(closed) <= 1
  /\ closed # << >> => shown = None

\* What is offered, or has just been closed, is the head of the queue, so the
\* block that takes the head off takes that one; and Watch plays what is
\* offered, if it is in its list and the list was not replaced meanwhile.
OffersItsHead ==
  /\ shown # None =>
       /\ pushes # << >> /\ shown = Head(pushes)
       /\ ~moved /\ (\E k \in 1..Len(ListOf(shown)) : ListOf(shown)[k] = shown)
            => row \in 1..Len(ListOf(shown)) /\ ListOf(shown)[row] = shown
  /\ closed # << >> => pushes # << >> /\ Head(closed) = Head(pushes)

\* The pushes behind the one that is offered, or was closed last and is still to be
\* taken off.
Waiting == IF shown # None \/ closed # << >> THEN Tail(pushes) ELSE pushes

\* The array, the alert with its buttons and seconds and the delayed block implement
\* a queue with one place in front: pushes are offered in the order in which they
\* came, each once, one at a time, and none is passed over but for being on already.
\* The block that takes an entry off 0.3 s after its alert was closed, with pushes
\* joining in between, takes neither one too many nor one twice.
Offers == INSTANCE OfferQueue WITH Items <- Programmes, waiting <- Waiting,
                                   offer <- shown, playing <- current
IsOfferQueue == Offers!Spec

\* "Take them from the array one by one; if the first is cancelled, the next
\* follows" (:12808): the queue runs empty even if the user answers nothing,
\* unless a push was taken up while the history was empty.  That one is neither
\* offered nor taken off, and all later ones wait behind it (:12853).
QueueRunsEmpty == (pushes # << >>) ~> (pushes = << >> \/ starved)
===============================================================================
