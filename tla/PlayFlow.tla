------------------------------- MODULE PlayFlow -------------------------------
(***************************************************************************)
(* How a live channel comes to be played: TVViewController.m from the touch *)
(* of a row to the first picture or the notice that there is none, with    *)
(* what ZXVideoPlayerController.m shows of it.                             *)
(*                                                                         *)
(* All of it runs on the main run loop, but in pieces: a touch, an answer  *)
(* of the STB, a change of page or a notice of the player runs to its end  *)
(* and leaves blocks in the main queue, which run later, in order, with    *)
(* other events in between.  One `video` object is shared by the page and  *)
(* the player.                                                             *)
(*                                                                         *)
(* PIN and CA dialogs are left out (LabOrPop is never "POP"), and so are   *)
(* recordings and the judgement of the events' times.  The history is not  *)
(* empty when the user comes back to the page.                             *)
(***************************************************************************)
EXTENDS Naturals, Sequences

CONSTANTS
  Channels,
  None,
  MaxTouches,    \* bound: channels touched
  MaxTroubles,   \* bound: times the page is left or the STB is gone
  MaxEvents      \* bound: notices of the player, of one picture

ASSUME PlayAssumption ==
  /\ None \notin Channels
  /\ MaxTouches \in Nat /\ MaxTroubles \in Nat /\ MaxEvents \in Nat

VARIABLES
  tv,       \* self.showTVView: the page is on the screen
  away,     \* playStateType is mediaDisConnect: the STB is gone
  chosen,   \* service_videoindex and socket_ServiceModel: the channel touched last
  queue,    \* the blocks in the main queue
  asked,    \* the requests the STB has not answered
  video,    \* self.video: whose URL it has, and whose number it shows
  player,   \* the player, if any: what it plays, and whether a picture is there
  begun,    \* isStartBeginPlay
  timer,    \* playClick is due 25 s after it was armed
  ring,     \* the loading ring turns
  label,    \* the notice that the video cannot be played
  resume,   \* coming back to the page: "no", "soon" (judgeJumpFromOtherView is
            \* due) or "jump" (its block, 2 s later, is)
  touches, troubles,
  lost,     \* ghost: the last request was not answered
  stale     \* ghost: the timer was stopped by something else than its picture

screen == <<ring, label>>
ghosts == <<lost, stale>>
counts == <<touches, troubles>>
vars == <<tv, away, chosen, queue, asked, video, player, begun, timer, screen,
          resume, counts, ghosts>>

\* A player made for an empty URL shows nothing: it is as good as none.
NoPlayer == [of |-> None, shown |-> FALSE, events |-> 0]
NoVideo == [url |-> None, id |-> None]

\* A block is named for what it does; that of a notice knows its picture.
Block(do) == [do |-> do, of |-> None]
Kinds == {"ring", "send", "play", "arm", "cancel", "willplay", "shut", "label"}

\* What is left of the queue when its first block runs.
Then(blocks) == queue' = Tail(queue) \o blocks
Post(blocks) == queue' = queue \o blocks

Init ==
  /\ tv = TRUE /\ away = FALSE /\ chosen = None
  /\ queue = << >> /\ asked = << >>
  /\ video = NoVideo /\ player = NoPlayer /\ begun = FALSE
  /\ timer = FALSE /\ ring = FALSE /\ label = FALSE
  /\ resume = "no" /\ touches = 0 /\ troubles = 0
  /\ lost = FALSE /\ stale = FALSE

-----------------------------------------------------------------------------
(* Events.                                                                 *)

\* ifNotISTVView: everything of the playback is taken away.
Quiet ==
  /\ label' = FALSE /\ timer' = FALSE /\ ring' = FALSE /\ player' = NoPlayer

\* Mutant of Select: the request is queued, the selection left as it was.
SelectNothing(c) ==
  /\ label' = FALSE
  /\ Post(<<Block("ring"), Block("send")>>)
  /\ lost' = FALSE /\ stale' = FALSE
  /\ UNCHANGED <<tv, away, chosen, asked, video, player, begun, timer, ring, troubles>>

\* touchSelectChannel, and firstOpenAppAutoPlayZero for a resumed channel.
Select(c) ==
  /\ label' = FALSE
  /\ chosen' = c
  /\ Post(<<Block("ring"), Block("send")>>)
  /\ lost' = FALSE /\ stale' = FALSE
  /\ UNCHANGED <<tv, away, asked, video, player, begun, timer, ring, troubles>>

Touch ==
  /\ tv /\ touches < MaxTouches /\ touches' = touches + 1
  /\ \E c \in Channels : Select(c)
  /\ UNCHANGED resume

\* Another page, a push or the search touches a channel for a page that is gone.
TouchAway ==
  /\ ~tv /\ touches < MaxTouches /\ touches' = touches + 1
  /\ Quiet
  /\ UNCHANGED <<tv, away, chosen, queue, asked, video, begun, resume, troubles, ghosts>>

\* getDataService: the URL in the answer goes under the number of the channel
\* that is selected now.  It is empty when the answer tells of an error other than
\* 3: the play block and the timer follow all the same.
Answered(url) ==
  /\ video' = [url |-> url, id |-> chosen] /\ begun' = FALSE
  /\ Post(<<Block("play"), Block("arm")>>)
  /\ UNCHANGED <<player, timer, screen>>

\* Mutant of Refused: the timer is stopped and nothing shown.
RefusedSilently ==
  /\ Post(<<Block("cancel")>>)
  /\ UNCHANGED <<video, player, begun, timer, screen>>

\* getLinkData, ret = 3: no tuner is free.  The one error that is refused.
Refused ==
  /\ Post(<<Block("label"), Block("cancel")>>)
  /\ UNCHANGED <<video, player, begun, timer, screen>>

\* The STB answers its requests in order; the page may be gone by then.
Answer ==
  /\ asked # << >>
  /\ asked' = Tail(asked)
  /\ \/ tv /\ ((\E url \in {Head(asked), None} : Answered(url)) \/ Refused)
     \/ ~tv /\ Quiet /\ UNCHANGED <<queue, video, begun>>
  /\ UNCHANGED <<tv, away, chosen, resume, counts, ghosts>>

NothingToSend == \A i \in 1..Len(queue) : queue[i].do # "send"

\* A request or its answer is lost, or too short to be read.
Lose ==
  /\ asked # << >>
  /\ asked' = Tail(asked)
  /\ lost' = (lost \/ (Len(asked) = 1 /\ NothingToSend))
  /\ UNCHANGED <<tv, away, chosen, queue, video, player, begun, timer, screen, resume,
                 counts, stale>>

\* The third drop in a row: the Singleton shows that the network is gone.
Drop ==
  /\ ~away /\ troubles < MaxTroubles /\ troubles' = troubles + 1
  /\ away' = TRUE
  /\ asked' = << >> /\ lost' = (lost \/ (asked # << >> /\ NothingToSend))
  /\ Post(<<Block("label")>>)
  /\ UNCHANGED <<tv, chosen, video, player, begun, timer, screen, resume, touches, stale>>

Restore ==
  /\ away /\ away' = FALSE
  /\ UNCHANGED <<tv, chosen, queue, asked, video, player, begun, timer, screen, resume,
                 counts, ghosts>>

\* The player shows a picture or tells of a change of its state; the ring stops
\* unless another channel's answer has come since.
Notice ==
  /\ player.of # None /\ player.events < MaxEvents
  /\ player' = [player EXCEPT !.shown = TRUE, !.events = @ + 1]
  /\ Post(<<[do |-> "willplay", of |-> player.of]>>)
  /\ ring' = (ring /\ ~begun)
  /\ UNCHANGED <<tv, away, chosen, asked, video, begun, timer, label, resume, counts,
                 ghosts>>

\* playClick, 25 s later.
TimeOut ==
  /\ timer /\ timer' = FALSE
  /\ Post(<<Block("label")>>)
  /\ UNCHANGED <<tv, away, chosen, asked, video, player, begun, screen, resume, counts,
                 ghosts>>

\* Mutant of Leave: what would take the timer away is not posted.
LeaveKeepsTimer ==
  /\ tv /\ troubles < MaxTroubles /\ troubles' = troubles + 1
  /\ tv' = FALSE
  /\ video' = [video EXCEPT !.url = None]
  /\ player' = NoPlayer
  /\ UNCHANGED <<away, chosen, queue, asked, begun, timer, screen, resume, touches, ghosts>>

\* viewWillDisappear and viewDidDisappear.
Leave ==
  /\ tv /\ troubles < MaxTroubles /\ troubles' = troubles + 1
  /\ tv' = FALSE
  /\ video' = [video EXCEPT !.url = None]
  /\ player' = NoPlayer
  /\ Post(<<Block("shut")>>)
  /\ UNCHANGED <<away, chosen, asked, begun, timer, screen, resume, touches, ghosts>>

\* viewWillAppear.
Return ==
  /\ ~tv /\ tv' = TRUE
  /\ resume' = "soon"
  /\ UNCHANGED <<away, chosen, queue, asked, video, player, begun, timer, screen,
                 counts, ghosts>>

\* judgeJumpFromOtherView, 0.3 s later.
Judge ==
  /\ resume = "soon"
  /\ IF tv
     THEN /\ label' = FALSE
          /\ Post(IF away THEN <<Block("cancel"), Block("ring"), Block("label")>>
                          ELSE <<Block("cancel"), Block("ring")>>)
          /\ resume' = "jump"
          /\ UNCHANGED <<player, timer, ring>>
     ELSE Quiet /\ resume' = "no" /\ UNCHANGED queue
  /\ UNCHANGED <<tv, away, chosen, asked, video, begun, counts, ghosts>>

\* Its block plays the last channel of the history again, whatever was touched
\* in the 2 s before.
Jump ==
  /\ resume = "jump" /\ resume' = "no"
  /\ \E c \in Channels : Select(c)
  /\ UNCHANGED touches

-----------------------------------------------------------------------------
(* Blocks of the main queue.                                               *)

First(do) == queue # << >> /\ queue[1].do = do

RunRing ==
  /\ First("ring") /\ Then(<< >>)
  /\ ring' = TRUE
  /\ UNCHANGED <<tv, away, chosen, asked, video, player, begun, timer, label, resume,
                 counts, ghosts>>

\* The request is sent for what is selected when the block runs.
RunSend ==
  /\ First("send")
  /\ \/ /\ away /\ Then(<<Block("label")>>)
        /\ UNCHANGED <<asked, player, timer, screen>>
     \/ /\ ~away /\ tv /\ Then(<< >>)
        /\ asked' = Append(asked, chosen)
        /\ UNCHANGED <<player, timer, screen>>
     \/ /\ ~away /\ ~tv /\ Then(<< >>)
        /\ Quiet /\ UNCHANGED asked
  /\ UNCHANGED <<tv, away, chosen, video, begun, resume, counts, ghosts>>

\* Mutant: a player that is there keeps what it plays.
RunPlayOnce ==
  /\ First("play") /\ Then(<< >>)
  /\ begun' = TRUE
  /\ player' = IF tv /\ player.of = None THEN [NoPlayer EXCEPT !.of = video.url] ELSE player
  /\ UNCHANGED <<tv, away, chosen, asked, video, timer, screen, resume, counts, ghosts>>

\* playVideo and setUrl: a new player for the URL of `video`, on this page only.
RunPlay ==
  /\ First("play") /\ Then(<< >>)
  /\ begun' = TRUE
  /\ player' = IF tv THEN [NoPlayer EXCEPT !.of = video.url] ELSE player
  /\ UNCHANGED <<tv, away, chosen, asked, video, timer, screen, resume, counts, ghosts>>

\* ifNeedPlayClick
RunArm ==
  /\ First("arm") /\ Then(<< >>)
  /\ timer' = tv
  /\ UNCHANGED <<tv, away, chosen, asked, video, player, begun, screen, resume, counts,
                 ghosts>>

RunCancel ==
  /\ First("cancel") /\ Then(<< >>)
  /\ timer' = FALSE
  /\ UNCHANGED <<tv, away, chosen, asked, video, player, begun, screen, resume, counts,
                 ghosts>>

\* willplay: one more block takes the notice and the timer away.
RunWillPlay ==
  /\ First("willplay") /\ Then(<<[queue[1] EXCEPT !.do = "shut"]>>)
  /\ UNCHANGED <<tv, away, chosen, asked, video, player, begun, timer, screen, resume,
                 counts, ghosts>>

\* Mutant: the block takes the timer away and leaves the label.
RunShutTimer ==
  /\ First("shut") /\ Then(<< >>)
  /\ timer' = FALSE
  /\ stale' = (stale \/ (timer /\ ~player.shown))
  /\ UNCHANGED <<tv, away, chosen, asked, video, player, begun, screen, resume, counts,
                 lost>>

\* removeTipLabAndPerformSelector: of a picture, or of a page that was left.
RunShut ==
  /\ First("shut") /\ Then(<< >>)
  /\ timer' = FALSE /\ label' = FALSE
  /\ stale' = (stale \/ (timer /\ ~player.shown))
  /\ UNCHANGED <<tv, away, chosen, asked, video, player, begun, ring, resume, counts,
                 lost>>

\* noPlayShowNotic: the player is stopped and the label shown, on any page.
RunLabel ==
  /\ First("label") /\ Then(<< >>)
  /\ label' = TRUE /\ ring' = FALSE /\ player' = NoPlayer
  /\ UNCHANGED <<tv, away, chosen, asked, video, begun, timer, resume, counts, ghosts>>

RunBlock ==
  \/ RunRing \/ RunSend \/ RunPlay \/ RunArm \/ RunCancel \/ RunWillPlay
  \/ RunShut \/ RunLabel

Next ==
  \/ RunBlock \/ TimeOut
  \/ Touch \/ TouchAway \/ Answer \/ Lose \/ Drop \/ Restore \/ Notice
  \/ Leave \/ Return \/ Judge \/ Jump

\* The run loop runs what is due, and the STB answers or the answer is lost; the
\* player need not show anything.
Fairness ==
  /\ WF_vars(RunBlock) /\ WF_vars(TimeOut) /\ WF_vars(Answer \/ Lose)
  /\ WF_vars(Judge) /\ WF_vars(Jump)

Spec == Init /\ [][Next]_vars /\ Fairness

-----------------------------------------------------------------------------
(* Properties.                                                             *)

TypeOK ==
  /\ tv \in BOOLEAN /\ away \in BOOLEAN
  /\ chosen \in Channels \cup {None}
  /\ queue \in Seq([do : Kinds, of : Channels \cup {None}])
  /\ asked \in Seq(Channels)
  /\ video \in [url : Channels \cup {None}, id : Channels \cup {None}]
  /\ player \in [of : Channels \cup {None}, shown : BOOLEAN, events : Nat]
  /\ begun \in BOOLEAN /\ timer \in BOOLEAN /\ ring \in BOOLEAN /\ label \in BOOLEAN
  /\ resume \in {"no", "soon", "jump"}
  /\ touches \in Nat /\ troubles \in Nat /\ lost \in BOOLEAN /\ stale \in BOOLEAN

\* Once the blocks have run, and no answer is on its way.
Settled == queue = << >> /\ asked = << >> /\ resume = "no"

\* While the page is away nothing plays, and a timer that would show the notice
\* is armed only while a block that stops it is queued: neither an answer that
\* arrives late nor a block queued before can start either again.
AwayIsQuiet ==
  ~tv => player = NoPlayer /\ (timer => \E i \in 1..Len(queue) : queue[i].do = "shut")

\* However touches, answers and pages interleave, what plays in the end is the
\* channel touched last, under its own number - unless a request was lost.
SettledPlaysTheChosen ==
  Settled /\ tv /\ ~lost /\ player.of # None => player.of = chosen /\ video.id = chosen

\* The notice never stays over a picture.
NoLabelOverPicture == queue = << >> => ~(label /\ player.shown)

\* "If the video is not playing within 20 s, show this notice" (:5514): the
\* ring does not turn for ever, but after a lost request, for which no timer
\* is armed, or a notice of the picture before, which stops the timer.
RingStops == tv /\ ring ~> ~ring \/ ~tv \/ lost \/ stale
===============================================================================
