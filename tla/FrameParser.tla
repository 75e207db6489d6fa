------------------------------ MODULE FrameParser ------------------------------
(***************************************************************************)
(* What the app makes of the bytes the set-top box (STB) sends: Singleton   *)
(* onSocket:didReadData:withTag:, its two loops over the frames of one     *)
(* read, and the length checks of the readSocketCommandTypeIS... handlers. *)
(*                                                                         *)
(* A frame is a header of 28 bytes (module at 8, ret at 12, the number n   *)
(* of data bytes at 24) and n bytes of data, the command at byte 36.  A    *)
(* read returns what has arrived, which may end, and the next one begin,   *)
(* inside a frame; nothing is kept from one read to the next.              *)
(*                                                                         *)
(* The parser runs on the main run loop and is not interrupted; it is cut  *)
(* into one step per frame only to name what each frame does to it.        *)
(* The bytes in the middle of a frame are taken not to look like a header  *)
(* with module BEAT or MDMM.                                               *)
(*                                                                         *)
(* The data of a frame can make its handler, or whoever it notifies before *)
(* it returns, raise an exception that nobody catches, although every byte *)
(* is there: the list of devices of command 31 may be longer than the data *)
(* or have a name that is missing or too short, an offer (29, 30) a name   *)
(* longer than the data.  `sound` says that they do not.                   *)
(***************************************************************************)
EXTENDS Naturals, Sequences

CONSTANTS
  Frames,     \* the frames the STB sends
  Cuts,       \* lengths of the first piece of a frame that a read may end with
  MaxFrames   \* bound: frames sent

HeaderSize == 28
Status == {0, 23, 35, 36}           \* handlers that look at byte 37
Addressed == {12, 25, 29, 30, 31}   \* handlers that slice n + 28 bytes again
Known == Status \cup Addressed \cup {6, 7, 8, 13, 16, 17, 19, 22, 24, 39}

\* The commands of a loop that slice 28 + n bytes.  In the first loop command 7
\* slices 28: its n is read into a variable that shadows the one it uses.
Sliced(loop) == (Known \ {6, 16, 19}) \ (IF loop = "beat" THEN {7} ELSE {})

\* The data bytes a command has at least (those its handler looks at).
MinData(cmd) ==
  CASE cmd = 8                           -> 19
    [] cmd = 22                          -> 23
    [] cmd = 39                          -> 21
    [] cmd = 7                           -> 13
    [] cmd \in Status \cup {6, 31}       -> 10
    [] OTHER                             -> 9

ASSUME FrameAssumption ==
  /\ Frames \subseteq [module : {"BEAT", "MDMM"}, crc : BOOLEAN,
                       cmd : 0..255, n : Nat, sound : BOOLEAN]
  /\ \A f \in Frames : IF f.module = "BEAT" THEN f.n = 0
                                            ELSE f.n >= MinData(f.cmd)
  /\ \A f \in Frames : ~f.sound => f.module = "MDMM" /\ f.cmd \in Known
  /\ Cuts \subseteq Nat \ {0}
  /\ MaxFrames \in Nat

VARIABLES
  stream,  \* the frames sent on this connection
  pos,     \* how far reads have got: whole frames, and bytes of the next one
  pc,      \* "idle", "first", "beat" or "mdmm" (the two loops), or "crashed"
  first,   \* the first frame of the last read (0 if it began inside a frame)
  cur,     \* the frame at nowData_length
  mark,    \* Len(log) when the last read began
  armed,   \* a read is pending on the socket
  log,     \* the handlers called: frame, handler and whether its data was there
  split    \* some read began or ended inside a frame

vars == <<stream, pos, pc, first, cur, mark, armed, log, split>>

Size(f) == HeaderSize + f.n

Parsing == pc \in {"first", "beat", "mdmm"}

TypeOK ==
  /\ stream \in Seq(Frames) /\ Len(stream) <= MaxFrames
  /\ pos \in [frame : 0..Len(stream), byte : Nat]
  /\ pc \in {"idle", "first", "beat", "mdmm", "crashed"}
  /\ first \in 0..Len(stream)
  /\ cur \in Nat /\ (Parsing => cur <= pos.frame + 2)
  /\ mark \in 0..Len(log)
  /\ armed \in BOOLEAN /\ split \in BOOLEAN
  /\ log \in Seq([frame : 1..Len(stream), handler : 0..255, whole : BOOLEAN])

\* didConnectToHost has asked for the first read.
Init ==
  /\ stream = <<>> /\ log = <<>>
  /\ pos = [frame |-> 0, byte |-> 0]
  /\ pc = "idle" /\ first = 0 /\ cur = 0 /\ mark = 0
  /\ armed = TRUE /\ split = FALSE

-----------------------------------------------------------------------------
(* The data of the read that is being parsed.                              *)

\* [data length] >= nowData_length + k, for nowData_length at the start of i.
Have(i, k) ==
  \/ i < pos.frame
  \/ i = pos.frame /\ k <= Size(stream[i]) + pos.byte
  \/ i = pos.frame + 1 /\ k <= pos.byte

\* [data length] <= 28 + n: nothing follows frame i in the data.
Alone(i) == pos.frame < i \/ (pos.frame = i /\ pos.byte = 0)

\* The bytes of its frame that a handler, or who gets its notice, looks at.
Uses(f) ==
  CASE f.cmd \in {16, 19} -> 0
    [] f.cmd = 13         -> 16
    [] f.cmd \in Status \cup {6} -> 38
    [] f.cmd = 7          -> 41
    [] f.cmd = 8          -> 47
    [] f.cmd = 39         -> 49
    [] OTHER              -> Size(f)

\* Mutant of Needs: > where the code has >=.
NeedsOneMore(f, loop) ==
  IF f.crc THEN HeaderSize
  ELSE IF f.module = "BEAT" THEN 16
  ELSE IF f.cmd \in Sliced(loop) THEN Size(f) + 1 ELSE 37

\* What an iteration of a loop asks for before it goes on to the next frame.
Needs(f, loop) ==
  IF f.crc THEN HeaderSize
  ELSE IF f.module = "BEAT" THEN 16
  ELSE IF f.cmd = 6 THEN 38
  ELSE IF f.cmd \in Sliced(loop) THEN Size(f) ELSE 37

\* The first frame of the data is not sliced: its command is all that is
\* asked for, and bytes 37 to 46 for command 8.
FirstNeeds(f) ==
  IF f.crc \/ f.module = "BEAT" THEN 16 ELSE IF f.cmd = 8 THEN 47 ELSE 37

\* Mutant of HandlerOf: the case of command 24 calls the handler of live
\* channels, as that of 25 does.
HandlerOfLive(f, alone) == IF f.cmd \in {24, 25} /\ ~alone THEN 12 ELSE f.cmd

\* Command 25 has a handler of its own only where a frame comes alone.
HandlerOf(f, alone) == IF f.cmd = 25 /\ ~alone THEN 12 ELSE f.cmd

Dispatched(f) == ~f.crc /\ f.module = "MDMM" /\ f.cmd \in Known

\* A handler called with its data comes back if they are sound.  The one of 31
\* reads them itself; the others may find nobody to notify.
Returns(f, whole) == f.sound \/ ~whole \/ f.cmd # 31
Raises(f, whole) == ~f.sound /\ whole

Logged(i, alone, whole) ==
  Append(log, [frame   |-> i, handler |-> HandlerOf(stream[i], alone),
               whole   |-> whole])

-----------------------------------------------------------------------------
(* Actions.                                                                *)

\* The end of didReadData: the next read is asked for at its last line, and
\* not by the returns before it.
Return(rearm) ==
  /\ pc' = "idle"
  /\ armed' = rearm
  /\ UNCHANGED <<stream, pos, first, cur, mark, split>>

\* An exception: no call is logged, and nothing follows it.
Crash ==
  /\ pc' = "crashed"
  /\ UNCHANGED <<stream, pos, first, cur, mark, armed, log, split>>

\* The STB sends a frame.
Send ==
  /\ Len(stream) < MaxFrames
  /\ \E f \in Frames : stream' = Append(stream, f)
  /\ UNCHANGED <<pos, pc, first, cur, mark, armed, log, split>>

\* Where the next read may end.
Ends ==
  {p \in [frame : pos.frame..Len(stream), byte : {0} \cup Cuts] :
     /\ p.frame > pos.frame \/ p.byte > pos.byte
     /\ p.byte > 0 => p.frame < Len(stream) /\ p.byte < Size(stream[p.frame + 1])}

\* A read that begins with a frame.
Receive ==
  /\ pc = "idle" /\ armed
  /\ pos.byte = 0
  /\ \E p \in Ends :
       /\ pos' = p
       /\ split' = (split \/ p.byte > 0)
  /\ pc' = "first"
  /\ armed' = FALSE
  /\ first' = pos.frame + 1 /\ cur' = pos.frame + 1
  /\ mark' = Len(log)
  /\ UNCHANGED <<stream, log>>

\* [data length] >= 16, for data that begins inside a frame and ends at p.
LongEnough(p) ==
  \/ p.frame = pos.frame /\ p.byte >= pos.byte + 16
  \/ p.frame = pos.frame + 1 /\ Size(stream[p.frame]) + p.byte >= pos.byte + 16
  \/ p.frame > pos.frame + 1

\* A read that begins inside a frame: no module is recognised, and all of it,
\* with the whole frames that follow, is dropped.
ReceiveMidFrame ==
  /\ pc = "idle" /\ armed
  /\ pos.byte > 0
  /\ \E p \in Ends :
       /\ pos' = p
       /\ armed' = LongEnough(p)
  /\ split' = TRUE
  /\ first' = 0 /\ mark' = Len(log)
  /\ UNCHANGED <<stream, pc, cur, log>>

\* The first frame is too short for what is asked of it.
FirstShort ==
  /\ pc = "first"
  /\ ~Have(cur, 16) \/ ~Have(cur, FirstNeeds(stream[cur]))
  /\ Return(FALSE) /\ UNCHANGED log

\* Mutant of FirstCrc: a CRC error is taken for the end of the connection.
FirstCrcGivesUp ==
  /\ pc = "first"
  /\ Have(cur, 16) /\ stream[cur].crc
  /\ Return(FALSE) /\ UNCHANGED log

\* ret = 1: all of the data is dropped.
FirstCrc ==
  /\ pc = "first"
  /\ Have(cur, 16) /\ stream[cur].crc
  /\ Return(TRUE) /\ UNCHANGED log

\* A heartbeat first: the first loop takes what follows it.
FirstBeat ==
  /\ pc = "first"
  /\ Have(cur, 16) /\ ~stream[cur].crc /\ stream[cur].module = "BEAT"
  /\ IF Alone(cur) THEN Return(TRUE)
     ELSE /\ pc' = "beat" /\ cur' = cur + 1
          /\ UNCHANGED <<stream, pos, first, mark, armed, split>>
  /\ UNCHANGED log

\* Mutant of FirstMany: nowData_length starts at the first frame.
FirstManyAgain ==
  LET f == stream[cur]
  IN  /\ pc = "first"
      /\ Have(cur, FirstNeeds(f)) /\ ~f.crc /\ f.module = "MDMM" /\ ~Alone(cur)
      /\ log' = IF f.cmd \in Known THEN Logged(cur, FALSE, TRUE) ELSE log
      /\ pc' = "mdmm"
      /\ UNCHANGED <<stream, pos, first, cur, mark, armed, split>>

\* A command first and more after it: it is dispatched, and the second loop
\* takes what follows it.
FirstMany ==
  LET f == stream[cur]
  IN  /\ pc = "first"
      /\ Have(cur, FirstNeeds(f)) /\ ~f.crc /\ f.module = "MDMM" /\ ~Alone(cur)
      /\ \/ /\ Returns(f, TRUE)
            /\ log' = IF f.cmd \in Known THEN Logged(cur, FALSE, TRUE) ELSE log
            /\ pc' = "mdmm" /\ cur' = cur + 1
            /\ UNCHANGED <<stream, pos, first, mark, armed, split>>
         \/ Raises(f, TRUE) /\ Crash

\* A command and nothing after it, whole or not.  Its handler returns early, or
\* slices past the end (NSRangeException), or is given what there is and may
\* raise on it.
FirstAlone ==
  LET f     == stream[cur]
      whole == Have(cur, Uses(f))
  IN  /\ pc = "first"
      /\ Have(cur, FirstNeeds(f)) /\ ~f.crc /\ f.module = "MDMM" /\ Alone(cur)
      /\ \/ /\ f.cmd \notin Known
            /\ Return(TRUE) /\ UNCHANGED log
         \/ /\ f.cmd \in Known
            /\ whole \/ f.cmd \notin Status \cup Addressed \cup {39}
            /\ Returns(f, whole)
            /\ Return(TRUE) /\ log' = Logged(cur, TRUE, whole)
         \/ /\ ~whole
            /\ f.cmd \in Status \cup {39} \/ (f.cmd \in Addressed /\ ~Have(cur, f.n))
            /\ Return(TRUE) /\ UNCHANGED log
         \/ /\ ~whole /\ f.cmd \in Addressed /\ Have(cur, f.n)
            /\ Crash
         \/ Raises(f, whole) /\ Crash

\* The condition of the loop: the first one asks for 28 bytes, the second for 1.
More == Have(cur, IF pc = "beat" THEN HeaderSize ELSE 1)

LoopEnds ==
  /\ pc \in {"beat", "mdmm"}
  /\ ~More
  /\ Return(TRUE) /\ UNCHANGED log

\* An iteration that asks for more than there is.
LoopShort ==
  /\ pc \in {"beat", "mdmm"}
  /\ More
  /\ ~Have(cur, 16) \/ ~Have(cur, Needs(stream[cur], pc))
  /\ Return(FALSE) /\ UNCHANGED log

\* Mutants of LoopSkips: a heartbeat is not stepped over; it is stepped over
\* twice, for want of the continue.
LoopSkipsNothing ==
  /\ pc \in {"beat", "mdmm"}
  /\ More /\ Have(cur, Needs(stream[cur], pc))
  /\ ~Dispatched(stream[cur])
  /\ cur' = IF stream[cur].module = "BEAT" THEN cur ELSE cur + 1
  /\ UNCHANGED <<stream, pos, pc, first, mark, armed, log, split>>
LoopSkipsTwo ==
  /\ pc \in {"beat", "mdmm"}
  /\ More /\ Have(cur, Needs(stream[cur], pc))
  /\ ~Dispatched(stream[cur])
  /\ cur' = IF stream[cur].module = "BEAT" THEN cur + 2 ELSE cur + 1
  /\ UNCHANGED <<stream, pos, pc, first, mark, armed, log, split>>

\* An iteration over a heartbeat, a frame with ret = 1 or an unknown command.
LoopSkips ==
  /\ pc \in {"beat", "mdmm"}
  /\ More /\ Have(cur, 16) /\ Have(cur, Needs(stream[cur], pc))
  /\ ~Dispatched(stream[cur])
  /\ cur' = cur + 1
  /\ UNCHANGED <<stream, pos, pc, first, mark, armed, log, split>>

\* An iteration over a command; the first loop gives that of 7 no data.
LoopDispatches ==
  LET f     == stream[cur]
      whole == ~(f.cmd = 7 /\ pc = "beat")
  IN  /\ pc \in {"beat", "mdmm"}
      /\ More /\ Have(cur, Needs(f, pc))
      /\ Dispatched(f)
      /\ \/ /\ Returns(f, whole)
            /\ log' = Logged(cur, FALSE, whole)
            /\ cur' = cur + 1
            /\ UNCHANGED <<stream, pos, pc, first, mark, armed, split>>
         \/ Raises(f, whole) /\ Crash

Parse ==
  \/ FirstShort \/ FirstCrc \/ FirstBeat \/ FirstMany \/ FirstAlone
  \/ LoopEnds \/ LoopShort \/ LoopSkips \/ LoopDispatches

Next == Send \/ Receive \/ ReceiveMidFrame \/ Parse

Spec == Init /\ [][Next]_vars

\* didReadData runs to its end; what has been sent arrives while somebody reads.
Fairness == WF_vars(Parse) /\ WF_vars(Receive \/ ReceiveMidFrame)

FairSpec == Spec /\ Fairness

-----------------------------------------------------------------------------
(* Properties.                                                             *)

\* However reads cut and join the frames, each reply of the STB reaches a
\* handler once at most, and in the order sent: a frame cut in two is not taken
\* up again with its second piece.
InOrderOnce ==
  \A k, l \in 1..Len(log) : k < l => log[k].frame < log[l].frame

\* The handlers called, as the abstract channel sees them: the frame and who
\* got it.  A recording (25) may go to the handler of live channels (12).
Taken == [k \in 1..Len(log) |-> [item |-> log[k].frame, to |-> log[k].handler]]
MayTake(f) == IF f.cmd = 25 THEN {25, 12} ELSE {f.cmd}

\* The two loops over the frames of a read, the branch for a single frame and
\* the pieces of split frames implement an ordered channel that may lose frames
\* but neither repeats, reorders nor invents one, nor gives one to the handler
\* of another command (Singleton.m didReadData).
Channel == INSTANCE Delivery WITH Items <- Frames, Takers <- MayTake,
                                  sent <- stream, given <- Taken
IsDelivery == Channel!Spec

\* The frames of the read that began at first up to frame i, but those of the
\* heartbeat, with a CRC error or of an unknown command.
CommandsUpTo(i) == { j \in first..i : Dispatched(stream[j]) }

\* What a whole read asks to be handled: nothing if the first has a CRC error.
CommandsOfRead == IF stream[first].crc THEN {} ELSE CommandsUpTo(pos.frame)

\* The calls made since the read began, and the frames they were for.
CallsOfRead == (mark + 1)..Len(log)
Called == { log[k].frame : k \in CallsOfRead }

\* To the handler of its command (25 excepted) and with its data (7 excepted).
RightCall(k) ==
  LET c == stream[log[k].frame].cmd
  IN  /\ log[k].handler = c \/ c = 25
      /\ log[k].whole \/ c = 7

\* A read of whole frames, heartbeat first or command first, one frame or many,
\* loses none of its commands, gives each once and in order to its own handler
\* with its data, and asks for the next read - whatever was lost before.
WholeReadIsHandled ==
  pc = "idle" /\ first > 0 /\ pos.byte = 0 =>
    /\ armed
    /\ Called = CommandsOfRead
    /\ \A k, l \in CallsOfRead : k < l => log[k].frame < log[l].frame
    /\ \A k \in CallsOfRead : RightCall(k)

\* The app stops listening only after a read began or ended inside a frame, and
\* what ends it is one of two things: the read it was parsing ended inside a
\* frame, or the frame at the cursor has data that its handler raises on
\* (Singleton.m:2759-2774).  No sequence of whole frames of any kind, in any
\* reads, silences it as long as their data are sound.
StopsForCause ==
  /\ pc = "idle" => armed \/ split
  /\ pc = "crashed" =>
       pos.byte > 0 \/ (cur \in 1..Len(stream) /\ ~stream[cur].sound)

\* As long as no frame is split and no handler raises, every frame sent is taken
\* in: the loops end and come back to read.
TakesAll ==
  \A i \in 1..MaxFrames :
    Len(stream) >= i ~> pos.frame >= i \/ split \/ pc = "crashed"

\* The inductive invariant behind the theorems: what is logged lies before the
\* frame being parsed, and inside what has been received.
IInv ==
  /\ TypeOK /\ InOrderOnce
  /\ pos.byte > 0 => pos.frame < Len(stream)
  /\ Parsing => cur > 0
  /\ \A k \in 1..Len(log) :
       /\ Parsing => log[k].frame < cur
       /\ log[k].frame < pos.frame + IF pos.byte > 0 THEN 2 ELSE 1

\* And the one behind StopsForCause: the first frame of a read that ends with a
\* frame is whole, and until a frame is split the app is listening or about to.
ListensInv ==
  /\ ~split => pos.byte = 0
  /\ pc = "first" /\ pos.byte = 0 => cur <= pos.frame
  /\ StopsForCause

\* The one behind WholeReadIsHandled, for a read of whole frames: the calls are
\* those for the commands before the cursor, which never passes the end by more
\* than a step.
ReadInv ==
  first > 0 /\ pos.byte = 0 =>
    /\ first <= pos.frame
    /\ \A k \in CallsOfRead : RightCall(k)
    /\ pc = "first" => cur = first /\ CallsOfRead = {}
    /\ pc \in {"beat", "mdmm"} =>
         /\ ~stream[first].crc
         /\ cur \in (first + 1)..(pos.frame + 1)
         /\ Called = CommandsUpTo(cur - 1)
    /\ pc = "idle" => armed /\ Called = CommandsOfRead

\* Singleton.m:591 "information on playing a recording": the answer for a
\* recording (25) goes to the handler of recordings.
RecordingIsPlayed ==
  \A k \in 1..Len(log) : stream[log[k].frame].cmd = 25 => log[k].handler = 25

\* Singleton.m:806 "CA scrambling notice, take the dialog away": who takes the
\* dialog away gets the bytes that say so.
CaDialogIsRemoved ==
  \A k \in 1..Len(log) : log[k].handler = 7 => log[k].whole

\* At least one of the two comments is true; the run that refutes it breaks both
\* with one read.
RecordingOrDialog == RecordingIsPlayed \/ CaDialogIsRemoved

=============================================================================
