-------------------------- MODULE FrameParserProofs --------------------------
(***************************************************************************)
(* Theorems about FrameParser, for every set of frames the STB may send,   *)
(* every place a read may end at, and streams of every length.             *)
(***************************************************************************)
EXTENDS FrameParser, SequenceTheorems, TLAPS

Calls(n) == [frame : 1..n, handler : 0..255, whole : BOOLEAN]

\* What the constants and the type invariant say of the frames of a stream.
LEMMA FrameFacts ==
  ASSUME NEW i, stream \in Seq(Frames), i \in 1..Len(stream)
  PROVE  /\ stream[i] \in Frames
         /\ stream[i].n \in Nat /\ stream[i].cmd \in 0..255
         /\ Size(stream[i]) \in Nat
<1>1. stream[i] \in Frames
  OBVIOUS
<1>2. stream[i] \in [module : {"BEAT", "MDMM"}, crc : BOOLEAN,
                     cmd : 0..255, n : Nat, sound : BOOLEAN]
  BY <1>1, FrameAssumption DEF FrameAssumption
<1>. QED
  BY <1>1, <1>2 DEF Size, HeaderSize

\* Whatever handler is chosen, it is that of some command.
LEMMA HandlerType ==
  ASSUME NEW f, f.cmd \in 0..255, NEW alone \in BOOLEAN
  PROVE  HandlerOf(f, alone) \in 0..255
<1>1. CASE f.cmd = 25 /\ ~alone
  BY <1>1 DEF HandlerOf
<1>2. CASE ~(f.cmd = 25 /\ ~alone)
  BY <1>2 DEF HandlerOf
<1>. QED
  BY <1>1, <1>2

\* What the type invariant says of the log and of the place of the cursor.
LEMMA LogFacts ==
  ASSUME IInv
  PROVE  /\ stream \in Seq(Frames) /\ Len(stream) \in Nat
         /\ log \in Seq(Calls(Len(stream))) /\ Len(log) \in Nat
         /\ \A k \in 1..Len(log) : log[k].frame \in Nat
         /\ pos.frame \in 0..Len(stream) /\ pos.frame \in Nat /\ pos.byte \in Nat
         /\ cur \in Nat /\ mark \in 0..Len(log)
<1>1. /\ stream \in Seq(Frames) /\ cur \in Nat /\ mark \in 0..Len(log)
      /\ pos \in [frame : 0..Len(stream), byte : Nat]
      /\ log \in Seq(Calls(Len(stream)))
  BY DEF IInv, TypeOK, Calls
<1>2. Len(stream) \in Nat /\ Len(log) \in Nat
  BY <1>1
<1>3. \A k \in 1..Len(log) : log[k] \in Calls(Len(stream))
  BY <1>1
<1>4. \A k \in 1..Len(log) : log[k].frame \in Nat
  BY <1>2, <1>3 DEF Calls
<1>5. pos.frame \in 0..Len(stream) /\ pos.byte \in Nat
  BY <1>1
<1>6. pos.frame \in Nat
  BY <1>2, <1>5
<1>. QED
  BY <1>1, <1>2, <1>4, <1>5, <1>6

\* A frame of which some byte is in the data is one that has been sent, and
\* lies no further than the frame a read may have cut.
LEMMA HaveBounds ==
  ASSUME IInv, Parsing, NEW k \in Nat \ {0}, Have(cur, k)
  PROVE  /\ cur \in 1..Len(stream)
         /\ cur < pos.frame + IF pos.byte > 0 THEN 2 ELSE 1
<1>1. /\ cur \in Nat /\ cur > 0 /\ pos.frame \in 0..Len(stream)
      /\ pos.byte \in Nat /\ Len(stream) \in Nat
      /\ pos.byte > 0 => pos.frame < Len(stream)
  BY DEF IInv, TypeOK
<1>2. CASE cur <= pos.frame
  BY <1>1, <1>2
<1>3. CASE cur = pos.frame + 1 /\ k <= pos.byte
  BY <1>1, <1>3
<1>. QED
  BY <1>1, <1>2, <1>3 DEF Have

\* What is asked for is at least one byte.
LEMMA AskedSomething ==
  ASSUME IInv, Parsing
  PROVE  /\ More => \E k \in Nat \ {0} : Have(cur, k)
         /\ FirstNeeds(stream[cur]) \in Nat \ {0}
<1>1. More => \E k \in Nat \ {0} : Have(cur, k)
  BY DEF More, HeaderSize
<1>. QED
  BY <1>1 DEF FirstNeeds

\* Logging one more call of the frame being parsed keeps the log in its type.
LEMMA LoggedType ==
  ASSUME IInv, cur \in 1..Len(stream), NEW alone \in BOOLEAN,
         NEW whole \in BOOLEAN
  PROVE  /\ Logged(cur, alone, whole) \in Seq(Calls(Len(stream)))
         /\ Len(Logged(cur, alone, whole)) = Len(log) + 1
         /\ Logged(cur, alone, whole)[Len(log) + 1].frame = cur
         /\ \A k \in 1..Len(log) : Logged(cur, alone, whole)[k] = log[k]
<1> DEFINE c == [frame |-> cur, handler |-> HandlerOf(stream[cur], alone),
                 whole |-> whole]
<1>1. HandlerOf(stream[cur], alone) \in 0..255
  BY FrameFacts, LogFacts, HandlerType
<1>2. c \in Calls(Len(stream)) /\ c.frame = cur
  BY <1>1 DEF Calls
<1>3. log \in Seq(Calls(Len(stream)))
  BY LogFacts
<1>4. Logged(cur, alone, whole) = Append(log, c)
  BY DEF Logged
<1> HIDE DEF c
<1>. QED
  BY <1>2, <1>3, <1>4

\* A step that stops parsing, or goes on to the next frame, without a call.
LEMMA QuietStep ==
  ASSUME IInv, Parsing,
         UNCHANGED <<stream, pos, first, mark, log, split>>, armed' \in BOOLEAN,
         \/ pc' \in {"idle", "crashed"} /\ cur' = cur
         \/ /\ pc' \in {"beat", "mdmm"} /\ cur' = cur + 1
            /\ \E k \in Nat \ {0} : Have(cur, k)
  PROVE  IInv'
<1>1. CASE pc' \in {"idle", "crashed"} /\ cur' = cur
  BY <1>1 DEF IInv, TypeOK, InOrderOnce, Parsing
<1>2. CASE /\ pc' \in {"beat", "mdmm"} /\ cur' = cur + 1
           /\ \E k \in Nat \ {0} : Have(cur, k)
  <2>1. cur \in Nat /\ pos.frame \in Nat /\ pos.byte \in Nat
    BY DEF IInv, TypeOK
  <2>2. cur + 1 <= pos.frame + 2
    BY <1>2, <2>1, HaveBounds
  <2>3. TypeOK'
    BY <1>2, <2>1, <2>2 DEF IInv, TypeOK, Parsing
  <2>4. \A k \in 1..Len(log) : log[k].frame \in Nat
    BY LogFacts
  <2>. QED
    BY <1>2, <2>1, <2>3, <2>4 DEF IInv, InOrderOnce, Parsing
<1>. QED
  BY <1>1, <1>2

\* A step that calls the handler of the frame being parsed: it is the first
\* call for that frame, and no later frame has had one.
LEMMA CallStep ==
  ASSUME IInv, Parsing, NEW k \in Nat \ {0}, Have(cur, k),
         NEW alone \in BOOLEAN, NEW whole \in BOOLEAN,
         log' = Logged(cur, alone, whole),
         UNCHANGED <<stream, pos, first, mark, split>>, armed' \in BOOLEAN,
         \/ pc' = "idle" /\ cur' = cur
         \/ pc' \in {"beat", "mdmm"} /\ cur' = cur + 1
  PROVE  IInv'
<1>1. /\ cur \in 1..Len(stream) /\ Len(stream) \in Nat
      /\ cur < pos.frame + IF pos.byte > 0 THEN 2 ELSE 1
      /\ pos.frame \in Nat /\ pos.byte \in Nat /\ cur \in Nat
      /\ mark \in 0..Len(log) /\ Len(log) \in Nat
  BY HaveBounds, LogFacts
<1>2. /\ log' \in Seq(Calls(Len(stream)))
      /\ Len(log') = Len(log) + 1
      /\ log'[Len(log) + 1].frame = cur
      /\ \A j \in 1..Len(log) : log'[j] = log[j]
  BY <1>1, LoggedType
<1>3. \A j \in 1..Len(log) :
        /\ log[j].frame \in Nat /\ log[j].frame < cur
        /\ log[j].frame < pos.frame + IF pos.byte > 0 THEN 2 ELSE 1
  BY LogFacts DEF IInv
<1>4. \A j \in 1..Len(log') : j \in 1..Len(log) \/ j = Len(log) + 1
  BY <1>1, <1>2
<1>5. TypeOK'
  BY SMTT(30), <1>1, <1>2 DEF IInv, TypeOK, Parsing, Calls
<1>6. InOrderOnce'
  <2> SUFFICES ASSUME NEW i \in 1..Len(log'), NEW j \in 1..Len(log'), i < j
               PROVE  log'[i].frame < log'[j].frame
    BY DEF InOrderOnce
  <2>1. i \in 1..Len(log)
    BY <1>1, <1>2
  <2>2. CASE j = Len(log) + 1
    BY <1>2, <1>3, <2>1, <2>2
  <2>3. CASE j \in 1..Len(log)
    BY <1>2, <2>1, <2>3 DEF IInv, InOrderOnce
  <2>. QED
    BY <1>4, <2>2, <2>3
<1>7. \A j \in 1..Len(log') :
        /\ Parsing' => log'[j].frame < cur'
        /\ log'[j].frame < pos.frame + IF pos.byte > 0 THEN 2 ELSE 1
  <2> SUFFICES ASSUME NEW j \in 1..Len(log')
               PROVE  /\ Parsing' => log'[j].frame < cur'
                      /\ log'[j].frame < pos.frame + IF pos.byte > 0 THEN 2 ELSE 1
    OBVIOUS
  <2>1. /\ log'[j].frame \in Nat /\ log'[j].frame <= cur
        /\ log'[j].frame < pos.frame + IF pos.byte > 0 THEN 2 ELSE 1
    <3>1. CASE j \in 1..Len(log)
      <4>1. /\ log'[j] = log[j]
            /\ log[j].frame \in Nat /\ log[j].frame < cur
            /\ log[j].frame < pos.frame + IF pos.byte > 0 THEN 2 ELSE 1
        BY <1>2, <1>3, <3>1
      <4>. QED
        BY <1>1, <4>1
    <3>2. CASE j = Len(log) + 1
      <4>1. log'[j].frame = cur
        BY <1>2, <3>2
      <4>. QED
        BY <1>1, <4>1
    <3>. QED
      BY <1>4, <3>1, <3>2
  <2>. QED
    BY <1>1, <2>1 DEF Parsing
<1>. QED
  BY <1>1, <1>5, <1>6, <1>7 DEF IInv, Parsing

\* A read takes the log no further, and begins after all that is logged.
LEMMA ReceiveStep ==
  ASSUME IInv, Receive \/ ReceiveMidFrame
  PROVE  IInv'
<1>t. /\ pos.frame \in 0..Len(stream) /\ pos.byte \in Nat /\ Len(stream) \in Nat
      /\ Cuts \subseteq Nat /\ Len(log) \in Nat
      /\ \A k \in 1..Len(log) : log[k].frame \in Nat
      /\ pc = "idle" /\ stream' = stream /\ log' = log
  BY FrameAssumption, LogFacts
  DEF FrameAssumption, Receive, ReceiveMidFrame
<1>1. PICK p \in Ends : pos' = p
  BY DEF Receive, ReceiveMidFrame
<1>2. /\ p \in [frame : pos.frame..Len(stream), byte : {0} \cup Cuts]
      /\ p.frame > pos.frame \/ p.byte > pos.byte
      /\ p.byte > 0 => p.frame < Len(stream)
  BY DEF Ends
<1>3. /\ p \in [frame : 0..Len(stream), byte : Nat]
      /\ p.frame \in Nat /\ p.byte \in Nat /\ p.frame >= pos.frame
  <2>1. p.frame \in pos.frame..Len(stream) /\ p.byte \in {0} \cup Cuts
    BY <1>2
  <2>2. p.frame \in 0..Len(stream) /\ p.frame >= pos.frame /\ p.byte \in Nat
    <3>1. p.byte \in Nat
      <4>1. Cuts \subseteq Nat
        BY <1>t
      <4>2. p.byte = 0 \/ p.byte \in Cuts
        BY <2>1
      <4>3. CASE p.byte = 0
        BY <4>3
      <4>4. CASE p.byte \in Cuts
        BY <4>1, <4>4, Zenon
      <4>. QED
        BY <4>2, <4>3, <4>4, Zenon
    <3>2. pos.frame \in Nat /\ Len(stream) \in Nat
      BY LogFacts
    <3>. QED
      BY <2>1, <3>1, <3>2
  <2>3. p = [frame |-> p.frame, byte |-> p.byte]
    BY <1>2
  <2>. QED
    BY <1>t, <2>2, <2>3
<1>4. \A k \in 1..Len(log) : log[k].frame < p.frame + IF p.byte > 0 THEN 2 ELSE 1
  <2> SUFFICES ASSUME NEW k \in 1..Len(log)
               PROVE  log[k].frame < p.frame + IF p.byte > 0 THEN 2 ELSE 1
    OBVIOUS
  <2>1. log[k].frame < pos.frame + IF pos.byte > 0 THEN 2 ELSE 1
    BY DEF IInv
  <2>. QED
    BY SMTT(30), <1>t, <1>2, <1>3, <2>1
<1>5. CASE Receive
  <2>1. /\ pos.byte = 0 /\ pc' = "first" /\ first' = pos.frame + 1
        /\ cur' = pos.frame + 1 /\ mark' = Len(log)
        /\ armed' \in BOOLEAN /\ split' \in BOOLEAN
    BY <1>5 DEF Receive, IInv, TypeOK
  <2>2. pos.frame + 1 <= Len(stream)
    BY <1>t, <1>2, <1>3, <2>1
  <2>3. TypeOK'
    BY <1>t, <1>1, <1>3, <2>1, <2>2 DEF IInv, TypeOK, Parsing
  <2>4. \A k \in 1..Len(log) : log[k].frame < pos.frame + 1
    BY <2>1 DEF IInv
  <2>. QED
    BY <1>t, <1>1, <1>2, <1>4, <2>1, <2>3, <2>4 DEF IInv, InOrderOnce, Parsing
<1>6. CASE ReceiveMidFrame
  <2>1. /\ pc' = "idle" /\ first' = 0 /\ cur' = cur /\ mark' = Len(log)
        /\ split' \in BOOLEAN
    BY <1>t, <1>6 DEF ReceiveMidFrame
  <2>2. armed' \in BOOLEAN
    BY <1>6 DEF ReceiveMidFrame, LongEnough
  <2>3. TypeOK'
    BY <1>t, <1>1, <1>3, <2>1, <2>2 DEF IInv, TypeOK, Parsing
  <2>. QED
    BY <1>t, <1>1, <1>2, <1>4, <2>1, <2>3 DEF IInv, InOrderOnce, Parsing
<1>. QED
  BY <1>5, <1>6

\* Sending disturbs nothing that has been received.
LEMMA SendStep ==
  ASSUME IInv, Send
  PROVE  IInv'
<1>1. PICK f \in Frames : stream' = Append(stream, f)
  BY DEF Send
<1>2. /\ stream \in Seq(Frames) /\ Len(stream) < MaxFrames /\ MaxFrames \in Nat
      /\ UNCHANGED <<pos, pc, first, cur, mark, armed, log, split>>
  BY FrameAssumption DEF FrameAssumption, Send, IInv, TypeOK
<1>3. /\ stream' \in Seq(Frames) /\ Len(stream') = Len(stream) + 1
      /\ Len(stream) \in Nat
  BY <1>1, <1>2
<1>4. log \in Seq(Calls(Len(stream) + 1))
  <2>1. Calls(Len(stream)) \subseteq Calls(Len(stream) + 1)
    BY <1>3 DEF Calls
  <2>2. log \in Seq(Calls(Len(stream)))
    BY DEF IInv, TypeOK, Calls
  <2>. QED
    BY <2>1, <2>2
<1>5. TypeOK'
  BY <1>2, <1>3, <1>4 DEF IInv, TypeOK, Parsing, Calls
<1>. QED
  BY <1>2, <1>3, <1>5 DEF IInv, TypeOK, InOrderOnce, Parsing

\* Every step of the parser keeps the inductive invariant.
LEMMA ParseStep ==
  ASSUME IInv, Parse
  PROVE  IInv'
<1>t. Parsing /\ armed \in BOOLEAN
  BY DEF Parse, Parsing, FirstShort, FirstCrc, FirstBeat, FirstMany, FirstAlone,
         LoopEnds, LoopShort, LoopSkips, LoopDispatches, IInv, TypeOK
<1>1. CASE FirstShort \/ FirstCrc \/ LoopEnds \/ LoopShort
  BY <1>t, <1>1, QuietStep
  DEF FirstShort, FirstCrc, LoopEnds, LoopShort, Return
<1>2. CASE FirstBeat
  <2>1. /\ Have(cur, 16) /\ UNCHANGED <<stream, pos, first, mark, log, split>>
        /\ \/ pc' = "idle" /\ cur' = cur /\ armed' = TRUE
           \/ pc' = "beat" /\ cur' = cur + 1 /\ armed' = armed
    <3>1. CASE Alone(cur)
      BY <1>2, <3>1 DEF FirstBeat, Return
    <3>2. CASE ~Alone(cur)
      BY <1>2, <3>2 DEF FirstBeat
    <3>. QED
      BY <3>1, <3>2
  <2>2. CASE pc' = "idle"
    BY <1>t, <2>1, <2>2, QuietStep
  <2>3. CASE pc' = "beat"
    <3>1. \E k \in Nat \ {0} : Have(cur, k)
      BY <2>1
    <3>. QED
      BY <1>t, <2>1, <2>3, <3>1, QuietStep
  <2>. QED
    BY <2>1, <2>2, <2>3
<1>3. CASE FirstMany
  <2>1. /\ Have(cur, FirstNeeds(stream[cur]))
        /\ UNCHANGED <<stream, pos, first, mark, armed, split>>
        /\ \/ /\ pc' = "mdmm" /\ cur' = cur + 1
              /\ log' \in {Logged(cur, FALSE, TRUE), log}
           \/ pc' = "crashed" /\ cur' = cur /\ log' = log
    BY <1>3 DEF FirstMany, Crash
  <2>2. CASE pc' = "mdmm"
    BY <1>t, <2>1, <2>2, AskedSomething, CallStep, QuietStep
  <2>3. CASE pc' = "crashed"
    BY <1>t, <2>1, <2>3, QuietStep
  <2>. QED
    BY <2>1, <2>2, <2>3
<1>4. CASE FirstAlone
  <2>1. /\ Have(cur, FirstNeeds(stream[cur]))
        /\ UNCHANGED <<stream, pos, first, cur, mark, split>>
        /\ pc' \in {"idle", "crashed"} /\ armed' \in BOOLEAN
        /\ \/ log' = log
           \/ pc' = "idle" /\ log' = Logged(cur, TRUE, Have(cur, Uses(stream[cur])))
    BY <1>t, <1>4 DEF FirstAlone, Return, Crash
  <2>2. Have(cur, Uses(stream[cur])) \in BOOLEAN
    BY DEF Have
  <2>. QED
    BY <1>t, <2>1, <2>2, AskedSomething, CallStep, QuietStep
<1>5. CASE LoopSkips
  BY <1>t, <1>5, QuietStep DEF LoopSkips
<1>6. CASE LoopDispatches
  <2>1. /\ More /\ pc \in {"beat", "mdmm"}
        /\ UNCHANGED <<stream, pos, first, mark, armed, split>>
        /\ \/ /\ pc' = pc /\ cur' = cur + 1
              /\ log' = Logged(cur, FALSE, ~(stream[cur].cmd = 7 /\ pc = "beat"))
           \/ pc' = "crashed" /\ cur' = cur /\ log' = log
    BY <1>6 DEF LoopDispatches, Crash
  <2>2. CASE pc' = pc /\ cur' = cur + 1
    BY <1>t, <2>1, <2>2, AskedSomething, CallStep
  <2>3. CASE pc' = "crashed" /\ cur' = cur /\ log' = log
    BY <1>t, <2>1, <2>3, QuietStep
  <2>. QED
    BY <2>1, <2>2, <2>3
<1>. QED
  BY <1>1, <1>2, <1>3, <1>4, <1>5, <1>6 DEF Parse

\* The inductive invariant holds in every state.
THEOREM Invariant == Spec => []IInv
<1>1. Init => IInv
  <2> SUFFICES ASSUME Init PROVE IInv
    OBVIOUS
  <2>1. MaxFrames \in Nat
    BY FrameAssumption DEF FrameAssumption
  <2>2. Len(stream) = 0 /\ Len(log) = 0
    BY DEF Init
  <2>3. TypeOK
    <3>1. stream \in Seq(Frames) /\ log \in Seq(Calls(Len(stream)))
      BY DEF Init
    <3>2. pos \in [frame : 0..Len(stream), byte : Nat]
      BY <2>2 DEF Init
    <3>3. ~Parsing
      BY DEF Init, Parsing
    <3>4. /\ pc \in {"idle", "first", "beat", "mdmm", "crashed"}
          /\ armed \in BOOLEAN /\ split \in BOOLEAN
      BY Zenon DEF Init
    <3>5. /\ first \in 0..Len(stream) /\ cur \in Nat /\ mark \in 0..Len(log)
          /\ Len(stream) <= MaxFrames
      BY <2>1, <2>2 DEF Init
    <3>. QED
      BY <3>1, <3>2, <3>3, <3>4, <3>5 DEF TypeOK, Calls
  <2>. QED
    BY <2>2, <2>3 DEF Init, IInv, InOrderOnce, Parsing
<1>2. IInv /\ [Next]_vars => IInv'
  <2> SUFFICES ASSUME IInv, [Next]_vars PROVE IInv'
    OBVIOUS
  <2>1. CASE UNCHANGED vars
    BY <2>1 DEF vars, IInv, TypeOK, InOrderOnce, Parsing
  <2>. QED
    BY <2>1, SendStep, ReceiveStep, ParseStep DEF Next
<1>. QED
  BY <1>1, <1>2, PTL DEF Spec

\* Every variable keeps its type: the cursor never runs more than two frames
\* past what a read has completed, and only frames that were sent are logged.
THEOREM TypeCorrect == Spec => []TypeOK
<1>1. IInv => TypeOK
  BY DEF IInv
<1>. QED
  BY <1>1, Invariant, PTL

\* No reply of the STB is handled twice or out of order, wherever TCP cuts.
THEOREM RepliesInOrderOnce == Spec => []InOrderOnce
<1>1. IInv => InOrderOnce
  BY DEF IInv
<1>. QED
  BY <1>1, Invariant, PTL

-----------------------------------------------------------------------------
(* Whole frames never silence the app.                                     *)

\* A command has the data bytes that its handler looks at.
LEMMA MinDataBounds ==
  ASSUME NEW f, f.cmd \in 0..255
  PROVE  /\ MinData(f.cmd) \in Nat /\ MinData(f.cmd) >= 9
         /\ f.cmd = 7 => MinData(f.cmd) = 13
         /\ f.cmd = 8 => MinData(f.cmd) = 19
         /\ f.cmd = 39 => MinData(f.cmd) = 21
         /\ f.cmd \in Status \cup {6} => MinData(f.cmd) = 10
<1>1. CASE f.cmd = 8
  BY <1>1 DEF MinData, Status
<1>2. CASE f.cmd = 22
  BY <1>2 DEF MinData, Status
<1>3. CASE f.cmd = 39
  BY <1>3 DEF MinData, Status
<1>4. CASE f.cmd = 7
  BY <1>4 DEF MinData, Status
<1>5. CASE f.cmd \in Status \cup {6, 31}
  BY <1>5 DEF MinData, Status
<1>6. CASE f.cmd \notin {8, 22, 39, 7} \cup Status \cup {6, 31}
  BY <1>6 DEF MinData, Status
<1>. QED
  BY <1>1, <1>2, <1>3, <1>4, <1>5, <1>6

\* So that a whole frame has all that is asked of it, first or in a loop.
LEMMA WholeFrameSuffices ==
  ASSUME NEW f \in Frames
  PROVE  /\ 16 <= Size(f) /\ FirstNeeds(f) <= Size(f)
         /\ \A loop : Needs(f, loop) <= Size(f)
         /\ f.module = "MDMM" => Uses(f) <= Size(f)
<1>1. /\ f \in [module : {"BEAT", "MDMM"}, crc : BOOLEAN, cmd : 0..255, n : Nat,
                sound : BOOLEAN]
      /\ f.module # "BEAT" => f.n >= MinData(f.cmd)
  BY FrameAssumption DEF FrameAssumption
<1>2. /\ f.n \in Nat /\ f.cmd \in 0..255 /\ Size(f) = 28 + f.n
  BY <1>1 DEF Size, HeaderSize
<1>3. f.module # "BEAT" => /\ f.n >= 9
                           /\ f.cmd = 7 => f.n >= 13
                           /\ f.cmd = 8 => f.n >= 19
                           /\ f.cmd = 39 => f.n >= 21
                           /\ f.cmd \in Status \cup {6} => f.n >= 10
  BY <1>1, <1>2, MinDataBounds
<1>4. FirstNeeds(f) <= Size(f)
  BY <1>2, <1>3 DEF FirstNeeds
<1>5. \A loop : Needs(f, loop) <= Size(f)
  BY <1>2, <1>3 DEF Needs, HeaderSize
<1>6. f.module = "MDMM" => Uses(f) <= Size(f)
  <2> SUFFICES ASSUME f.module = "MDMM" PROVE Uses(f) <= Size(f)
    OBVIOUS
  <2>1. CASE f.cmd \in {16, 19}
    BY <1>2, <2>1 DEF Uses, Status
  <2>2. CASE f.cmd = 13
    BY <1>2, <2>2 DEF Uses, Status
  <2>3. CASE f.cmd \in Status \cup {6}
    BY <1>2, <1>3, <2>3 DEF Uses, Status
  <2>4. CASE f.cmd = 8
    BY <1>2, <1>3, <2>4 DEF Uses, Status
  <2>5. CASE f.cmd = 39
    BY <1>2, <1>3, <2>5 DEF Uses, Status
  <2>6. CASE f.cmd = 7
    BY <1>2, <1>3, <2>6 DEF Uses, Status
  <2>7. CASE f.cmd \notin {16, 19, 13, 7, 8, 39} \cup Status \cup {6}
    BY <1>2, <2>7 DEF Uses, Status
  <2>. QED
    BY <2>1, <2>2, <2>3, <2>4, <2>5, <2>6, <2>7
<1>. QED
  BY <1>2, <1>4, <1>5, <1>6

\* The data of a read without a split frame has all of the frame at the cursor.
LEMMA WholeFrameIsThere ==
  ASSUME IInv, Parsing, pos.byte = 0, cur <= pos.frame
  PROVE  /\ stream[cur] \in Frames
         /\ \A k \in Nat : k <= Size(stream[cur]) => Have(cur, k)
<1>1. cur \in 1..Len(stream) /\ cur \in Nat /\ pos.frame \in Nat
  BY LogFacts DEF IInv
<1>2. stream[cur] \in Frames /\ Size(stream[cur]) \in Nat
  BY <1>1, LogFacts, FrameFacts
<1>3. cur < pos.frame \/ cur = pos.frame
  BY <1>1
<1>. QED
  BY <1>2, <1>3 DEF Have

\* So nothing that is asked of it is missing.
LEMMA NothingIsShort ==
  ASSUME IInv, Parsing, pos.byte = 0, cur <= pos.frame
  PROVE  /\ Have(cur, 16) /\ Have(cur, FirstNeeds(stream[cur]))
         /\ Have(cur, Needs(stream[cur], pc))
         /\ stream[cur].module = "MDMM" => Have(cur, Uses(stream[cur]))
<1>1. /\ stream[cur] \in Frames
      /\ \A k \in Nat : k <= Size(stream[cur]) => Have(cur, k)
  BY WholeFrameIsThere
<1>2. /\ 16 <= Size(stream[cur]) /\ FirstNeeds(stream[cur]) <= Size(stream[cur])
      /\ Needs(stream[cur], pc) <= Size(stream[cur])
      /\ stream[cur].module = "MDMM" => Uses(stream[cur]) <= Size(stream[cur])
  BY <1>1, WholeFrameSuffices
<1>3. Size(stream[cur]) \in Nat
  BY SMTT(30), LogFacts, FrameFacts DEF IInv
<1>4. FirstNeeds(stream[cur]) \in Nat
  BY DEF FirstNeeds
<1>5. Needs(stream[cur], pc) \in Nat
  BY <1>3 DEF Needs, HeaderSize
<1>6. Uses(stream[cur]) \in {0, 16, 38, 41, 47, 49, Size(stream[cur])}
  BY DEF Uses
<1>. QED
  BY <1>1, <1>2, <1>3, <1>4, <1>5, <1>6

\* Without a split frame a loop goes on only while a frame is left.
LEMMA MoreIsWithin ==
  ASSUME IInv, pos.byte = 0
  PROVE  More => cur <= pos.frame
BY LogFacts DEF More, Have, HeaderSize

\* A frame sent later changes no cause.
LEMMA SendKeepsCause ==
  ASSUME IInv, StopsForCause, Send
  PROVE  StopsForCause'
<1>1. PICK f \in Frames : stream' = Append(stream, f)
  BY DEF Send
<1>2. stream \in Seq(Frames) /\ UNCHANGED <<pos, pc, cur, armed, split>>
  BY LogFacts DEF Send
<1>3. \A i \in 1..Len(stream) : i \in 1..Len(stream') /\ stream'[i] = stream[i]
  BY <1>1, <1>2
<1>. QED
  BY <1>2, <1>3 DEF StopsForCause

\* The call of a handler raises only on data that are not sound.
LEMMA CrashHasCause ==
  ASSUME IInv, Parsing, NEW k \in Nat \ {0}, Have(cur, k),
         pos.byte = 0, UNCHANGED <<stream, pos, cur>>,
         ~stream[cur].sound, pc' = "crashed"
  PROVE  StopsForCause'
<1>1. cur \in 1..Len(stream)
  BY HaveBounds
<1>. QED
  BY <1>1 DEF StopsForCause

\* Until a frame is split, no step finds its data too short.
LEMMA ListensStep ==
  ASSUME IInv, ListensInv, [Next]_vars
  PROVE  ListensInv'
<1>1. CASE UNCHANGED vars
  BY <1>1 DEF vars, ListensInv, StopsForCause
<1>2. CASE Send
  BY <1>2, SendKeepsCause DEF Send, ListensInv
<1>3. CASE Receive
  <2>1. PICK p \in Ends : pos' = p /\ split' = (split \/ p.byte > 0)
    BY <1>3 DEF Receive
  <2>2. /\ p \in [frame : pos.frame..Len(stream), byte : {0} \cup Cuts]
        /\ p.frame > pos.frame \/ p.byte > pos.byte
    BY DEF Ends
  <2>3. p.frame \in Nat /\ pos.frame \in Nat
    <3>1. p.frame \in pos.frame..Len(stream)
      BY <2>2
    <3>2. pos.frame \in Nat /\ Len(stream) \in Nat
      BY LogFacts
    <3>. QED
      BY <3>1, <3>2
  <2>4. p.byte \in Nat
    <3>1. Cuts \subseteq Nat
      BY FrameAssumption DEF FrameAssumption
    <3>2. p.byte = 0 \/ p.byte \in Cuts
      BY <2>2
    <3>3. CASE p.byte = 0
      BY <3>3
    <3>4. CASE p.byte \in Cuts
      BY <3>1, <3>4, Zenon
    <3>. QED
      BY <3>2, <3>3, <3>4, Zenon
  <2>5. pos.byte = 0 /\ pc' = "first" /\ cur' = pos.frame + 1
    BY <1>3 DEF Receive
  <2>6. ~split' => p.byte = 0
    <3>1. ~split' => ~(p.byte > 0)
      BY <2>1, Zenon
    <3>2. ~(p.byte > 0) => p.byte = 0
      BY <2>4
    <3>. QED
      BY <3>1, <3>2
  <2>7. p.byte = 0 => p.frame >= pos.frame + 1
    BY <2>2, <2>3, <2>5
  <2>. QED
    BY <2>1, <2>5, <2>6, <2>7 DEF ListensInv, StopsForCause
<1>4. CASE ReceiveMidFrame
  BY <1>4 DEF ReceiveMidFrame, ListensInv, StopsForCause
<1>5. CASE Parse
  <2>1. /\ Parsing /\ UNCHANGED <<stream, pos, split>>
        /\ pc' # "first"
    BY <1>5 DEF Parse, Parsing, Return, Crash, FirstShort, FirstCrc, FirstBeat,
      FirstMany, FirstAlone, LoopEnds, LoopShort, LoopSkips, LoopDispatches
  <2> SUFFICES StopsForCause'
    BY <2>1 DEF ListensInv
  <2>2. (~split => pos.byte = 0) /\ (pc = "first" /\ pos.byte = 0 => cur <= pos.frame)
    BY DEF ListensInv
  <2>3. ASSUME pos.byte = 0, cur <= pos.frame
        PROVE  /\ Have(cur, 16) /\ Have(cur, FirstNeeds(stream[cur]))
               /\ Have(cur, Needs(stream[cur], pc))
               /\ stream[cur].module = "MDMM" => Have(cur, Uses(stream[cur]))
    BY <2>1, <2>3, NothingIsShort
  <2>4. pos.byte = 0 /\ More => cur <= pos.frame
    BY MoreIsWithin
  <2>5. CASE FirstShort \/ LoopShort
    <3>1. pos.byte # 0 /\ pc' = "idle" /\ split' = split
      BY <2>2, <2>3, <2>4, <2>5 DEF FirstShort, LoopShort, Return
    <3>. QED
      BY <2>2, <3>1 DEF StopsForCause
  <2>6. CASE FirstCrc \/ LoopEnds
    BY <2>6 DEF FirstCrc, LoopEnds, Return, StopsForCause
  <2>7. CASE FirstBeat
    <3>1. CASE Alone(cur)
      BY <2>7, <3>1 DEF FirstBeat, Return, StopsForCause
    <3>2. CASE ~Alone(cur)
      BY <2>7, <3>2 DEF FirstBeat, StopsForCause
    <3>. QED
      BY <3>1, <3>2
  <2>8. CASE LoopSkips
    <3>1. pc' \notin {"idle", "crashed"}
      BY <2>8 DEF LoopSkips
    <3>. QED
      BY <3>1 DEF StopsForCause
  <2>9. ASSUME pc' = "crashed", cur' = cur,
               \/ More /\ ~stream[cur].sound
               \/ Have(cur, FirstNeeds(stream[cur])) /\ ~stream[cur].sound
               \/ pos.byte # 0
        PROVE  StopsForCause'
    <3>1. CASE pos.byte # 0
      <4>1. pos.byte > 0
        BY <3>1, LogFacts
      <4>. QED
        BY <2>1, <2>9, <4>1 DEF StopsForCause
    <3>2. CASE pos.byte = 0
      BY <2>1, <2>9, <3>2, AskedSomething, CrashHasCause
    <3>. QED
      BY <3>1, <3>2
  <2>10. CASE FirstMany
    <3>1. \/ pc' = "mdmm"
          \/ /\ pc' = "crashed" /\ cur' = cur /\ ~stream[cur].sound
             /\ Have(cur, FirstNeeds(stream[cur]))
      BY <2>10 DEF FirstMany, Crash, Raises
    <3>. QED
      BY <2>9, <3>1 DEF StopsForCause
  <2>11. CASE LoopDispatches
    <3>1. \/ pc' \in {"beat", "mdmm"}
          \/ pc' = "crashed" /\ cur' = cur /\ ~stream[cur].sound /\ More
      BY <2>11 DEF LoopDispatches, Crash, Raises
    <3>. QED
      BY <2>9, <3>1 DEF StopsForCause
  <2>12. CASE FirstAlone
    <3>1. pc = "first" /\ stream[cur].module = "MDMM"
      BY <2>12 DEF FirstAlone
    <3>2. pos.byte = 0 => Have(cur, Uses(stream[cur]))
      BY <2>2, <2>3, <3>1
    <3>3. \/ pc' = "idle" /\ armed'
          \/ /\ pc' = "crashed" /\ cur' = cur
             /\ \/ /\ ~stream[cur].sound
                   /\ Have(cur, FirstNeeds(stream[cur]))
                \/ ~Have(cur, Uses(stream[cur]))
      BY <2>12 DEF FirstAlone, Return, Crash, Raises
    <3>. QED
      BY <2>9, <3>2, <3>3 DEF StopsForCause
  <2>. QED
    BY <1>5, <2>5, <2>6, <2>7, <2>8, <2>10, <2>11, <2>12 DEF Parse
<1>. QED
  BY <1>1, <1>2, <1>3, <1>4, <1>5 DEF Next

\* Whole frames of any kind, joined in reads in any way, neither silence the app
\* nor end it, unless a handler raises on the data of one.
THEOREM ListensUntilSplit == Spec => []StopsForCause
<1>1. Init => ListensInv
  BY DEF Init, ListensInv, StopsForCause
<1>2. IInv /\ ListensInv /\ [Next]_vars => ListensInv'
  BY ListensStep
<1>3. ListensInv => StopsForCause
  BY DEF ListensInv
<1>. QED
  BY <1>1, <1>2, <1>3, Invariant, PTL DEF Spec

-----------------------------------------------------------------------------
(* A read of whole frames loses no command.                                *)

\* One frame more adds that frame to the commands, if it is one.
LEMMA OneFrameMore ==
  ASSUME NEW i \in Nat, first \in Nat, first <= i
  PROVE  CommandsUpTo(i) = IF Dispatched(stream[i]) THEN CommandsUpTo(i - 1) \cup {i}
                           ELSE CommandsUpTo(i - 1)
<1>1. first..i = (first..(i - 1)) \cup {i}
  OBVIOUS
<1>. QED
  BY <1>1 DEF CommandsUpTo

\* When the cursor moves on, the commands before it are those up to the frame
\* it leaves.
LEMMA CursorMoves ==
  ASSUME cur \in Nat, cur' = cur + 1, UNCHANGED <<stream, first>>
  PROVE  CommandsUpTo(cur - 1)' = CommandsUpTo(cur)
<1>1. cur' - 1 = cur
  OBVIOUS
<1>. QED
  BY <1>1 DEF CommandsUpTo

\* A step that makes no call.
LEMMA SameCalls ==
  ASSUME UNCHANGED <<stream, pos, first, mark, log>>
  PROVE  /\ CallsOfRead' = CallsOfRead /\ Called' = Called
         /\ CommandsOfRead' = CommandsOfRead
         /\ \A k : RightCall(k)' = RightCall(k)
         /\ \A i : CommandsUpTo(i)' = CommandsUpTo(i)
BY DEF CallsOfRead, Called, CommandsOfRead, CommandsUpTo, RightCall

\* A step that calls the handler of the frame at the cursor.
LEMMA OneCallMore ==
  ASSUME IInv, cur \in 1..Len(stream), NEW alone \in BOOLEAN, NEW whole \in BOOLEAN,
         log' = Logged(cur, alone, whole), UNCHANGED <<stream, pos, first, mark>>,
         whole \/ stream[cur].cmd = 7,
         \A k \in CallsOfRead : RightCall(k)
  PROVE  /\ Called' = Called \cup {cur}
         /\ \A k \in CallsOfRead' : RightCall(k)'
         /\ CommandsOfRead' = CommandsOfRead
         /\ \A i : CommandsUpTo(i)' = CommandsUpTo(i)
<1> DEFINE n == Len(log)
           c == [frame |-> cur, handler |-> HandlerOf(stream[cur], alone),
                 whole |-> whole]
<1>1. /\ log \in Seq(Calls(Len(stream))) /\ n \in Nat /\ mark \in 0..n
  BY LogFacts
<1>2. log' = Append(log, c)
  BY DEF Logged
<1>3. /\ c.frame = cur
      /\ c.handler = stream[cur].cmd \/ stream[cur].cmd = 25
      /\ c.whole \/ stream[cur].cmd = 7
  BY DEF HandlerOf
<1> HIDE DEF c
<1>4. Len(log') = n + 1 /\ log'[n + 1] = c /\ \A k \in 1..n : log'[k] = log[k]
  BY <1>1, <1>2
<1> HIDE DEF n
<1>5. /\ CallsOfRead = (mark + 1)..n
      /\ CallsOfRead' = CallsOfRead \cup {n + 1}
      /\ CallsOfRead \subseteq 1..n
  BY <1>1, <1>4 DEF CallsOfRead, n
<1>6. Called' = Called \cup {cur}
  BY <1>3, <1>4, <1>5 DEF Called
<1>7. \A k \in CallsOfRead' : RightCall(k)'
  BY <1>3, <1>4, <1>5 DEF RightCall
<1>. QED
  BY <1>6, <1>7 DEF CommandsOfRead, CommandsUpTo

\* A new read has made no call yet, and begins with a whole frame if it ends
\* with one.
LEMMA ReadBegins ==
  ASSUME IInv, Receive
  PROVE  ReadInv'
<1>1. PICK p \in Ends : pos' = p
  BY DEF Receive
<1>2. /\ pc' = "first" /\ first' = pos.frame + 1 /\ cur' = pos.frame + 1
      /\ mark' = Len(log) /\ log' = log /\ pos.byte = 0
  BY DEF Receive
<1>3. p.frame \in pos.frame..Len(stream) /\ (p.frame > pos.frame \/ p.byte > pos.byte)
  BY DEF Ends
<1>4. pos.frame \in Nat /\ Len(stream) \in Nat /\ Len(log) \in Nat
  BY LogFacts
<1>5. p.byte = 0 => pos.frame + 1 <= p.frame
  BY <1>2, <1>3, <1>4
<1>6. CallsOfRead' = {}
  BY <1>2, <1>4 DEF CallsOfRead
<1>. QED
  BY <1>1, <1>2, <1>5, <1>6 DEF ReadInv

\* Frames sent later are not part of the read.
LEMMA SendKeepsRead ==
  ASSUME IInv, ReadInv, Send
  PROVE  ReadInv'
<1>1. PICK f \in Frames : stream' = Append(stream, f)
  BY DEF Send
<1>2. UNCHANGED <<pos, pc, first, cur, mark, armed, log>>
  BY DEF Send
<1>3. /\ stream \in Seq(Frames) /\ Len(stream) \in Nat /\ first \in Nat
      /\ pos.frame \in 0..Len(stream) /\ log \in Seq(Calls(Len(stream)))
      /\ mark \in 0..Len(log) /\ Len(log) \in Nat /\ cur \in Nat
  BY LogFacts DEF IInv, TypeOK
<1>4. \A i \in 1..Len(stream) : stream'[i] = stream[i]
  BY <1>1, <1>3
<1>5. \A i \in 0..pos.frame : first > 0 => CommandsUpTo(i)' = CommandsUpTo(i)
  BY <1>2, <1>3, <1>4 DEF CommandsUpTo
<1>6. CallsOfRead' = CallsOfRead /\ Called' = Called
  BY <1>2 DEF CallsOfRead, Called
<1>7. \A k \in CallsOfRead : RightCall(k)' = RightCall(k)
  <2> SUFFICES ASSUME NEW k \in CallsOfRead PROVE RightCall(k)' = RightCall(k)
    OBVIOUS
  <2>1. k \in 1..Len(log)
    BY <1>3 DEF CallsOfRead
  <2>2. log[k] \in Calls(Len(stream))
    BY <1>3, <2>1
  <2>3. log[k].frame \in 1..Len(stream)
    BY <2>2 DEF Calls
  <2>. QED
    BY <1>2, <1>4, <2>3 DEF RightCall
<1>8. first > 0 /\ first <= pos.frame => /\ stream'[first] = stream[first]
                                         /\ CommandsOfRead' = CommandsOfRead
  BY <1>2, <1>3, <1>4, <1>5 DEF CommandsOfRead
<1>9. cur \in (first + 1)..(pos.frame + 1) => cur - 1 \in 0..pos.frame
  BY <1>3
<1>. QED
  BY <1>2, <1>5, <1>6, <1>7, <1>8, <1>9 DEF ReadInv

\* No step of the parser loses a command of a read of whole frames.
LEMMA ParseKeepsRead ==
  ASSUME IInv, ReadInv, Parse
  PROVE  ReadInv'
<1>1. Parsing /\ UNCHANGED <<stream, pos, first, mark>>
  BY DEF Parse, Parsing, Return, Crash, FirstShort, FirstCrc, FirstBeat,
    FirstMany, FirstAlone, LoopEnds, LoopShort, LoopSkips, LoopDispatches
<1> SUFFICES ASSUME first > 0, pos.byte = 0
             PROVE  ReadInv'
  BY <1>1 DEF ReadInv
<1>2. /\ first \in Nat /\ cur \in Nat /\ pos.frame \in Nat
      /\ pos.frame \in 0..Len(stream) /\ Len(stream) \in Nat
  BY LogFacts DEF IInv, TypeOK
<1>3. /\ first <= pos.frame
      /\ \A k \in CallsOfRead : RightCall(k)
      /\ pc = "first" => cur = first /\ CallsOfRead = {} /\ Called = {}
      /\ pc \in {"beat", "mdmm"} =>
           /\ ~stream[first].crc
           /\ cur \in (first + 1)..(pos.frame + 1)
           /\ Called = CommandsUpTo(cur - 1)
  BY DEF ReadInv, Called
<1>4. ASSUME cur <= pos.frame
      PROVE  /\ Have(cur, 16) /\ Have(cur, FirstNeeds(stream[cur]))
             /\ Have(cur, Needs(stream[cur], pc))
             /\ stream[cur].module = "MDMM" => Have(cur, Uses(stream[cur]))
  BY <1>1, <1>4, NothingIsShort
<1>5. pc \in {"beat", "mdmm"} => (More <=> cur <= pos.frame)
  <2>1. ASSUME cur <= pos.frame PROVE Have(cur, HeaderSize) /\ Have(cur, 1)
    <3>1. stream[cur] \in Frames
      BY <1>1, <2>1, WholeFrameIsThere
    <3>2. stream[cur].n \in Nat
      BY <3>1, FrameAssumption DEF FrameAssumption
    <3>3. HeaderSize <= Size(stream[cur]) /\ 1 <= Size(stream[cur])
      BY <3>2 DEF Size, HeaderSize
    <3>4. HeaderSize \in Nat
      BY DEF HeaderSize
    <3>. QED
      BY <1>1, <2>1, <3>3, <3>4, WholeFrameIsThere
  <2>. QED
    BY <2>1, MoreIsWithin DEF More
\* When the first frame is alone in the data it is the whole read.
<1>6. pc = "first" => (Alone(cur) <=> pos.frame = first)
  BY <1>2, <1>3 DEF Alone
<1>7. /\ CommandsUpTo(first - 1) = {}
      /\ CommandsUpTo(first) = IF Dispatched(stream[first]) THEN {first} ELSE {}
  <2>1. CommandsUpTo(first - 1) = {}
    BY <1>2 DEF CommandsUpTo
  <2>. QED
    BY <1>2, <2>1, OneFrameMore
\* A handler that raises leaves the calls as they are.
<1>0. ASSUME Crash, log' = log
      PROVE  ReadInv'
  BY <1>0, <1>1, <1>3, SameCalls DEF Crash, ReadInv
<1>8. CASE FirstShort \/ LoopShort
  BY <1>3, <1>4, <1>5, <1>8 DEF FirstShort, LoopShort
<1>9. CASE FirstCrc
  <2>1. /\ pc = "first" /\ pc' = "idle" /\ armed' = TRUE /\ log' = log
        /\ stream[cur].crc
    BY <1>9 DEF FirstCrc, Return
  <2>2. CommandsOfRead = {}
    BY <1>3, <2>1 DEF CommandsOfRead
  <2>. QED
    BY <1>1, <1>3, <2>1, <2>2, SameCalls DEF ReadInv
<1>10. CASE FirstBeat
  <2>1. /\ pc = "first" /\ log' = log
        /\ ~stream[first].crc /\ ~Dispatched(stream[first])
    <3>1. CASE Alone(cur)
      BY <1>3, <1>10, <3>1 DEF FirstBeat, Dispatched
    <3>2. CASE ~Alone(cur)
      BY <1>3, <1>10, <3>2 DEF FirstBeat, Dispatched
    <3>. QED
      BY <3>1, <3>2
  <2>2. CASE Alone(cur)
    <3>1. pc' = "idle" /\ armed' = TRUE
      BY <1>10, <2>2 DEF FirstBeat, Return
    <3>2. CommandsOfRead = {}
      BY <1>6, <1>7, <2>1, <2>2 DEF CommandsOfRead
    <3>. QED
      BY <1>1, <1>3, <2>1, <3>1, <3>2, SameCalls DEF ReadInv
  <2>3. CASE ~Alone(cur)
    <3>1. pc' = "beat" /\ cur' = first + 1
      BY <1>3, <1>10, <2>1, <2>3 DEF FirstBeat
    <3>2. cur' \in (first + 1)..(pos.frame + 1)
      BY <1>2, <1>3, <3>1
    <3>3. Called' = CommandsUpTo(cur - 1)'
      BY <1>1, <1>2, <1>3, <1>7, <2>1, <3>1, SameCalls, CursorMoves
    <3>. QED
      BY <1>1, <1>3, <2>1, <3>1, <3>2, <3>3, SameCalls DEF ReadInv
  <2>. QED
    BY <2>2, <2>3
<1>11. CASE FirstMany /\ pc' # "crashed"
  <2>1. /\ pc = "first" /\ pc' = "mdmm" /\ cur' = first + 1 /\ cur = first
        /\ ~stream[first].crc /\ stream[first].module = "MDMM"
        /\ log' = IF stream[cur].cmd \in Known THEN Logged(cur, FALSE, TRUE) ELSE log
    BY <1>3, <1>11 DEF FirstMany, Crash
  <2>2. cur' \in (first + 1)..(pos.frame + 1)
    BY <1>2, <1>3, <2>1
  <2>3. CommandsUpTo(cur - 1)' = CommandsUpTo(first)
    BY <1>1, <1>2, <2>1, CursorMoves
  <2>4. CASE Dispatched(stream[first])
    <3>1. log' = Logged(cur, FALSE, TRUE)
      BY <2>1, <2>4 DEF Dispatched
    <3>2. cur \in 1..Len(stream)
      BY <1>2, <1>3, <2>1
    <3>3. Called' = Called \cup {cur} /\ \A k \in CallsOfRead' : RightCall(k)'
      BY <1>1, <1>3, <3>1, <3>2, OneCallMore
    <3>4. Called' = CommandsUpTo(cur - 1)'
      BY <1>3, <1>7, <2>1, <2>3, <2>4, <3>3
    <3>. QED
      BY <1>1, <1>3, <2>1, <2>2, <3>3, <3>4 DEF ReadInv
  <2>5. CASE ~Dispatched(stream[first])
    <3>1. log' = log
      BY <2>1, <2>5 DEF Dispatched
    <3>2. Called' = CommandsUpTo(cur - 1)'
      BY <1>1, <1>3, <1>7, <2>1, <2>3, <2>5, <3>1, SameCalls
    <3>. QED
      BY <1>1, <1>3, <2>1, <2>2, <3>1, <3>2, SameCalls DEF ReadInv
  <2>. QED
    BY <2>4, <2>5
<1>12. CASE FirstAlone /\ pc' # "crashed"
  <2>1. /\ pc = "first" /\ cur = first /\ Alone(cur)
        /\ ~stream[first].crc /\ stream[first].module = "MDMM"
    BY <1>3, <1>12 DEF FirstAlone
  <2>2. Have(cur, Uses(stream[cur]))
    BY <1>3, <1>4, <2>1
  <2>3. /\ pc' = "idle" /\ armed' = TRUE
        /\ IF stream[cur].cmd \in Known THEN log' = Logged(cur, TRUE, TRUE)
           ELSE log' = log
    BY <1>12, <2>2, FrameFacts DEF FirstAlone, Return, Crash
  <2>4. CommandsOfRead = IF Dispatched(stream[first]) THEN {first} ELSE {}
    BY <1>6, <1>7, <2>1 DEF CommandsOfRead
  <2>5. CASE Dispatched(stream[first])
    <3>1. log' = Logged(cur, TRUE, TRUE)
      BY <2>1, <2>3, <2>5 DEF Dispatched
    <3>2. cur \in 1..Len(stream)
      BY <1>2, <1>3, <2>1
    <3>3. /\ Called' = Called \cup {cur} /\ \A k \in CallsOfRead' : RightCall(k)'
          /\ CommandsOfRead' = CommandsOfRead
      BY <1>1, <1>3, <3>1, <3>2, OneCallMore
    <3>. QED
      BY <1>1, <1>3, <2>1, <2>3, <2>4, <2>5, <3>3 DEF ReadInv
  <2>6. CASE ~Dispatched(stream[first])
    <3>1. log' = log
      BY <2>1, <2>3, <2>6 DEF Dispatched
    <3>. QED
      BY <1>1, <1>3, <2>1, <2>3, <2>4, <2>6, <3>1, SameCalls DEF ReadInv
  <2>. QED
    BY <2>5, <2>6
<1>13. CASE LoopEnds
  <2>1. /\ pc \in {"beat", "mdmm"} /\ ~(cur <= pos.frame)
        /\ pc' = "idle" /\ armed' = TRUE /\ log' = log
    BY <1>5, <1>13 DEF LoopEnds, Return
  <2>2. cur - 1 = pos.frame
    BY <1>2, <1>3, <2>1
  <2>3. Called = CommandsOfRead
    BY <1>3, <2>1, <2>2 DEF CommandsOfRead
  <2>. QED
    BY <1>1, <1>3, <2>1, <2>3, SameCalls DEF ReadInv
<1>14. CASE LoopSkips
  <2>1. /\ pc \in {"beat", "mdmm"} /\ cur <= pos.frame /\ pc' = pc
        /\ cur' = cur + 1 /\ log' = log /\ ~Dispatched(stream[cur])
    BY <1>5, <1>14 DEF LoopSkips
  <2>2. cur' \in (first + 1)..(pos.frame + 1) /\ first <= cur
    BY <1>2, <1>3, <2>1
  <2>3. CommandsUpTo(cur) = CommandsUpTo(cur - 1)
    BY <1>2, <2>1, <2>2, OneFrameMore
  <2>4. Called' = CommandsUpTo(cur - 1)'
    BY <1>1, <1>2, <1>3, <2>1, <2>3, SameCalls, CursorMoves
  <2>. QED
    BY <1>1, <1>3, <2>1, <2>2, <2>4, SameCalls DEF ReadInv
<1>15. CASE LoopDispatches /\ pc' # "crashed"
  <2> DEFINE whole == ~(stream[cur].cmd = 7 /\ pc = "beat")
  <2>1. /\ pc \in {"beat", "mdmm"} /\ cur <= pos.frame /\ pc' = pc
        /\ cur' = cur + 1 /\ log' = Logged(cur, FALSE, whole)
        /\ Dispatched(stream[cur])
    BY <1>5, <1>15 DEF LoopDispatches, Crash
  <2>2. whole \in BOOLEAN /\ (whole \/ stream[cur].cmd = 7)
    OBVIOUS
  <2> HIDE DEF whole
  <2>3. /\ cur' \in (first + 1)..(pos.frame + 1) /\ first <= cur
        /\ cur \in 1..Len(stream)
    BY <1>2, <1>3, <2>1
  <2>4. Called' = Called \cup {cur} /\ \A k \in CallsOfRead' : RightCall(k)'
    BY <1>1, <1>3, <2>1, <2>2, <2>3, OneCallMore
  <2>5. CommandsUpTo(cur) = CommandsUpTo(cur - 1) \cup {cur}
    BY <1>2, <2>1, <2>3, OneFrameMore
  <2>6. Called' = CommandsUpTo(cur - 1)'
    BY <1>1, <1>2, <1>3, <2>1, <2>4, <2>5, CursorMoves
  <2>. QED
    BY <1>1, <1>3, <2>1, <2>3, <2>4, <2>6 DEF ReadInv
<1>16. CASE (FirstMany \/ FirstAlone \/ LoopDispatches) /\ pc' = "crashed"
  <2>1. log' = log /\ Crash
    BY <1>1, <1>16 DEF FirstMany, FirstAlone, LoopDispatches, Crash, Return, Parsing
  <2>. QED
    BY <1>0, <2>1
<1>. QED
  BY <1>8, <1>9, <1>10, <1>11, <1>12, <1>13, <1>14, <1>15, <1>16 DEF Parse

\* A read of whole frames, wherever it begins in the stream, loses none of its
\* commands: each reaches its own handler once, in order and with its data, and
\* the next read is asked for (Singleton.m didReadData).
THEOREM WholeReadsLoseNothing == Spec => []WholeReadIsHandled
<1>1. Init => ReadInv
  BY DEF Init, ReadInv
<1>2. IInv /\ ReadInv /\ [Next]_vars => ReadInv'
  <2> SUFFICES ASSUME IInv, ReadInv, [Next]_vars PROVE ReadInv'
    OBVIOUS
  <2>1. CASE ReceiveMidFrame
    BY <2>1 DEF ReceiveMidFrame, ReadInv
  <2>2. CASE UNCHANGED vars
    <3>1. UNCHANGED <<stream, pos, pc, first, cur, mark, armed, log>>
      BY <2>2 DEF vars
    <3>2. CommandsUpTo(cur - 1)' = CommandsUpTo(cur - 1)
      BY <3>1 DEF CommandsUpTo
    <3>. QED
      BY <3>1, <3>2, SameCalls DEF ReadInv
  <2>. QED
    BY <2>1, <2>2, ReadBegins, SendKeepsRead, ParseKeepsRead DEF Next
<1>3. IInv /\ ReadInv => WholeReadIsHandled
  <2> SUFFICES ASSUME IInv, ReadInv,
                      pc = "idle", first > 0, pos.byte = 0
               PROVE  /\ armed /\ Called = CommandsOfRead
                      /\ \A k, l \in CallsOfRead :
                           k < l => log[k].frame < log[l].frame
                      /\ \A k \in CallsOfRead : RightCall(k)
    BY DEF WholeReadIsHandled
  <2>1. CallsOfRead \subseteq 1..Len(log)
    BY LogFacts DEF CallsOfRead, IInv, TypeOK
  <2>. QED
    BY <2>1 DEF ReadInv, IInv, InOrderOnce
<1>. QED
  BY <1>1, <1>2, <1>3, Invariant, PTL DEF Spec

-----------------------------------------------------------------------------
(* The parser implements the lossy ordered channel of Delivery.            *)

\* A call of the handler of the frame being parsed is a delivery: nothing later
\* has been given, and the handler is one that may take the frame.
LEMMA CallDelivers ==
  ASSUME IInv, Parsing, NEW k \in Nat \ {0}, Have(cur, k),
         NEW alone \in BOOLEAN, NEW whole \in BOOLEAN,
         log' = Logged(cur, alone, whole), stream' = stream
  PROVE  Channel!Deliver
<1> DEFINE h == HandlerOf(stream[cur], alone)
           item(e) == [item |-> e.frame, to |-> e.handler]
           c == [frame |-> cur, handler |-> h, whole |-> whole]
<1>1. cur \in 1..Len(stream)
  BY HaveBounds
<1>2. \A j \in 1..Len(log) : log[j].frame < cur
  BY DEF IInv
<1>3. h \in MayTake(stream[cur])
  BY DEF HandlerOf, MayTake
<1>4. log \in Seq(Calls(Len(stream))) /\ Len(log) \in Nat
  BY LogFacts
<1>5. log' = Append(log, c)
  BY DEF Logged
<1>6. /\ Len(log') = Len(log) + 1
      /\ \A j \in 1..Len(log) : log'[j] = log[j]
      /\ log'[Len(log) + 1] = c
  <2> HIDE DEF c
  <2>. QED
    BY <1>4, <1>5
<1>7. Taken' = Append(Taken, [item |-> cur, to |-> h])
  <2>1. /\ Taken = [j \in 1..Len(log) |-> item(log[j])]
        /\ Taken' = [j \in 1..Len(log') |-> item(log'[j])]
    BY DEF Taken
  <2>2. item(c) = [item |-> cur, to |-> h]
    OBVIOUS
  <2>3. \A j \in 1..Len(log') : j \in 1..Len(log) \/ j = Len(log) + 1
    BY <1>4, <1>6
  <2> HIDE DEF item, c, h
  <2> DEFINE Given == {item(e) : e \in Calls(Len(stream))}
  <2>4. /\ log' \in Seq(Calls(Len(stream))) /\ c \in Calls(Len(stream))
    <3>1. log' \in Seq(Calls(Len(stream)))
      BY <1>1, LoggedType
    <3>. QED
      BY <1>4, <1>6, <3>1
  <2>5. /\ Taken \in Seq(Given) /\ Taken' \in Seq(Given) /\ item(c) \in Given
        /\ Len(Taken) = Len(log) /\ Len(Taken') = Len(log) + 1
    <3>1. item(c) \in Given
      BY <2>4
    <3>2. \A j \in 1..Len(log) : item(log[j]) \in Given
      BY <1>4
    <3>3. \A j \in 1..Len(log') : item(log'[j]) \in Given
      BY <2>4
    <3> HIDE DEF Given, item, c
    <3>4. Taken \in Seq(Given) /\ Len(Taken) = Len(log)
      BY <1>4, <2>1, <3>2
    <3>5. Taken' \in Seq(Given) /\ Len(Taken') = Len(log) + 1
      BY <1>4, <1>6, <2>1, <3>3
    <3>. QED
      BY <3>1, <3>4, <3>5
  <2>6. \A j \in 1..Len(log) : Taken'[j] = Taken[j]
    BY <1>4, <1>6, <2>1, <2>3
  <2>7. Taken'[Len(log) + 1] = item(c)
    BY <1>4, <1>6, <2>1
  <2> HIDE DEF Given
  <2>8. Taken' = Append(Taken, item(c))
    BY <1>4, <2>3, <2>5, <2>6, <2>7, SeqEqual
  <2>. QED
    BY <2>2, <2>8
<1>8. Len(Taken) = Len(log) /\ \A j \in 1..Len(log) : Taken[j].item = log[j].frame
  BY <1>4 DEF Taken
<1> HIDE DEF h
<1>. QED
  BY <1>1, <1>2, <1>3, <1>7, <1>8 DEF Channel!Deliver

\* Every step of the parser is a delivery, or leaves what is sent and taken.
LEMMA StepDelivers ==
  ASSUME IInv, [Next]_vars
  PROVE  [Channel!Submit \/ Channel!Deliver]_(Channel!vars)
<1>1. ASSUME stream' = stream, log' = log
      PROVE  UNCHANGED Channel!vars
  BY <1>1 DEF Channel!vars, Taken
<1>2. CASE UNCHANGED vars \/ Receive \/ ReceiveMidFrame
  BY <1>1, <1>2 DEF vars, Receive, ReceiveMidFrame
<1>3. CASE Send
  <2>1. (\E f \in Frames : stream' = Append(stream, f)) /\ log' = log
    BY <1>3 DEF Send
  <2>2. Taken' = Taken
    BY <2>1 DEF Taken
  <2>. QED
    BY <2>1, <2>2 DEF Channel!Submit
<1>4. CASE FirstShort \/ FirstCrc \/ LoopEnds \/ LoopShort \/ LoopSkips
  BY <1>1, <1>4 DEF FirstShort, FirstCrc, LoopEnds, LoopShort, LoopSkips, Return
<1>5. CASE FirstBeat
  <2>1. stream' = stream /\ log' = log
    <3>1. CASE Alone(cur)
      BY <1>5, <3>1 DEF FirstBeat, Return
    <3>2. CASE ~Alone(cur)
      BY <1>5, <3>2 DEF FirstBeat
    <3>. QED
      BY <3>1, <3>2
  <2>. QED
    BY <1>1, <2>1
<1>6. CASE FirstMany
  <2>1. /\ Parsing /\ Have(cur, FirstNeeds(stream[cur]))
        /\ stream' = stream /\ log' \in {Logged(cur, FALSE, TRUE), log}
    BY <1>6 DEF FirstMany, Parsing, Crash
  <2>. QED
    BY <1>1, <2>1, AskedSomething, CallDelivers
<1>7. CASE FirstAlone
  <2>1. /\ Parsing /\ Have(cur, FirstNeeds(stream[cur])) /\ stream' = stream
        /\ \/ log' = log
           \/ log' = Logged(cur, TRUE, Have(cur, Uses(stream[cur])))
    BY <1>7 DEF FirstAlone, Return, Parsing, Crash
  <2>2. Have(cur, Uses(stream[cur])) \in BOOLEAN
    BY DEF Have
  <2>. QED
    BY <1>1, <2>1, <2>2, AskedSomething, CallDelivers
<1>8. CASE LoopDispatches
  <2>1. /\ Parsing /\ More /\ stream' = stream
        /\ \/ log' = Logged(cur, FALSE, ~(stream[cur].cmd = 7 /\ pc = "beat"))
           \/ log' = log
    BY <1>8 DEF LoopDispatches, Parsing, Crash
  <2>. QED
    BY <1>1, <2>1, AskedSomething, CallDelivers
<1>. QED
  BY <1>2, <1>3, <1>4, <1>5, <1>6, <1>7, <1>8 DEF Next, Parse

\* Refinement: for all frames, cuts and lengths of the stream, what the handlers
\* are given is what an ordered channel that may lose frames would give them.
THEOREM ImplementsDelivery == Spec => IsDelivery
<1>1. Init => Channel!Init
  <2> SUFFICES ASSUME Init PROVE Channel!Init
    OBVIOUS
  <2>1. log = <<>> /\ stream = <<>>
    BY DEF Init
  <2>2. Taken = <<>>
    BY <2>1 DEF Taken
  <2>. QED
    BY <2>1, <2>2 DEF Channel!Init
<1>2. IInv /\ [Next]_vars => [Channel!Submit \/ Channel!Deliver]_(Channel!vars)
  BY StepDelivers
<1>. QED
  BY <1>1, <1>2, Invariant, PTL DEF Spec, IsDelivery, Channel!Spec
=============================================================================
