-------------------------- MODULE StbSessionProofs --------------------------
(***************************************************************************)
(* Theorems about StbSession, for every set of sockets and every value of  *)
(* the bounds.                                                             *)
(***************************************************************************)
EXTENDS StbSession, TLAPS

-----------------------------------------------------------------------------
(* The delegate methods, as functions on app.                              *)

\* The bounds of the counters are natural numbers.
LEMMA Bounds == MaxLeaked \in Nat /\ MaxStatus \in Nat /\ MaxStatus > 3
  BY SessionAssumption DEF SessionAssumption

\* A saturating counter stays within its bound.
LEMMA UpToBounded ==
  ASSUME NEW m \in Nat, NEW n \in 0..m
  PROVE  UpTo(n + 1, m) \in 0..m
  BY DEF UpTo

\* Connecting resets what the outages left and leaves a timer to stop; it
\* neither starts nor cancels a reconnection.
LEMMA DidConnectFacts ==
  ASSUME NEW a \in AppState
  PROVE  /\ DidConnect(a) \in AppState
         /\ DidConnect(a).timer = TRUE
         /\ DidConnect(a).playStateType = "none"
         /\ DidConnect(a).netClosed = FALSE
         /\ DidConnect(a).connectStatus = 0
         /\ DidConnect(a).reconnects = a.reconnects
<1>1. a.leaked \in 0..MaxLeaked
  BY DEF AppState
<1>2. UpTo(a.leaked + 1, MaxLeaked) \in 0..MaxLeaked
  BY <1>1, Bounds, UpToBounded
<1>3. DidConnect(a) \in AppState
  <2>1. CASE a.connectStatus > 3 /\ a.timer
    BY <1>2, <2>1, Bounds DEF AppState, DidConnect
  <2>2. CASE a.connectStatus > 3 /\ ~a.timer
    BY <1>2, <2>2, Bounds DEF AppState, DidConnect
  <2>3. CASE ~(a.connectStatus > 3) /\ a.timer
    BY <1>2, <2>3, Bounds DEF AppState, DidConnect
  <2>4. CASE ~(a.connectStatus > 3) /\ ~a.timer
    BY <1>2, <2>4, Bounds DEF AppState, DidConnect
  <2>. QED
    BY <2>1, <2>2, <2>3, <2>4
<1>. QED
  BY <1>3 DEF DidConnect

\* A drop by the server starts exactly one reconnection; no drop touches the
\* heartbeat timer.
LEMMA DropFacts ==
  ASSUME NEW a \in AppState, NEW userData \in {"ByServer", "ByUser"}
  PROVE  /\ DidDisconnect(a, userData) \in AppState
         /\ DidDisconnect(a, userData).reconnects =
              IF userData = "ByServer" THEN a.reconnects + 1 ELSE a.reconnects
         /\ DidDisconnect(a, userData).timer = a.timer
<1>1. a.connectStatus \in 0..MaxStatus
  BY DEF AppState
<1>2. UpTo(a.connectStatus + 1, MaxStatus) \in 0..MaxStatus
  BY <1>1, Bounds, UpToBounded
<1>3. DidDisconnect(a, "ByUser") \in AppState
  BY Bounds DEF AppState, DidDisconnect, ReconnectsAfter
<1>4. DidDisconnect(a, "ByServer") \in AppState
  <2>1. CASE UpTo(a.connectStatus + 1, MaxStatus) = 3
    BY <1>2, <2>1, Bounds DEF AppState, DidDisconnect, ReconnectsAfter
  <2>2. CASE UpTo(a.connectStatus + 1, MaxStatus) # 3
    BY <1>2, <2>2, Bounds DEF AppState, DidDisconnect, ReconnectsAfter
  <2>. QED
    BY <2>1, <2>2
<1>5. /\ DidDisconnect(a, userData).reconnects =
           IF userData = "ByServer" THEN a.reconnects + 1 ELSE a.reconnects
      /\ DidDisconnect(a, userData).timer = a.timer
  BY DEF DidDisconnect, ReconnectsAfter
<1>. QED
  BY <1>3, <1>4, <1>5

\* Cutting off stops the timer and starts no reconnection.
LEMMA CutOffFacts ==
  ASSUME NEW a \in AppState
  PROVE  /\ CutOff(a) \in AppState
         /\ CutOff(a).reconnects = a.reconnects
<1> DEFINE still == [a EXCEPT !.timer = FALSE]
<1>1. still \in AppState /\ still.reconnects = a.reconnects
  BY DEF AppState
<1> HIDE DEF still
<1>2. CutOff(a) \in {still, DidDisconnect(still, "ByUser")}
  BY DEF CutOff, still
<1>. QED
  BY <1>1, <1>2, DropFacts

-----------------------------------------------------------------------------
(* Type correctness.                                                       *)

Phases == {"free", "connecting", "open", "closed"}

\* A callback of a socket keeps every variable in its type, freed orphan or not.
LEMMA EndCallbackType ==
  ASSUME TypeOK, NEW s \in Sockets, NEW rds \in [Sockets -> Seq(Timeouts)],
         NEW wr \in SUBSET Sockets, NEW a \in AppState,
         EndCallback(s, rds, wr, a)
  PROVE  TypeOK'
<1>1. app' \in AppState
  BY DropFacts DEF EndCallback
<1>2. reads' \in [Sockets -> Seq(Timeouts)]
  BY DEF EndCallback
<1>. QED
  BY <1>1, <1>2 DEF TypeOK, EndCallback

\* Closing a socket keeps every variable in its type.
LEMMA CloseType ==
  ASSUME TypeOK, NEW s \in Sockets, Close(s)
  PROVE  TypeOK'
<1>1. app' \in AppState
  BY DropFacts DEF Close, TypeOK
<1>. QED
  BY <1>1 DEF TypeOK, Close

\* What socketConnectHost makes of well-typed queues is well typed.
LEMMA SocketConnectHostType ==
  ASSUME NEW ph \in [Sockets -> Phases], NEW rds \in [Sockets -> Seq(Timeouts)],
         NEW wr \in SUBSET Sockets, NEW a \in AppState,
         SocketConnectHost(ph, rds, wr, a)
  PROVE  /\ phase' \in [Sockets -> Phases]
         /\ reads' \in [Sockets -> Seq(Timeouts)]
         /\ writing' \subseteq Sockets
         /\ socket' \in Sockets
         /\ app' \in AppState
<1>1. app' \in AppState
  BY DropFacts DEF SocketConnectHost
<1>2. reads' \in [Sockets -> Seq(Timeouts)]
  BY DEF SocketConnectHost
<1>3. phase' \in [Sockets -> Phases]
  BY DEF SocketConnectHost, Phases
<1>. QED
  BY <1>1, <1>2, <1>3 DEF SocketConnectHost

\* Every step of the run loop keeps the type invariant.
LEMMA TypeStep == TypeOK /\ [Next]_vars => TypeOK'
<1> SUFFICES ASSUME TypeOK, [Next]_vars PROVE TypeOK'
  OBVIOUS
<1>1. ASSUME NEW s \in Sockets, Connect(s) PROVE TypeOK'
  <2>1. [reads EXCEPT ![s] = Append(@, "never")] \in [Sockets -> Seq(Timeouts)]
    BY DEF TypeOK, Timeouts
  <2>2. WithWrite(writing) \in SUBSET Sockets
    BY DEF TypeOK, WithWrite
  <2>3. DidConnect(app) \in AppState
    BY DidConnectFacts DEF TypeOK
  <2>. QED
    BY <1>1, <2>1, <2>2, <2>3, EndCallbackType DEF Connect
<1>2. ASSUME NEW s \in Sockets,
             ConnectFails(s) \/ PeerCloses(s) \/ ReadTimeout(s) \/ WriteTimeout(s)
      PROVE  TypeOK'
  BY <1>2, CloseType DEF ConnectFails, PeerCloses, ReadTimeout, WriteTimeout
<1>3. ASSUME NEW s \in Sockets, NEW rearm \in BOOLEAN, ReadData(s, rearm)
      PROVE  TypeOK'
  <2> DEFINE popped == [reads EXCEPT ![s] = Tail(@)]
             target == {t \in Sockets : rearm /\ t = socket /\ Alive(t)}
             rds == [t \in Sockets |-> IF t \in target
                                       THEN Append(popped[t], "30s")
                                       ELSE popped[t]]
  <2>1. popped \in [Sockets -> Seq(Timeouts)]
    BY <1>3 DEF TypeOK, ReadData
  <2>2. rds \in [Sockets -> Seq(Timeouts)]
    <3> HIDE DEF popped, target
    <3>. QED  BY <2>1 DEF Timeouts
  <2>3. EndCallback(s, rds, writing, app)
    BY <1>3 DEF ReadData
  <2> HIDE DEF rds
  <2>. QED
    BY <2>2, <2>3, EndCallbackType DEF TypeOK
<1>4. ASSUME NEW s \in Sockets, WriteDone(s) PROVE TypeOK'
  <2>1. writing \ {s} \in SUBSET Sockets
    BY DEF TypeOK
  <2>. QED
    BY <1>4, <2>1, EndCallbackType DEF WriteDone, TypeOK
<1>5. CASE Heartbeat \/ SendRequest
  BY <1>5 DEF Heartbeat, SendRequest, TypeOK, WithWrite
<1>6. CASE Reconnect
  <2>1. app.reconnects \in Nat /\ app.reconnects > 0
    BY <1>6 DEF TypeOK, AppState, Reconnect
  <2>2. app.reconnects - 1 \in Nat
    BY <2>1
  <2>3. [app EXCEPT !.reconnects = @ - 1] \in AppState
    BY <2>2 DEF TypeOK, AppState
  <2>4. phase \in [Sockets -> Phases]
    BY DEF TypeOK, Phases
  <2>. QED
    BY <1>6, <2>3, <2>4, SocketConnectHostType DEF Reconnect, TypeOK, Phases
<1>7. CASE Restart
  <2> DEFINE ph  == [s \in Sockets |-> IF s = socket THEN "closed" ELSE phase[s]]
             rds == [s \in Sockets |-> IF s = socket THEN <<>> ELSE reads[s]]
  <2>1. ph \in [Sockets -> Phases]
    BY DEF TypeOK, Phases
  <2>2. rds \in [Sockets -> Seq(Timeouts)]
    BY DEF TypeOK
  <2>3. writing \ {socket} \in SUBSET Sockets
    BY DEF TypeOK
  <2>4. CutOff(app) \in AppState
    BY CutOffFacts DEF TypeOK
  <2>5. SocketConnectHost(ph, rds, writing \ {socket}, CutOff(app))
    BY <1>7 DEF Restart
  <2>6. restarts' \in 0..MaxRestarts
    BY <1>7, SessionAssumption DEF Restart, TypeOK, SessionAssumption
  <2>7. stb' \in BOOLEAN
    BY <1>7 DEF Restart, TypeOK
  <2> HIDE DEF ph, rds
  <2>. QED
    BY <2>1, <2>2, <2>3, <2>4, <2>5, <2>6, <2>7, SocketConnectHostType
    DEF TypeOK, Phases
<1>8. CASE StbChanges
  BY <1>8 DEF StbChanges, TypeOK
<1>9. CASE UNCHANGED vars
  BY <1>9 DEF vars, TypeOK
<1>. QED
  BY <1>1, <1>2, <1>3, <1>4, <1>5, <1>6, <1>7, <1>8, <1>9 DEF Next

\* The app as it is launched is well typed.
LEMMA InitTypeOK == Init => TypeOK
<1> SUFFICES ASSUME Init PROVE TypeOK
  OBVIOUS
<1>1. app \in AppState
  <2>1. 0 \in 0..MaxStatus /\ 0 \in 0..MaxLeaked /\ 0 \in Nat
    BY Bounds
  <2>. QED
    BY <2>1, Zenon DEF Init, AppState
<1>2. restarts \in 0..MaxRestarts
  BY SessionAssumption DEF SessionAssumption, Init
<1>. QED
  BY <1>1, <1>2 DEF Init, TypeOK

\* Every variable keeps its type, whatever the number of sockets.
THEOREM TypeCorrect == Spec => []TypeOK
  BY InitTypeOK, TypeStep, PTL DEF Spec

-----------------------------------------------------------------------------
(* The inductive invariant.                                                *)

\* What a callback of s must establish before it returns for IInv to hold
\* after it: whether or not s is an orphan that is freed on return.
LEMMA EndCallbackInv ==
  ASSUME IInv, NEW s \in Sockets, Alive(s),
         NEW rds \in [Sockets -> Seq(Timeouts)], NEW wr \in SUBSET Sockets,
         NEW a \in AppState, EndCallback(s, rds, wr, a),
         a.reconnects = app.reconnects,
         Online \/ s = socket => a.timer,
         \A t \in Sockets : t # s /\ ~Alive(t) => rds[t] = <<>> /\ t \notin wr,
         s = socket /\ OnlyCurrent =>
           /\ a.playStateType # "mediaDisConnect" /\ ~a.netClosed
           /\ a.connectStatus = 0 /\ Len(rds[s]) <= 1
  PROVE  IInv'
<1> DEFINE freed == Orphaned(s, socket, rds, wr)
<1>1. TypeOK'
  BY EndCallbackType DEF IInv
<1>2. /\ phase' = [phase EXCEPT ![s] = IF freed THEN "free" ELSE "open"]
      /\ reads' = IF freed THEN [rds EXCEPT ![s] = <<>>] ELSE rds
      /\ writing' = wr /\ socket' = socket
      /\ app' = IF freed THEN DidDisconnect(a, "ByServer") ELSE a
  BY DEF EndCallback
<1>3. freed => s # socket /\ s \notin wr
  BY DEF Orphaned
<1> HIDE DEF freed
<1>4. app'.timer = a.timer
  BY <1>2, DropFacts
<1>5. app.reconnects \in Nat /\ app'.reconnects \in Nat
  BY <1>1 DEF IInv, TypeOK, AppState
<1>6. freed => app'.reconnects = app.reconnects + 1
  BY <1>2, DropFacts
<1>t. phase \in [Sockets -> Phases]
  BY DEF IInv, TypeOK, Phases
<1>7. OnlyCurrent' => ~freed /\ s = socket /\ OnlyCurrent
  <2> SUFFICES ASSUME OnlyCurrent' PROVE ~freed /\ s = socket /\ OnlyCurrent
    OBVIOUS
  <2>1. ~freed
    BY <1>5, <1>6 DEF OnlyCurrent
  <2>2. \A t \in Sockets : Alive(t) => Alive(t)'
    BY <1>2, <1>t, <2>1 DEF Alive
  <2>3. s = socket
    BY <1>2, <2>2 DEF OnlyCurrent
  <2>4. app'.reconnects = app.reconnects
    BY <1>2, <2>1
  <2>. QED
    BY <1>2, <2>1, <2>2, <2>3, <2>4 DEF OnlyCurrent
<1>8. HeartbeatWhileOnline'
  <2>1. Online' => Online \/ s = socket
    BY <1>2, <1>t DEF Online
  <2>. QED
    BY <1>4, <2>1 DEF HeartbeatWhileOnline
<1>9. OnlineShowsNoOutage'
  BY <1>2, <1>7 DEF OnlineShowsNoOutage
<1>10. QuietUnlessAlive'
  <2> SUFFICES ASSUME NEW t \in Sockets, ~Alive(t)'
               PROVE  reads'[t] = <<>> /\ t \notin writing'
    BY DEF QuietUnlessAlive
  <2>1. CASE t = s
    BY <1>2, <1>3, <1>t, <2>1 DEF Alive
  <2>2. CASE t # s
    BY <1>2, <1>t, <2>2 DEF Alive
  <2>. QED
    BY <2>1, <2>2
<1>11. FirstReadAfterConnect'
  <2> SUFFICES ASSUME NEW t \in Sockets, OnlyCurrent', t = socket'
               PROVE  Len(reads'[t]) <= IF phase'[t] = "open" THEN 1 ELSE 0
    BY DEF FirstReadAfterConnect
  <2>. QED
    BY <1>2, <1>7, <1>t
<1>. QED
  BY <1>1, <1>8, <1>9, <1>10, <1>11 DEF IInv

\* A socket that closes has a reconnection follow it, so that the parts of
\* IInv about the only connection have nothing to say.
LEMMA CloseInv ==
  ASSUME IInv, NEW s \in Sockets, Close(s)
  PROVE  IInv'
<1>1. TypeOK'
  BY CloseType DEF IInv
<1>t. phase \in [Sockets -> Phases]
  BY DEF IInv, TypeOK, Phases
<1>2. app'.reconnects = app.reconnects + 1 /\ app'.timer = app.timer
  BY DropFacts DEF Close, IInv, TypeOK
<1>3. ~OnlyCurrent'
  BY <1>1, <1>2 DEF OnlyCurrent, IInv, TypeOK, AppState
<1>4. HeartbeatWhileOnline'
  BY <1>2, <1>t DEF IInv, HeartbeatWhileOnline, Online, Close
<1>5. QuietUnlessAlive'
  BY <1>t DEF IInv, TypeOK, QuietUnlessAlive, Alive, Close
<1>. QED
  BY <1>1, <1>3, <1>4, <1>5
  DEF IInv, OnlineShowsNoOutage, FirstReadAfterConnect

\* The socket that socketConnectHost makes is not open yet and has no read.
LEMMA SocketConnectHostInv ==
  ASSUME NEW ph \in [Sockets -> Phases], NEW rds \in [Sockets -> Seq(Timeouts)],
         NEW wr \in SUBSET Sockets, NEW a \in AppState,
         SocketConnectHost(ph, rds, wr, a), TypeOK',
         \A t \in Sockets : ph[t] \notin {"connecting", "open"} =>
                              rds[t] = <<>> /\ t \notin wr
  PROVE  IInv'
<1>1. PICK n \in {s \in Sockets : ph[s] = "free"}, opened \in OpenResults :
        LET old   == {s \in Sockets : s = socket}
            freed == {s \in old : /\ ph[s] # "connecting"
                                  /\ ph[s] = "open" => Orphaned(s, n, rds, wr)}
        IN  /\ socket' = n
            /\ phase' = [s \in Sockets |->
                           IF s = n THEN IF opened THEN "connecting" ELSE "closed"
                           ELSE IF s \in freed THEN "free" ELSE ph[s]]
            /\ reads' = [s \in Sockets |-> IF s \in freed THEN <<>> ELSE rds[s]]
            /\ writing' = wr
  BY DEF SocketConnectHost
<1> DEFINE freed == {s \in Sockets : /\ s = socket
                                     /\ ph[s] # "connecting"
                                     /\ ph[s] = "open" => Orphaned(s, n, rds, wr)}
<1>2. /\ socket' = n /\ writing' = wr
      /\ phase' = [s \in Sockets |->
                     IF s = n THEN IF opened THEN "connecting" ELSE "closed"
                     ELSE IF s \in freed THEN "free" ELSE ph[s]]
      /\ reads' = [s \in Sockets |-> IF s \in freed THEN <<>> ELSE rds[s]]
  BY <1>1
<1>3. rds[n] = <<>> /\ n \notin wr
  OBVIOUS
<1>4. \A s \in freed : s \notin wr
  BY DEF Orphaned, Phases
<1> HIDE DEF freed
<1>5. ~Online'
  BY <1>2 DEF Online
<1>6. QuietUnlessAlive'
  <2> SUFFICES ASSUME NEW t \in Sockets, ~Alive(t)'
               PROVE  reads'[t] = <<>> /\ t \notin writing'
    BY DEF QuietUnlessAlive
  <2>1. CASE t = n
    BY <1>2, <1>3, <2>1
  <2>2. CASE t # n /\ t \in freed
    BY <1>2, <1>4, <2>2
  <2>3. CASE t # n /\ t \notin freed
    BY <1>2, <2>3 DEF Alive
  <2>. QED
    BY <2>1, <2>2, <2>3
<1>7. FirstReadAfterConnect'
  <2>1. reads'[n] = <<>>
    BY <1>2, <1>3
  <2>2. Len(reads'[n]) = 0
    BY <2>1
  <2>. QED
    BY <1>2, <2>2 DEF FirstReadAfterConnect
<1>. QED
  BY <1>5, <1>6, <1>7 DEF IInv, HeartbeatWhileOnline, OnlineShowsNoOutage

\* Every step of the run loop keeps the inductive invariant.
LEMMA InvStep == IInv /\ [Next]_vars => IInv'
<1> SUFFICES ASSUME IInv, [Next]_vars PROVE IInv'
  OBVIOUS
<1>t. /\ TypeOK /\ TypeOK'
      /\ phase \in [Sockets -> Phases]
      /\ reads \in [Sockets -> Seq(Timeouts)]
      /\ writing \in SUBSET Sockets /\ app \in AppState
  BY TypeStep DEF IInv, TypeOK, Phases
<1>1. ASSUME NEW s \in Sockets, Connect(s) PROVE IInv'
  <2> DEFINE rds == [reads EXCEPT ![s] = Append(@, "never")]
  <2>1. rds \in [Sockets -> Seq(Timeouts)]
    BY <1>t DEF Timeouts
  <2>2. WithWrite(writing) \in SUBSET Sockets
    BY <1>t DEF WithWrite
  <2>3. Alive(s) /\ phase[s] # "open"
    BY <1>1 DEF Connect, Alive
  <2>4. \A t \in Sockets : t # s /\ ~Alive(t) =>
                             rds[t] = <<>> /\ t \notin WithWrite(writing)
    BY <1>t DEF IInv, QuietUnlessAlive, WithWrite
  <2>5. s = socket /\ OnlyCurrent => Len(rds[s]) <= 1
    <3> SUFFICES ASSUME s = socket, OnlyCurrent PROVE Len(rds[s]) <= 1
      OBVIOUS
    <3>1. Len(reads[s]) <= 0
      BY <2>3 DEF IInv, FirstReadAfterConnect
    <3>2. rds[s] = Append(reads[s], "never") /\ reads[s] \in Seq(Timeouts)
      BY <1>t
    <3>3. Len(rds[s]) = Len(reads[s]) + 1 /\ Len(reads[s]) \in Nat
      BY <3>2 DEF Timeouts
    <3>. QED
      BY <3>1, <3>3
  <2>6. EndCallback(s, rds, WithWrite(writing), DidConnect(app))
    BY <1>1 DEF Connect
  <2> HIDE DEF rds
  <2>. QED
    BY <1>t, <2>1, <2>2, <2>3, <2>4, <2>5, <2>6, DidConnectFacts, EndCallbackInv
<1>2. ASSUME NEW s \in Sockets,
             ConnectFails(s) \/ PeerCloses(s) \/ ReadTimeout(s) \/ WriteTimeout(s)
      PROVE  IInv'
  BY <1>2, CloseInv DEF ConnectFails, PeerCloses, ReadTimeout, WriteTimeout
<1>3. ASSUME NEW s \in Sockets, NEW rearm \in BOOLEAN, ReadData(s, rearm)
      PROVE  IInv'
  <2> DEFINE popped == [reads EXCEPT ![s] = Tail(@)]
             target == {t \in Sockets : rearm /\ t = socket /\ Alive(t)}
             rds == [t \in Sockets |-> IF t \in target
                                       THEN Append(popped[t], "30s")
                                       ELSE popped[t]]
  <2>1. /\ phase[s] = "open" /\ reads[s] # <<>>
        /\ EndCallback(s, rds, writing, app)
    BY <1>3 DEF ReadData
  <2>2. popped \in [Sockets -> Seq(Timeouts)]
    BY <1>t, <2>1
  <2>3. Len(popped[s]) = Len(reads[s]) - 1 /\ Len(reads[s]) \in Nat
    BY <1>t, <2>1
  <2>4. \A t \in Sockets : t # s => popped[t] = reads[t]
    BY <1>t
  <2>5. \A t \in target : Alive(t)
    OBVIOUS
  <2> HIDE DEF popped, target
  <2>6. rds \in [Sockets -> Seq(Timeouts)]
    BY <2>2 DEF Timeouts
  <2>7. Len(rds[s]) <= Len(reads[s])
    <3>1. CASE s \in target
      <4>1. rds[s] = Append(popped[s], "30s") /\ popped[s] \in Seq(Timeouts)
        BY <2>2, <3>1
      <4>2. Len(rds[s]) = Len(popped[s]) + 1
        BY <4>1 DEF Timeouts
      <4>. QED
        BY <2>3, <4>2
    <3>2. CASE s \notin target
      BY <2>3, <3>2
    <3>. QED
      BY <3>1, <3>2
  <2>8. \A t \in Sockets : t # s /\ ~Alive(t) => rds[t] = <<>> /\ t \notin writing
    BY <2>4, <2>5 DEF IInv, QuietUnlessAlive
  <2>9. Len(rds[s]) \in Nat
    BY <2>6
  <2> HIDE DEF rds
  <2>10. Online \/ s = socket => app.timer
    BY <2>1 DEF IInv, HeartbeatWhileOnline, Online
  <2>11. s = socket /\ OnlyCurrent =>
           /\ app.playStateType # "mediaDisConnect" /\ ~app.netClosed
           /\ app.connectStatus = 0 /\ Len(rds[s]) <= 1
    <3> SUFFICES ASSUME s = socket, OnlyCurrent
                 PROVE  /\ app.playStateType # "mediaDisConnect" /\ ~app.netClosed
                        /\ app.connectStatus = 0 /\ Len(rds[s]) <= 1
      OBVIOUS
    <3>1. Online
      BY <2>1 DEF Online
    <3>2. Len(reads[s]) <= 1
      BY <2>1 DEF IInv, FirstReadAfterConnect
    <3>. QED
      BY <2>3, <2>7, <2>9, <3>1, <3>2 DEF IInv, OnlineShowsNoOutage
  <2>12. Alive(s)
    BY <2>1 DEF Alive
  <2>. QED
    BY <1>t, <2>1, <2>6, <2>8, <2>10, <2>11, <2>12, EndCallbackInv
<1>4. ASSUME NEW s \in Sockets, WriteDone(s) PROVE IInv'
  <2>1. phase[s] = "open" /\ EndCallback(s, reads, writing \ {s}, app)
    BY <1>4 DEF WriteDone
  <2>2. Alive(s) /\ writing \ {s} \in SUBSET Sockets
    BY <1>t, <2>1 DEF Alive
  <2>3. s = socket => Online
    BY <2>1 DEF Online
  <2>4. \A t \in Sockets : t # s /\ ~Alive(t) =>
                             reads[t] = <<>> /\ t \notin writing \ {s}
    BY DEF IInv, QuietUnlessAlive
  <2>5. s = socket /\ OnlyCurrent => Len(reads[s]) <= 1
    BY <2>1 DEF IInv, FirstReadAfterConnect
  <2>. QED
    BY <1>t, <2>1, <2>2, <2>3, <2>4, <2>5, EndCallbackInv
    DEF IInv, HeartbeatWhileOnline, OnlineShowsNoOutage
<1>5. CASE Heartbeat \/ SendRequest \/ StbChanges \/ UNCHANGED vars
  <2>1. /\ phase' = phase /\ reads' = reads /\ socket' = socket /\ app' = app
        /\ \A t \in Sockets : t \in writing' => t \in writing \/ Alive(t)
    BY <1>5 DEF Heartbeat, SendRequest, StbChanges, vars, WithWrite
  <2>. QED
    BY <1>t, <2>1
    DEF IInv, HeartbeatWhileOnline, OnlineShowsNoOutage, QuietUnlessAlive,
        FirstReadAfterConnect, Alive, Online, OnlyCurrent
<1>6. CASE Reconnect
  <2>1. app.reconnects \in Nat /\ app.reconnects > 0
    BY <1>6, <1>t DEF AppState, Reconnect
  <2>2. app.reconnects - 1 \in Nat
    BY <2>1
  <2>3. [app EXCEPT !.reconnects = @ - 1] \in AppState
    BY <1>t, <2>2 DEF AppState
  <2>. QED
    BY <1>6, <1>t, <2>3, SocketConnectHostInv
    DEF Reconnect, IInv, QuietUnlessAlive, Alive
<1>7. CASE Restart
  <2> DEFINE ph  == [s \in Sockets |-> IF s = socket THEN "closed" ELSE phase[s]]
             rds == [s \in Sockets |-> IF s = socket THEN <<>> ELSE reads[s]]
  <2>1. ph \in [Sockets -> Phases]
    BY <1>t DEF Phases
  <2>2. rds \in [Sockets -> Seq(Timeouts)]
    BY <1>t
  <2>3. writing \ {socket} \in SUBSET Sockets /\ CutOff(app) \in AppState
    BY <1>t, CutOffFacts
  <2>4. SocketConnectHost(ph, rds, writing \ {socket}, CutOff(app))
    BY <1>7 DEF Restart
  <2>5. \A t \in Sockets : ph[t] \notin {"connecting", "open"} =>
                             rds[t] = <<>> /\ t \notin writing \ {socket}
    BY DEF IInv, QuietUnlessAlive, Alive
  <2> HIDE DEF ph, rds
  <2>. QED
    BY <1>t, <2>1, <2>2, <2>3, <2>4, <2>5, SocketConnectHostInv
<1>. QED
  BY <1>1, <1>2, <1>3, <1>4, <1>5, <1>6, <1>7 DEF Next

\* The inductive invariant holds in every state: idle sockets have nothing queued,
\* and the parts about heartbeat, outage and reads that the code maintains together.
THEOREM Invariant == Spec => []IInv
<1>1. Init => IInv
  <2> SUFFICES ASSUME Init PROVE IInv
    OBVIOUS
  <2>1. TypeOK
    BY InitTypeOK
  <2>2. ~Online
    BY SessionAssumption DEF SessionAssumption, Init, Online
  <2>3. QuietUnlessAlive
    BY DEF Init, QuietUnlessAlive
  <2>4. FirstReadAfterConnect
    BY SessionAssumption DEF SessionAssumption, Init, FirstReadAfterConnect
  <2>. QED
    BY <2>1, <2>2, <2>3, <2>4
    DEF IInv, HeartbeatWhileOnline, OnlineShowsNoOutage
<1>. QED
  BY <1>1, InvStep, PTL DEF Spec

\* While the connection is open a heartbeat timer ticks that can be stopped.
THEOREM HeartbeatTicks == Spec => []HeartbeatWhileOnline
<1>1. IInv => HeartbeatWhileOnline
  BY DEF IInv
<1>. QED
  BY <1>1, Invariant, PTL

\* No outage is still shown on the only connection once it is open.
THEOREM NoStaleOutage == Spec => []OnlineShowsNoOutage
<1>1. IInv => OnlineShowsNoOutage
  BY DEF IInv
<1>. QED
  BY <1>1, Invariant, PTL

\* The only connection never waits for two answers.
THEOREM OneReader == Spec => []OneReadAtATime
<1>1. IInv => OneReadAtATime
  <2> SUFFICES ASSUME IInv, OnlyCurrent, Online PROVE Len(reads[socket]) <= 1
    BY DEF OneReadAtATime
  <2>. QED
    BY DEF IInv, FirstReadAfterConnect, Online
<1>. QED
  BY <1>1, Invariant, PTL
-----------------------------------------------------------------------------
(* The chain of connections and reconnections.                             *)

\* A callback neither ends the only chain nor starts another: a freed orphan
\* is followed by one reconnection.
LEMMA EndCallbackChain ==
  ASSUME TypeOK, NEW s \in Sockets, Alive(s), NEW rds, NEW wr,
         NEW a \in AppState, a.reconnects = app.reconnects,
         EndCallback(s, rds, wr, a)
  PROVE  (OneChain => OneChain') /\ ~NoChain'
<1> DEFINE freed == Orphaned(s, socket, rds, wr)
<1>1. /\ phase' = [phase EXCEPT ![s] = IF freed THEN "free" ELSE "open"]
      /\ app' = IF freed THEN DidDisconnect(a, "ByServer") ELSE a
  BY DEF EndCallback
<1> HIDE DEF freed
<1>t. phase \in [Sockets -> Phases] /\ app.reconnects \in Nat
  BY DEF TypeOK, Phases, AppState
<1>2. CASE freed
  <2>1. app'.reconnects = app.reconnects + 1
    BY <1>1, <1>2, DropFacts
  <2>2. ~Alive(s)' /\ \A t \in Sockets : t # s => (Alive(t)' <=> Alive(t))
    BY <1>1, <1>2, <1>t DEF Alive
  <2>. QED
    BY <1>t, <2>1, <2>2 DEF OneChain, NoChain
<1>3. CASE ~freed
  <2>1. app'.reconnects = app.reconnects
    BY <1>1, <1>3
  <2>2. \A t \in Sockets : Alive(t)' <=> Alive(t)
    BY <1>1, <1>3, <1>t DEF Alive
  <2>. QED
    BY <1>t, <2>1, <2>2 DEF OneChain, NoChain
<1>. QED
  BY <1>2, <1>3

\* A socket that closes is followed by one reconnection.
LEMMA CloseChain ==
  ASSUME TypeOK, NEW s \in Sockets, Alive(s), Close(s)
  PROVE  (OneChain => OneChain') /\ ~NoChain'
<1>t. /\ phase \in [Sockets -> Phases]
      /\ app \in AppState /\ app.reconnects \in Nat
  BY DEF TypeOK, Phases, AppState
<1>1. app'.reconnects = app.reconnects + 1
  BY <1>t, DropFacts DEF Close
<1>2. ~Alive(s)' /\ \A t \in Sockets : t # s => (Alive(t)' <=> Alive(t))
  BY <1>t DEF Close, Alive
<1>. QED
  BY <1>t, <1>1, <1>2 DEF OneChain, NoChain

\* When nothing is alive, socketConnectHost makes the one socket that is.
LEMMA SocketConnectHostChain ==
  ASSUME NEW ph \in [Sockets -> Phases], NEW rds, NEW wr, NEW a,
         SocketConnectHost(ph, rds, wr, a)
  PROVE  /\ /\ a.reconnects = 0
            /\ \A t \in Sockets : ph[t] \notin {"connecting", "open"}
            => OneChain'
         /\ OpenResults = {TRUE} => ~NoChain'
<1>1. PICK n \in {s \in Sockets : ph[s] = "free"}, opened \in OpenResults :
        LET old   == {s \in Sockets : s = socket}
            freed == {s \in old : /\ ph[s] # "connecting"
                                  /\ ph[s] = "open" => Orphaned(s, n, rds, wr)}
        IN  /\ phase' = [s \in Sockets |->
                           IF s = n THEN IF opened THEN "connecting" ELSE "closed"
                           ELSE IF s \in freed THEN "free" ELSE ph[s]]
            /\ app' = IF \E s \in freed : ph[s] = "open"
                      THEN DidDisconnect(a, "ByServer") ELSE a
  BY DEF SocketConnectHost
<1>2. ASSUME a.reconnects = 0,
             \A t \in Sockets : ph[t] \notin {"connecting", "open"}
      PROVE  OneChain'
  <2>1. app' = a
    BY <1>1, <1>2
  <2>2. \A t \in Sockets : Alive(t)' => t = n
    BY <1>1, <1>2 DEF Alive
  <2>. QED
    BY <1>2, <2>1, <2>2 DEF OneChain
<1>3. ASSUME OpenResults = {TRUE} PROVE ~NoChain'
  <2>1. Alive(n)'
    BY <1>1, <1>3 DEF Alive
  <2>. QED
    BY <2>1 DEF NoChain
<1>. QED
  BY <1>2, <1>3

\* What every step does to the chain: the only one stays the only one unless
\* the session is started again over it, and it does not end.
LEMMA ChainStep ==
  ASSUME IInv, [Next]_vars
  PROVE  /\ OneChain /\ ~Overlap => OneChain'
         /\ NeverGivesUp => NeverGivesUp'
<1>t. /\ TypeOK /\ app \in AppState /\ app.reconnects \in Nat
      /\ phase \in [Sockets -> Phases] /\ restarts \in Nat
  BY SessionAssumption
  DEF IInv, TypeOK, Phases, AppState, SessionAssumption
<1>1. ASSUME NEW s \in Sockets, Alive(s), Close(s)
      PROVE  (OneChain => OneChain') /\ ~NoChain'
  BY <1>1, <1>t, CloseChain
<1>2. ASSUME NEW s \in Sockets, NEW rds, NEW wr, NEW a \in AppState,
             Alive(s), a.reconnects = app.reconnects, EndCallback(s, rds, wr, a)
      PROVE  (OneChain => OneChain') /\ ~NoChain'
  BY <1>2, <1>t, EndCallbackChain
<1>3. ASSUME NEW s \in Sockets,
             \/ Connect(s) \/ ConnectFails(s) \/ PeerCloses(s)
             \/ ReadTimeout(s) \/ WriteTimeout(s) \/ WriteDone(s)
             \/ \E rearm \in BOOLEAN : ReadData(s, rearm)
      PROVE  (OneChain => OneChain') /\ ~NoChain'
  <2>1. CASE Connect(s)
    BY <1>2, <1>t, <2>1, DidConnectFacts DEF Connect, Alive
  <2>2. CASE ConnectFails(s) \/ PeerCloses(s) \/ ReadTimeout(s)
    BY <1>1, <2>2 DEF ConnectFails, PeerCloses, ReadTimeout, Alive
  <2>3. CASE WriteTimeout(s)
    BY <1>1, <2>3 DEF WriteTimeout, IInv, QuietUnlessAlive
  <2>4. CASE WriteDone(s)
    BY <1>2, <1>t, <2>4 DEF WriteDone, Alive
  <2>5. CASE \E rearm \in BOOLEAN : ReadData(s, rearm)
    BY <1>2, <1>t, <2>5 DEF ReadData, Alive
  <2>. QED
    BY <1>3, <2>1, <2>2, <2>3, <2>4, <2>5
<1>4. CASE \E s \in Sockets :
             \/ Connect(s) \/ ConnectFails(s) \/ PeerCloses(s)
             \/ ReadTimeout(s) \/ WriteTimeout(s) \/ WriteDone(s)
             \/ \E rearm \in BOOLEAN : ReadData(s, rearm)
  BY <1>3, <1>4 DEF NeverGivesUp
<1>5. CASE Reconnect
  <2> DEFINE a == [app EXCEPT !.reconnects = @ - 1]
  <2>1. app.reconnects > 0 /\ SocketConnectHost(phase, reads, writing, a)
    BY <1>5 DEF Reconnect
  <2>2. a.reconnects = app.reconnects - 1
    BY <1>t DEF AppState
  <2> HIDE DEF a
  <2>3. OneChain => /\ a.reconnects = 0
                    /\ \A t \in Sockets : phase[t] \notin {"connecting", "open"}
    BY <1>t, <2>1, <2>2 DEF OneChain, Alive
  <2>. QED
    BY <1>t, <2>1, <2>3, SocketConnectHostChain DEF NeverGivesUp
<1>6. CASE Restart
  <2> DEFINE ph  == [s \in Sockets |-> IF s = socket THEN "closed" ELSE phase[s]]
             rds == [s \in Sockets |-> IF s = socket THEN <<>> ELSE reads[s]]
  <2>1. SocketConnectHost(ph, rds, writing \ {socket}, CutOff(app))
    BY <1>6 DEF Restart
  <2>2. ph \in [Sockets -> Phases]
    BY <1>t DEF Phases
  <2>3. ~Overlap => OnlyCurrent
    BY <1>6, <1>t DEF Restart, Overlap
  <2>4. OnlyCurrent => /\ CutOff(app).reconnects = 0
                       /\ \A t \in Sockets : ph[t] \notin {"connecting", "open"}
    BY <1>t, CutOffFacts DEF OnlyCurrent, Alive
  <2> HIDE DEF ph, rds
  <2>. QED
    BY <2>1, <2>2, <2>3, <2>4, SocketConnectHostChain DEF NeverGivesUp
<1>7. CASE Heartbeat \/ SendRequest \/ StbChanges \/ UNCHANGED vars
  <2>1. phase' = phase /\ socket' = socket /\ app' = app
    BY <1>7 DEF Heartbeat, SendRequest, StbChanges, vars
  <2>. QED
    BY <2>1 DEF OneChain, NeverGivesUp, NoChain, Alive
<1>. QED
  BY <1>4, <1>5, <1>6, <1>7 DEF Next

\* Two connections at once come only from starting the session again while a
\* reconnection is waiting or an orphan is alive, however many sockets there are.
THEOREM OneChainStays == Spec => StaysOneChain
<1>1. IInv /\ [Next]_vars => [OneChain /\ ~Overlap => OneChain']_vars
  BY ChainStep
<1>. QED
  BY <1>1, Invariant, PTL DEF Spec, StaysOneChain

\* As long as connectToHost gets its streams, a session once started always has
\* a live socket or a reconnection waiting.
THEOREM SessionNeverGivesUp == Spec => []NeverGivesUp
<1>1. Init => NeverGivesUp
  BY SessionAssumption DEF SessionAssumption, Init, NeverGivesUp
<1>2. IInv /\ NeverGivesUp /\ [Next]_vars => NeverGivesUp'
  BY ChainStep
<1>. QED
  BY <1>1, <1>2, Invariant, PTL DEF Spec
=============================================================================
