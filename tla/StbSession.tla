------------------------------ MODULE StbSession ------------------------------
(***************************************************************************)
(* The connection of the app to the set-top box (STB): the Singleton that  *)
(* owns the current AsyncSocket, its delegate methods, the heartbeat       *)
(* timer, the delayed reconnection, and SocketView.viewDidLoad, which      *)
(* every screen that reloads the programme list calls to start the         *)
(* session again.                                                          *)
(*                                                                         *)
(* All of this runs on the main run loop, so a delegate method is one      *)
(* step.  What interleaves is what the run loop may run next: stream       *)
(* events and time-outs of any AsyncSocket still alive, the dispatch_after *)
(* block of a reconnection, the heartbeat timers and the screens.          *)
(*                                                                         *)
(* An AsyncSocket that self.socket no longer points to lives as long as a  *)
(* run-loop timer retains it (its CFStream context does not).  When ARC    *)
(* frees it, dealloc closes it and the delegate is told, as for any drop.  *)
(***************************************************************************)
EXTENDS Naturals, Sequences

CONSTANTS
  Sockets,      \* AsyncSocket instances (one that is freed is used again)
  NoSocket,     \* nil
  OpenResults,  \* what connectToHost may return at once: a subset of BOOLEAN
  MaxStatus,    \* connectStatus is counted up to here: the code tells 3 and >3
  MaxLeaked,    \* bound: heartbeat timers nobody can stop are counted up to here
  MaxReads,     \* bound: reads queued on a socket
  MaxRestarts   \* bound: calls of SocketView.viewDidLoad

ASSUME SessionAssumption ==
  /\ NoSocket \notin Sockets
  /\ OpenResults \subseteq BOOLEAN
  /\ MaxStatus \in Nat /\ MaxStatus > 3
  /\ MaxLeaked \in Nat \ {0}
  /\ MaxReads \in Nat \ {0}
  /\ MaxRestarts \in Nat

VARIABLES
  stb,       \* the STB accepts connections and answers in time
  phase,     \* each AsyncSocket: "free", "connecting", "open" or "closed"
  reads,     \* each AsyncSocket: time-outs of its current and queued reads
  writing,   \* the AsyncSockets with a write (and its 1 s timer) in flight
  socket,    \* self.socket
  app,       \* what the delegate methods leave in the Singleton and on screen
  restarts   \* calls of SocketView.viewDidLoad so far

vars == <<stb, phase, reads, writing, socket, app, restarts>>

Timeouts == {"never", "30s"}

(***************************************************************************)
(* The fields of app: connectStatus; the reconnections waiting in          *)
(* dispatch_after; whether the timer in connectTimer ticks; the repeating  *)
(* timers that tick but that connectTimer no longer points to; the two     *)
(* user defaults; whether the push-to-TV button is enabled; whether the    *)
(* last network notice was netWorkIsColseNotice.                           *)
(***************************************************************************)
AppState ==
  [connectStatus : 0..MaxStatus, reconnects : Nat,
   timer : BOOLEAN, leaked : 0..MaxLeaked,
   ConnectStatus : {"unset", "ConnectIsSuccess", "ConnectIsFaild"},
   playStateType : {"none", "mediaDisConnect"},
   pushBtn : BOOLEAN, netClosed : BOOLEAN]

TypeOK ==
  /\ stb \in BOOLEAN
  /\ phase \in [Sockets -> {"free", "connecting", "open", "closed"}]
  /\ reads \in [Sockets -> Seq(Timeouts)]
  /\ writing \subseteq Sockets
  /\ socket \in Sockets \cup {NoSocket}
  /\ app \in AppState
  /\ restarts \in 0..MaxRestarts

Alive(s) == phase[s] \in {"connecting", "open"}
Online == socket \in Sockets /\ phase[socket] = "open"

Init ==
  /\ stb \in BOOLEAN
  /\ phase = [s \in Sockets |-> "free"]
  /\ reads = [s \in Sockets |-> <<>>]
  /\ writing = {}
  /\ socket = NoSocket
  /\ app \in [connectStatus : {0}, reconnects : {0}, timer : {FALSE},
              leaked : {0},
              \* a user default: it survives from the previous launch
              ConnectStatus : {"unset", "ConnectIsSuccess", "ConnectIsFaild"},
              playStateType : {"none"}, pushBtn : {TRUE}, netClosed : {FALSE}]
  /\ restarts = 0

-----------------------------------------------------------------------------
(* The delegate methods, as functions on app.                              *)

UpTo(n, max) == IF n < max THEN n ELSE max

\* onSocket:didConnectToHost:port: - a new heartbeat timer replaces the one in
\* connectTimer, which goes on ticking if nobody has invalidated it.
DidConnect(a) ==
  LET back == a.connectStatus > 3   \* the app was shown as disconnected
  IN  [connectStatus |-> 0,
       reconnects    |-> a.reconnects,
       timer         |-> TRUE,
       leaked        |-> IF a.timer THEN UpTo(a.leaked + 1, MaxLeaked)
                                    ELSE a.leaked,
       ConnectStatus |-> IF back THEN "ConnectIsSuccess" ELSE a.ConnectStatus,
       playStateType |-> "none",
       pushBtn       |-> IF back THEN TRUE ELSE a.pushBtn,
       netClosed     |-> FALSE]

\* Mutants of ReconnectsAfter: a drop by the user reconnects as well; the app
\* gives up when it shows the outage.
ReconnectsAfterAny(a, userData) == a.reconnects + 1
ReconnectsUnlessOutage(a, userData) ==
  IF userData = "ByServer" /\ a.connectStatus # 2
  THEN a.reconnects + 1 ELSE a.reconnects

\* The reconnections waiting once onSocketDidDisconnect has returned.
ReconnectsAfter(a, userData) ==
  IF userData = "ByServer" THEN a.reconnects + 1 ELSE a.reconnects

\* onSocketDidDisconnect: of a socket whose userData is "ByServer" or "ByUser".
\* A drop by the server is counted and starts a reconnection; the third one,
\* and any cut by the user, shows the outage.
DidDisconnect(a, userData) ==
  LET server == userData = "ByServer"
      n      == IF server THEN UpTo(a.connectStatus + 1, MaxStatus)
                          ELSE a.connectStatus
      outage == ~server \/ n = 3
  IN  [connectStatus |-> n,
       reconnects    |-> ReconnectsAfter(a, userData),
       timer         |-> a.timer,
       leaked        |-> a.leaked,
       ConnectStatus |-> IF server /\ outage THEN "ConnectIsFaild"
                                             ELSE a.ConnectStatus,
       playStateType |-> IF outage THEN "mediaDisConnect" ELSE a.playStateType,
       pushBtn       |-> IF outage THEN FALSE ELSE a.pushBtn,
       netClosed     |-> IF outage THEN TRUE ELSE a.netClosed]

-----------------------------------------------------------------------------
(* AsyncSocket.                                                            *)

\* An orphan (not self.socket) that is open is retained by a write timer or by
\* the timer of its current read, and by nothing else.
Orphaned(s, cur, rds, wr) ==
  /\ s # cur
  /\ s \notin wr
  /\ rds[s] = <<>> \/ Head(rds[s]) = "never"

\* Back in the run loop after a callback of s: ARC frees s if it is orphaned,
\* and dealloc closes it, which calls the delegate.
EndCallback(s, rds, wr, a) ==
  LET freed == Orphaned(s, socket, rds, wr)
  IN  /\ phase' = [phase EXCEPT ![s] = IF freed THEN "free" ELSE "open"]
      /\ reads' = IF freed THEN [rds EXCEPT ![s] = <<>>] ELSE rds
      /\ writing' = wr
      /\ app' = IF freed THEN DidDisconnect(a, "ByServer") ELSE a
      /\ UNCHANGED <<stb, socket, restarts>>

\* Mutant of Close: the end of any connection invalidates the heartbeat timer.
CloseStopsHeartbeat(s) ==
  /\ phase' = [phase EXCEPT ![s] = IF s = socket THEN "closed" ELSE "free"]
  /\ reads' = [reads EXCEPT ![s] = <<>>]
  /\ writing' = writing \ {s}
  /\ app' = [DidDisconnect(app, "ByServer") EXCEPT !.timer = FALSE]
  /\ UNCHANGED <<stb, socket, restarts>>

\* close: the queues are emptied and the delegate is told.
Close(s) ==
  /\ phase' = [phase EXCEPT ![s] = IF s = socket THEN "closed" ELSE "free"]
  /\ reads' = [reads EXCEPT ![s] = <<>>]
  /\ writing' = writing \ {s}
  /\ app' = DidDisconnect(app, "ByServer")
  /\ UNCHANGED <<stb, socket, restarts>>

\* writeData on self.socket: dropped by a socket that is closed.
WithWrite(wr) == wr \cup {s \in Sockets : s = socket /\ Alive(s)}

\* self.socket = a new AsyncSocket, then connectToHost:withTimeout:3, whose
\* result nobody looks at.  ph, wr and a are phase, writing and app before it.
\* The socket replaced is freed unless a timer retains it.
SocketConnectHost(ph, rds, wr, a) ==
  \E n \in {s \in Sockets : ph[s] = "free"}, opened \in OpenResults :
    LET old    == {s \in Sockets : s = socket}
        freed  == {s \in old : /\ ph[s] # "connecting"
                               /\ ph[s] = "open" => Orphaned(s, n, rds, wr)}
    IN  /\ socket' = n
        /\ phase' = [s \in Sockets |->
                       IF s = n THEN IF opened THEN "connecting" ELSE "closed"
                       ELSE IF s \in freed THEN "free" ELSE ph[s]]
        /\ reads' = [s \in Sockets |-> IF s \in freed THEN <<>> ELSE rds[s]]
        /\ writing' = wr
        /\ app' = IF \E s \in freed : ph[s] = "open"
                  THEN DidDisconnect(a, "ByServer") ELSE a

-----------------------------------------------------------------------------
(* Actions: the run loop.                                                  *)

\* Mutant of Connect: connectStatus is not set back to 0.
ConnectKeepsCount(s) ==
  /\ stb
  /\ phase[s] = "connecting"
  /\ Len(reads[s]) < MaxReads
  /\ EndCallback(s, [reads EXCEPT ![s] = Append(@, "never")],
                 WithWrite(writing),
                 [DidConnect(app) EXCEPT !.connectStatus = app.connectStatus])

\* Both streams of s are open: didConnectToHost reads on sock, starts the
\* heartbeat timer and fires it at once.
Connect(s) ==
  /\ stb
  /\ phase[s] = "connecting"
  /\ Len(reads[s]) < MaxReads
  /\ EndCallback(s, [reads EXCEPT ![s] = Append(@, "never")],
                 WithWrite(writing), DidConnect(app))

\* Refused, or the 3 s connect timer of s fires.
ConnectFails(s) ==
  /\ ~stb
  /\ phase[s] = "connecting"
  /\ Close(s)

\* The STB, or the network, ends the connection.
PeerCloses(s) ==
  /\ ~stb
  /\ phase[s] = "open"
  /\ Close(s)

\* The current read has waited for 30 s.
ReadTimeout(s) ==
  /\ ~stb
  /\ Alive(s)
  /\ reads[s] # <<>> /\ Head(reads[s]) = "30s"
  /\ Close(s)

\* A write has waited for 1 s: also on a socket that is still connecting.
WriteTimeout(s) ==
  /\ ~stb
  /\ s \in writing
  /\ Close(s)

\* A read of s ends: didReadData asks for the next one on self.socket, unless
\* it has returned early (rearm = FALSE).
ReadData(s, rearm) ==
  LET popped == [reads EXCEPT ![s] = Tail(@)]
      target == {t \in Sockets : rearm /\ t = socket /\ Alive(t)}
  IN  /\ phase[s] = "open"
      /\ reads[s] # <<>>
      /\ \A t \in target : Len(popped[t]) < MaxReads
      /\ EndCallback(s, [t \in Sockets |-> IF t \in target
                                           THEN Append(popped[t], "30s")
                                           ELSE popped[t]],
                     writing, app)

\* The bytes of the current write of s are out.
WriteDone(s) ==
  /\ phase[s] = "open"
  /\ s \in writing
  /\ EndCallback(s, reads, writing \ {s}, app)

\* longConnectToSocket, from any timer that ticks.
Heartbeat ==
  /\ app.timer \/ app.leaked > 0
  /\ writing' = WithWrite(writing)
  /\ UNCHANGED <<stb, phase, reads, socket, app, restarts>>

\* Mutant of SendRequest: the sender asks for the answer itself.
SendRequestAndRead ==
  /\ socket \in Sockets
  /\ writing' = WithWrite(writing)
  /\ reads' = [s \in Sockets |->
                 IF s = socket /\ Alive(s) /\ Len(reads[s]) < MaxReads
                 THEN Append(reads[s], "30s") ELSE reads[s]]
  /\ UNCHANGED <<stb, phase, socket, app, restarts>>

\* Play_ServiceSocket and its siblings: a screen sends a request.
SendRequest ==
  /\ socket \in Sockets
  /\ writing' = WithWrite(writing)
  /\ UNCHANGED <<stb, phase, reads, socket, app, restarts>>

\* Mutants of Reconnect: a reconnection that nobody asked for; none any more
\* once the outage is shown.
ReconnectUnasked ==
  /\ SocketConnectHost(phase, reads, writing,
                       [app EXCEPT !.reconnects = @ - 1])
  /\ UNCHANGED <<stb, restarts>>
ReconnectUntilOutage ==
  /\ app.reconnects > 0
  /\ app.connectStatus < 3
  /\ SocketConnectHost(phase, reads, writing,
                       [app EXCEPT !.reconnects = @ - 1])
  /\ UNCHANGED <<stb, restarts>>

\* The block that onSocketDidDisconnect gave to dispatch_after: nothing
\* cancels it, and it does not look at self.socket first.
Reconnect ==
  /\ app.reconnects > 0
  /\ SocketConnectHost(phase, reads, writing,
                       [app EXCEPT !.reconnects = @ - 1])
  /\ UNCHANGED <<stb, restarts>>

\* cutOffSocket, as SocketView.viewDidLoad calls it: userData is ByUser.
CutOff(a) ==
  LET still == [a EXCEPT !.timer = FALSE]
  IN  IF \E s \in Sockets : s = socket /\ Alive(s)
      THEN DidDisconnect(still, "ByUser") ELSE still

\* SocketView.viewDidLoad: cut off the current socket and connect a new one.
Restart ==
  /\ restarts < MaxRestarts
  /\ restarts' = restarts + 1
  /\ SocketConnectHost(
       [s \in Sockets |-> IF s = socket THEN "closed" ELSE phase[s]],
       [s \in Sockets |-> IF s = socket THEN <<>> ELSE reads[s]],
       writing \ {socket}, CutOff(app))
  /\ UNCHANGED stb

\* The STB goes, or comes back.
StbChanges ==
  /\ stb' = ~stb
  /\ UNCHANGED <<phase, reads, writing, socket, app, restarts>>

Next ==
  \/ \E s \in Sockets :
       \/ Connect(s) \/ ConnectFails(s) \/ PeerCloses(s)
       \/ ReadTimeout(s) \/ WriteTimeout(s) \/ WriteDone(s)
       \/ \E rearm \in BOOLEAN : ReadData(s, rearm)
  \/ Heartbeat \/ SendRequest \/ Reconnect \/ Restart \/ StbChanges

Spec == Init /\ [][Next]_vars

\* The run loop runs what is due: a dispatch_after block after its 0.1 s, and
\* the events of a stream whose peer answers.
Fairness ==
  /\ WF_vars(Reconnect)
  /\ \A s \in Sockets : WF_vars(Connect(s))

FairSpec == Spec /\ Fairness

-----------------------------------------------------------------------------
(* Properties.                                                             *)

\* A chain is an AsyncSocket that may still tell the delegate it disconnected,
\* or a reconnection already waiting: each of them begets one other, for ever.
NoChain == app.reconnects = 0 /\ \A s \in Sockets : ~Alive(s)

\* Nothing is going on but through self.socket.
OnlyCurrent == app.reconnects = 0 /\ \A s \in Sockets : Alive(s) => s = socket

\* At most one chain.
OneChain ==
  \/ /\ app.reconnects = 0
     /\ \A s, t \in Sockets : Alive(s) /\ Alive(t) => s = t
  \/ /\ app.reconnects = 1
     /\ \A s \in Sockets : ~Alive(s)

\* While the current connection is open a heartbeat timer ticks, and
\* cutOffSocket can stop it: whatever sockets came and went, the last timer was
\* not invalidated by the end of another connection.
HeartbeatWhileOnline == Online => app.timer

\* While self.socket is open and nothing else is going on, the app does not say
\* that the network is gone, has not refused playback for it, and counts the
\* next drop as the first: no outage survives the reconnection.
OnlineShowsNoOutage ==
  Online /\ OnlyCurrent =>
    /\ app.playStateType # "mediaDisConnect"
    /\ ~app.netClosed
    /\ app.connectStatus = 0

\* Once started, and as long as connectToHost gets its streams, the session
\* never gives up: a socket is alive or a reconnection is waiting, also after
\* the third failure, after cutOffSocket and after an orphan is freed.
NeverGivesUp ==
  OpenResults = {TRUE} /\ socket \in Sockets => ~NoChain

\* A read is never asked for twice on the only connection: the answer to a
\* request is delivered once, to the read that the last delivery asked for.
OneReadAtATime == OnlyCurrent /\ Online => Len(reads[socket]) <= 1

\* The only way to have two connections, or one and a reconnection, is to start
\* the session again while something goes on other than through self.socket:
\* inside the 0.1 s of a reconnection that cutOffSocket does not cancel.
Overlap == restarts' > restarts /\ ~OnlyCurrent
StaysOneChain == [][OneChain /\ ~Overlap => OneChain']_vars

\* If the STB stays reachable and the session never overlapped itself, the app
\* ends up connected for good.
StaysOnline ==
  <>[](stb /\ OneChain /\ socket \in Sockets) => <>[]Online

\* The inductive invariant behind the theorems: a socket that is not alive has
\* neither reads nor writes, and the only connection has no read before it opens.
QuietUnlessAlive ==
  \A s \in Sockets : ~Alive(s) => reads[s] = <<>> /\ s \notin writing
FirstReadAfterConnect ==
  \A s \in Sockets : OnlyCurrent /\ s = socket =>
    Len(reads[s]) <= IF phase[s] = "open" THEN 1 ELSE 0
IInv ==
  /\ TypeOK /\ HeartbeatWhileOnline /\ OnlineShowsNoOutage
  /\ QuietUnlessAlive /\ FirstReadAfterConnect

\* Singleton.m:53 "from the disconnected state to the connected state, start
\* to play again": whoever is connected has had the push button enabled again
\* and the playback started again (the same branch does both).
OutageIsUndone == Online /\ OnlyCurrent => app.pushBtn

\* Singleton.m:71 "a heartbeat packet to the server every 15 s": one repeating
\* timer of 15 s ticks at most.
OneHeartbeat == app.leaked = 0

\* At least one of the two comments is true; the run that refutes it breaks both.
OutageOrHeartbeat == OutageIsUndone \/ OneHeartbeat

=============================================================================
