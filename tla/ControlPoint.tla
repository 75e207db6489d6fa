---------------------------- MODULE ControlPoint ----------------------------
(***************************************************************************)
(* The UPnP control point of clinkc (upnp/ccontrolpoint.c and              *)
(* upnp/ccontrolpoint_event.c, with util/cmutex.c, ccond.c, cthread.c) and *)
(* its one listener in the app (DLNASample/AppDelegate.m).                 *)
(*                                                                         *)
(* The threads: one receiver per multicast socket (alive and byebye        *)
(* announcements), one per search socket (answers to M-SEARCH), and the    *)
(* expiration handler.  They share the device list under `lock`, the mutex *)
(* of the control point; `expLock` and the condition it guards wake the    *)
(* handler.  A device object is a slot of the heap, which the allocator    *)
(* may hand out again as soon as it is freed.                              *)
(*                                                                         *)
(* What a description says is for the network to choose: it need not name  *)
(* the device whose packet led to it.  `misnamed` remembers the names so    *)
(* concerned; the program has no such variable.                            *)
(*                                                                         *)
(* A thread that touches a freed object sets `crashed`: from there the     *)
(* program has no defined behaviour and the model stops.                   *)
(***************************************************************************)
EXTENDS CList, Integers, Sequences, FiniteSets

CONSTANTS
  Multicast,    \* receivers of announcements
  Response,     \* receivers of search answers
  Handler,      \* the expiration handler thread
  NoOne,        \* owner of a free mutex
  Udns,         \* names of devices; the one the program makes up for a
                \* description without any is a name nobody announces
  Locations,    \* description URLs
  Offers,       \* what the devices announce: <<udn, location, max-age>>,
                \* the max-age in ticks, 0 when none is given
  Slots,        \* addresses of the heap
  Null,
  MaxPackets,   \* bound on the packets received
  MaxMisnamed,  \* bound: no description says another name once this many are in doubt
  MaxTime       \* bound on the clock

Receivers == Multicast \cup Response
Threads == Receivers \cup {Handler}

ASSUME ThreadAssumption ==
  /\ Multicast \cap Response = {}
  /\ Handler \notin Receivers
  /\ NoOne \notin Threads

ASSUME HeapAssumption == Null \notin Slots /\ Null \notin Udns

ASSUME OfferAssumption == Offers \subseteq Udns \X Locations \X Nat

VARIABLES
  lock, expLock,   \* owners of ctrlPoint->mutex and ctrlPoint->expMutex
  list,            \* ctrlPoint->deviceList
  heap,            \* slot -> the device object there, or Free
  pc,              \* where each thread is
  job,             \* the packet each thread works on
  ptr,             \* the local `dev` of each thread
  rows,            \* the objects the listener of a receiver has collected
  cursor,          \* `dev` of the handler's loop
  curr, until,     \* currTime and expirationTime of the handler
  wake,            \* when the handler's timed wait ends; 0: never
  now, received,
  misnamed,        \* names for which a description said another one, or none
  crashed

vars == << lock, expLock, list, heap, pc, job, ptr, rows, cursor, curr, until,
           wake, now, received, misnamed, crashed >>
handlerVars == << cursor, curr, until, wake >>
networkVars == << now, received, misnamed >>

\* A device object: `udn`, `loc` and `expires` are those of its last packet,
\* `name` is the UDN of its description, Null when it has none.
Free == [udn |-> Null, name |-> Null, loc |-> Null, expires |-> 0]
Device == [udn : Udns, name : Udns \cup {Null}, loc : Locations, expires : Nat]
Packet == [udn : Udns, loc : Locations \cup {Null}, age : Nat]
NoPacket == [udn |-> Null, loc |-> Null, age |-> 0]

Live(s) == heap[s] # Free
Listed == Nodes(list)

\* cg_upnp_controlpoint_getdevicebyudn: the first in the list whose description
\* has that name; an object without a description is never found.
Named(u) == {i \in 1 .. Len(list) : heap[list[i]].name = u}

Lookup(u) ==
  IF Named(u) = {} THEN Null
  ELSE list[CHOOSE i \in Named(u) : \A j \in Named(u) : i <= j]

\* cg_upnp_ssdp_packet_copy puts the time into the copy, and the lease runs from
\* there (cg_upnp_ssdp_packet_getexpiration).
Copied(packet, name) ==
  [udn |-> packet.udn, name |-> name, loc |-> packet.loc,
   expires |-> IF packet.age = 0 THEN 0 ELSE now + packet.age]

Goto(t, place) == pc' = [pc EXCEPT ![t] = place]

\* A receiver goes back to its socket: the packet is cleared.
Done(t) == Goto(t, "recv") /\ job' = [job EXCEPT ![t] = NoPacket]

Init ==
  /\ lock = NoOne /\ expLock = NoOne
  /\ list = << >>
  /\ heap = [s \in Slots |-> Free]
  /\ pc = [t \in Threads |-> IF t = Handler THEN "woken" ELSE "recv"]
  /\ job = [t \in Threads |-> NoPacket]
  /\ ptr = [t \in Threads |-> Null]
  /\ rows = [t \in Threads |-> {}]
  /\ cursor = Null /\ curr = 1 /\ until = 0 /\ wake = 0
  /\ now = 1 /\ received = 0 /\ misnamed = {} /\ crashed = FALSE

-----------------------------------------------------------------------------
(* Receiving, and the devices that announce themselves.                     *)

\* A packet comes in; announcements of anything but root devices are filtered
\* out before, and search answers carry no byebye.
Receive(t, packet, place) ==
  /\ pc[t] = "recv" /\ received < MaxPackets
  /\ job' = [job EXCEPT ![t] = packet]
  /\ Goto(t, place)
  /\ received' = received + 1
  /\ UNCHANGED << lock, expLock, list, heap, ptr, rows, handlerVars, now, misnamed,
                  crashed >>

Alive(t) ==
  \E offer \in Offers :
    Receive(t, [udn |-> offer[1], loc |-> offer[2], age |-> offer[3]], "add")

ByeBye(t) ==
  \E u \in Udns :
    Receive(t, [udn |-> u, loc |-> Null, age |-> 0], "remove")

\* Mutant: a device that moved is fetched again without the lock.
UpdateKnownUnlocked(t) ==
  /\ pc[t] = "add" /\ lock = NoOne
  /\ LET dev == Lookup(job[t].udn) IN
       /\ dev # Null
       /\ lock' = IF heap[dev].loc = job[t].loc THEN t ELSE NoOne
       /\ heap' = [heap EXCEPT ![dev] = Copied(job[t], @.name)]
       /\ ptr' = [ptr EXCEPT ![t] = dev]
       /\ Goto(t, IF heap[dev].loc = job[t].loc THEN "updated" ELSE "parse")
  /\ UNCHANGED << expLock, list, job, rows, handlerVars, networkVars, crashed >>

\* cg_upnp_controlpoint_adddevicebyssdppacket, a known device: with the same
\* location only the packet is replaced; with another one it is replaced and
\* the description fetched again, the lock held all along.
UpdateKnown(t) ==
  /\ pc[t] = "add" /\ lock = NoOne
  /\ LET dev == Lookup(job[t].udn) IN
       /\ dev # Null
       /\ lock' = t
       /\ heap' = [heap EXCEPT ![dev] = Copied(job[t], @.name)]
       /\ ptr' = [ptr EXCEPT ![t] = dev]
       /\ Goto(t, IF heap[dev].loc = job[t].loc THEN "updated" ELSE "parse")
  /\ UNCHANGED << expLock, list, job, rows, handlerVars, networkVars, crashed >>

\* The names a description leaves to be doubted when it gives `name` to the
\* device of the packet.
Misnamed(packet, name) ==
  IF name = packet.udn THEN misnamed
  ELSE misnamed \cup ({packet.udn, name} \ {Null})

\* The description of a device that moved is fetched and parsed, and nobody looks
\* whether that worked.  Nothing fetched: the old description stays, and its
\* name with it.  Nothing parsed: the old one is gone and there is none.
\* Otherwise the object has the name the new one gives.
Reparsed(t) ==
  /\ pc[t] = "parse"
  /\ \E name \in Udns \cup {Null} :
       /\ heap' = [heap EXCEPT ![ptr[t]].name = name]
       /\ misnamed' = Misnamed(job[t], name)
       /\ name = job[t].udn \/ Cardinality(misnamed) < MaxMisnamed
  /\ Goto(t, "updated")
  /\ UNCHANGED << lock, expLock, list, job, ptr, rows, handlerVars, now, received,
                  crashed >>

\* Mutant: the lock is given back for the time of the fetch.
CreateNewUnlocked(t) ==
  /\ pc[t] = "add" /\ lock = NoOne /\ Lookup(job[t].udn) = Null
  /\ \E s \in Slots :
       /\ ~Live(s)
       /\ heap' = [heap EXCEPT ![s] = Copied(job[t], Null)]
       /\ ptr' = [ptr EXCEPT ![t] = s]
  /\ Goto(t, "fetch")
  /\ UNCHANGED << lock, expLock, list, job, rows, handlerVars, networkVars,
                  crashed >>

\* A new device, the lock held all along: an object is allocated, its description
\* fetched and the packet copied; until then no one else can see it.
CreateNew(t) ==
  /\ pc[t] = "add" /\ lock = NoOne /\ Lookup(job[t].udn) = Null
  /\ \E s \in Slots :
       /\ ~Live(s)
       /\ heap' = [heap EXCEPT ![s] = Copied(job[t], Null)]
       /\ ptr' = [ptr EXCEPT ![t] = s]
  /\ lock' = t
  /\ Goto(t, "fetch")
  /\ UNCHANGED << expLock, list, job, rows, handlerVars, networkVars, crashed >>

\* Mutant: freed without being unlinked.
DeleteLinked(s) == list' = list /\ heap' = [heap EXCEPT ![s] = Free]

\* cg_upnp_device_delete: unlink, then free.
Delete(s) ==
  /\ list' = Unlinked(list, s)
  /\ heap' = [heap EXCEPT ![s] = Free]

\* The description of a new device and those of its services are there: it has
\* the name it gives itself, the packet is copied and the object listed.
Described(t) ==
  /\ pc[t] = "fetch"
  /\ \E name \in Udns :
       /\ heap' = [heap EXCEPT ![ptr[t]] = Copied(job[t], name)]
       /\ misnamed' = Misnamed(job[t], name)
       /\ name = job[t].udn \/ Cardinality(misnamed) < MaxMisnamed
  /\ list' = Linked(list, ptr[t])
  /\ Goto(t, "added")
  /\ UNCHANGED << lock, expLock, job, ptr, rows, handlerVars, now, received,
                  crashed >>

\* One of the services has none, or a new device has none: the object is deleted,
\* a listed one as well.
NotDescribed(t) ==
  /\ pc[t] \in {"parse", "fetch"}
  /\ Delete(ptr[t])
  /\ lock' = NoOne
  /\ ptr' = [ptr EXCEPT ![t] = Null]
  /\ Done(t)              \* the listener does nothing with `Invalid`
  /\ UNCHANGED << expLock, rows, handlerVars, networkVars, crashed >>

\* cg_cond_signal(expCond) under expMutex, then the lock is released and the
\* listener called; the app's listener looks at `Updated` only.
Signal(t) ==
  /\ pc[t] \in {"added", "updated"} /\ expLock = NoOne
  /\ pc' = [pc EXCEPT ![t] = IF pc[t] = "added" THEN "recv" ELSE "listen",
                      ![Handler] = IF @ = "wait" THEN "woken" ELSE @]
  /\ lock' = NoOne
  /\ ptr' = [ptr EXCEPT ![t] = Null]
  /\ job' = [job EXCEPT ![t] = NoPacket]
  /\ UNCHANGED << expLock, list, heap, rows, handlerVars, networkVars, crashed >>

\* controlPoint:deviceUpdated: walks the device list, without the lock.
Listen(t) ==
  /\ pc[t] = "listen"
  /\ ptr' = [ptr EXCEPT ![t] = FirstOf(list, Null)]
  /\ rows' = [rows EXCEPT ![t] = {}]
  /\ Goto(t, "walk")
  /\ UNCHANGED << lock, expLock, list, heap, job, handlerVars, networkVars,
                  crashed >>

Walk(t) ==
  /\ pc[t] = "walk" /\ ptr[t] # Null
  /\ IF Live(ptr[t])
     THEN /\ rows' = [rows EXCEPT ![t] = @ \cup {ptr[t]}]
          /\ ptr' = [ptr EXCEPT ![t] = NextOf(list, @, Null)]
          /\ UNCHANGED crashed
     ELSE crashed' = TRUE /\ UNCHANGED << rows, ptr >>
  /\ UNCHANGED << lock, expLock, list, heap, pc, job, handlerVars, networkVars >>

\* The names, ids and addresses of the collected objects are read.
Show(t) ==
  /\ pc[t] = "walk" /\ ptr[t] = Null
  /\ IF \A s \in rows[t] : Live(s)
     THEN /\ Goto(t, "recv") /\ rows' = [rows EXCEPT ![t] = {}]
          /\ UNCHANGED crashed
     ELSE crashed' = TRUE /\ UNCHANGED << pc, rows >>
  /\ UNCHANGED << lock, expLock, list, heap, job, ptr, handlerVars, networkVars >>

\* Mutant: whoever removed a device goes to a socket.
RemovedToSocket(t) ==
  /\ Goto(t, "recv")
  /\ job' = [job EXCEPT ![t] = NoPacket]
  /\ ptr' = [ptr EXCEPT ![t] = Null]

-----------------------------------------------------------------------------
(* cg_upnp_controlpoint_removedevicebyssdppacket, by a receiver or by the   *)
(* handler.                                                                 *)

Removed(t) ==
  /\ Goto(t, IF t = Handler THEN "back" ELSE "recv")
  /\ job' = [job EXCEPT ![t] = NoPacket]
  /\ ptr' = [ptr EXCEPT ![t] = Null]

NothingToRemove(t) ==
  /\ pc[t] = "remove" /\ lock = NoOne /\ Lookup(job[t].udn) = Null
  /\ Removed(t)
  /\ UNCHANGED << lock, expLock, list, heap, rows, handlerVars, networkVars,
                  crashed >>

\* The object is found, and the lock released to call the listener.
FindToRemove(t) ==
  /\ pc[t] = "remove" /\ lock = NoOne /\ Lookup(job[t].udn) # Null
  /\ ptr' = [ptr EXCEPT ![t] = Lookup(job[t].udn)]
  /\ Goto(t, "delete")
  /\ UNCHANGED << lock, expLock, list, heap, job, rows, handlerVars, networkVars,
                  crashed >>

\* The lock is taken again and the object found before is deleted.
DeleteFound(t) ==
  /\ pc[t] = "delete" /\ lock = NoOne
  /\ IF Live(ptr[t])
     THEN /\ Delete(ptr[t])
          /\ Removed(t)
          /\ UNCHANGED crashed
     ELSE crashed' = TRUE /\ UNCHANGED << list, heap, pc, job, ptr >>
  /\ UNCHANGED << lock, expLock, rows, handlerVars, networkVars >>

-----------------------------------------------------------------------------
(* cg_upnp_controlpoint_expirationhandler                                   *)

\* The head of the loop: the time is taken and expMutex released.
StartPass ==
  /\ pc[Handler] = "top"
  /\ curr' = now /\ until' = 0
  /\ expLock' = NoOne
  /\ Goto(Handler, "look")
  /\ UNCHANGED << lock, list, heap, job, ptr, rows, cursor, wake, networkVars,
                  crashed >>

LockList ==
  /\ pc[Handler] = "look" /\ lock = NoOne
  /\ lock' = Handler
  /\ cursor' = FirstOf(list, Null)
  /\ Goto(Handler, "scan")
  /\ UNCHANGED << expLock, list, heap, job, ptr, rows, curr, until, wake,
                  networkVars, crashed >>

Expired(s) == heap[s].expires > 0 /\ heap[s].expires <= curr

\* A device whose lease runs: the earliest end is kept.
CheckLease ==
  /\ pc[Handler] = "scan" /\ cursor # Null /\ ~Expired(cursor)
  /\ until' = IF heap[cursor].expires > 0 /\ (until = 0 \/ heap[cursor].expires < until)
              THEN heap[cursor].expires ELSE until
  /\ cursor' = NextOf(list, cursor, Null)
  /\ UNCHANGED << lock, expLock, list, heap, pc, job, ptr, rows, curr, wake,
                  networkVars, crashed >>

\* Mutant: the lock is kept for the removal.
FindExpiredLocked ==
  /\ pc[Handler] = "scan" /\ cursor # Null /\ Expired(cursor)
  /\ ptr' = [ptr EXCEPT ![Handler] = cursor]
  /\ cursor' = NextOf(list, cursor, Null)
  /\ Goto(Handler, "drop")
  /\ UNCHANGED << lock, expLock, list, heap, job, rows, curr, until, wake,
                  networkVars, crashed >>

\* An expired one: its successor is remembered and the lock released.
FindExpired ==
  /\ pc[Handler] = "scan" /\ cursor # Null /\ Expired(cursor)
  /\ ptr' = [ptr EXCEPT ![Handler] = cursor]
  /\ cursor' = NextOf(list, cursor, Null)
  /\ lock' = NoOne
  /\ Goto(Handler, "drop")
  /\ UNCHANGED << expLock, list, heap, job, rows, curr, until, wake, networkVars,
                  crashed >>

\* The packet of the expired device is read, without the lock.
ReadItsPacket ==
  /\ pc[Handler] = "drop"
  /\ IF Live(ptr[Handler])
     THEN /\ job' = [job EXCEPT ![Handler] =
                             [udn |-> heap[ptr[Handler]].udn,
                              loc |-> heap[ptr[Handler]].loc, age |-> 0]]
          /\ Goto(Handler, "remove")
          /\ UNCHANGED crashed
     ELSE crashed' = TRUE /\ UNCHANGED << job, pc >>
  /\ UNCHANGED << lock, expLock, list, heap, ptr, rows, handlerVars, networkVars >>

\* The lock is taken again and the loop goes on behind the remembered
\* successor, whose own lease is not looked at.
Resume ==
  /\ pc[Handler] = "back" /\ lock = NoOne
  /\ IF cursor = Null \/ Live(cursor)
     THEN /\ lock' = Handler
          /\ cursor' = IF cursor = Null THEN Null ELSE NextOf(list, cursor, Null)
          /\ Goto(Handler, "scan")
          /\ UNCHANGED crashed
     ELSE crashed' = TRUE /\ UNCHANGED << lock, cursor, pc >>
  /\ UNCHANGED << expLock, list, heap, job, ptr, rows, curr, until, wake,
                  networkVars >>

EndPass ==
  /\ pc[Handler] = "scan" /\ cursor = Null
  /\ lock' = NoOne
  /\ Goto(Handler, "between")
  /\ UNCHANGED << expLock, list, heap, job, ptr, rows, handlerVars, networkVars,
                  crashed >>

\* expMutex is taken, the time left computed, and the wait begun.  A time left
\* of 0 makes cg_cond_wait wait for a signal only.
Sleep ==
  /\ pc[Handler] = "between" /\ expLock = NoOne
  /\ wake' = IF until > curr /\ until # now THEN until ELSE 0
  /\ curr' = IF until > curr THEN now ELSE curr
  /\ Goto(Handler, "wait")
  /\ UNCHANGED << lock, expLock, list, heap, job, ptr, rows, cursor, until,
                  networkVars, crashed >>

TimeOut ==
  /\ pc[Handler] = "wait" /\ wake # 0 /\ now >= wake
  /\ Goto(Handler, "woken")
  /\ UNCHANGED << lock, expLock, list, heap, job, ptr, rows, handlerVars,
                  networkVars, crashed >>

Wake ==
  /\ pc[Handler] = "woken" /\ expLock = NoOne
  /\ expLock' = Handler
  /\ Goto(Handler, "top")
  /\ UNCHANGED << lock, list, heap, job, ptr, rows, handlerVars, networkVars,
                  crashed >>

-----------------------------------------------------------------------------
Tick ==
  /\ now < MaxTime
  /\ now' = now + 1
  /\ UNCHANGED << lock, expLock, list, heap, pc, job, ptr, rows, handlerVars,
                  received, misnamed, crashed >>

Remove(t) == NothingToRemove(t) \/ FindToRemove(t) \/ DeleteFound(t)

Handle(t) ==
  \/ UpdateKnown(t) \/ Reparsed(t) \/ CreateNew(t) \/ Described(t) \/ NotDescribed(t)
  \/ Signal(t) \/ Listen(t) \/ Walk(t) \/ Show(t) \/ Remove(t)

Expire ==
  \/ StartPass \/ LockList \/ CheckLease \/ FindExpired \/ ReadItsPacket
  \/ Remove(Handler) \/ Resume \/ EndPass \/ Sleep \/ TimeOut \/ Wake

Next ==
  /\ ~crashed
  /\ \/ \E t \in Receivers : Alive(t) \/ Handle(t)
     \/ \E t \in Multicast : ByeBye(t)
     \/ Expire
     \/ Tick

\* Every thread that can run does; no packet has to come, and no tick.
Fairness ==
  /\ \A t \in Receivers : WF_vars(~crashed /\ Handle(t))
  /\ WF_vars(~crashed /\ Expire)

Spec == Init /\ [][Next]_vars /\ Fairness

-----------------------------------------------------------------------------
(* Properties                                                               *)

ReceiverPlaces == {"recv", "add", "parse", "fetch", "added", "updated", "listen",
                   "walk", "remove", "delete"}
HandlerPlaces == {"woken", "top", "look", "scan", "drop", "remove", "delete", "back",
                  "between", "wait"}

TypeOK ==
  /\ lock \in Threads \cup {NoOne} /\ expLock \in {Handler, NoOne}
  /\ list \in Seq(Slots)
  /\ heap \in [Slots -> Device \cup {Free}]
  /\ pc \in [Threads -> ReceiverPlaces \cup HandlerPlaces]
  /\ \A t \in Receivers : pc[t] \in ReceiverPlaces
  /\ pc[Handler] \in HandlerPlaces
  /\ job \in [Threads -> Packet \cup {NoPacket}]
  /\ ptr \in [Threads -> Slots \cup {Null}]
  /\ rows \in [Threads -> SUBSET Slots]
  /\ cursor \in Slots \cup {Null}
  /\ curr \in Nat /\ until \in Nat /\ wake \in Nat
  /\ now \in Nat /\ received \in Nat /\ misnamed \subseteq Udns /\ crashed \in BOOLEAN

\* A device is in the list once, under its own name, whichever of its
\* announcements and answers the receivers handle at the same time: the look-up
\* and the insertion are one hold of the lock, with the fetching of the
\* description in between (ccontrolpoint.c:693-736).  Only a description that
\* said something else for this very device makes an exception.
OneObjectPerUdn ==
  \A s1, s2 \in Listed : heap[s1].udn \notin misnamed =>
    /\ heap[s1].name = heap[s1].udn
    /\ heap[s1].udn \in {heap[s2].udn, heap[s2].name} => s1 = s2

\* No device object is lost: every one that is allocated is in the list, or
\* the lock is held by the receiver that is fetching its description; and the
\* list never holds an address that was given back.  This survives the
\* deletions through pointers kept across an unlock, as long as none of them
\* meets a freed object.
NothingLeaks ==
  \A s \in Slots :
    Live(s) <=> \/ s \in Listed
                \/ \E t \in Receivers : lock = t /\ pc[t] = "fetch" /\ ptr[t] = s

\* What the lock is documented to give (ccontrolpoint.c:374-378): a device a
\* thread has found, and for which it has not released the lock since, stays
\* in the list.  The handler's cursor needs it as it comes back from a removal
\* and steps on from a successor it remembered across an unlock.
HeldPointersAreGood ==
  /\ \A t \in Receivers : pc[t] \in {"parse", "added", "updated"} => ptr[t] \in Listed
  /\ pc[Handler] = "scan" => cursor \in Listed \cup {Null}

\* The two mutexes and the condition never stop a thread for good: every
\* receiver comes back to its socket and the handler to its wait, although
\* receivers take expMutex with the lock held and the handler uses both.
EveryThreadComesHome ==
  /\ \A t \in Receivers : []<>(pc[t] = "recv" \/ crashed)
  /\ []<>(pc[Handler] = "wait" \/ crashed)

\* Claims of the comments that the code does not keep.  No pointer is used
\* after the lock it was found under was released (ccontrolpoint.c:380-383):
NoStalePointerIsUsed == ~crashed

\* The handler sleeps no longer than the first lease of the devices
\* (ccontrolpoint_event.c:131, 186; ccontrolpoint.c:727):
SleepCoversEveryLease ==
  pc[Handler] = "wait" /\ lock = NoOne =>
    \A s \in Listed : heap[s].expires > 0 => wake # 0 /\ wake <= heap[s].expires

\* What is taken for a new device (ccontrolpoint.c:716) is not one that is listed
\* and lost its description when it was updated.
NewDeviceIsNew ==
  \A s1, s2 \in Listed :
    heap[s1].name = Null /\ heap[s2].udn = heap[s1].udn => s1 = s2

\* At least one of the three always holds; the run that refutes it breaks each of
\* them in one behaviour.
PointersLeasesOrNames ==
  \/ []NoStalePointerIsUsed
  \/ []SleepCoversEveryLease
  \/ []NewDeviceIsNew
=============================================================================
