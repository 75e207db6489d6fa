# StarTV (StarAPP): a verification development

TLA+ models of the iOS app *StarTV* (`StarAPP`), their TLC runs and their TLAPS
proofs. The app finds a set-top box (STB) by UPnP, connects to it over TCP,
receives the channel list and the addresses of streams, and plays them.

## 1. The system

### Components, their state and their operations

| component | where | state it keeps | operations |
|---|---|---|---|
| STB session | `ext/Singleton.m` 28–319, `TV/Slider/SocketView.m` 65–120 | current `AsyncSocket`, `connectStatus`, heartbeat timer, pending reconnections, user defaults `playStateType`, `ConnectStatus_userDefault` | connect, did-connect, heartbeat, send, cut off, did-disconnect, delayed reconnect |
| AsyncSocket (vendored) | `ext/RunLoop/AsyncSocket.m` | streams, queues of reads and writes, time-outs | connect, read, write, close, dealloc |
| Frame parser | `ext/Singleton.m` 322–2818 | none between reads (this is what makes it hard) | one pass over the data of a read, one handler per command |
| Watch history | `TVViewController.m` 3585–3741, 10711–10997, `me/HistoryViewController.m` | user default `historySeed`, the page's snapshot of it | add on play, update on lock change, delete on the page |
| Channel list and play flow | `TV/TVViewController.m`, `TV/Slider/SocketView.m` | selected channel, `socketView`, stream URL, tip timer | select, answer with an address, play, first frame, give up |
| PIN and CA dialogs | `TVViewController.m` 8071–9160, 10471–10937 | dialog on screen, lock state of each channel | lock change, CA notice, password, dismissal |
| EPG refresh | `TVViewController.m` 1283, 5596, 11146–11600 | one-minute timers, progress bar | start, tick, stop, refresh at a programme's end |
| Monitor | `Monitor/MonitorViewController.m` | tuners in use, appearance counters | resource notice, timer, delete a user |
| Push to device | `TVViewController.m` 2028–2044, 12430–13022, `ext/PushAlertView`, `Singleton.m` 2714–2815 | queue of pushes received, the alert and its timer, device list | be pushed to, answer, run down; get and sort the list, push |
| Video player | `video/ZXVideoPlayer` | player state, overlays | play, pause, full screen, tip label |
| Search, categories | `TV/Search`, `TV/CategoryViewController.m` | filtered list | filter, select |
| Caches | `ext/ScrollCache` | memory and disk cache | get, set, evict |
| UPnP control point | `clinkc/src/cybergarage/upnp` (vendored, built from source) | device list, packets with leases, two mutexes, a condition | receive, add, update, remove, expire |
| UPnP search | `DLNASample/AppDelegate.m` | devices found, `HMC_DMSIP` | search, device added or removed |
| Router pages | `me/Route*.m`, `me/WLANSettingView.m`, … | forms | one HTTP request per button |
| Helpers | `ext/GGUtil.m`, `ext/SocketUtils.m`, `Model` | – | formatting, byte packing |

### How they interact

* **Notifications.** The parser posts an `NSNotification` per command; the pages
  observe it. Posting is synchronous: the observers run inside the read callback.
* **User defaults as shared variables.** `playStateType`, `LabOrPop`,
  `historySeed`, `dmsIP` and some fifty more keys are written by one page, the
  session or a background block and read by another.
* **The main run loop.** Delegate methods, timers and notifications run there;
  `dispatch_after` and `performSelector:afterDelay:` put blocks on it that are
  rarely cancelled.
* **Library threads.** The control point of `clinkc` runs a thread per socket and one
  for leases; the app's listener is called in the thread of a socket.
* **Global queues.** `addHistory` and the lock-change handler run on a *concurrent*
  queue, and read and write the same user defaults as the main thread.

### What is hard

Two connections alive at once after an overlapping restart; sockets freed inside
their own callbacks; reads that cut and join frames; thirty early returns that
forget to ask for the next read; timers nobody invalidates; a snapshot of the
history written back over newer entries; answers that arrive after the channel
was changed; dialogs and tips that race notices; device objects freed by one thread
while another still holds their address. `PROJECT.json` lists each hazard
at its line with the properties that would catch it.

### What makes each component correct

* *Session*: never gives up; one chain of reconnections; a heartbeat while
  connected; no outage shown while connected; one outstanding read.
* *Parser*: each reply handled once, in order, by its handler, with its data;
  always listening again.
* *History*: one entry per programme, at most twenty, the newest last; what is
  deleted stays deleted; what was watched is not lost.
* *Play flow*: what plays is what was selected last; the tip shows only if nothing
  plays; at most one tip timer.
* *Dialogs*: a locked channel never plays without its PIN; a dialog goes when its
  cause does. *EPG*: one timer; the bar matches the programme on air.
* *Monitor*: the list shown is the last one received.
* *Pushes*: one alert at a time, each push offered and taken off once, none stuck.
* *Control point*: a device is listed once, none is lost, none is used after it was
  freed, no thread waits for ever, the next lease to end wakes the handler.

## 2. Modules

### `StbSession`

State: `stb` (does the network answer), per `AsyncSocket` its `phase` and the
time-outs of its queued `reads`, the sockets with a write in flight (`writing`),
`socket` (`self.socket`), `app` (what the delegate methods leave behind) and
`restarts`. Everything runs on the main run loop, so an action is a whole callback
with all it calls: `Connect` is the stream event, `didConnectToHost`, its read, its
timer and the heartbeat it fires; `Close` is `closeWithError:` and
`onSocketDidDisconnect`; `Restart` is `SocketView.viewDidLoad`, which cuts off and
connects; `Reconnect` is the block given to `dispatch_after`.

ARC is part of the behaviour: `self.socket = [[AsyncSocket alloc] …]` releases the
old socket, which goes on living only while one of its run-loop timers retains it.
`Orphaned` says when it does not, and `EndCallback` frees it then: `dealloc` closes
it, and the delegate counts one more drop.

The model leaves out what the requests contain, the second listening socket of
`SocketView` and the screens' own reactions to the notices.

### `FrameParser`

One step per frame of one `didReadData` call. `stream` is what the STB has sent,
`pos` how far reads have got, `pc` which part of the parser runs, `cur` the frame at
`nowData_length`, `log` the handlers called. A frame is reduced to module, CRC
result, command and length; byte offsets matter only against the bounds the code
tests, and `Cuts` has a length between any two of them. A read that begins inside a
frame is taken not to look like a header; the parser drops it whole, with the
frames that follow it in the same read.

What the data of a frame contain is reduced to `sound`: whether the handler, and those
it notifies before it returns, get through them. A frame may be whole and not sound. The
handler of 31 reads a list of devices and raises when an entry reaches beyond the data,
when the last one exactly fills them (`Singleton.m` 2759 asks for one byte more, and 2770
puts nil into an array) or when a name is shorter than three or four letters (2771, 2774).
The observers of an offer slice it by lengths inside it (`TVViewController.m` 12822 for
30, 12948 for 29), those of an address take the length of the request from that of the
answer (`GGUtil.m` 605, 627), and who takes the CA dialog away reads the last entry of a
history that may be empty (`TVViewController.m` 10508). `Raises` is that exception, `Crash`
the end of the app. An observer may be missing, or return before it reads, so an unsound
frame of a command other than 31 may also come back (`Returns`).

### `History`

State: `seed` (the user default `historySeed`, oldest first), `store`
(`storeLastChannelArr`), `view` (`self.dicTemp`, the category on the TV page), `tab`,
`flag` and `jumps` (the default `jumpFormOtherView` and the delayed blocks of
`judgeJumpFromOtherView`), `offer` (a push notice on screen); per block of the global
queue its `step`, `task` and `copy`; the page's `arr` (`historyArr`) with the sizes of
its two sections, and what `deleteSeletions` still has to do (`sel`, `gone`).

`addHistory` runs in a block inside a block on a *concurrent* queue. `Fetch` is the
outer one, which reads `self.dicTemp` at that time if it is what it passes on;
`ReadSeed`, `StoreLast` and `WriteSeed` cut the inner one where another thread can come
between. `Watched` is what it computes: move an entry to the end, or add one and drop
half of what is too much. The page takes a copy (`OpenPage`) and writes it back
(`Swipe`, `DeleteNext`). `DeleteNext` is one turn of the loop of `deleteSeletions`:
blocks may run between two turns, the rest of the main thread may not. `Jump` is what
happens two seconds after the user came back to the TV page. `Restart` keeps `seed`,
the only thing on disk.

`base`, `rest`, `last` and `plays` are history variables: what a block had read, what
the user left on the page, what was played last, how many plays there were. `Without`,
a list without some of its entries, is a recursive function and not `SelectSeq`, which
the provers do not look into.

The model takes the STB as connected and the list of channels as constant, with every
live channel in category 0, as the code does (`TVViewController.m` 4071). It leaves out
the other callers of `addHistory` (tuner and lock notices, audio and subtitle menu,
search) and the PIN dialog.

### `Delivery`

What the app is promised of the frames the STB sends: any item that was sent may be
given to one of its takers, later items never before earlier ones, none twice, some
not at all. `FrameParser` implements it through the mapping `sent <- stream`,
`given <- Taken`, where `Taken` collects from the log the frames that reached a
handler, and `MayTake` says which handlers a command allows. The mapping does not
speak of reads, cuts or loops.

### `PlayFlow`

From the touch of a row to the first picture or the notice that there is none. An
action is one event of the main run loop (touch, answer of the STB, change of page,
notice of the player, timer), or one block of the main queue: `queue` is that queue,
and events come between its blocks. State: `tv` (the page is on screen), `away` (the
STB is gone), `chosen`, the requests `asked`, `video` (the URL and the number in
`self.video`), `player`, `begun`, `timer` (25 s), `ring`, `label` and `resume` (the two
delays of `judgeJumpFromOtherView`). What decides what is played is that `Answered`
puts the URL of the answer under the number of the channel selected *now* – an empty URL
when the answer has an error code, since `getLinkData` refuses 3 only (`Refused`) and lets
1, 2 and 4 to 10 go on to the play block and the timer (3525–3582) –, that
`RunSend` reads the selection when the block runs, and that `RunPlay` takes whatever
`video` holds. A player made for an empty URL never shows anything and counts as no
player. `lost` and `stale` are history variables: the last request got no
answer; the timer was stopped though no picture was there. A touch is one step,
although one of its callers runs on a global queue; PIN dialogs, recordings and the
judgement of event times are left out.

### `ControlPoint` and `CList`

The receivers of announcements and of search answers, and the expiration handler, as
threads with a place each (`pc`), over one device list. An action is what a thread does
between two points where another can come in: it takes the lock, waits for the network,
gives the lock back. `heap` maps addresses to devices, and an address is handed out again
after it is freed. `ptr`, `rows` and `cursor` are the addresses threads keep; a step that
follows one to a freed object sets `crashed`, where the program has no defined behaviour
and the model stops. A device's lease (`expires`) is set when its packet is copied
(`Copied`).

An object has two names: `udn`, that of the packet, and `name`, that of its description,
which is the one the look-up compares. They need not agree. A new device is listed under
whatever name its description gives (`Described`); without a description it is not listed
(`NotDescribed`). A listed device that announces another location is read again, and the
result is ignored (`Reparsed`, `cdevice.c` 415): nothing fetched leaves the old name, a
description that cannot be parsed leaves none, another one may leave another name; in all
three cases the device is reported as updated. Only missing descriptions of its services
delete it. `misnamed` is a history variable: the names a description has put in doubt. A
name the program makes up for a description without one (`cg_upnp_createuuid`) is a member
of `Udns` that no packet carries. `CList` is the ring list of clinkc: `NextOf` of a node
that is in no ring is the node itself.

Left out: spurious wake-ups of the condition, stopping and restarting the control point
(the app does it only as a whole), service subscriptions (the app has none), devices
embedded in another, and what packets and descriptions say beyond name, location and
lease.

### `PushQueue`

Pushes from other phones. `pushes` is `shareViewArr`, whose head is offered in an alert
(`shown`) and stays there until the block that `close` puts on the main queue for 0.3 s
later (`closed`) takes it off and takes up the next. `TakeUp` is
`OtherDevicePushToPhone` with its recursion: pushes of what is playing are dropped, and
with an empty history it returns with the push still at the head. `row` is
`pushChannelId`, found in one of two lists that may be replaced while the alert is up.
The two handlers differ only in the list they search and in that a channel is
refused while another page is shown. What Watch sets off is in `History` and
`PlayFlow`; here the last entry of the history changes at any time.

### `OfferQueue`

What the user is promised of those pushes: they wait in a queue with one place in
front; the first that is not playing already is offered, those before it are passed
over, nothing else is lost and nothing is offered twice or over another. `PushQueue`
implements it: `Waiting` is the array without its head while the alert of the head is up
or its block is due, since the code takes the head off only then; the offer is the
alert, what plays the last entry of the history. A push that finds nobody waiting may be
offered in the step in which it comes. That a push may wait for ever behind one that met
an empty history is left to `QueueRunsEmpty`.

### Proof and MC modules

The modules `…Proofs` hold the theorems of the component they are named after, the
modules `MC…` the symmetry sets, frames, categories, offers and lists for TLC.

## 3. Runs

| run | module | result | what it shows |
|---|---|---|---|
| `session_safety` | `MCStbSession` | pass, 110 468 states | type, heartbeat, no stale outage, one read, one chain |
| `session_live` | `StbSession` | pass, 22 770 states | never gives up; online for good once the network is stable |
| `session_claims` | `StbSession` | violation | after exactly three failures the outage is half undone, and two heartbeat timers beat |
| `frames` | `MCFrameParser` | pass, 483 861 states | in order, once, whole reads handled, deaf only after a split, stopped only by a split or by data a handler raises on; implements `Delivery` |
| `frames_claims` | `MCFrameParser` | violation | command 25 with company goes to the handler of live channels, command 7 behind a heartbeat loses its data |
| `history` | `MCHistory` | pass, 2 195 316 states | no duplicates, never too long, nothing leaves without a known reason |
| `history_page` | `MCHistory` | pass, 233 842 states | deletion removes exactly the cells touched, in any order, in either section |
| `history_claims` | `MCHistory` | violation | the programme remembered as the last is not, and coming back plays one that never played |
| `playflow` | `PlayFlow` | pass, 192 493 states | what plays in the end is what was touched last; over another page nothing plays, and a timer is armed only with a block behind it that stops it; no notice over a picture; the ring stops |
| `controlpoint` | `MCControlPoint` | pass, 780 027 states | a device is listed once unless a description put its name in doubt, none is lost, the lock protects what is found under it, no thread is stuck |
| `controlpoint_claims` | `MCControlPoint` | violation | a device whose new description cannot be parsed is listed again as a new one, the handler sleeps past a lease, and a freed device is used |
| `pushes` | `MCPushQueue` | pass, 229 328 states | one alert at a time, the head is what is offered, the queue runs empty; implements `OfferQueue` |

A run of claims checks a disjunction: each of its parts is what a comment of the code
says, and the trace TLC finds breaks all of them. So one trace shows two findings, in
`controlpoint_claims` three: there each part is a `[]`, and each is broken somewhere in
one behaviour, not all in one state.

**Bounds, and why they are enough.** Four sockets: the current one, one it
replaced that a timer still holds, one from an overlapping restart and one free
to be connected next; three restarts make every pair of overlaps.
`connectStatus` counts to 5: the code tells only 3 and more than 3.
`MaxReads = 2` is one more than the property allows. Leaked timers are counted to
2; the guard of a heartbeat asks only whether there is one. `OpenResults` has both results of
`connectToHost` in the safety run, and only success in the liveness run, since
the code does not retry a failure there (a hazard). Three frames
of fifteen kinds, two of them with data that raise, one in the handler and one in an
observer: the parser keeps nothing but the position, so a first frame, one in the
middle and a last one meet every branch; with fewer a loop that skips one frame too
many would be missed. The stream being bounded, the parser may stop with everything
read, so its runs do not check deadlock.

History: two blocks make every race of two writers; more writers only repeat it, as
each overwrites the whole list. `Keep = 1` with three programmes and three plays
overflows the list of two; the code keeps 19. The page run keeps four
entries and one block, and has every split of them into today and earlier and every
order of selection. `MaxJumps = 1`: the second of two pending blocks finds the flag
down. Plays being bounded, these runs may stop and do not check deadlock.

Play flow: two channels and two touches are enough for an answer to meet another
selection, one trouble (a page left, or the STB gone) and one notice of each picture for
each of them to come at every point; the queue needs no bound, as only touches, answers
and troubles fill it. Control point: a multicast and a search receiver with the handler
are the three kinds of thread; three addresses, as many as three packets can fill, let
one be handed out again while someone holds it; one of the two devices moves, the other
gives no lease. Three packets are two that add and one that removes, or a device, its move
and its return. An allocation never fails. `MaxMisnamed = 1`: a description gives another
name than its packet, or none, only while no name is in doubt, so that one does in a run;
that is enough for an object without a name, for two objects of one name and for a name
that belongs to the other device, or to none when its packets do not come. Pushes: four make a queue in which one waits
behind one that is dropped; `Seconds = 2` lets a timer tick without closing and close; two
lists can be replaced, one each.

**Fairness, and why the code justifies it.** `Reconnect`: a block given to
`dispatch_after` on the main queue runs. `Connect`: a stream whose peer answers
reports that it opened; the action is enabled only while the STB answers. `Parse`:
`didReadData` is a loop-free call chain on one thread and runs to its end unless
it loops for ever, which is what `TakesAll` excludes. `Receive`: bytes that have
arrived are delivered to a pending read. Nothing is assumed of time-outs, of the
STB, of senders or of screens. The history's runs check safety only and assume no
fairness.

`PlayFlow`: the main queue runs its blocks, timers and delayed calls fire, and a request
is answered or lost; the player need not show anything and no one need touch anything.
`ControlPoint`: each receiver that has a packet, and the handler, takes its next step if
it can go on taking it (weak fairness, each for itself). No packet need come and the clock
need not tick. Weak fairness is enough for the locks because packets are bounded: a mutex
that others keep taking would need strong fairness, which POSIX mutexes do not promise.
`PushQueue`: the timer ticks and the block of `close` runs; nobody need press a button.

`RingStops` makes two exceptions, both of them real: for a request that is never
answered no timer is armed (`TVViewController.m` 11047 arms it with the answer), and the
notice of the previous picture, two hops of the main queue late (5539, 11038), stops the
timer of the next channel. In both cases the ring turns for ever, although the comment at
5514 says that the notice comes when there is no picture after 20 s. `QueueRunsEmpty`
excepts a push taken up with an empty history, behind which all later ones wait (12853).

## 4. Proofs

**Session.** Assumption: `SessionAssumption` (sorts of the constants, a counter
that tells 3 from more). `TypeCorrect` comes first. `Invariant` proves
`IInv`: the two properties `HeartbeatWhileOnline` and `OnlineShowsNoOutage`,
plus two facts they need: a socket that is not alive has neither reads nor
writes (`QuietUnlessAlive`, else a closed socket could still time out and count a
drop), and the only connection has no read before it opens
(`FirstReadAfterConnect`, else `Connect` would add a second). `HeartbeatTicks`,
`NoStaleOutage` and `OneReader` follow. `OneChainStays` is an action property: under
`IInv` each callback of a socket ends one chain or keeps it, and `Restart` alone
may begin another; `SessionNeverGivesUp` uses the same lemmas with "at least one".

**Parser.** Assumption: `FrameAssumption` (each command carries at least the data
its handler looks at). `IInv` adds to in-order-once that what is logged lies
before the frame being parsed and inside what was received: order is kept because
`cur` only grows within a read and a read begins after the last one's end.
`ListensInv` says that until a frame is split the frame at `cur` is whole, so no
length check fails and the parser reaches its last line, unless the data of that frame make
their handler raise: `ListensUntilSplit` proves that a split is the only reason to be deaf,
and that what stops the app is a read that ended inside a frame or unsound data at the
cursor. It does not say that a whole frame is harmless: 31 can be whole and stop the app.
`ReadInv` is about a read of whole frames, whatever came before it: at each point of the
loops the frames called since `mark` are exactly the commands between `first` and the
cursor, each with its handler and its data. `OneFrameMore` (the commands up to a frame
are those before it and the frame, if it is one) and `OneCallMore` (a call adds its frame)
make each iteration keep it; `MoreIsWithin` and `NothingIsShort` say that the loops
turn while, and only while, there is a frame. `WholeReadsLoseNothing` follows, with
`InOrderOnce` for the order.

**History.** Assumption: `HistoryAssumption` (the categories are non-empty lists
without repetitions, category 0 has the live channels, `None` is no entry). `IInv` has four parts.
`CopiesSound`: `seed`, the page's `arr` and every block's `copy` are without
duplicates and at most `Keep + 1` long; it has to speak of all of them since any may be
written next, however old. `TasksKnown` and `UserKnown`: rows and lists handed to
blocks are of known kinds. `PartsCover`: the two sections add up to `arr`, which puts
the index of a swiped row inside it. The lemmas on
`RemoveAt`, `Append` and `Trimmed` say what each operation does to a sound list;
`HistoryHasNoDuplicates` and `HistoryIsBounded` follow for every `Keep`, every number
of blocks and every set of categories. That halving the excess is enough is
`TrimmedSound`: the excess is never more than one.

The page has an invariant of its own, `PInv`, proved from `IInv`. `RestIs` is its heart:
what the user left is what is left of `arr` without the entries that the rows still to be
deleted stand at, each moved up by the rows above it that are gone. To keep it each row
has to stay inside its part of the list and the order of rows has to stay that of their
entries (`RowsSound`); once today's entries are gone all rows left are in one section, and
section 0 is then the earlier part of the list. `DeletionsAreExact` follows, for every
split of the list, every selection and every order of it. `LeavesForAReason` needs of the
blocks that their copy was computed from the history they had read (`CopiesExplained`).
What `Without` returns is proved by induction on the length, in the form the provers
accept: a set of counterexamples that is not empty has a least element (`Least`), which
the lemma at the number before it contradicts. `HistoryTypes` puts the types of both
invariants together.

**Delivery.** `ImplementsDelivery`: the initial states map, and each step of the parser
maps to `Submit` (the STB sends), to `Deliver` (a handler is called) or to a stutter. It
needs of the parser's `IInv` that what is logged lies before the frame being
parsed, so that the frame given is later than all given before.

**Play flow.** Assumption: `PlayAssumption`. `AwayIsQuiet` is inductive with `TypeOK` and
`ChosenFirst` (no request waits to be sent before a channel was chosen): a timer that
outlives the page has a `shut` block behind it (nothing is said of the label, which a block
left behind may show), because that block leaves the queue only
by running, which stops the timer, and `RunArm` arms none on another page.
`LastTouchPlays` rests on `OnTheWay`: on the page, with no request lost and none waiting to
be sent, the last of those asked is for the channel selected; or its URL, or none, is in `video`
under its number and plays or will; or nothing will play, because a notice is on
its way behind which no block starts a picture (`Cleared`), or because nothing is left to
be played. It needs `NoneWhileAway` (nothing is asked of an STB that is gone, else an
older request would be the one answered). `PictureTakesNoticeAway` rests on
`LabelGoes`: a picture under the notice has put into the queue what takes the notice away.

**Control point.** Assumptions: the kinds of thread are disjoint, `Null` is no slot, offers are
well formed. `IInv` adds to the three properties who may hold the lock at which place
(`HoldersAreRight`), what a thread carries at which place (`JobsAreRight`,
`PointersAreThere`), that an object being made is allocated, unlisted and new by name
(`CreationIsRight`), that the list has no slot twice and only live ones
(`ListIsGood`), and that all live slots are listed or being made (`NothingLost`).
`ListedOnce` needs two
parts more: the two names of a listed object are equal, or both are in doubt
(`NamesAreRight`); and the object a receiver reads again has the packet that asked for it
(`UpdateIsRight`). Its exception is not
idle: `controlpoint_claims` shows a device listed twice.
The lemmas on `CList` are proved for every sequence. What makes it hold across the
deletions through old pointers is that a pointer to a live object that nobody is
making is a pointer to a listed one: so even a deletion of the wrong object leaves
the list sound. That the pointer may be dead is what `controlpoint_claims` shows.

**Pushes.** Assumption: `PushAssumption`. `OneAtATime` and `OffersItsHead` are inductive
together, with `SecondsLeft` (an alert that is up has seconds left) for the timer: only
a push to an empty queue or the block of `close` takes up the head, and as long as an
alert is up or its block due the queue is not empty. `ImplementsOfferQueue` is the refinement,
step by step: a push that joins is `Arrive`, or `ShowAtOnce` in an empty queue; a button or
the last second is `Dismiss`; the block is `ShowNext`, `Pass` or nothing
(`TakeUpShows`). It needs both properties: without them the block might take off a push
that was never offered.

**Only model-checked.** Every safety property and every refinement the runs check is a
theorem. Liveness is out of the prover's reach: `StaysOnline`, `TakesAll`,
`RingStops`, `EveryThreadComesHome` and `QueueRunsEmpty` are checked on the small
instances only, and so are the violations.

## 5. Findings

1. `Singleton.m:50` – the outage is shown at the third drop but undone only after
   a fourth (`session_claims`).
2. `Singleton.m:73` – heartbeat timers leak on every drop (`session_claims`).
3. `Singleton.m:618`, `:1087` – a recording's answer goes to the wrong handler when
   it does not come alone (`frames_claims`).
4. `Singleton.m:814` – a shadowed variable empties CA notices behind a heartbeat
   (`frames_claims`).
5. `TVViewController.m:3727` – the last programme remembered need not be the last
   one played (`history_claims`).
6. `TVViewController.m:4189` – coming back plays the row of one list in another
   (`history_claims`).
7. `ccontrolpoint.c:773` – a device found under the lock is deleted after the lock was
   given back; two more places read devices without it (`controlpoint_claims`).
8. `ccontrolpoint_event.c:152` – the lease of the device behind an expired one is not
   looked at, signals between two passes are lost and a time of 0 waits for ever
   (`controlpoint_claims`).
9. `cdevice.c:415` – whether a moved device could be read again is not looked at: it
   stays listed without a name, is found by nobody, and is listed a second time
   (`controlpoint_claims`).

## 6. Plan

Done: `StbSession`, `FrameParser` with `Delivery`, `History`, `PlayFlow`,
`ControlPoint` with `CList`, `PushQueue` with `OfferQueue`. What would be worth adding:

1. **`StbLink`** – session, parser and play flow composed: a reconnection in the
   middle of a play request, and the block of `addHistory` that overwrites the flag a
   drop has set (`TVViewController.m` 3593).
2. **The callers of `addHistory` that are missing in `History`**: lock and tuner
   notices, and an abstract list of recent programmes the two kinds of writers
   implement.
3. **Stop and restart of the control point** (`cg_upnp_controlpoint_stop` against the
   handler's wait), and the device sort of the push list as an operator against "HMCs,
   then minis, then phones".

## 7. Not modelled, and why

*PIN and CA dialogs.* Lock and CA dialogs share one alert view, one text field, the
type and row of the request (`STBTouchType_Str`, `STBTouch_Row`, `STBTouch_Dic`) and the
button for a new attempt. Their interleavings are hazards of this code and listed, but
what a step of them is depends on the order in which UIKit calls the alert's delegate,
its text field and the keyboard notices, which the source does not say: a model would
assert that order instead of checking it.

*EPG timers, Monitor, categories and cells, search, router pages, helpers.* Views of the
last data received, or forms with one request per button: no state another part
reads.

*The disk and memory cache* is used by `YLSlideView` for scroll positions, and the lines
that fill it are commented out (`YLSlideView.m` 181).

*Vendored libraries.* Of `clinkc`, which makes up nearly all the C code of the
repository, the control point, its lists and its locks run in the app and are
modelled. The rest is XML and HTTP conversion, getters and setters of fields,
device-side code and the AV renderer the app never starts, in a second copy under
`lib/ios` as well; there is no behaviour of the app in it to check. The app itself is
written in Objective-C.
