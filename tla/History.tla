-------------------------------- MODULE History --------------------------------
(***************************************************************************)
(* The watch history: the user default historySeed, oldest entry first,    *)
(* the last one being what is played.  TVViewController addHistory writes   *)
(* it from a block on a concurrent global queue; HistoryViewController      *)
(* takes a copy when it is opened and writes the copy back at each          *)
(* deletion; TVViewController judgeJumpFromOtherView reads it to resume     *)
(* what was played when the user comes back to the TV page.                 *)
(*                                                                         *)
(* Who plays a programme dispatches a block that calls addHistory, which    *)
(* dispatches another.  The first reads self.dicTemp if that is what it     *)
(* passes on; the second reads the history, sets storeLastChannelArr and    *)
(* writes the history: a step ends where another thread can come between.   *)
(* The loop of deleteSeletions runs on the main thread, one step per row,   *)
(* while blocks may run; it excludes the rest of the main thread (Free).    *)
(*                                                                         *)
(* A programme stands for the ids addHistory compares, a list for a         *)
(* category of channels (a dictionary from rows to programmes).  Not here:  *)
(* new channel lists and lock notices from the STB, the PIN dialog of a     *)
(* locked channel, and a dicTemp that is read while it is being refilled.   *)
(***************************************************************************)
EXTENDS Naturals, SequencesExt

CONSTANTS
  Lists,       \* the categories on the bar: sequences of programmes
  All,         \* category 0, all live channels; also the default selfDicTemp
  Recs,        \* the category of recordings, << >> and not on the bar if none
  Keep,        \* entries left when one is added (19 in the code)
  Blocks,      \* bound: blocks of addHistory in flight at once
  None,        \* storeLastChannelArr before anything was played
  MaxPlays,    \* bound: programmes played
  MaxJumps     \* bound: delayed blocks of judgeJumpFromOtherView pending

Programmes == UNION { ToSet(l) : l \in Lists }
Rows == UNION { DOMAIN l : l \in Lists }
Entry == [prog : Programmes, row : Rows, list : Lists]
Address == [section : {0, 1}, row : Nat]   \* an NSIndexPath

ASSUME HistoryAssumption ==
  /\ Lists \subseteq Seq(Programmes)
  /\ \A l \in Lists : l # << >> /\ IsInjective(l)
  /\ All \in Lists /\ Recs \in Lists \cup {<< >>}
  /\ ToSet(All) = Programmes \ ToSet(Recs)
  /\ Keep \in Nat
  /\ None \notin Entry

VARIABLES
  seed,     \* historySeed
  store,    \* storeLastChannelArr
  view,     \* self.dicTemp, the category on the TV page
  tab,      \* the page on screen: "TV", "Me" or "History"
  flag,     \* jumpFormOtherView = "YES"
  jumps,    \* pending blocks of judgeJumpFromOtherView
  offer,    \* what a push notice on screen offers, None without one
  step,     \* per block: "idle", "asked", "queued", "read" or "stored"
  task,     \* per block: the list and row it was given, None once it has used them
  copy,     \* per block: its mutaArray
  base,     \* history: per block, the historySeed it read
  arr,      \* the page's historyArr
  early,    \* the page's earilyNum
  today,    \* the page's todayNum
  sel,      \* what is left of selectedArray while deleteSeletions runs
  gone,     \* the addresses deleteSeletions has dealt with
  rest,     \* history: the entries the user did not delete from arr
  last,     \* history: the programme that was played last
  plays     \* history: how many were played

blockVars == <<step, task, copy, base>>
pageVars == <<arr, early, today, sel, gone, rest>>
userVars == <<view, tab, flag, jumps, offer, last, plays>>
vars == <<seed, store, blockVars, pageVars, userVars>>

Most == Keep + 1                     \* what the history may hold
ProgsOf(s) == { s[i].prog : i \in DOMAIN s }
Task(l, r) == [list |-> l, row |-> r]

--------------------------------------------------------------------------------
(***************************************************************************)
(* What addHistory computes.                                                *)
(***************************************************************************)

\* for (i = 0; i < count - 19; i++) removeObjectAtIndex:0 - the bound shrinks
\* with the array, so the loop removes half of what is too much, rounded up.
DroppedLate(n) == IF n > Keep + 1 THEN (n - Keep + 1) \div 2 ELSE 0
Dropped(n) == IF n > Keep THEN (n - Keep + 1) \div 2 ELSE 0
TrimmedNewest(s) == SubSeq(s, 1, Len(s) - Dropped(Len(s)))
Trimmed(s) == SubSeq(s, Dropped(Len(s)) + 1, Len(s))

\* The position of programme p, the first if there were two.
At(s, p) == CHOOSE i \in DOMAIN s : s[i].prog = p /\ \A j \in 1..(i - 1) : s[j].prog # p

EntryOf(t) == [prog |-> t.list[t.row], row |-> t.row, list |-> t.list]

\* With the search for the programme left out.
WatchedAgain(s, t) ==
  IF t.row \notin DOMAIN t.list THEN s ELSE Append(Trimmed(s), EntryOf(t))

\* The history after programme t.list[t.row] is played.  With no such row the
\* dictionary is nil, the new entry comes out empty and nothing is added.
Watched(s, t) ==
  IF t.row \notin DOMAIN t.list THEN s
  ELSE LET e == EntryOf(t) IN
       IF e.prog \in ProgsOf(s)
       THEN Append(RemoveAt(s, At(s, e.prog)), e)
       ELSE Append(Trimmed(s), e)

--------------------------------------------------------------------------------
(***************************************************************************)
(* The rows of the page.                                                    *)
(***************************************************************************)
RowsIn(section) ==
  IF section = 0 THEN (IF today > 0 THEN today ELSE early)
                 ELSE (IF today > 0 THEN early ELSE 0)
Shown == { a \in [section : {0, 1}, row : 0..Len(arr)] : a.row < RowsIn(a.section) }

\* cellForRowAtIndexPath: the entry a cell shows.
CellAt(a) == IF a.section = 1 /\ today > 0 THEN early - a.row ELSE Len(arr) - a.row

\* commitEditingStyle: the entry a swipe removes.
SwipeAt(a) == IF a.section = 0 /\ today > 0 THEN Len(arr) - a.row ELSE early - a.row

\* One count for both sections.
AboveInAny(a) == Cardinality({ g \in gone : g.row < a.row })

\* calculateNumsBiggerThanNowRow: how many rows above were already removed.
Above(a) == Cardinality({ g \in gone : g.section = a.section /\ g.row < a.row })

\* deleteSeletions: the entry removed for a, in what is left of arr.
DeleteAt(a) == IF a.section = 0 THEN Len(arr) - (a.row - Above(a))
                                ELSE early - (a.row - Above(a))

\* s without the entries of the programmes P.
Without(s, P) ==
  LET kept[i \in 0..Len(s)] ==
        IF i = 0 THEN << >>
        ELSE IF s[i].prog \in P THEN kept[i - 1] ELSE Append(kept[i - 1], s[i])
  IN kept[Len(s)]

--------------------------------------------------------------------------------
\* The first start of the app, about to play the first channel.
Init ==
  /\ seed = << >> /\ store = None
  /\ view = All /\ tab = "TV" /\ flag = FALSE /\ jumps = 0 /\ offer = None
  /\ \E b \in Blocks :
       /\ step = [c \in Blocks |-> IF c = b THEN "asked" ELSE "idle"]
       /\ task = [c \in Blocks |-> IF c = b THEN Task(All, 1) ELSE None]
  /\ copy = [b \in Blocks |-> << >>] /\ base = [b \in Blocks |-> << >>]
  /\ arr = << >> /\ early = 0 /\ today = 0 /\ sel = << >> /\ gone = {}
  /\ rest = << >>
  /\ last = All[1] /\ plays = 1

\* The main thread is not inside deleteSeletions.
Free == sel = << >>

Idle == { b \in Blocks : step[b] = "idle" }

\* Programme t is played: dispatch_async of one block per member of B, which
\* is given the list itself (s = "queued") or reads dicTemp when it runs.
Play(B, t, s) ==
  /\ plays < MaxPlays /\ B # {} /\ B \subseteq Idle
  /\ step' = [b \in Blocks |-> IF b \in B THEN s ELSE step[b]]
  /\ task' = [b \in Blocks |-> IF b \in B THEN t ELSE task[b]]
  /\ last' = IF t.row \in DOMAIN t.list THEN t.list[t.row] ELSE last
  /\ plays' = plays + 1
  /\ UNCHANGED <<seed, store, copy, base>>

(***************************************************************************)
(* The blocks of addHistory.                                                *)
(***************************************************************************)

\* addHistory:row diction:self.dicTemp
Fetch(b) ==
  /\ step[b] = "asked"
  /\ task' = [task EXCEPT ![b] = Task(view, task[b].row)]
  /\ step' = [step EXCEPT ![b] = "queued"]
  /\ UNCHANGED <<seed, store, copy, base, pageVars, userVars>>

ReadSeed(b) ==
  /\ step[b] = "queued"
  /\ base' = [base EXCEPT ![b] = seed]
  /\ copy' = [copy EXCEPT ![b] = Watched(seed, task[b])]
  /\ task' = [task EXCEPT ![b] = None]
  /\ step' = [step EXCEPT ![b] = "read"]
  /\ UNCHANGED <<seed, store, pageVars, userVars>>

StoreLast(b) ==
  /\ step[b] = "read"
  /\ store' = IF copy[b] = << >> THEN None ELSE copy[b][Len(copy[b])]
  /\ step' = [step EXCEPT ![b] = "stored"]
  /\ UNCHANGED <<seed, task, copy, base, pageVars, userVars>>

WriteSeed(b) ==
  /\ step[b] = "stored"
  /\ seed' = copy[b]
  /\ step' = [step EXCEPT ![b] = "idle"]
  /\ copy' = [copy EXCEPT ![b] = << >>] /\ base' = [base EXCEPT ![b] = << >>]
  /\ UNCHANGED <<store, task, pageVars, userVars>>

(***************************************************************************)
(* The TV page.                                                             *)
(***************************************************************************)
SelectCategory ==
  /\ Free /\ tab = "TV"
  /\ view' \in Lists \ {view}
  /\ UNCHANGED <<seed, store, blockVars, pageVars, tab, flag, jumps, offer, last, plays>>

\* A row is touched.  Nothing happens if it is the last of the history, which is
\* taken for what is being played, or if there is no history.
Touch ==
  /\ Free /\ tab = "TV" /\ seed # << >>
  /\ \E b \in Idle, r \in DOMAIN view :
       view[r] # seed[Len(seed)].prog /\ Play({b}, Task(view, r), "asked")
  /\ UNCHANGED <<pageVars, view, tab, flag, jumps, offer>>

\* Another device pushes a channel or a recording; with no history, or if it is
\* the last one there, nothing comes of it; nor of a channel on another page.  A second notice waits for the first.
PushNotice ==
  /\ Free /\ offer = None /\ plays < MaxPlays /\ seed # << >>
  /\ \E l \in {All, Recs} : \E r \in DOMAIN l :
       /\ l = All => tab = "TV"
       /\ l[r] # seed[Len(seed)].prog
       /\ offer' = Task(l, r)
  /\ UNCHANGED <<seed, store, blockVars, pageVars, view, tab, flag, jumps, last, plays>>

\* It is declined, or not answered for a minute.
Decline ==
  /\ Free /\ offer # None
  /\ offer' = None
  /\ UNCHANGED <<seed, store, blockVars, pageVars, view, tab, flag, jumps, last, plays>>

\* It is accepted, on any page.  The notice categorysTouchToViews changes the
\* category first.  The programme is added twice: here, and by
\* firstOpenAppAutoPlay unless it is locked.
AcceptPush ==
  /\ Free /\ offer # None
  /\ view' = offer.list
  /\ \E B \in SUBSET Idle : Cardinality(B) \in {1, 2} /\ Play(B, offer, "asked")
  /\ offer' = None
  /\ UNCHANGED <<pageVars, tab, flag, jumps>>

\* viewWillAppear of the TV page calls judgeJumpFromOtherView, which gives a
\* block to dispatch_after unless there is no list or delivery has stopped.
GoTV ==
  /\ Free /\ tab = "Me"
  /\ tab' = "TV"
  /\ jumps' \in {jumps, jumps + 1} /\ jumps' <= MaxJumps
  /\ UNCHANGED <<seed, store, blockVars, pageVars, view, flag, offer, last, plays>>

\* What the block plays: the row of the last entry in the list of
\* storeLastChannelArr, or of the current category if the history is empty.
Resumed ==
  IF store = None THEN Task(view, 1)
  ELSE IF seed = << >> THEN Task(view, store.row)
  ELSE Task(store.list, seed[Len(seed)].row)

\* Without a storeLastChannelArr and without a history nothing is played, and
\* without a storeLastChannelArr the flag stays.
JumpStarts == flag /\ ~ (store = None /\ seed = << >>)

\* The block two seconds later, whatever the page is by then.
Jump ==
  /\ Free /\ jumps > 0
  /\ jumps' = jumps - 1
  /\ flag' = (flag /\ store = None)
  /\ IF JumpStarts
     THEN \E b \in Idle :
            Play({b}, Resumed, IF store = None \/ seed = << >> THEN "asked" ELSE "queued")
     ELSE UNCHANGED <<seed, store, blockVars, last, plays>>
  /\ UNCHANGED <<pageVars, view, tab, offer>>

(***************************************************************************)
(* The Me page and the History page.                                        *)
(***************************************************************************)
GoMe ==
  /\ Free /\ tab = "TV"
  /\ tab' = "Me" /\ flag' = TRUE
  /\ UNCHANGED <<seed, store, blockVars, pageVars, view, jumps, offer, last, plays>>

\* viewDidLoad counting the early entries in both parts.
OpenPageCountsTwice ==
  /\ Free /\ tab = "Me"
  /\ tab' = "History" /\ flag' = FALSE
  /\ arr' = seed /\ rest' = seed
  /\ early' \in 0..Len(seed) /\ today' = Len(seed)
  /\ UNCHANGED <<seed, store, blockVars, sel, gone, view, jumps, offer, last, plays>>

\* viewDidLoad takes the copy and splits it at 24 hours, viewWillAppear resets
\* the flag.
OpenPage ==
  /\ Free /\ tab = "Me"
  /\ tab' = "History" /\ flag' = FALSE
  /\ arr' = seed /\ rest' = seed
  /\ early' \in 0..Len(seed) /\ today' = Len(seed) - early'
  /\ UNCHANGED <<seed, store, blockVars, sel, gone, view, jumps, offer, last, plays>>

\* The page is popped and freed.
PageGone ==
  /\ arr' = << >> /\ early' = 0 /\ today' = 0 /\ sel' = << >> /\ gone' = {}
  /\ rest' = << >>

Back ==
  /\ Free /\ tab = "History"
  /\ tab' = "Me" /\ flag' = TRUE
  /\ PageGone
  /\ UNCHANGED <<seed, store, blockVars, view, jumps, offer, last, plays>>

\* One row fewer in its part of the page.
CountOut(a) ==
  IF a.section = 0 /\ today > 0
  THEN today' = today - 1 /\ UNCHANGED early
  ELSE early' = early - 1 /\ UNCHANGED today

\* A row is swiped away.
Swipe(a) ==
  /\ Free /\ tab = "History" /\ a \in Shown
  /\ arr' = RemoveAt(arr, SwipeAt(a))
  /\ rest' = Without(arr, {arr[CellAt(a)].prog})
  /\ CountOut(a)
  /\ seed' = arr'
  /\ UNCHANGED <<store, blockVars, sel, gone, userVars>>

\* The red button: deleteSeletions begins, with the rows in the order in which
\* they were selected.
DeleteSelected(S) ==
  /\ Free /\ tab = "History" /\ S # {} /\ S \subseteq Shown
  /\ sel' \in SetToSeqs(S)
  /\ rest' = Without(arr, { arr[CellAt(a)].prog : a \in S })
  /\ UNCHANGED <<seed, store, blockVars, arr, early, today, gone, userVars>>

\* One turn of its loop; the last one is followed by the write.  An index out of
\* range raises NSRangeException, which ends the app (Restart).
DeleteNext ==
  /\ ~ Free
  /\ LET a == Head(sel) IN
     /\ IF a.section # 0 /\ early = 0
        THEN UNCHANGED <<arr, early, today>>
        ELSE /\ DeleteAt(a) \in DOMAIN arr
             /\ arr' = RemoveAt(arr, DeleteAt(a))
             /\ CountOut(a)
     /\ sel' = Tail(sel)
     /\ gone' = IF sel' = << >> THEN {} ELSE gone \cup {a}
  /\ seed' = IF sel' = << >> THEN arr' ELSE seed
  /\ UNCHANGED <<store, blockVars, rest, userVars>>

\* touchToSee and VideoTouchNoific: the programme of the row touched is looked
\* up again, a live one among all channels (where it is, the lists being
\* constant), and the TV page comes up in that category and plays it.
TouchToSee(a) ==
  /\ Free /\ tab = "History" /\ a \in Shown
  /\ LET e == arr[CellAt(a)]
         recorded == e.prog \in ToSet(Recs)
         l == IF recorded THEN e.list ELSE All
         r == CHOOSE i \in DOMAIN l : l[i] = e.prog
     IN /\ e.prog \in ToSet(l)
        /\ \E b \in Idle :
             Play({b}, Task(l, r), IF recorded THEN "queued" ELSE "asked")
        /\ view' = l
  /\ tab' = "TV" /\ PageGone
  /\ jumps' \in {jumps, jumps + 1} /\ jumps' <= MaxJumps
  /\ UNCHANGED <<flag, offer>>

(***************************************************************************)
(* The app is killed and started again: the history is on disk, the rest    *)
(* is gone, and the first channel of all is played.                         *)
(***************************************************************************)
Restart ==
  /\ plays < MaxPlays
  /\ store' = None
  /\ view' = All /\ tab' = "TV" /\ flag' = FALSE /\ jumps' = 0 /\ offer' = None
  /\ \E b \in Blocks :
       /\ step' = [c \in Blocks |-> IF c = b THEN "asked" ELSE "idle"]
       /\ task' = [c \in Blocks |-> IF c = b THEN Task(All, 1) ELSE None]
  /\ copy' = [b \in Blocks |-> << >>] /\ base' = [b \in Blocks |-> << >>]
  /\ PageGone
  /\ last' = All[1] /\ plays' = plays + 1
  /\ UNCHANGED seed

Block(b) == Fetch(b) \/ ReadSeed(b) \/ StoreLast(b) \/ WriteSeed(b)

Page ==
  \/ OpenPage \/ Back \/ DeleteNext
  \/ \E a \in Shown : Swipe(a) \/ TouchToSee(a)
  \/ \E S \in SUBSET Shown : DeleteSelected(S)

Next ==
  \/ \E b \in Blocks : Block(b)
  \/ SelectCategory \/ Touch \/ PushNotice \/ Decline \/ AcceptPush \/ GoTV \/ Jump \/ GoMe
  \/ Page
  \/ Restart

Spec == Init /\ [][Next]_vars

--------------------------------------------------------------------------------
Tasks == [list : Lists, row : Rows]

(***************************************************************************)
(* Types: rows are counted so that the two sections cover the page.         *)
(***************************************************************************)
TypeOK ==
  /\ seed \in Seq(Entry) /\ store \in Entry \cup {None}
  /\ view \in Lists /\ tab \in {"TV", "Me", "History"} /\ flag \in BOOLEAN
  /\ jumps \in Nat /\ offer \in Tasks \cup {None}
  /\ step \in [Blocks -> {"idle", "asked", "queued", "read", "stored"}]
  /\ task \in [Blocks -> Tasks \cup {None}]
  /\ copy \in [Blocks -> Seq(Entry)] /\ base \in [Blocks -> Seq(Entry)]
  /\ arr \in Seq(Entry) /\ early \in Nat /\ today \in Nat
  /\ today + early = Len(arr)
  /\ sel \in Seq(Address) /\ gone \subseteq Address
  /\ rest \in Seq(Entry)
  /\ last \in Programmes /\ plays \in Nat

NoneTwice(s) == \A i, j \in DOMAIN s : s[i].prog = s[j].prog => i = j

(***************************************************************************)
(* A programme is in the history once, whichever of the blocks and the      *)
(* page wrote it last and from however old a copy.                          *)
(***************************************************************************)
NoDuplicates == NoneTwice(seed)

(***************************************************************************)
(* The history holds twenty entries at most ("只保留20个以内的历史记录"),    *)
(* although the loop that drops the oldest removes only half of an excess.  *)
(***************************************************************************)
AtMostTwenty == Len(seed) <= Most

(***************************************************************************)
(* Deleting removes exactly the entries of the cells the user swiped or     *)
(* selected, in whatever order and in either section, and no index of the   *)
(* loop of deleteSeletions is out of range.                                 *)
(***************************************************************************)
DeletesWhatWasTouched ==
  IF Free THEN arr = rest
  ELSE DeleteAt(Head(sel)) \in 1..(IF Head(sel).section = 1 THEN early ELSE Len(arr))

(***************************************************************************)
(* What makes a programme leave the history: a block writes a copy that is   *)
(* out of date, or drops the oldest of a full history; or the page writes   *)
(* its copy, from which the user deleted the programme, or in which it      *)
(* never was.                                                               *)
(***************************************************************************)
Leaves(p) == p \in ProgsOf(seed) /\ p \notin ProgsOf(seed')

BlockWrites(b) == step[b] = "stored" /\ step'[b] = "idle"

LeavesFor ==
  \A p \in Programmes : Leaves(p) =>
    \/ \E b \in Blocks : BlockWrites(b) /\ base[b] # seed
    \/ \E b \in Blocks :
         BlockWrites(b) /\ Len(seed) = Most /\ p = seed[1].prog
    \/ tab = "History" /\ p \notin ProgsOf(rest')

LeavesOnlyFor == [][LeavesFor]_vars

(***************************************************************************)
(* "保存用户最后一个播放的节目信息": once no block is left, what            *)
(* storeLastChannelArr holds is the programme played last.                  *)
(***************************************************************************)
StoreIsLastPlayed ==
  (Idle = Blocks /\ store # None) => store.prog = last

(***************************************************************************)
(* "如果是从其他的页面条转过来的，则自动播放上一个视频": coming back to the  *)
(* TV page plays the programme played last, or the last one of the history. *)
(***************************************************************************)
ResumesTheLast ==
  (Idle = Blocks /\ Free /\ tab = "TV" /\ jumps > 0 /\ flag
     /\ store # None /\ seed # << >>)
    => /\ Resumed.row \in DOMAIN Resumed.list
       /\ Resumed.list[Resumed.row] \in {last, seed[Len(seed)].prog}

(***************************************************************************)
(* At least one of the two is kept; the run that refutes it breaks both.    *)
(***************************************************************************)
LastOrResume == StoreIsLastPlayed \/ ResumesTheLast
================================================================================
