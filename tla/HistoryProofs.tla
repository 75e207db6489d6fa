----------------------------- MODULE HistoryProofs -----------------------------
(***************************************************************************)
(* Proofs about History: whatever the categories, the number of blocks in   *)
(* flight and the pages' copies, a programme is in the history once, the    *)
(* history holds Keep + 1 entries at most, a deletion removes exactly what  *)
(* was selected, and a programme leaves for one of three reasons only.      *)
(* The invariant of the history (IInv) comes first; that of the page (PInv) *)
(* is proved from it.                                                       *)
(***************************************************************************)
EXTENDS History, SequenceTheorems, FiniteSetTheorems, WellFoundedInduction, TLAPS

\* A list of entries as the code keeps it.
Sound(s) == s \in Seq(Entry) /\ NoneTwice(s) /\ Len(s) <= Most

--------------------------------------------------------------------------------
(***************************************************************************)
(* Facts about sequences: the entries of the results.                       *)
(***************************************************************************)

\* What is left when the first d elements are dropped.
LEMMA SuffixFacts ==
  ASSUME NEW S, NEW s \in Seq(S), NEW d \in 0..Len(s)
  PROVE  /\ SubSeq(s, d + 1, Len(s)) \in Seq(S)
         /\ Len(SubSeq(s, d + 1, Len(s))) = Len(s) - d
         /\ \A k \in 1..(Len(s) - d) : SubSeq(s, d + 1, Len(s))[k] = s[d + k]
<1> DEFINE n == Len(s)
           q == SubSeq(s, d + 1, n)
<1>0. n \in Nat /\ d \in 0..n /\ s \in [1..n -> S]
  BY LenProperties
<1>1. \A k \in (d + 1)..n : s[k] \in S
  BY <1>0
<1>2. /\ q \in Seq(S)
      /\ Len(q) = IF d + 1 <= n THEN n - (d + 1) + 1 ELSE 0
      /\ \A k \in 1..(n - (d + 1) + 1) : q[k] = s[(d + 1) + k - 1]
  BY <1>0, <1>1, SubSeqProperties
<1> HIDE DEF n, q
<1>3. Len(q) = n - d
  BY <1>0, <1>2
<1>4. ASSUME NEW k \in 1..(n - d)
      PROVE  q[k] = s[d + k]
  <2>1. k \in 1..(n - (d + 1) + 1) /\ (d + 1) + k - 1 = d + k
    BY <1>0
  <2>2. q[k] = s[(d + 1) + k - 1]
    BY <2>1, <1>2
  <2> QED
    BY <2>1, <2>2
<1> QED
  BY <1>2, <1>3, <1>4 DEF q, n

\* Removing the i-th element moves those after it one down.
LEMMA RemoveAtFacts ==
  ASSUME NEW S, NEW s \in Seq(S), NEW i \in 1..Len(s)
  PROVE  /\ RemoveAt(s, i) \in Seq(S)
         /\ Len(RemoveAt(s, i)) = Len(s) - 1
         /\ \A k \in 1..(Len(s) - 1) :
              RemoveAt(s, i)[k] = s[IF k < i THEN k ELSE k + 1]
<1> DEFINE p == SubSeq(s, 1, i - 1)
           q == SubSeq(s, i + 1, Len(s))
           n == Len(s)
<1>0. n \in Nat /\ i \in 1..n /\ s \in [1..n -> S]
  BY LenProperties
<1>1. p \in Seq(S) /\ Len(p) = i - 1 /\ \A k \in 1..(i - 1) : p[k] = s[k]
  <2>1. \A k \in 1..(i - 1) : s[k] \in S
    BY <1>0
  <2> QED
    BY <1>0, <2>1, SubSeqProperties
<1>2. q \in Seq(S) /\ Len(q) = n - i /\ \A k \in 1..(n - i) : q[k] = s[i + k]
  <2>1. i \in 0..n
    BY <1>0
  <2> QED
    BY <2>1, SuffixFacts
<1>3. RemoveAt(s, i) = p \o q
  BY DEF RemoveAt
<1> HIDE DEF p, q, n
<1>4. /\ p \o q \in Seq(S) /\ Len(p \o q) = Len(p) + Len(q)
      /\ \A k \in 1..(Len(p) + Len(q)) :
           (p \o q)[k] = IF k <= Len(p) THEN p[k] ELSE q[k - Len(p)]
  BY <1>1, <1>2, ConcatProperties
<1>5. \A k \in 1..(n - 1) : (p \o q)[k] = s[IF k < i THEN k ELSE k + 1]
  <2> SUFFICES ASSUME NEW k \in 1..(n - 1)
               PROVE  (p \o q)[k] = s[IF k < i THEN k ELSE k + 1]
    OBVIOUS
  <2>1. CASE k < i
    BY <1>0, <1>1, <1>2, <1>4, <2>1
  <2>2. CASE ~ (k < i)
    <3>1. (p \o q)[k] = q[k - (i - 1)]
      BY <1>0, <1>1, <1>2, <1>4, <2>2
    <3>2. q[k - (i - 1)] = s[i + (k - (i - 1))]
      BY <1>0, <1>2, <2>2
    <3>3. i + (k - (i - 1)) = k + 1
      BY <1>0
    <3> QED
      BY <2>2, <3>1, <3>2, <3>3
  <2> QED
    BY <2>1, <2>2
<1>6. Len(p \o q) = n - 1
  BY <1>0, <1>1, <1>2, <1>4
<1> QED
  BY <1>3, <1>4, <1>5, <1>6 DEF n

--------------------------------------------------------------------------------
(***************************************************************************)
(* The operations on the history keep it sound.                             *)
(***************************************************************************)

LEMMA EmptySound == Sound(<< >>)
  BY HistoryAssumption DEF HistoryAssumption, Sound, NoneTwice, Most

\* A deletion.
LEMMA RemoveAtSound ==
  ASSUME NEW s, Sound(s), NEW i \in 1..Len(s)
  PROVE  /\ Sound(RemoveAt(s, i))
         /\ Len(RemoveAt(s, i)) = Len(s) - 1
         /\ s[i].prog \notin ProgsOf(RemoveAt(s, i))
<1> DEFINE r == RemoveAt(s, i)
           Old(k) == IF k < i THEN k ELSE k + 1
<1>0. s \in Seq(Entry) /\ Len(s) \in Nat /\ Len(s) <= Most /\ Most \in Nat
  BY HistoryAssumption DEF HistoryAssumption, Sound, Most
<1>1. /\ r \in Seq(Entry) /\ Len(r) = Len(s) - 1
      /\ \A k \in 1..(Len(s) - 1) : r[k] = s[Old(k)]
  BY <1>0, RemoveAtFacts
<1>2. DOMAIN r = 1..(Len(s) - 1) /\ DOMAIN s = 1..Len(s)
  BY <1>0, <1>1
<1>3. \A k \in 1..(Len(s) - 1) : Old(k) \in 1..Len(s) /\ Old(k) # i
  BY <1>0
<1>4. \A k, m \in 1..(Len(s) - 1) : Old(k) = Old(m) => k = m
  BY <1>0
<1> HIDE DEF r, Old
<1>5. \A k, m \in 1..Len(s) : s[k].prog = s[m].prog => k = m
  BY <1>2 DEF Sound, NoneTwice
<1>6. NoneTwice(r)
  BY SMTT(30), <1>1, <1>2, <1>3, <1>4, <1>5 DEF NoneTwice
<1>7. s[i].prog \notin ProgsOf(r)
  BY SMTT(30), <1>1, <1>2, <1>3, <1>5 DEF ProgsOf
<1>8. Len(r) <= Most
  BY <1>0, <1>1
<1> QED
  BY <1>1, <1>6, <1>7, <1>8 DEF Sound, r

\* An entry for a programme that is not there.
LEMMA AppendSound ==
  ASSUME NEW s, Sound(s), NEW e \in Entry, e.prog \notin ProgsOf(s), Len(s) <= Keep
  PROVE  Sound(Append(s, e))
<1> DEFINE r == Append(s, e)
           n == Len(s)
<1>0. s \in Seq(Entry) /\ n \in Nat /\ DOMAIN s = 1..n
  BY DEF Sound
<1>1. /\ r \in Seq(Entry) /\ Len(r) = n + 1
      /\ \A k \in 1..n : r[k] = s[k]
      /\ r[n + 1] = e
  BY <1>0, AppendProperties
<1>2. DOMAIN r = 1..(n + 1)
  BY <1>0, <1>1
<1>3. \A k, m \in 1..n : s[k].prog = s[m].prog => k = m
  BY <1>0 DEF Sound, NoneTwice
<1>4. \A k \in 1..n : s[k].prog # e.prog
  BY <1>0 DEF ProgsOf
<1> HIDE DEF r, n
<1>5. ASSUME NEW k \in 1..(n + 1), NEW m \in 1..(n + 1), r[k].prog = r[m].prog
      PROVE  k = m
  <2>1. CASE k \in 1..n /\ m \in 1..n
    BY <2>1, <1>1, <1>3, <1>5
  <2>2. CASE k = n + 1 /\ m \in 1..n
    BY <2>2, <1>1, <1>4, <1>5
  <2>3. CASE k \in 1..n /\ m = n + 1
    BY <2>3, <1>1, <1>4, <1>5
  <2> QED
    BY <2>1, <2>2, <2>3, <1>0
<1>6. NoneTwice(r)
  BY <1>2, <1>5 DEF NoneTwice
<1>7. Len(r) <= Most
  BY <1>0, <1>1, HistoryAssumption DEF HistoryAssumption, Most, n
<1> QED
  BY <1>1, <1>6, <1>7 DEF Sound, r

\* Half of what is too much is one entry, with a history that is not too long.
LEMMA DroppedIs ==
  ASSUME Keep \in Nat, NEW n \in Nat, n <= Keep + 1
  PROVE  Dropped(n) = IF n = Keep + 1 THEN 1 ELSE 0
<1>1. CASE n = Keep + 1
  <2>1. n > Keep /\ n - Keep + 1 = 2 /\ 2 \div 2 = 1
    BY <1>1
  <2> QED
    BY <1>1, <2>1 DEF Dropped
<1>2. CASE n # Keep + 1
  <2>1. ~ (n > Keep)
    BY <1>2
  <2> QED
    BY <1>2, <2>1 DEF Dropped
<1> QED
  BY <1>1, <1>2

\* The loop that drops the oldest entries makes room for one.
LEMMA TrimmedSound ==
  ASSUME NEW s, Sound(s)
  PROVE  /\ Sound(Trimmed(s)) /\ Len(Trimmed(s)) <= Keep
         /\ ProgsOf(Trimmed(s)) \subseteq ProgsOf(s)
<1> DEFINE n == Len(s)
           d == Dropped(n)
           r == Trimmed(s)
<1>0. s \in Seq(Entry) /\ n \in Nat /\ DOMAIN s = 1..n /\ n <= Keep + 1 /\ Keep \in Nat
  BY HistoryAssumption DEF HistoryAssumption, Sound, Most
<1> HIDE DEF n
<1>1. d = IF n = Keep + 1 THEN 1 ELSE 0
  BY <1>0, DroppedIs
<1> HIDE DEF d
<1>2. d \in 0..n /\ n - d <= Keep
  BY <1>0, <1>1
<1>3. /\ r \in Seq(Entry) /\ Len(r) = n - d
      /\ \A k \in 1..(n - d) : r[k] = s[d + k]
  BY <1>0, <1>2, SuffixFacts DEF Trimmed, n, d
<1>4. DOMAIN r = 1..(n - d)
  BY <1>0, <1>2, <1>3
<1> HIDE DEF r
<1>5. \A k \in 1..(n - d) : d + k \in 1..n
  BY <1>0, <1>2
<1>6. \A k, m \in 1..n : s[k].prog = s[m].prog => k = m
  BY <1>0 DEF Sound, NoneTwice
<1>7. NoneTwice(r)
  BY <1>0, <1>2, <1>3, <1>4, <1>5, <1>6 DEF NoneTwice
<1>8. ProgsOf(r) \subseteq ProgsOf(s)
  BY <1>0, <1>3, <1>4, <1>5 DEF ProgsOf
<1>9. Len(r) <= Keep /\ Len(r) <= Most
  BY <1>0, <1>2, <1>3 DEF Most
<1> QED
  BY <1>3, <1>7, <1>8, <1>9 DEF Sound, r

\* Playing a programme, whether it was in the history or not.
LEMMA WatchedSound ==
  ASSUME NEW s, Sound(s), NEW t \in Tasks
  PROVE  Sound(Watched(s, t))
<1> DEFINE e == EntryOf(t)
           i == At(s, e.prog)
<1>0. s \in Seq(Entry) /\ DOMAIN s = 1..Len(s) /\ Len(s) \in Nat
      /\ Len(s) <= Keep + 1 /\ Keep \in Nat
  BY HistoryAssumption DEF HistoryAssumption, Sound, Most
<1>1. CASE t.row \notin DOMAIN t.list
  BY <1>1 DEF Watched
<1>2. CASE t.row \in DOMAIN t.list
  <2>1. t.list \in Lists /\ t.row \in Rows
    BY DEF Tasks
  <2>2. t.list[t.row] \in Programmes
    BY <1>2, <2>1 DEF Programmes, ToSet
  <2>3. e \in Entry
    BY <2>1, <2>2 DEF EntryOf, Entry
  <2>4. CASE e.prog \in ProgsOf(s)
    <3>1. PICK k \in 1..Len(s) : s[k].prog = e.prog
      BY <1>0, <2>4 DEF ProgsOf
    <3>2. \A j \in 1..(k - 1) : s[j].prog # e.prog
      BY <1>0, <3>1 DEF Sound, NoneTwice
    <3>3. i \in 1..Len(s) /\ s[i].prog = e.prog
      BY <1>0, <3>1, <3>2 DEF At
    <3> HIDE DEF i, e
    <3>4. /\ Sound(RemoveAt(s, i)) /\ Len(RemoveAt(s, i)) = Len(s) - 1
          /\ e.prog \notin ProgsOf(RemoveAt(s, i))
      BY <3>3, RemoveAtSound
    <3>5. Len(RemoveAt(s, i)) <= Keep
      BY <1>0, <3>4
    <3>6. Sound(Append(RemoveAt(s, i), e))
      BY <2>3, <3>4, <3>5, AppendSound
    <3> QED
      BY <1>2, <2>4, <3>6 DEF Watched, i, e
  <2>5. CASE e.prog \notin ProgsOf(s)
    <3> HIDE DEF e
    <3>1. Sound(Append(Trimmed(s), e))
      BY <2>3, <2>5, TrimmedSound, AppendSound
    <3> QED
      BY <1>2, <2>5, <3>1 DEF Watched, e
  <2> QED
    BY <2>4, <2>5
<1> QED
  BY <1>1, <1>2

--------------------------------------------------------------------------------
(***************************************************************************)
(* The inductive invariant.  Every copy of the history is as sound as the   *)
(* history itself, since any of them may be written; the two parts of the   *)
(* page add up to its copy, or an index computed from them could miss it.   *)
(***************************************************************************)
CopiesSound ==
  /\ Sound(seed) /\ Sound(arr)
  /\ copy \in [Blocks -> Seq(Entry)]
  /\ \A b \in Blocks : Sound(copy[b])

TasksKnown ==
  /\ step \in [Blocks -> {"idle", "asked", "queued", "read", "stored"}]
  /\ task \in [Blocks -> Tasks \cup {None}]
  /\ \A b \in Blocks : step[b] \in {"asked", "queued"} => task[b] \in Tasks

UserKnown ==
  /\ view \in Lists
  /\ store \in Entry \cup {None}
  /\ offer = None \/ offer \in Tasks

PartsCover ==
  early \in Nat /\ today \in Nat /\ today + early = Len(arr)

IInv == CopiesSound /\ TasksKnown /\ UserKnown /\ PartsCover

\* Row numbers and programmes of a category.
LEMMA ListFacts ==
  ASSUME NEW l \in Lists
  PROVE  /\ Task(l, 1) \in Tasks /\ 1 \in DOMAIN l
         /\ \A r \in Rows : Task(l, r) \in Tasks
         /\ \A r \in DOMAIN l : r \in Rows /\ l[r] \in Programmes
<1>1. l \in Seq(Programmes) /\ l # << >>
  BY HistoryAssumption DEF HistoryAssumption
<1>2. 1 \in DOMAIN l
  BY <1>1
<1>3. \A r \in DOMAIN l : r \in Rows
  BY DEF Rows
<1>4. \A r \in DOMAIN l : l[r] \in Programmes
  BY DEF Programmes, ToSet
<1> QED
  BY <1>2, <1>3, <1>4 DEF Task, Tasks

\* An entry of a list of entries.
LEMMA EntryFacts ==
  ASSUME NEW s \in Seq(Entry), NEW i \in 1..Len(s)
  PROVE  s[i] \in Entry /\ s[i].row \in Rows /\ s[i].list \in Lists
<1>1. s[i] \in Entry
  OBVIOUS
<1> QED
  BY <1>1 DEF Entry

\* Playing something known keeps the tasks known and touches no copy.
LEMMA PlayKeeps ==
  ASSUME IInv, NEW B, NEW t \in Tasks, NEW s \in {"asked", "queued"}, Play(B, t, s)
  PROVE  TasksKnown' /\ UNCHANGED <<seed, store, copy>>
<1>1. step' = [b \in Blocks |-> IF b \in B THEN s ELSE step[b]]
      /\ task' = [b \in Blocks |-> IF b \in B THEN t ELSE task[b]]
      /\ UNCHANGED <<seed, store, copy>>
  BY DEF Play
<1>2. step' \in [Blocks -> {"idle", "asked", "queued", "read", "stored"}]
      /\ task' \in [Blocks -> Tasks \cup {None}]
  BY <1>1 DEF IInv, TasksKnown
<1>3. \A b \in Blocks : step'[b] \in {"asked", "queued"} => task'[b] \in Tasks
  BY <1>1 DEF IInv, TasksKnown
<1> QED
  BY <1>1, <1>2, <1>3 DEF TasksKnown

\* A page that is freed holds a sound, empty copy.
LEMMA PageGoneKeeps ==
  ASSUME PageGone
  PROVE  Sound(arr') /\ PartsCover'
BY EmptySound DEF PageGone, PartsCover

\* What stays when a row is counted out of a page it was on.
LEMMA CountOutKeeps ==
  ASSUME IInv, NEW a, CountOut(a), Len(arr') = Len(arr) - 1,
         (a.section = 0 /\ today > 0) \/ early > 0
  PROVE  PartsCover'
<1>1. early \in Nat /\ today \in Nat /\ today + early = Len(arr)
  BY DEF IInv, PartsCover
<1>2. CASE a.section = 0 /\ today > 0
  BY <1>1, <1>2 DEF CountOut, PartsCover
<1>3. CASE ~ (a.section = 0 /\ today > 0)
  BY <1>1, <1>3 DEF CountOut, PartsCover
<1> QED
  BY <1>2, <1>3

--------------------------------------------------------------------------------
(***************************************************************************)
(* The actions, one by one.                                                 *)
(***************************************************************************)

LEMMA InitSound == Init => IInv
<1> SUFFICES ASSUME Init PROVE IInv
  OBVIOUS
<1>1. CopiesSound
  BY EmptySound DEF Init, CopiesSound, Sound
<1>2. All \in Lists
  BY HistoryAssumption DEF HistoryAssumption
<1>3. TasksKnown
  <2>1. Task(All, 1) \in Tasks
    BY <1>2, ListFacts
  <2> QED
    BY <2>1 DEF Init, TasksKnown
<1>5. UserKnown
  BY <1>2 DEF Init, UserKnown
<1>4. PartsCover
  BY DEF Init, PartsCover
<1> QED
  BY <1>1, <1>3, <1>4, <1>5 DEF IInv

LEMMA BlockKeeps ==
  ASSUME IInv, NEW b \in Blocks, Block(b)
  PROVE  IInv'
<1> USE DEF IInv
<1>1. CASE ReadSeed(b)
  <2>1. Sound(Watched(seed, task[b]))
    BY <1>1, WatchedSound DEF ReadSeed, CopiesSound, TasksKnown
  <2>2. copy' = [copy EXCEPT ![b] = Watched(seed, task[b])]
        /\ UNCHANGED <<seed, arr>>
    BY <1>1 DEF ReadSeed, pageVars
  <2>3. copy' \in [Blocks -> Seq(Entry)] /\ \A c \in Blocks : Sound(copy'[c])
    BY <2>1, <2>2 DEF CopiesSound, Sound
  <2>4. CopiesSound'
    BY <2>2, <2>3 DEF CopiesSound
  <2>5. TasksKnown'
    BY <1>1 DEF ReadSeed, TasksKnown
  <2>6. UserKnown' /\ PartsCover'
    BY <1>1 DEF ReadSeed, UserKnown, PartsCover, pageVars, userVars
  <2> QED
    BY <2>4, <2>5, <2>6
<1>2. CASE StoreLast(b)
  <2>1. CopiesSound' /\ PartsCover'
    BY <1>2 DEF StoreLast, CopiesSound, PartsCover, pageVars
  <2>2. TasksKnown'
    BY <1>2 DEF StoreLast, TasksKnown
  <2>3. store' \in Entry \cup {None}
    <3>1. CASE copy[b] = << >>
      BY <1>2, <3>1 DEF StoreLast
    <3>2. CASE copy[b] # << >>
      <4>1. copy[b] \in Seq(Entry) /\ Len(copy[b]) \in 1..Len(copy[b])
        BY <3>2 DEF CopiesSound
      <4>2. store' = copy[b][Len(copy[b])]
        BY <1>2, <3>2 DEF StoreLast
      <4> QED
        BY <4>1, <4>2, EntryFacts
    <3> QED
      BY <3>1, <3>2
  <2>4. UserKnown'
    BY <1>2, <2>3 DEF StoreLast, UserKnown, userVars
  <2> QED
    BY <2>1, <2>2, <2>4
<1>3. CASE WriteSeed(b)
  <2>1. Sound(seed') /\ arr' = arr
    BY <1>3 DEF WriteSeed, CopiesSound, pageVars
  <2>2. copy' \in [Blocks -> Seq(Entry)] /\ \A c \in Blocks : Sound(copy'[c])
    BY <1>3, EmptySound DEF WriteSeed, CopiesSound
  <2>3. CopiesSound'
    BY <2>1, <2>2 DEF CopiesSound
  <2>4. TasksKnown'
    BY <1>3 DEF WriteSeed, TasksKnown
  <2>5. UserKnown' /\ PartsCover'
    BY <1>3 DEF WriteSeed, UserKnown, PartsCover, pageVars, userVars
  <2> QED
    BY <2>3, <2>4, <2>5
<1>4. CASE Fetch(b)
  <2>1. task[b] \in Tasks
    BY <1>4 DEF Fetch, TasksKnown
  <2>2. Task(view, task[b].row) \in Tasks
    BY <2>1, ListFacts DEF Tasks, UserKnown
  <2>3. TasksKnown'
    BY <1>4, <2>2 DEF Fetch, TasksKnown
  <2>4. CopiesSound' /\ UserKnown' /\ PartsCover'
    BY <1>4 DEF Fetch, CopiesSound, UserKnown, PartsCover, pageVars, userVars
  <2> QED
    BY <2>3, <2>4
<1> QED
  BY <1>1, <1>2, <1>3, <1>4 DEF Block

\* What is resumed is a row of a category, if not always one that it has.
LEMMA ResumedKnown ==
  ASSUME IInv, JumpStarts
  PROVE  Resumed \in Tasks
<1> USE DEF IInv
<1>1. CASE store = None
  BY <1>1, ListFacts DEF Resumed, UserKnown
<1>2. CASE store # None /\ seed = << >>
  <2>1. store \in Entry /\ store.row \in Rows
    BY <1>2 DEF UserKnown, Entry
  <2> QED
    BY <1>2, <2>1, ListFacts DEF Resumed, UserKnown
<1>3. CASE store # None /\ seed # << >>
  <2>1. store.list \in Lists
    BY <1>3 DEF UserKnown, Entry
  <2>2. seed \in Seq(Entry) /\ Len(seed) \in 1..Len(seed)
    BY <1>3 DEF CopiesSound, Sound
  <2>3. seed[Len(seed)].row \in Rows
    BY <2>2, EntryFacts
  <2> QED
    BY <1>3, <2>1, <2>3, ListFacts DEF Resumed
<1> QED
  BY <1>1, <1>2, <1>3

\* A row on the page leads to an entry of its copy.
LEMMA ShownFacts ==
  ASSUME IInv, NEW a \in Shown
  PROVE  /\ SwipeAt(a) \in 1..Len(arr) /\ CellAt(a) \in 1..Len(arr)
         /\ (a.section = 0 /\ today > 0) \/ early > 0
<1>1. early \in Nat /\ today \in Nat /\ today + early = Len(arr)
  BY DEF IInv, PartsCover
<1>2. a.section \in {0, 1} /\ a.row \in Nat /\ a.row < RowsIn(a.section)
  BY DEF Shown
<1>3. CASE a.section = 0 /\ today > 0
  <2>1. a.row < today
    BY <1>2, <1>3 DEF RowsIn
  <2> QED
    BY <1>1, <1>2, <1>3, <2>1 DEF SwipeAt, CellAt
<1>4. CASE a.section = 0 /\ ~ (today > 0)
  <2>1. a.row < early /\ early = Len(arr)
    BY <1>1, <1>2, <1>4 DEF RowsIn
  <2> QED
    BY <1>1, <1>2, <1>4, <2>1 DEF SwipeAt, CellAt
<1>5. CASE a.section = 1
  <2>1. a.row < early /\ today > 0
    BY <1>1, <1>2, <1>5 DEF RowsIn
  <2> QED
    BY <1>1, <1>2, <1>5, <2>1 DEF SwipeAt, CellAt
<1> QED
  BY <1>2, <1>3, <1>4, <1>5

\* The category of a row that is touched on the page.
LEMMA CategoryTouched ==
  ASSUME IInv, NEW a \in Shown
  PROVE  (IF arr[CellAt(a)].prog \in ToSet(Recs) THEN arr[CellAt(a)].list ELSE All) \in Lists
<1>1. CellAt(a) \in 1..Len(arr) /\ arr \in Seq(Entry)
  BY ShownFacts DEF IInv, CopiesSound, Sound
<1>2. All \in Lists
  BY HistoryAssumption DEF HistoryAssumption
<1> QED
  BY <1>1, <1>2, EntryFacts

\* Whatever is played is a row of a category.
LEMMA PlaysKnown ==
  ASSUME IInv, Touch \/ AcceptPush \/ Jump \/ \E a \in Shown : TouchToSee(a)
  PROVE  \/ \E B : \E t \in Tasks, s \in {"asked", "queued"} : Play(B, t, s)
         \/ UNCHANGED <<seed, store, blockVars, last, plays>>
<1> USE DEF IInv
<1>1. CASE Touch
  <2>1. PICK b \in Idle, r \in DOMAIN view : Play({b}, Task(view, r), "asked")
    BY <1>1 DEF Touch
  <2>2. Task(view, r) \in Tasks
    BY ListFacts DEF UserKnown
  <2> QED
    BY <2>1, <2>2
<1>2. CASE AcceptPush
  <2>1. offer \in Tasks
    BY <1>2 DEF AcceptPush, UserKnown
  <2>2. PICK B \in SUBSET Idle : Play(B, offer, "asked")
    BY <1>2 DEF AcceptPush
  <2> QED
    BY <2>1, <2>2
<1>3. CASE Jump
  <2>1. CASE JumpStarts
    <3>1. PICK b \in Idle, s \in {"asked", "queued"} : Play({b}, Resumed, s)
      BY <1>3, <2>1 DEF Jump
    <3> QED
      BY <2>1, <3>1, ResumedKnown
  <2>2. CASE ~ JumpStarts
    BY <1>3, <2>2 DEF Jump
  <2> QED
    BY <2>1, <2>2
<1>4. ASSUME NEW a \in Shown, TouchToSee(a)
      PROVE  \E B : \E t \in Tasks, s \in {"asked", "queued"} : Play(B, t, s)
  <2> DEFINE e == arr[CellAt(a)]
             l == IF e.prog \in ToSet(Recs) THEN e.list ELSE All
             r == CHOOSE i \in DOMAIN l : l[i] = e.prog
  <2>1. l \in Lists
    BY <1>4, CategoryTouched
  <2>2. PICK b \in Idle, s \in {"asked", "queued"} : Play({b}, Task(l, r), s)
    BY <1>4 DEF TouchToSee
  <2>3. r \in DOMAIN l
    <3>1. e.prog \in ToSet(l)
      BY <1>4 DEF TouchToSee
    <3> HIDE DEF e
    <3> QED
      BY <3>1 DEF ToSet
  <2> HIDE DEF r, l
  <2>4. Task(l, r) \in Tasks
    BY <2>1, <2>3, ListFacts
  <2> QED
    BY <2>2, <2>4
<1> QED
  BY <1>1, <1>2, <1>3, <1>4

\* Playing it keeps the tasks known and touches no copy.
LEMMA PlaysKeep ==
  ASSUME IInv, Touch \/ AcceptPush \/ Jump \/ \E a \in Shown : TouchToSee(a)
  PROVE  TasksKnown' /\ UNCHANGED <<seed, store, copy>>
<1>1. CASE UNCHANGED <<seed, store, blockVars, last, plays>>
  BY <1>1 DEF IInv, TasksKnown, blockVars
<1>2. ASSUME NEW B, NEW t \in Tasks, NEW s \in {"asked", "queued"}, Play(B, t, s)
      PROVE  TasksKnown' /\ UNCHANGED <<seed, store, copy>>
  BY <1>2, PlayKeeps
<1> QED
  BY <1>1, <1>2, PlaysKnown

LEMMA TVPageKeeps ==
  ASSUME IInv,
         \/ SelectCategory \/ Touch \/ PushNotice \/ Decline \/ AcceptPush
         \/ GoTV \/ Jump \/ GoMe
  PROVE  IInv'
<1> USE DEF IInv
<1>1. CASE SelectCategory
  BY <1>1 DEF SelectCategory, CopiesSound, TasksKnown, UserKnown, PartsCover,
              blockVars, pageVars
<1>2. CASE Touch
  <2>1. TasksKnown' /\ UNCHANGED <<seed, store, copy>>
    BY <1>2, PlaysKeep
  <2>2. CopiesSound' /\ UserKnown' /\ PartsCover'
    BY <1>2, <2>1 DEF Touch, CopiesSound, UserKnown, PartsCover, pageVars
  <2> QED
    BY <2>1, <2>2
<1>3. CASE AcceptPush
  <2>1. offer \in Tasks /\ offer.list \in Lists
    BY <1>3 DEF AcceptPush, UserKnown, Tasks
  <2>2. TasksKnown' /\ UNCHANGED <<seed, store, copy>>
    BY <1>3, PlaysKeep
  <2>3. CopiesSound' /\ UserKnown' /\ PartsCover'
    BY <1>3, <2>1, <2>2 DEF AcceptPush, CopiesSound, UserKnown, PartsCover, pageVars
  <2> QED
    BY <2>2, <2>3
<1>7. CASE PushNotice
  <2>1. PICK l \in {All, Recs} : \E r \in DOMAIN l : offer' = Task(l, r)
    BY <1>7 DEF PushNotice
  <2>2. PICK r \in DOMAIN l : offer' = Task(l, r)
    BY <2>1
  <2>3. All \in Lists /\ (Recs \in Lists \/ Recs = << >>)
    BY HistoryAssumption DEF HistoryAssumption
  <2>4. l \in Lists
    BY <2>2, <2>3
  <2>5. offer' \in Tasks
    BY <2>2, <2>4, ListFacts
  <2> QED
    BY <1>7, <2>5 DEF PushNotice, CopiesSound, TasksKnown, UserKnown, PartsCover,
                      blockVars, pageVars
<1>8. CASE Decline
  BY <1>8 DEF Decline, CopiesSound, TasksKnown, UserKnown, PartsCover,
              blockVars, pageVars
<1>4. CASE GoTV
  BY <1>4 DEF GoTV, CopiesSound, TasksKnown, UserKnown, PartsCover,
              blockVars, pageVars
<1>5. CASE Jump
  <2>1. TasksKnown' /\ UNCHANGED <<seed, store, copy>>
    BY <1>5, PlaysKeep
  <2>2. CopiesSound' /\ UserKnown' /\ PartsCover'
    BY <1>5, <2>1 DEF Jump, CopiesSound, UserKnown, PartsCover, pageVars
  <2> QED
    BY <2>1, <2>2
<1>6. CASE GoMe
  BY <1>6 DEF GoMe, CopiesSound, TasksKnown, UserKnown, PartsCover,
              blockVars, pageVars
<1> QED
  BY <1>1, <1>2, <1>3, <1>4, <1>5, <1>6, <1>7, <1>8

LEMMA SwipeKeeps ==
  ASSUME IInv, NEW a \in Shown, Swipe(a)
  PROVE  IInv'
<1> USE DEF IInv
<1>1. SwipeAt(a) \in 1..Len(arr) /\ Sound(arr)
  BY ShownFacts DEF CopiesSound
<1>2. Sound(arr') /\ Len(arr') = Len(arr) - 1 /\ seed' = arr'
  BY <1>1, RemoveAtSound DEF Swipe
<1>3. CopiesSound'
  BY <1>2 DEF Swipe, CopiesSound, blockVars
<1>4. PartsCover'
  BY <1>2, ShownFacts, CountOutKeeps DEF Swipe
<1>5. TasksKnown' /\ UserKnown'
  BY DEF Swipe, TasksKnown, UserKnown, blockVars, userVars
<1> QED
  BY <1>3, <1>4, <1>5

LEMMA DeleteNextKeeps ==
  ASSUME IInv, DeleteNext
  PROVE  IInv'
<1> USE DEF IInv
<1> DEFINE a == Head(sel)
<1>1. Sound(arr') /\ PartsCover'
  <2>1. CASE a.section # 0 /\ early = 0
    BY <2>1 DEF DeleteNext, CopiesSound, PartsCover
  <2>2. CASE ~ (a.section # 0 /\ early = 0)
    <3>1. /\ DeleteAt(a) \in DOMAIN arr /\ CountOut(a)
          /\ arr' = RemoveAt(arr, DeleteAt(a))
      BY <2>2 DEF DeleteNext
    <3>2. Sound(arr) /\ DeleteAt(a) \in 1..Len(arr)
      BY <3>1 DEF CopiesSound, Sound
    <3>3. Sound(arr') /\ Len(arr') = Len(arr) - 1
      BY <3>1, <3>2, RemoveAtSound
    <3>4. (a.section = 0 /\ today > 0) \/ early > 0
      <4>1. early \in Nat /\ today \in Nat /\ today + early = Len(arr) /\ Len(arr) >= 1
        BY <3>2 DEF PartsCover
      <4>2. CASE a.section = 0
        BY <4>1, <4>2
      <4>3. CASE a.section # 0
        <5>1. early # 0
          BY <2>2, <4>3
        <5> QED
          BY <4>1, <5>1
      <4> QED
        BY <4>2, <4>3
    <3>5. PartsCover'
      BY <3>1, <3>3, <3>4, CountOutKeeps
    <3> QED
      BY <3>3, <3>5
  <2> QED
    BY <2>1, <2>2
<1>2. seed' = arr' \/ seed' = seed
  BY DEF DeleteNext
<1>3. CopiesSound'
  BY <1>1, <1>2 DEF DeleteNext, CopiesSound, blockVars
<1>4. TasksKnown' /\ UserKnown'
  BY DEF DeleteNext, TasksKnown, UserKnown, blockVars, userVars
<1> QED
  BY <1>1, <1>3, <1>4

LEMMA TouchToSeeKeeps ==
  ASSUME IInv, NEW a \in Shown, TouchToSee(a)
  PROVE  IInv'
<1> USE DEF IInv
<1>1. view' \in Lists /\ offer' = offer
  BY CategoryTouched DEF TouchToSee
<1>2. TasksKnown' /\ UNCHANGED <<seed, store, copy>>
  BY PlaysKeep
<1>3. Sound(arr') /\ PartsCover'
  BY PageGoneKeeps DEF TouchToSee
<1>4. CopiesSound' /\ UserKnown'
  BY <1>1, <1>2, <1>3 DEF CopiesSound, UserKnown
<1> QED
  BY <1>2, <1>3, <1>4

LEMMA PageKeeps ==
  ASSUME IInv, Page
  PROVE  IInv'
<1> USE DEF IInv
<1>1. CASE OpenPage
  <2>1. Sound(arr') /\ PartsCover'
    BY <1>1 DEF OpenPage, CopiesSound, PartsCover, Sound
  <2>2. CopiesSound' /\ TasksKnown' /\ UserKnown'
    BY <1>1, <2>1 DEF OpenPage, CopiesSound, TasksKnown, UserKnown, blockVars
  <2> QED
    BY <2>1, <2>2
<1>2. CASE Back
  <2>1. Sound(arr') /\ PartsCover'
    BY <1>2, PageGoneKeeps DEF Back
  <2>2. CopiesSound' /\ TasksKnown' /\ UserKnown'
    BY <1>2, <2>1 DEF Back, CopiesSound, TasksKnown, UserKnown, blockVars
  <2> QED
    BY <2>1, <2>2
<1>3. CASE DeleteNext
  BY <1>3, DeleteNextKeeps
<1>4. ASSUME NEW a \in Shown, Swipe(a) \/ TouchToSee(a)
      PROVE  IInv'
  BY <1>4, SwipeKeeps, TouchToSeeKeeps
<1>5. ASSUME NEW S \in SUBSET Shown, DeleteSelected(S)
      PROVE  IInv'
  BY <1>5 DEF DeleteSelected, CopiesSound, TasksKnown, UserKnown, PartsCover,
              blockVars, userVars
<1> QED
  BY <1>1, <1>2, <1>3, <1>4, <1>5 DEF Page

LEMMA RestartKeeps ==
  ASSUME IInv, Restart
  PROVE  IInv'
<1> USE DEF IInv
<1>1. Sound(arr') /\ PartsCover'
  BY PageGoneKeeps DEF Restart
<1>2. CopiesSound'
  BY <1>1, EmptySound DEF Restart, CopiesSound
<1>3. PICK b \in Blocks :
        /\ step' = [c \in Blocks |-> IF c = b THEN "asked" ELSE "idle"]
        /\ task' = [c \in Blocks |-> IF c = b THEN Task(All, 1) ELSE None]
  BY DEF Restart
<1>4. All \in Lists /\ Task(All, 1) \in Tasks
  BY HistoryAssumption, ListFacts DEF HistoryAssumption
<1>5. TasksKnown'
  BY <1>3, <1>4 DEF TasksKnown
<1>6. UserKnown'
  BY <1>4 DEF Restart, UserKnown
<1> QED
  BY <1>1, <1>2, <1>5, <1>6

--------------------------------------------------------------------------------
(***************************************************************************)
(* The inductive invariant holds: no block, page or restart can make an     *)
(* unsound copy of the history, so none can write one.                      *)
(***************************************************************************)
THEOREM Invariant == Spec => []IInv
<1>1. IInv /\ [Next]_vars => IInv'
  <2> SUFFICES ASSUME IInv, [Next]_vars PROVE IInv'
    OBVIOUS
  <2>1. CASE Next
    BY <2>1, BlockKeeps, TVPageKeeps, PageKeeps, RestartKeeps DEF Next
  <2>2. CASE UNCHANGED vars
    BY <2>2 DEF vars, blockVars, pageVars, userVars,
                IInv, CopiesSound, TasksKnown, UserKnown, PartsCover
  <2> QED
    BY <2>1, <2>2
<1> QED
  BY <1>1, InitSound, PTL DEF Spec

(***************************************************************************)
(* A programme is in the history once: of the many copies that blocks and   *)
(* the page write back, none has it twice.                                  *)
(***************************************************************************)
THEOREM HistoryHasNoDuplicates == Spec => []NoDuplicates
<1>1. IInv => NoDuplicates
  BY DEF IInv, CopiesSound, Sound, NoDuplicates
<1> QED
  BY <1>1, Invariant, PTL

(***************************************************************************)
(* The history holds Keep + 1 entries at most, for every Keep, although the *)
(* loop that drops the oldest stops half way.                               *)
(***************************************************************************)
THEOREM HistoryIsBounded == Spec => []AtMostTwenty
<1>1. IInv => AtMostTwenty
  BY DEF IInv, CopiesSound, Sound, AtMostTwenty
<1> QED
  BY <1>1, Invariant, PTL

--------------------------------------------------------------------------------
(***************************************************************************)
(* Induction over numbers: a set of counterexamples has a least element.    *)
(***************************************************************************)
Below == { nm \in Nat \X Nat : nm[1] < nm[2] }

\* A set of numbers that is not empty has a least one.
LEMMA Least ==
  ASSUME NEW T, T \subseteq Nat, T # {}
  PROVE  \E n \in T : \A m \in T : n <= m
<1>1. OpToRel(<, Nat) = Below
  BY DEF OpToRel, Below
<1>2. IsWellFoundedOn(Below, Nat)
  BY <1>1, NatLessThanWellFounded
<1>3. PICK n \in T : \A m \in T : ~ (<<m, n>> \in Below)
  BY <1>2, WFMin
<1>4. ASSUME NEW m \in T
      PROVE  n <= m
  <2>1. n \in Nat /\ m \in Nat
    OBVIOUS
  <2>2. ~ (m < n)
    BY <1>3, <2>1 DEF Below
  <2> QED
    BY <2>1, <2>2
<1> QED
  BY <1>4

\* Induction up to n: a set that holds 0, and k when it holds k - 1.
LEMMA UpTo ==
  ASSUME NEW n \in Nat, NEW T, 0 \in T, \A k \in 1..n : k - 1 \in T => k \in T
  PROVE  0..n \subseteq T
<1> DEFINE F == (0..n) \ T
<1> SUFFICES ASSUME F # {} PROVE FALSE
  OBVIOUS
<1>1. F \subseteq Nat
  OBVIOUS
<1> HIDE DEF F
<1>2. PICK k \in F : \A m \in F : k <= m
  BY <1>1, Least
<1>3. k \in 1..n /\ k \notin T
  BY <1>2 DEF F
<1>4. k - 1 \in 0..n /\ ~ (k <= k - 1)
  BY <1>3
<1>5. k - 1 \notin F
  BY <1>2, <1>4
<1> QED
  BY <1>3, <1>4, <1>5 DEF F

\* One turn of the recursion of Without.
Turn(s, P, f, i) ==
  IF i = 0 THEN << >> ELSE IF s[i].prog \in P THEN f[i - 1] ELSE Append(f[i - 1], s[i])

\* The function kept of Without.
Kept(s, P) == CHOOSE f : f = [i \in 0..Len(s) |-> Turn(s, P, f, i)]

\* Without ends with its last value.
LEMMA KeptIs == \A s, P : Without(s, P) = Kept(s, P)[Len(s)]
BY DEF Without, Kept, Turn

\* There is such a function: each turn looks at the one before only.
LEMMA KeptDefined ==
  ASSUME NEW s \in Seq(Entry), NEW P
  PROVE  Kept(s, P) = [i \in 0..Len(s) |-> Turn(s, P, Kept(s, P), i)]
<1> DEFINE Defines(m) == \E f : f = [i \in 0..m |-> Turn(s, P, f, i)]
           T == { m \in Nat : Defines(m) }
<1>0. Len(s) \in Nat
  OBVIOUS
<1>1. 0 \in T
  <2> DEFINE f == [i \in 0..0 |-> << >>]
  <2>1. f = [i \in 0..0 |-> Turn(s, P, f, i)]
    BY DEF Turn
  <2> QED
    BY <2>1
<1>2. ASSUME NEW m \in 1..Len(s), m - 1 \in T
      PROVE  m \in T
  <2>1. PICK g : g = [i \in 0..(m - 1) |-> Turn(s, P, g, i)]
    BY <1>2
  <2> DEFINE f == [i \in 0..m |-> IF i = m THEN Turn(s, P, g, m) ELSE g[i]]
  <2>2. ASSUME NEW i \in 0..m
        PROVE  f[i] = Turn(s, P, f, i)
    <3>1. i # 0 => i - 1 \in 0..(m - 1) /\ i - 1 \in 0..m /\ i - 1 # m
      OBVIOUS
    <3>2. i # 0 => f[i - 1] = g[i - 1]
      BY <3>1
    <3>3. Turn(s, P, f, i) = Turn(s, P, g, i)
      BY <3>2 DEF Turn
    <3>4. CASE i = m
      BY <3>3, <3>4
    <3>5. CASE i # m
      <4>1. i \in 0..(m - 1)
        BY <3>5
      <4>2. f[i] = g[i] /\ g[i] = Turn(s, P, g, i)
        BY <4>1, <3>5, <2>1
      <4> QED
        BY <3>3, <4>2
    <3> QED
      BY <3>4, <3>5
  <2>3. f = [i \in 0..m |-> f[i]]
    OBVIOUS
  <2> HIDE DEF f
  <2>4. f = [i \in 0..m |-> Turn(s, P, f, i)]
    BY <2>2, <2>3
  <2>5. Defines(m) /\ m \in Nat
    BY <2>4
  <2> QED
    BY <2>5
<1> HIDE DEF T
<1>3. 0..Len(s) \subseteq T
  BY <1>0, <1>1, <1>2, UpTo
<1>4. Defines(Len(s))
  BY <1>0, <1>3 DEF T
<1> QED
  BY <1>4 DEF Kept

\* Its values, turn by turn.
LEMMA KeptFacts ==
  ASSUME NEW s \in Seq(Entry), NEW P
  PROVE  /\ Kept(s, P)[0] = << >>
         /\ \A i \in 1..Len(s) :
              Kept(s, P)[i] = IF s[i].prog \in P THEN Kept(s, P)[i - 1]
                              ELSE Append(Kept(s, P)[i - 1], s[i])
         /\ \A i \in 0..Len(s) : Kept(s, P)[i] \in Seq(Entry)
<1> DEFINE K == Kept(s, P)
<1>0. Len(s) \in Nat
  OBVIOUS
<1>1. \A i \in 0..Len(s) : K[i] = Turn(s, P, K, i)
  BY KeptDefined
<1> HIDE DEF K
<1>2. K[0] = << >>
  BY <1>0, <1>1 DEF Turn
<1>3. \A i \in 1..Len(s) :
        K[i] = IF s[i].prog \in P THEN K[i - 1] ELSE Append(K[i - 1], s[i])
  BY <1>0, <1>1 DEF Turn
<1>4. \A i \in 0..Len(s) : K[i] \in Seq(Entry)
  <2> DEFINE T == { i \in Nat : K[i] \in Seq(Entry) }
  <2>1. 0 \in T
    <3>1. << >> \in Seq(Entry)
      OBVIOUS
    <3> QED
      BY <1>2, <3>1
  <2>2. ASSUME NEW i \in 1..Len(s), i - 1 \in T
        PROVE  i \in T
    <3>1. s[i] \in Entry /\ K[i - 1] \in Seq(Entry)
      BY <2>2
    <3>2. Append(K[i - 1], s[i]) \in Seq(Entry)
      BY <3>1, AppendProperties
    <3>3. K[i] \in Seq(Entry)
      BY <1>3, <3>1, <3>2
    <3>4. i \in Nat
      BY <1>0
    <3> QED
      BY <3>3, <3>4
  <2> HIDE DEF T
  <2>3. 0..Len(s) \subseteq T
    BY <1>0, <2>1, <2>2, UpTo
  <2> QED
    BY <2>3 DEF T
<1> QED
  BY <1>2, <1>3, <1>4 DEF K

\* What is left is a list of entries.
LEMMA WithoutType ==
  ASSUME NEW s \in Seq(Entry), NEW P
  PROVE  Without(s, P) \in Seq(Entry)
<1>1. Len(s) \in 0..Len(s)
  OBVIOUS
<1> QED
  BY <1>1, KeptIs, KeptFacts

\* Without no programme, everything is left.
LEMMA WithoutNone ==
  ASSUME NEW s \in Seq(Entry)
  PROVE  Without(s, {}) = s
<1> DEFINE K == Kept(s, {})
           n == Len(s)
           T == { i \in Nat : Len(K[i]) = i /\ \A j \in 1..i : K[i][j] = s[j] }
<1>0. n \in Nat /\ s \in [1..n -> Entry]
  OBVIOUS
<1>1. /\ K[0] = << >>
      /\ \A i \in 1..n : K[i] = Append(K[i - 1], s[i])
      /\ \A i \in 0..n : K[i] \in Seq(Entry)
  <2>1. /\ K[0] = << >>
        /\ \A i \in 1..n :
             K[i] = IF s[i].prog \in {} THEN K[i - 1] ELSE Append(K[i - 1], s[i])
        /\ \A i \in 0..n : K[i] \in Seq(Entry)
    BY KeptFacts
  <2> HIDE DEF K, n
  <2> QED
    BY <2>1
<1> HIDE DEF K, n
<1>2. 0 \in T
  BY <1>1
<1>3. ASSUME NEW i \in 1..n, i - 1 \in T
      PROVE  i \in T
  <2>0. i - 1 \in 0..n /\ i - 1 + 1 = i
    BY <1>0
  <2>1. /\ K[i - 1] \in Seq(Entry) /\ Len(K[i - 1]) = i - 1
        /\ \A j \in 1..(i - 1) : K[i - 1][j] = s[j]
    BY <1>1, <1>3, <2>0
  <2>2. s[i] \in Entry /\ K[i] = Append(K[i - 1], s[i])
    BY <1>0, <1>1
  <2>3. /\ Len(K[i]) = i /\ K[i][i] = s[i]
        /\ \A j \in 1..(i - 1) : K[i][j] = K[i - 1][j]
    BY <2>0, <2>1, <2>2, AppendProperties
  <2>4. ASSUME NEW j \in 1..i
        PROVE  K[i][j] = s[j]
    <3>1. CASE j = i
      BY <2>3, <3>1
    <3>2. CASE j # i
      <4>1. j \in 1..(i - 1)
        BY <3>2
      <4> QED
        BY <4>1, <2>1, <2>3
    <3> QED
      BY <3>1, <3>2
  <2> QED
    BY <2>3, <2>4
<1> HIDE DEF T
<1>4. n \in T
  <2>1. 0..n \subseteq T
    BY <1>0, <1>2, <1>3, UpTo
  <2> QED
    BY <1>0, <2>1
<1>5. K[n] \in Seq(Entry) /\ Len(K[n]) = n /\ \A j \in 1..n : K[n][j] = s[j]
  BY <1>0, <1>1, <1>4 DEF T
<1>6. K[n] = s
  BY <1>0, <1>5, SeqEqual DEF n
<1> QED
  BY <1>6, KeptIs DEF K, n

\* Removing an entry first, or with those of P, leaves the same.
LEMMA WithoutOneMore ==
  ASSUME NEW s \in Seq(Entry), NoneTwice(s), NEW a \in 1..Len(s), NEW P
  PROVE  Without(RemoveAt(s, a), P) = Without(s, P \cup {s[a].prog})
<1> DEFINE n == Len(s)
           r == RemoveAt(s, a)
           Q == P \cup {s[a].prog}
           J == Kept(r, P)
           K == Kept(s, Q)
           Old(k) == IF k < a THEN k ELSE k + 1
           T == { k \in Nat : J[k] = K[Old(k)] }
<1>0. n \in Nat /\ a \in 1..n /\ DOMAIN s = 1..n
  OBVIOUS
<1>1. /\ r \in Seq(Entry) /\ Len(r) = n - 1
      /\ \A k \in 1..(n - 1) : r[k] = s[Old(k)]
  BY RemoveAtFacts
<1>2. /\ J[0] = << >>
      /\ \A k \in 1..(n - 1) :
           J[k] = IF r[k].prog \in P THEN J[k - 1] ELSE Append(J[k - 1], r[k])
  BY <1>1, KeptFacts
<1>3. /\ K[0] = << >>
      /\ \A k \in 1..n :
           K[k] = IF s[k].prog \in Q THEN K[k - 1] ELSE Append(K[k - 1], s[k])
  BY KeptFacts
<1>4. K[a] = K[a - 1]
  BY <1>3
<1>5. \A k \in 1..n : k # a => (s[k].prog \in Q <=> s[k].prog \in P)
  BY <1>0 DEF NoneTwice
<1> HIDE DEF n, r, Q, J, K
<1>6. 0 \in T
  BY <1>0, <1>2, <1>3
<1>7. ASSUME NEW k \in 1..(n - 1), k - 1 \in T
      PROVE  k \in T
  <2>1. Old(k) \in 1..n /\ Old(k) # a
    BY <1>0
  <2>2. K[Old(k)] = IF s[Old(k)].prog \in P THEN K[Old(k) - 1]
                    ELSE Append(K[Old(k) - 1], s[Old(k)])
    BY <1>3, <1>5, <2>1
  <2>3. K[Old(k) - 1] = K[Old(k - 1)]
    <3>1. CASE k < a
      <4>1. Old(k) - 1 = Old(k - 1)
        BY <1>0, <3>1
      <4> QED
        BY <4>1
    <3>2. CASE k = a
      <4>1. Old(k) - 1 = a /\ Old(k - 1) = a - 1
        BY <1>0, <3>2
      <4> QED
        BY <1>4, <4>1
    <3>3. CASE k > a
      <4>1. Old(k) - 1 = Old(k - 1)
        BY <1>0, <3>3
      <4> QED
        BY <4>1
    <3> QED
      BY <1>0, <3>1, <3>2, <3>3
  <2>4. J[k - 1] = K[Old(k - 1)]
    BY <1>7
  <2>5. J[k] = K[Old(k)]
    BY <1>1, <1>2, <2>2, <2>3, <2>4
  <2> QED
    BY <2>5
<1> HIDE DEF T
<1>8. n - 1 \in T
  <2>1. n - 1 \in Nat
    BY <1>0
  <2>2. 0..(n - 1) \subseteq T
    BY <1>6, <1>7, <2>1, UpTo
  <2> QED
    BY <2>1, <2>2
<1>9. J[n - 1] = K[Old(n - 1)]
  BY <1>8 DEF T
<1>10. K[Old(n - 1)] = K[n]
  <2>1. CASE a = n
    <3>1. Old(n - 1) = a - 1
      BY <1>0, <2>1
    <3> QED
      BY <1>4, <2>1, <3>1
  <2>2. CASE a # n
    <3>1. Old(n - 1) = n
      BY <1>0, <2>2
    <3> QED
      BY <3>1
  <2> QED
    BY <2>1, <2>2
<1>11. Without(r, P) = J[n - 1] /\ Without(s, Q) = K[n]
  BY <1>1, KeptIs DEF J, K, n
<1> QED
  BY <1>9, <1>10, <1>11 DEF r, Q

--------------------------------------------------------------------------------
(***************************************************************************)
(* The invariant of the page.  The heart of it is RestIs: the entries that  *)
(* deleteSeletions has still to remove from what is left of arr, each where *)
(* its row and the count of rows above it gone put it, are those the user   *)
(* selected and no others.  For that the counts must stay in order within a *)
(* section and inside its part of the list (RowsSound).                     *)
(***************************************************************************)

\* The rows of selectedArray the loop has not come to.
ToBeDeleted == ToSet(sel)

\* The positions in arr that the rows of a's section can be at.
Part(a) == IF a.section = 0 /\ today > 0 THEN (early + 1)..Len(arr) ELSE 1..early

\* Once today's entries are gone, all rows left are in one section.
RowsSound ==
  /\ IsFiniteSet(gone) /\ IsInjective(sel) /\ ToBeDeleted \cap gone = {}
  /\ IF Free THEN gone = {} ELSE tab = "History"
  /\ \A a \in ToBeDeleted : DeleteAt(a) \in Part(a)
  /\ \A a, b \in ToBeDeleted :
       a.section = b.section /\ a.row < b.row => DeleteAt(b) < DeleteAt(a)
  /\ today = 0 => \A a, b \in ToBeDeleted : a.section = b.section

\* Without those still to be deleted, what is left is what the user left.
RestIs == rest = Without(arr, { arr[DeleteAt(a)].prog : a \in ToBeDeleted })

\* A copy was computed from the history the block read.
CopiesExplained ==
  \A b \in Blocks : step[b] \in {"read", "stored"} =>
    \E t \in Tasks : copy[b] = Watched(base[b], t)

\* The types IInv leaves open: those of the page, and the others.
PageTypes ==
  /\ sel \in Seq(Address) /\ gone \subseteq Address
  /\ rest \in Seq(Entry)

OtherTypes ==
  /\ tab \in {"TV", "Me", "History"} /\ flag \in BOOLEAN /\ jumps \in Nat
  /\ base \in [Blocks -> Seq(Entry)]
  /\ last \in Programmes /\ plays \in Nat

\* The inductive invariant of the page, next to IInv.
PInv == PageTypes /\ OtherTypes /\ RowsSound /\ RestIs /\ CopiesExplained

\* Without its first row a selection has the others, each once.
LEMMA TailFacts ==
  ASSUME NEW S, NEW s \in Seq(S), s # << >>, IsInjective(s)
  PROVE  /\ Tail(s) \in Seq(S) /\ IsInjective(Tail(s))
         /\ Head(s) \in ToSet(s) /\ Head(s) \in S
         /\ ToSet(Tail(s)) = ToSet(s) \ {Head(s)}
<1> DEFINE n == Len(s)
           t == Tail(s)
<1>1. n \in Nat /\ n >= 1 /\ DOMAIN s = 1..n /\ Head(s) = s[1] /\ s[1] \in S
  OBVIOUS
<1>2. /\ t \in Seq(S) /\ DOMAIN t = 1..(n - 1)
      /\ \A i \in 1..(n - 1) : t[i] = s[i + 1]
  BY HeadTailProperties
<1> HIDE DEF n, t
<1>3. \A i, j \in 1..n : s[i] = s[j] => i = j
  BY <1>1 DEF IsInjective
<1>4. IsInjective(t)
  <2> SUFFICES ASSUME NEW i \in 1..(n - 1), NEW j \in 1..(n - 1), t[i] = t[j]
               PROVE  i = j
    BY <1>2 DEF IsInjective
  <2>1. i + 1 \in 1..n /\ j + 1 \in 1..n /\ s[i + 1] = s[j + 1]
    BY <1>1, <1>2
  <2>2. i + 1 = j + 1
    BY <1>3, <2>1
  <2> QED
    BY <1>1, <2>2
<1>5. s[1] \in ToSet(s)
  BY <1>1 DEF ToSet
<1>6. ToSet(t) \subseteq ToSet(s) \ {s[1]}
  <2> SUFFICES ASSUME NEW i \in 1..(n - 1)
               PROVE  t[i] \in ToSet(s) /\ t[i] # s[1]
    BY <1>2 DEF ToSet
  <2>1. i + 1 \in 1..n /\ i + 1 # 1 /\ 1 \in 1..n /\ t[i] = s[i + 1]
    BY <1>1, <1>2
  <2> QED
    BY <1>1, <1>3, <2>1 DEF ToSet
<1>7. ToSet(s) \ {s[1]} \subseteq ToSet(t)
  <2> SUFFICES ASSUME NEW i \in 1..n, s[i] # s[1]
               PROVE  s[i] \in ToSet(t)
    BY <1>1 DEF ToSet
  <2>1. i - 1 \in 1..(n - 1) /\ (i - 1) + 1 = i
    BY <1>1
  <2>2. t[i - 1] = s[i]
    BY <1>2, <2>1
  <2> QED
    BY <1>2, <2>1, <2>2 DEF ToSet
<1> QED
  BY <1>1, <1>2, <1>4, <1>5, <1>6, <1>7 DEF t

\* The sequences of a finite set hold each of its elements once.
LEMMA SetToSeqsFacts ==
  ASSUME NEW S, IsFiniteSet(S), NEW s \in SetToSeqs(S)
  PROVE  s \in Seq(S) /\ IsInjective(s) /\ ToSet(s) = S
<1> DEFINE n == Cardinality(S)
<1>1. n \in Nat
  BY FS_CardinalityType
<1>2. s \in [1..n -> S] /\ \A i, j \in 1..n : i # j => s[i] # s[j]
  BY DEF SetToSeqs
<1>3. IsFiniteSet(1..n) /\ Cardinality(1..n) = n
  <2>1. 1 \in Int /\ n \in Int /\ n - 1 + 1 = n /\ (1 > n => n = 0)
    BY <1>1
  <2> QED
    BY <2>1, FS_Interval
<1>4. s \in Injection(1..n, S)
  BY <1>2 DEF Injection, IsInjective
<1>5. s \in Surjection(1..n, S)
  BY <1>3, <1>4, FS_Injection
<1>6. \A e \in S : \E i \in 1..n : s[i] = e
  BY <1>5 DEF Surjection
<1> HIDE DEF n
<1>7. s \in Seq(S) /\ DOMAIN s = 1..n
  BY <1>1, <1>2
<1>8. IsInjective(s)
  BY <1>2, <1>7 DEF IsInjective
<1>9. ToSet(s) = S
  BY <1>2, <1>6, <1>7 DEF ToSet
<1> QED
  BY <1>7, <1>8, <1>9

\* A page has finitely many rows.
LEMMA ShownFinite ==
  ASSUME Len(arr) \in Nat
  PROVE  IsFiniteSet(Shown)
<1> DEFINE n == Len(arr)
           T == [section : {0, 1}, row : 0..n]
           f == [p \in {0, 1} \X (0..n) |-> [section |-> p[1], row |-> p[2]]]
<1>1. IsFiniteSet(0..n)
  <2>1. 0 \in Int /\ n \in Int
    OBVIOUS
  <2> QED
    BY <2>1, FS_Interval
<1>2. IsFiniteSet({0, 1})
  <2>1. {0, 1} = 0..1 /\ 0 \in Int /\ 1 \in Int
    OBVIOUS
  <2> QED
    BY <2>1, FS_Interval
<1>3. IsFiniteSet({0, 1} \X (0..n))
  BY <1>1, <1>2, FS_Product
<1>4. f \in Surjection({0, 1} \X (0..n), T)
  <2>1. f \in [{0, 1} \X (0..n) -> T]
    OBVIOUS
  <2>2. ASSUME NEW t \in T
        PROVE  \E p \in {0, 1} \X (0..n) : f[p] = t
    <3>1. <<t.section, t.row>> \in {0, 1} \X (0..n)
      OBVIOUS
    <3>2. f[<<t.section, t.row>>] = t
      BY <3>1
    <3> QED
      BY <3>1, <3>2
  <2> QED
    BY <2>1, <2>2 DEF Surjection
<1> HIDE DEF f, T
<1>5. IsFiniteSet(T)
  BY <1>3, <1>4, FS_Surjection
<1>6. Shown \in SUBSET T
  BY DEF Shown, T
<1> QED
  BY <1>5, <1>6, FS_Subset


\* A row still to be deleted is an address, and its count a number.
LEMMA RowFacts ==
  ASSUME IInv, PageTypes, RowsSound, NEW a \in ToBeDeleted
  PROVE  /\ a \in Address /\ a.section \in {0, 1} /\ a.row \in Nat
         /\ Above(a) \in Nat /\ DeleteAt(a) \in 1..Len(arr)
<1>1. a \in Address
  BY DEF PageTypes, ToBeDeleted, ToSet
<1>2. a.section \in {0, 1} /\ a.row \in Nat
  BY <1>1 DEF Address
<1>3. Above(a) \in Nat
  <2>1. { g \in gone : g.section = a.section /\ g.row < a.row } \in SUBSET gone
    OBVIOUS
  <2> QED
    BY <2>1, FS_Subset, FS_CardinalityType DEF Above, RowsSound
<1>4. DeleteAt(a) \in 1..Len(arr)
  <2>1. DeleteAt(a) \in Part(a)
    BY DEF RowsSound
  <2>2. early \in Nat /\ today \in Nat /\ today + early = Len(arr)
    BY DEF IInv, PartsCover
  <2>3. Part(a) \subseteq 1..Len(arr)
    BY <2>2 DEF Part
  <2> QED
    BY <2>1, <2>3
<1> QED
  BY <1>1, <1>2, <1>3, <1>4

\* No row is left to delete.
LEMMA NoRowLeft ==
  ASSUME sel' = << >>, gone' = {}, arr' \in Seq(Entry), rest' = arr'
  PROVE  PageTypes' /\ RowsSound' /\ RestIs'
<1>1. ToBeDeleted' = {}
  BY DEF ToBeDeleted, ToSet
<1>2. sel' \in Seq(Address)
  BY EmptySeq
<1>3. PageTypes'
  BY <1>2 DEF PageTypes
<1>4. IsFiniteSet(gone') /\ IsInjective(sel')
  <2>1. DOMAIN sel' = {}
    OBVIOUS
  <2> QED
    BY <2>1, FS_EmptySet DEF IsInjective
<1>5. RowsSound'
  BY <1>1, <1>4 DEF RowsSound, Free
<1>6. { arr[DeleteAt(a)].prog : a \in ToBeDeleted }' = {}
  BY <1>1
<1>7. RestIs'
  BY <1>6, WithoutNone DEF RestIs
<1> QED
  BY <1>3, <1>5, <1>7

\* Nothing on the page changes.
LEMMA RowsStay ==
  ASSUME PageTypes, RowsSound, RestIs, UNCHANGED pageVars, Free \/ tab' = tab
  PROVE  PageTypes' /\ RowsSound' /\ RestIs'
<1> USE DEF pageVars
<1>1. PageTypes'
  BY DEF PageTypes
<1>2. ToBeDeleted' = ToBeDeleted /\ \A a : DeleteAt(a)' = DeleteAt(a) /\ Part(a)' = Part(a)
  BY DEF ToBeDeleted, DeleteAt, Above, Part
<1>3. RowsSound'
  BY <1>2 DEF RowsSound, Free
<1>4. RestIs'
  BY <1>2 DEF RestIs
<1> QED
  BY <1>1, <1>3, <1>4

\* A swipe removes the entry of its cell.
LEMMA SwipeDeletes ==
  ASSUME IInv, NEW a \in Shown, Swipe(a)
  PROVE  rest' = arr' /\ arr' \in Seq(Entry)
<1> DEFINE i == CellAt(a)
           p == arr[i].prog
<1>1. arr \in Seq(Entry) /\ NoneTwice(arr)
  BY DEF IInv, CopiesSound, Sound
<1>2. i \in 1..Len(arr)
  BY ShownFacts
<1>3. SwipeAt(a) = i
  <2>1. early \in Nat /\ today \in Nat /\ today + early = Len(arr)
    BY DEF IInv, PartsCover
  <2>2. a.section \in {0, 1} /\ a.row < RowsIn(a.section)
    BY DEF Shown
  <2>3. a.section = 1 => today > 0
    BY <2>1, <2>2 DEF Shown, RowsIn
  <2> QED
    BY <2>1, <2>2, <2>3 DEF SwipeAt, CellAt
<1>4. arr' = RemoveAt(arr, i) /\ rest' = Without(arr, {p})
  BY <1>3 DEF Swipe
<1> HIDE DEF i
<1>5. RemoveAt(arr, i) \in Seq(Entry)
  BY <1>1, <1>2, RemoveAtFacts
<1>6. Without(RemoveAt(arr, i), {}) = Without(arr, {} \cup {p})
  BY <1>1, <1>2, WithoutOneMore
<1>7. {} \cup {p} = {p}
  OBVIOUS
<1>8. rest' = RemoveAt(arr, i)
  BY <1>4, <1>5, <1>6, <1>7, WithoutNone
<1> QED
  BY <1>4, <1>5, <1>8

\* Before the first deletion each row is at the entry of its cell.
LEMMA SelectedRows ==
  ASSUME IInv, RowsSound, NEW S \in SUBSET Shown, DeleteSelected(S)
  PROVE  PageTypes' /\ RowsSound' /\ RestIs'
<1>1. /\ early \in Nat /\ today \in Nat /\ today + early = Len(arr)
      /\ arr \in Seq(Entry) /\ gone = {}
  BY DEF IInv, CopiesSound, Sound, PartsCover, RowsSound, DeleteSelected
<1>2. IsFiniteSet(S)
  BY <1>1, ShownFinite, FS_Subset
<1>3. sel' \in Seq(S) /\ IsInjective(sel') /\ ToSet(sel') = S
  BY <1>2, SetToSeqsFacts DEF DeleteSelected
<1>4. /\ UNCHANGED <<arr, early, today, gone, tab>> /\ tab = "History" /\ S # {}
      /\ rest' = Without(arr, { arr[CellAt(a)].prog : a \in S })
  BY DEF DeleteSelected, userVars
<1>5. ASSUME NEW a \in Shown
      PROVE  /\ a \in Address /\ a.section \in {0, 1} /\ a.row \in Nat
             /\ a.row < RowsIn(a.section)
  BY DEF Shown, Address
<1>6. S \subseteq Address
  BY <1>5
<1>7. PageTypes'
  <2>1. sel' \in Seq(Address)
    BY <1>3, <1>6
  <2>2. rest' \in Seq(Entry)
    BY <1>1, <1>4, WithoutType
  <2> QED
    BY <1>1, <1>4, <2>1, <2>2 DEF PageTypes
<1>8. ToBeDeleted' = S
  BY <1>3 DEF ToBeDeleted
<1>9. ASSUME NEW a \in S
      PROVE  /\ DeleteAt(a)' = CellAt(a) /\ Part(a)' = Part(a)
             /\ DeleteAt(a)' = (IF a.section = 0 THEN Len(arr) ELSE early) - a.row
             /\ CellAt(a) \in Part(a)
  <2>1. Above(a)' = 0
    <3>1. { g \in gone' : g.section = a.section /\ g.row < a.row } = {}
      BY <1>1, <1>4
    <3> QED
      BY <3>1, FS_EmptySet DEF Above
  <2>2. DeleteAt(a)' = (IF a.section = 0 THEN Len(arr) ELSE early) - a.row
    <3>1. a.row - 0 = a.row
      BY <1>5
    <3> QED
      BY <1>4, <2>1, <3>1 DEF DeleteAt
  <2>3. a.section = 1 => today > 0
    BY <1>1, <1>5 DEF RowsIn
  <2>4. DeleteAt(a)' = CellAt(a)
    BY <1>5, <2>2, <2>3 DEF CellAt
  <2>5. CellAt(a) \in Part(a)
    BY <1>1, <1>5, <2>3 DEF CellAt, Part, RowsIn
  <2>6. Part(a)' = Part(a)
    BY <1>4 DEF Part
  <2> QED
    BY <2>2, <2>4, <2>5, <2>6
<1>10. RowsSound'
  <2>1. IsFiniteSet(gone') /\ ToBeDeleted' \cap gone' = {} /\ IsInjective(sel')
    BY <1>1, <1>3, <1>4, FS_EmptySet
  <2>2. IF Free' THEN gone' = {} ELSE tab' = "History"
    BY <1>1, <1>4
  <2>3. \A a \in S : DeleteAt(a)' \in Part(a)'
    BY <1>9
  <2>4. ASSUME NEW a \in S, NEW b \in S, a.section = b.section, a.row < b.row
        PROVE  DeleteAt(b)' < DeleteAt(a)'
    <3>1. a.row \in Nat /\ b.row \in Nat
      BY <1>5
    <3>2. CASE a.section = 0
      BY <1>1, <1>9, <2>4, <3>1, <3>2
    <3>3. CASE a.section # 0
      BY <1>1, <1>9, <2>4, <3>1, <3>3
    <3> QED
      BY <3>2, <3>3
  <2>5. ASSUME today' = 0, NEW a \in S, NEW b \in S
        PROVE  a.section = b.section
    <3>1. \A c \in S : c.section = 0
      BY <1>1, <1>4, <1>5, <2>5 DEF RowsIn
    <3> QED
      BY <3>1
  <2> QED
    BY <1>8, <2>1, <2>2, <2>3, <2>4, <2>5 DEF RowsSound
<1>11. RestIs'
  <2>1. { arr[CellAt(a)].prog : a \in S } = { arr'[DeleteAt(a)'].prog : a \in S }
    BY <1>4, <1>9
  <2> QED
    BY <1>4, <1>8, <2>1 DEF RestIs
<1> QED
  BY <1>7, <1>10, <1>11


\* One turn of deleteSeletions: the entry of the row is in what is left, and the
\* rows after it are where the count of those above puts them.
LEMMA DeleteNextRows ==
  ASSUME IInv, PageTypes, RowsSound, RestIs, DeleteNext
  PROVE  PageTypes' /\ RowsSound' /\ RestIs'
<1> DEFINE a == Head(sel)
           i == DeleteAt(a)
           R == ToBeDeleted \ {a}
<1>1. /\ early \in Nat /\ today \in Nat /\ today + early = Len(arr)
      /\ arr \in Seq(Entry) /\ NoneTwice(arr)
  BY DEF IInv, CopiesSound, Sound, PartsCover
<1>2. sel # << >> /\ tab = "History" /\ tab' = tab /\ rest' = rest
  BY DEF DeleteNext, RowsSound, Free, userVars
<1>3. /\ sel' = Tail(sel) /\ sel' \in Seq(Address) /\ IsInjective(sel')
      /\ a \in ToBeDeleted /\ a \in Address /\ ToBeDeleted' = R
  BY <1>2, TailFacts DEF DeleteNext, PageTypes, RowsSound, ToBeDeleted
<1> HIDE DEF a
<1>4. i \in Part(a) /\ i \in 1..Len(arr)
  BY <1>3, RowFacts DEF RowsSound
<1> HIDE DEF i
<1>5. /\ arr' = RemoveAt(arr, i) /\ CountOut(a)
      /\ gone' = IF sel' = << >> THEN {} ELSE gone \cup {a}
  <2>1. ~ (a.section # 0 /\ early = 0)
    BY <1>1, <1>4 DEF Part
  <2> QED
    BY <2>1 DEF DeleteNext, a, i
<1>6. /\ arr' \in Seq(Entry) /\ Len(arr') = Len(arr) - 1
      /\ \A k \in 1..(Len(arr) - 1) : arr'[k] = arr[IF k < i THEN k ELSE k + 1]
  BY <1>1, <1>4, <1>5, RemoveAtFacts
<1>7. arr = << >> \/ Len(arr) >= 1
  BY <1>1
<1>8. CASE sel' = << >>
  <2>1. R = {}
    <3>1. ToBeDeleted' = {}
      BY <1>8 DEF ToBeDeleted, ToSet
    <3> QED
      BY <1>3, <3>1
  <2>2. { arr[DeleteAt(b)].prog : b \in ToBeDeleted } = {} \cup {arr[i].prog}
    <3>1. ToBeDeleted = {a}
      BY <1>3, <2>1
    <3> QED
      BY <3>1 DEF i
  <2>3. rest = Without(arr, {} \cup {arr[i].prog})
    BY <2>2 DEF RestIs
  <2>4. rest = Without(RemoveAt(arr, i), {})
    BY <1>1, <1>4, <2>3, WithoutOneMore
  <2>5. rest' = arr'
    BY <1>2, <1>5, <1>6, <2>4, WithoutNone
  <2> QED
    BY <1>5, <1>6, <1>8, <2>5, NoRowLeft
<1>9. CASE sel' # << >>
  <2>1. gone' = gone \cup {a} /\ a \notin gone /\ IsFiniteSet(gone)
    BY <1>3, <1>5, <1>9 DEF RowsSound
  <2>2. ASSUME NEW b \in R
        PROVE  /\ DeleteAt(b)' = IF DeleteAt(b) > i THEN DeleteAt(b) - 1 ELSE DeleteAt(b)
               /\ DeleteAt(b)' \in Part(b)'
               /\ DeleteAt(b) # i /\ DeleteAt(b) \in Part(b)
    <3>1. /\ b \in ToBeDeleted /\ b # a /\ b \in Address /\ b.section \in {0, 1}
          /\ b.row \in Nat /\ Above(b) \in Nat /\ DeleteAt(b) \in 1..Len(arr)
          /\ a.section \in {0, 1} /\ a.row \in Nat /\ Above(a) \in Nat
      BY <1>3, RowFacts
    <3>2. DeleteAt(b) \in Part(b)
      BY <3>1 DEF RowsSound
    <3> DEFINE G == { g \in gone : g.section = b.section /\ g.row < b.row }
               H == { g \in gone' : g.section = b.section /\ g.row < b.row }
    <3>3. Above(b)' = Above(b) + (IF a.section = b.section /\ a.row < b.row THEN 1 ELSE 0)
      <4>1. Above(b) = Cardinality(G) /\ Above(b)' = Cardinality(H)
        BY DEF Above
      <4>2. H = IF a.section = b.section /\ a.row < b.row THEN G \cup {a} ELSE G
        BY <2>1
      <4>3. G \in SUBSET gone
        OBVIOUS
      <4>4. IsFiniteSet(G) /\ a \notin G
        BY <2>1, <4>3, FS_Subset
      <4>5. CASE a.section = b.section /\ a.row < b.row
        <5>1. Cardinality(G \cup {a}) = Cardinality(G) + 1
          BY <4>4, FS_AddElement
        <5> HIDE DEF G, H
        <5> QED
          BY <4>1, <4>2, <4>5, <5>1
      <4>6. CASE ~ (a.section = b.section /\ a.row < b.row)
        <5> HIDE DEF G, H
        <5>1. Above(b)' = Above(b) /\ Above(b) + 0 = Above(b)
          BY <3>1, <4>1, <4>2, <4>6
        <5> QED
          BY <4>6, <5>1
      <4> QED
        BY <4>5, <4>6
    <3>4. a.section = b.section => a.row # b.row
      <4>1. a = [section |-> a.section, row |-> a.row] /\ b = [section |-> b.section, row |-> b.row]
        BY <1>3, <3>1 DEF Address
      <4> QED
        BY <3>1, <4>1
    <3>5. /\ a.section = b.section /\ a.row < b.row => DeleteAt(b) < i
          /\ a.section = b.section /\ b.row < a.row => i < DeleteAt(b)
      BY <1>3, <3>1 DEF RowsSound, i
    <3>6. ASSUME a.section = b.section, NEW N \in Nat, NEW M, M = N - 1,
                 DeleteAt(b) = N - (b.row - Above(b)),
                 DeleteAt(b)' = M - (b.row - Above(b)')
          PROVE  DeleteAt(b)' = IF DeleteAt(b) > i THEN DeleteAt(b) - 1 ELSE DeleteAt(b)
      <4>1. CASE a.row < b.row
        <5>1. DeleteAt(b)' = DeleteAt(b)
          <6>1. Above(b)' = Above(b) + 1
            BY <3>3, <3>6, <4>1
          <6>2. b.row \in Nat /\ Above(b) \in Nat /\ N \in Nat
            BY <3>1
          <6> QED
            BY <3>6, <6>1, <6>2
        <5>2. DeleteAt(b) < i
          BY <3>5, <3>6, <4>1
        <5> QED
          BY <1>4, <3>1, <5>1, <5>2
      <4>2. CASE b.row < a.row
        <5>1. Above(b)' = Above(b)
          BY <3>1, <3>3, <4>2
        <5>2. DeleteAt(b)' = DeleteAt(b) - 1
          <6>1. b.row \in Nat /\ Above(b) \in Nat /\ N \in Nat
            BY <3>1
          <6> QED
            BY <3>6, <5>1, <6>1
        <5>3. i < DeleteAt(b)
          BY <3>5, <3>6, <4>2
        <5> QED
          BY <1>4, <3>1, <5>2, <5>3
      <4> QED
        BY <3>1, <3>4, <3>6, <4>1, <4>2
    <3>7. CASE a.section = 0 /\ today > 0
      <4>1. today' = today - 1 /\ early' = early /\ Part(a) = (early + 1)..Len(arr)
        BY <1>5, <3>7 DEF CountOut, Part
      <4>2. CASE b.section = 0
        <5>1. DeleteAt(b) = Len(arr) - (b.row - Above(b))
              /\ DeleteAt(b)' = Len(arr') - (b.row - Above(b)')
          BY <4>2 DEF DeleteAt
        <5>2. Part(b) = (early + 1)..Len(arr)
          BY <3>7, <4>2 DEF Part
        <5>3. DeleteAt(b)' = IF DeleteAt(b) > i THEN DeleteAt(b) - 1 ELSE DeleteAt(b)
          <6>1. Len(arr) \in Nat /\ a.section = b.section
            BY <1>1, <3>7, <4>2
          <6> QED
            BY <1>6, <3>6, <5>1, <6>1
        <5>4. DeleteAt(b) < i \/ i < DeleteAt(b)
          BY <3>1, <3>4, <3>5, <3>7, <4>2
        <5>5. DeleteAt(b) \in (early + 1)..Len(arr) /\ i \in (early + 1)..Len(arr)
          BY <1>4, <3>2, <4>1, <5>2
        <5>6. DeleteAt(b)' \in (early + 1)..Len(arr') /\ DeleteAt(b) # i
          BY <1>1, <1>6, <5>3, <5>4, <5>5
        <5>7. today' > 0
          BY <1>1, <1>6, <4>1, <5>6
        <5>8. Part(b)' = (early + 1)..Len(arr')
          BY <4>1, <4>2, <5>7 DEF Part
        <5> QED
          BY <3>2, <5>3, <5>6, <5>8
      <4>3. CASE b.section = 1
        <5>1. DeleteAt(b) = early - (b.row - Above(b))
              /\ DeleteAt(b)' = early' - (b.row - Above(b)')
          BY <4>3 DEF DeleteAt
        <5>2. DeleteAt(b)' = DeleteAt(b)
          BY <3>1, <3>3, <3>7, <4>1, <4>3, <5>1
        <5>3. Part(b) = 1..early /\ Part(b)' = 1..early
          BY <4>1, <4>3 DEF Part
        <5> QED
          BY <1>1, <1>4, <3>1, <3>2, <4>1, <5>2, <5>3
      <4> QED
        BY <3>1, <4>2, <4>3
    <3>8. CASE ~ (a.section = 0 /\ today > 0)
      <4>1. early' = early - 1 /\ today' = today /\ Part(a) = 1..early
        BY <1>5, <3>8 DEF CountOut, Part
      <4>2. CASE b.section = 0 /\ today > 0
        <5>1. DeleteAt(b) = Len(arr) - (b.row - Above(b))
              /\ DeleteAt(b)' = Len(arr') - (b.row - Above(b)')
          BY <4>2 DEF DeleteAt
        <5>2. Part(b) = (early + 1)..Len(arr) /\ Part(b)' = (early' + 1)..Len(arr')
          BY <4>1, <4>2 DEF Part
        <5>3. Above(b)' = Above(b)
          BY <3>1, <3>3, <3>8, <4>2
        <5>4. DeleteAt(b)' = DeleteAt(b) - 1
          <6>1. b.row \in Nat /\ Above(b) \in Nat /\ Len(arr) \in Nat
            BY <1>1, <3>1
          <6> QED
            BY <1>6, <5>1, <5>3, <6>1
        <5>5. DeleteAt(b) \in (early + 1)..Len(arr) /\ i \in 1..early
          BY <1>4, <3>2, <4>1, <5>2
        <5>6. i < DeleteAt(b)
          BY <1>1, <5>5
        <5>7. DeleteAt(b)' \in (early' + 1)..Len(arr')
          BY <1>1, <1>6, <4>1, <5>4, <5>5
        <5> QED
          BY <1>1, <3>2, <5>2, <5>4, <5>5, <5>6, <5>7
      <4>3. CASE ~ (b.section = 0 /\ today > 0)
        <5>1. a.section = b.section
          <6>1. today = 0 => a.section = b.section
            BY <1>3, <3>1 DEF RowsSound
          <6> QED
            BY <1>1, <3>1, <3>8, <4>3, <6>1
        <5>2. Part(b) = 1..early /\ Part(b)' = 1..early'
          BY <4>1, <4>3 DEF Part
        <5>3. DeleteAt(b) \in 1..early /\ i \in 1..early
              /\ (DeleteAt(b) < i \/ i < DeleteAt(b))
          BY <1>4, <3>1, <3>2, <3>4, <3>5, <4>1, <5>1, <5>2
        <5>4. ASSUME DeleteAt(b)' = IF DeleteAt(b) > i THEN DeleteAt(b) - 1 ELSE DeleteAt(b)
              PROVE  /\ DeleteAt(b)' \in Part(b)'
                     /\ DeleteAt(b) # i /\ DeleteAt(b) \in Part(b)
          BY <1>1, <4>1, <5>2, <5>3, <5>4
        <5>5. CASE b.section = 1
          <6>1. DeleteAt(b) = early - (b.row - Above(b))
                /\ DeleteAt(b)' = early' - (b.row - Above(b)')
            BY <5>5 DEF DeleteAt
          <6>2. DeleteAt(b)' = IF DeleteAt(b) > i THEN DeleteAt(b) - 1 ELSE DeleteAt(b)
            BY <1>1, <3>6, <4>1, <5>1, <6>1
          <6> QED
            BY <5>4, <6>2
        <5>6. CASE b.section = 0
          <6>0. today = 0 /\ early = Len(arr) /\ early' = Len(arr')
            BY <1>1, <1>6, <4>1, <4>3, <5>6
          <6>1. DeleteAt(b) = early - (b.row - Above(b))
                /\ DeleteAt(b)' = early' - (b.row - Above(b)')
            BY <5>6, <6>0 DEF DeleteAt
          <6>2. DeleteAt(b)' = IF DeleteAt(b) > i THEN DeleteAt(b) - 1 ELSE DeleteAt(b)
            BY <1>1, <3>6, <4>1, <5>1, <6>1
          <6> QED
            BY <5>4, <6>2
        <5> QED
          BY <3>1, <5>5, <5>6
      <4> QED
        BY <4>2, <4>3
    <3> QED
      BY <3>7, <3>8
  <2>3. PageTypes'
    BY <1>2, <1>3, <2>1 DEF PageTypes
  <2>4. RowsSound'
    <3>1. IsFiniteSet(gone') /\ ToBeDeleted' \cap gone' = {}
      <4>1. IsFiniteSet(gone')
        BY <2>1, FS_AddElement
      <4>2. R \cap (gone \cup {a}) = {}
        BY DEF RowsSound
      <4> QED
        BY <1>3, <2>1, <4>1, <4>2
    <3>2. \A b \in R : DeleteAt(b)' \in Part(b)'
      BY <2>2
    <3>3. ASSUME NEW b \in R, NEW c \in R, b.section = c.section, b.row < c.row
          PROVE  DeleteAt(c)' < DeleteAt(b)'
      <4>1. DeleteAt(c) < DeleteAt(b)
        BY <3>3 DEF RowsSound
      <4>2. DeleteAt(b) \in 1..Len(arr) /\ DeleteAt(c) \in 1..Len(arr)
        BY RowFacts
      <4>3. /\ DeleteAt(b)' = IF DeleteAt(b) > i THEN DeleteAt(b) - 1 ELSE DeleteAt(b)
            /\ DeleteAt(c)' = IF DeleteAt(c) > i THEN DeleteAt(c) - 1 ELSE DeleteAt(c)
            /\ DeleteAt(b) # i /\ DeleteAt(c) # i
        BY <2>2
      <4> QED
        BY <1>1, <1>4, <4>1, <4>2, <4>3
    <3>4. ASSUME today' = 0, NEW b \in R, NEW c \in R
          PROVE  b.section = c.section
      <4>1. CASE today = 0
        BY <4>1 DEF RowsSound
      <4>2. CASE today > 0
        <5>1. early' = early
          BY <1>1, <1>5, <3>4, <4>2 DEF CountOut
        <5>2. \A d \in R : d.section = 1
          <6> SUFFICES ASSUME NEW d \in R, d.section # 1
                       PROVE  FALSE
            OBVIOUS
          <6>1. d.section = 0 /\ DeleteAt(d) \in 1..Len(arr)
            BY RowFacts
          <6>2. DeleteAt(d) \in (early + 1)..Len(arr)
            BY <2>2, <4>2, <6>1 DEF Part
          <6>3. a.section = 0 /\ today = 1 /\ Len(arr) = early + 1 /\ i = Len(arr)
            <7>1. a.section = 0 /\ today' = today - 1
              BY <1>1, <1>5, <3>4, <4>2 DEF CountOut
            <7>2. i \in (early + 1)..Len(arr)
              BY <1>4, <4>2, <7>1 DEF Part
            <7> QED
              BY <1>1, <3>4, <7>1, <7>2
          <6> QED
            BY <1>1, <2>2, <6>1, <6>2, <6>3
        <5> QED
          BY <5>2
      <4> QED
        BY <1>1, <4>1, <4>2
    <3>5. ~ Free' /\ tab' = "History"
      BY <1>2, <1>9 DEF Free
    <3> QED
      BY <1>3, <3>1, <3>2, <3>3, <3>4, <3>5 DEF RowsSound
  <2>5. RestIs'
    <3> DEFINE P == { arr[DeleteAt(b)].prog : b \in R }
    <3>1. ASSUME NEW b \in R
          PROVE  arr'[DeleteAt(b)'] = arr[DeleteAt(b)]
      <4>1. DeleteAt(b) \in 1..Len(arr)
        BY RowFacts
      <4>2. /\ DeleteAt(b)' = IF DeleteAt(b) > i THEN DeleteAt(b) - 1 ELSE DeleteAt(b)
            /\ DeleteAt(b) # i
        BY <2>2
      <4>3. DeleteAt(b)' \in 1..(Len(arr) - 1)
            /\ (IF DeleteAt(b)' < i THEN DeleteAt(b)' ELSE DeleteAt(b)' + 1) = DeleteAt(b)
        BY <1>1, <1>4, <4>1, <4>2
      <4> QED
        BY <1>6, <4>3
    <3>2. { arr'[DeleteAt(b)'].prog : b \in R } = P
      BY <3>1
    <3>3. { arr[DeleteAt(b)].prog : b \in ToBeDeleted } = P \cup {arr[i].prog}
      BY <1>3 DEF i
    <3> HIDE DEF P
    <3>4. rest = Without(arr, P \cup {arr[i].prog})
      BY <3>3 DEF RestIs
    <3>5. rest = Without(RemoveAt(arr, i), P)
      BY <1>1, <1>4, <3>4, WithoutOneMore
    <3>6. rest' = Without(arr', P)
      BY <1>2, <1>5, <3>5
    <3> QED
      BY <1>3, <3>2, <3>6 DEF RestIs
  <2> QED
    BY <2>3, <2>4, <2>5
<1> QED
  BY <1>8, <1>9


\* What the user does elsewhere, without playing anything.
LEMMA OthersStay ==
  ASSUME OtherTypes, CopiesExplained, UNCHANGED <<blockVars, last, plays>>,
         tab' \in {"TV", "Me", "History"}, flag' \in BOOLEAN, jumps' \in Nat
  PROVE  OtherTypes' /\ CopiesExplained'
BY DEF OtherTypes, CopiesExplained, blockVars

\* What is played is a programme, and a block that is given it has no copy yet.
LEMMA OthersPlay ==
  ASSUME IInv, OtherTypes, CopiesExplained,
         Touch \/ AcceptPush \/ Jump \/ \E a \in Shown : TouchToSee(a),
         tab' \in {"TV", "Me", "History"}, flag' \in BOOLEAN, jumps' \in Nat
  PROVE  OtherTypes' /\ CopiesExplained'
<1>1. CASE UNCHANGED <<seed, store, blockVars, last, plays>>
  BY <1>1, OthersStay
<1>2. ASSUME NEW B, NEW t \in Tasks, NEW s \in {"asked", "queued"}, Play(B, t, s)
      PROVE  OtherTypes' /\ CopiesExplained'
  <2>1. base' = base /\ copy' = copy /\ plays' = plays + 1
        /\ step' = [b \in Blocks |-> IF b \in B THEN s ELSE step[b]]
    BY <1>2 DEF Play
  <2>2. last' \in Programmes
    <3>1. t.row \in DOMAIN t.list => t.list[t.row] \in Programmes
      BY ListFacts DEF Tasks
    <3> QED
      BY <1>2, <3>1 DEF Play, OtherTypes
  <2>3. OtherTypes'
    BY <2>1, <2>2 DEF OtherTypes
  <2>4. \A b \in Blocks : step'[b] \in {"read", "stored"} => step[b] \in {"read", "stored"}
    BY <2>1
  <2>5. CopiesExplained'
    BY <2>1, <2>4 DEF CopiesExplained
  <2> QED
    BY <2>3, <2>5
<1> QED
  BY <1>1, <1>2, PlaysKnown

\* The page is not open at the start.
LEMMA InitPage == Init => PInv
<1> SUFFICES ASSUME Init PROVE PInv
  OBVIOUS
<1>1. ToBeDeleted = {}
  BY DEF Init, ToBeDeleted, ToSet
<1>2. << >> \in Seq(Entry) /\ << >> \in Seq(Address)
  BY EmptySeq
<1>3. PageTypes
  BY <1>2 DEF Init, PageTypes
<1>4. OtherTypes
  <2>1. All[1] \in Programmes
    BY ListFacts, HistoryAssumption DEF HistoryAssumption
  <2> QED
    BY <1>2, <2>1 DEF Init, OtherTypes
<1>5. RowsSound
  <2>1. IsFiniteSet(gone) /\ IsInjective(sel)
    <3>1. DOMAIN sel = {}
      BY DEF Init
    <3> QED
      BY <3>1, FS_EmptySet DEF Init, IsInjective
  <2> QED
    BY <1>1, <2>1 DEF Init, RowsSound, Free
<1>6. RestIs
  <2>1. { arr[DeleteAt(a)].prog : a \in ToBeDeleted } = {}
    BY <1>1
  <2> QED
    BY <1>2, <2>1, WithoutNone DEF Init, RestIs
<1>7. CopiesExplained
  BY DEF Init, CopiesExplained
<1> QED
  BY <1>3, <1>4, <1>5, <1>6, <1>7 DEF PInv

\* Blocks leave the page alone, and a copy is made from what was read.
LEMMA BlockKeepsPage ==
  ASSUME IInv, PInv, NEW b \in Blocks, Block(b)
  PROVE  PInv'
<1> USE DEF PInv
<1>1. UNCHANGED <<pageVars, userVars>>
  BY DEF Block, Fetch, ReadSeed, StoreLast, WriteSeed
<1>2. PageTypes' /\ RowsSound' /\ RestIs'
  BY <1>1, RowsStay DEF userVars
<1>3. OtherTypes' /\ CopiesExplained'
  <2>1. CASE Fetch(b) \/ StoreLast(b)
    <3>1. UNCHANGED <<copy, base>>
          /\ \A c \in Blocks : step'[c] \in {"read", "stored"} => step[c] \in {"read", "stored"}
      BY <2>1 DEF Fetch, StoreLast, IInv, TasksKnown
    <3> QED
      BY <1>1, <3>1 DEF OtherTypes, CopiesExplained, userVars
  <2>2. CASE ReadSeed(b)
    <3>1. /\ base' = [base EXCEPT ![b] = seed]
          /\ copy' = [copy EXCEPT ![b] = Watched(seed, task[b])]
          /\ step' = [step EXCEPT ![b] = "read"] /\ step[b] = "queued"
      BY <2>2 DEF ReadSeed
    <3>2. seed \in Seq(Entry) /\ task[b] \in Tasks
          /\ base \in [Blocks -> Seq(Entry)] /\ copy \in [Blocks -> Seq(Entry)]
          /\ step \in [Blocks -> {"idle", "asked", "queued", "read", "stored"}]
      BY <3>1 DEF IInv, CopiesSound, Sound, TasksKnown, OtherTypes
    <3>3. OtherTypes'
      BY <1>1, <3>1, <3>2 DEF OtherTypes, userVars
    <3>4. ASSUME NEW c \in Blocks, step'[c] \in {"read", "stored"}
          PROVE  \E t \in Tasks : copy'[c] = Watched(base'[c], t)
      <4>1. CASE c = b
        <5>1. copy'[c] = Watched(seed, task[b]) /\ base'[c] = seed
          BY <3>1, <3>2, <4>1
        <5> QED
          BY <3>2, <5>1
      <4>2. CASE c # b
        <5>1. copy'[c] = copy[c] /\ base'[c] = base[c] /\ step[c] \in {"read", "stored"}
          BY <3>1, <3>2, <3>4, <4>2
        <5> QED
          BY <5>1 DEF CopiesExplained
      <4> QED
        BY <4>1, <4>2
    <3>5. CopiesExplained'
      BY <3>4 DEF CopiesExplained
    <3> QED
      BY <3>3, <3>5
  <2>3. CASE WriteSeed(b)
    <3>1. /\ base' = [base EXCEPT ![b] = << >>] /\ copy' = [copy EXCEPT ![b] = << >>]
          /\ step' = [step EXCEPT ![b] = "idle"]
      BY <2>3 DEF WriteSeed
    <3>2. << >> \in Seq(Entry) /\ base \in [Blocks -> Seq(Entry)]
          /\ copy \in [Blocks -> Seq(Entry)]
          /\ step \in [Blocks -> {"idle", "asked", "queued", "read", "stored"}]
      BY EmptySeq DEF IInv, CopiesSound, TasksKnown, OtherTypes
    <3>3. OtherTypes'
      BY <1>1, <3>1, <3>2 DEF OtherTypes, userVars
    <3>4. ASSUME NEW c \in Blocks, step'[c] \in {"read", "stored"}
          PROVE  copy'[c] = copy[c] /\ base'[c] = base[c] /\ step[c] \in {"read", "stored"}
      BY <3>1, <3>2, <3>4
    <3>5. CopiesExplained'
      BY <3>4 DEF CopiesExplained
    <3> QED
      BY <3>3, <3>5
  <2> QED
    BY <2>1, <2>2, <2>3 DEF Block
<1> QED
  BY <1>2, <1>3

\* The TV page can be used only while nothing is being deleted.
LEMMA TVPageKeepsPage ==
  ASSUME IInv, PInv,
         \/ SelectCategory \/ Touch \/ PushNotice \/ Decline \/ AcceptPush
         \/ GoTV \/ Jump \/ GoMe
  PROVE  PInv'
<1> USE DEF PInv
<1>1. UNCHANGED pageVars /\ Free
  BY DEF SelectCategory, Touch, PushNotice, Decline, AcceptPush, GoTV, Jump, GoMe
<1>2. PageTypes' /\ RowsSound' /\ RestIs'
  BY <1>1, RowsStay
<1>3. tab' \in {"TV", "Me", "History"} /\ flag' \in BOOLEAN /\ jumps' \in Nat
  <2>1. tab \in {"TV", "Me", "History"} /\ flag \in BOOLEAN /\ jumps \in Nat
    BY DEF OtherTypes
  <2>2. CASE Jump
    BY <2>1, <2>2 DEF Jump
  <2>3. CASE GoTV
    BY <2>1, <2>3 DEF GoTV
  <2> QED
    BY <2>1, <2>2, <2>3 DEF SelectCategory, Touch, PushNotice, Decline, AcceptPush, GoMe
<1>4. CASE Touch \/ AcceptPush \/ Jump
  BY <1>2, <1>3, <1>4, OthersPlay
<1>5. CASE ~ (Touch \/ AcceptPush \/ Jump)
  <2>1. UNCHANGED <<blockVars, last, plays>>
    BY <1>5 DEF SelectCategory, PushNotice, Decline, GoTV, GoMe
  <2> QED
    BY <1>2, <1>3, <2>1, OthersStay
<1> QED
  BY <1>4, <1>5

\* A page that is freed has nothing to delete.
LEMMA PageGoneKeepsPage ==
  ASSUME PageGone
  PROVE  PageTypes' /\ RowsSound' /\ RestIs'
<1>1. << >> \in Seq(Entry)
  BY EmptySeq
<1> QED
  BY <1>1, NoRowLeft DEF PageGone

\* The actions of the page itself.
LEMMA PageKeepsPage ==
  ASSUME IInv, PInv, Page
  PROVE  PInv'
<1> USE DEF PInv
<1>0. tab \in {"TV", "Me", "History"} /\ flag \in BOOLEAN /\ jumps \in Nat
  BY DEF OtherTypes
<1>1. CASE OpenPage
  <2>1. PageTypes' /\ RowsSound' /\ RestIs'
    <3>1. sel' = << >> /\ gone' = {} /\ rest' = arr'
      BY <1>1 DEF OpenPage, RowsSound, Free
    <3>2. arr' \in Seq(Entry)
      BY <1>1 DEF OpenPage, IInv, CopiesSound, Sound
    <3> QED
      BY <3>1, <3>2, NoRowLeft
  <2>2. OtherTypes' /\ CopiesExplained'
    BY <1>0, <1>1, OthersStay DEF OpenPage
  <2> QED
    BY <2>1, <2>2
<1>2. CASE Back
  <2>1. PageTypes' /\ RowsSound' /\ RestIs'
    BY <1>2, PageGoneKeepsPage DEF Back
  <2>2. OtherTypes' /\ CopiesExplained'
    BY <1>0, <1>2, OthersStay DEF Back
  <2> QED
    BY <2>1, <2>2
<1>3. CASE DeleteNext
  <2>1. PageTypes' /\ RowsSound' /\ RestIs'
    BY <1>3, DeleteNextRows
  <2>2. OtherTypes' /\ CopiesExplained'
    BY <1>0, <1>3, OthersStay DEF DeleteNext, userVars
  <2> QED
    BY <2>1, <2>2
<1>4. ASSUME NEW a \in Shown, Swipe(a)
      PROVE  PInv'
  <2>1. sel' = << >> /\ gone' = {}
    BY <1>4 DEF Swipe, RowsSound, Free
  <2>2. PageTypes' /\ RowsSound' /\ RestIs'
    BY <1>4, <2>1, SwipeDeletes, NoRowLeft
  <2>3. OtherTypes' /\ CopiesExplained'
    BY <1>0, <1>4, OthersStay DEF Swipe, userVars
  <2> QED
    BY <2>2, <2>3
<1>5. ASSUME NEW a \in Shown, TouchToSee(a)
      PROVE  PInv'
  <2>1. PageTypes' /\ RowsSound' /\ RestIs'
    BY <1>5, PageGoneKeepsPage DEF TouchToSee
  <2>2. tab' \in {"TV", "Me", "History"} /\ flag' \in BOOLEAN /\ jumps' \in Nat
    BY <1>0, <1>5 DEF TouchToSee
  <2> QED
    BY <1>5, <2>1, <2>2, OthersPlay
<1>6. ASSUME NEW S \in SUBSET Shown, DeleteSelected(S)
      PROVE  PInv'
  <2>1. PageTypes' /\ RowsSound' /\ RestIs'
    BY <1>6, SelectedRows
  <2>2. OtherTypes' /\ CopiesExplained'
    BY <1>0, <1>6, OthersStay DEF DeleteSelected, userVars
  <2> QED
    BY <2>1, <2>2
<1> QED
  BY <1>1, <1>2, <1>3, <1>4, <1>5, <1>6 DEF Page

\* A restart frees the page with the rest.
LEMMA RestartKeepsPage ==
  ASSUME PInv, Restart
  PROVE  PInv'
<1> USE DEF PInv
<1>1. PageTypes' /\ RowsSound' /\ RestIs'
  BY PageGoneKeepsPage DEF Restart
<1>2. OtherTypes'
  <2>1. All[1] \in Programmes
    BY ListFacts, HistoryAssumption DEF HistoryAssumption
  <2>2. << >> \in Seq(Entry)
    BY EmptySeq
  <2>3. base' \in [Blocks -> Seq(Entry)]
    BY <2>2 DEF Restart
  <2>4. plays' \in Nat
    BY DEF Restart, OtherTypes
  <2>5. tab' = "TV" /\ flag' = FALSE /\ jumps' = 0 /\ last' = All[1]
    BY DEF Restart
  <2> QED
    BY <2>1, <2>3, <2>4, <2>5 DEF OtherTypes
<1>3. CopiesExplained'
  BY DEF Restart, CopiesExplained
<1> QED
  BY <1>1, <1>2, <1>3

--------------------------------------------------------------------------------
(***************************************************************************)
(* The invariant of the page holds: however deletions, blocks and restarts  *)
(* interleave, the rows still to be deleted point at what was selected.     *)
(***************************************************************************)
THEOREM PageInvariant == Spec => [](IInv /\ PInv)
<1>1. IInv /\ PInv /\ [Next]_vars => PInv'
  <2> SUFFICES ASSUME IInv, PInv, [Next]_vars PROVE PInv'
    OBVIOUS
  <2>1. CASE Next
    BY <2>1, BlockKeepsPage, TVPageKeepsPage, PageKeepsPage, RestartKeepsPage DEF Next
  <2>2. CASE UNCHANGED vars
    <3>1. UNCHANGED <<pageVars, userVars, blockVars>>
      BY <2>2 DEF vars
    <3>2. PageTypes' /\ RowsSound' /\ RestIs'
      BY <3>1, RowsStay DEF PInv, userVars
    <3>3. OtherTypes' /\ CopiesExplained'
      BY <3>1, OthersStay DEF PInv, OtherTypes, userVars
    <3> QED
      BY <3>2, <3>3 DEF PInv
  <2> QED
    BY <2>1, <2>2
<1>2. Init => PInv
  BY InitPage
<1> QED
  BY <1>1, <1>2, Invariant, PTL DEF Spec

(***************************************************************************)
(* Every variable has its type, and the two sections cover the page.        *)
(***************************************************************************)
THEOREM HistoryTypes == Spec => []TypeOK
<1>1. IInv /\ PInv => TypeOK
  BY DEF IInv, CopiesSound, Sound, TasksKnown, UserKnown, PartsCover,
         PInv, PageTypes, OtherTypes, TypeOK
<1> QED
  BY <1>1, PageInvariant, PTL

(***************************************************************************)
(* A deletion, of one row or of any selection in any order, removes the     *)
(* entries of the cells that were touched and no others, and no index of    *)
(* the loop of deleteSeletions is out of range.                             *)
(***************************************************************************)
THEOREM DeletionsAreExact == Spec => []DeletesWhatWasTouched
<1>1. IInv /\ PInv => DeletesWhatWasTouched
  <2> SUFFICES ASSUME IInv, PInv PROVE DeletesWhatWasTouched
    OBVIOUS
  <2>1. CASE Free
    <3>1. ToBeDeleted = {}
      BY <2>1 DEF Free, ToBeDeleted, ToSet
    <3>2. { arr[DeleteAt(a)].prog : a \in ToBeDeleted } = {}
      BY <3>1
    <3>3. arr \in Seq(Entry)
      BY DEF IInv, CopiesSound, Sound
    <3>4. rest = arr
      BY <3>2, <3>3, WithoutNone DEF PInv, RestIs
    <3> QED
      BY <2>1, <3>4 DEF DeletesWhatWasTouched
  <2>2. CASE ~ Free
    <3>1. Head(sel) \in ToBeDeleted
      BY <2>2, TailFacts DEF Free, PInv, PageTypes, RowsSound, ToBeDeleted
    <3>2. DeleteAt(Head(sel)) \in Part(Head(sel))
          /\ DeleteAt(Head(sel)) \in 1..Len(arr)
      BY <3>1, RowFacts DEF PInv, RowsSound
    <3>3. Head(sel).section = 1 => Part(Head(sel)) = 1..early
      BY DEF Part
    <3> QED
      BY <2>2, <3>2, <3>3 DEF DeletesWhatWasTouched
  <2> QED
    BY <2>1, <2>2
<1> QED
  BY <1>1, PageInvariant, PTL

\* Playing a programme drops the oldest of a full history at most.
LEMMA WatchedDrops ==
  ASSUME NEW s, Sound(s), NEW t \in Tasks, NEW p \in ProgsOf(s), p \notin ProgsOf(Watched(s, t))
  PROVE  Len(s) = Most /\ p = s[1].prog
<1> DEFINE e == EntryOf(t)
           n == Len(s)
<1>0. s \in Seq(Entry) /\ n \in Nat /\ DOMAIN s = 1..n /\ n <= Keep + 1 /\ Keep \in Nat
  BY HistoryAssumption DEF HistoryAssumption, Sound, Most
<1>1. t.row \in DOMAIN t.list
  BY DEF Watched
<1>2. e \in Entry
  BY <1>1, ListFacts DEF Tasks, EntryOf, Entry
<1>3. PICK k \in 1..n : s[k].prog = p
  BY <1>0 DEF ProgsOf
<1>4. ASSUME NEW r \in Seq(Entry)
      PROVE  ProgsOf(Append(r, e)) = ProgsOf(r) \cup {e.prog}
  <2>1. /\ Append(r, e) \in Seq(Entry) /\ Len(Append(r, e)) = Len(r) + 1
        /\ \A j \in 1..Len(r) : Append(r, e)[j] = r[j]
        /\ Append(r, e)[Len(r) + 1] = e
    BY <1>2, AppendProperties
  <2> DEFINE q == Append(r, e)
             m == Len(r)
  <2>2. DOMAIN q = 1..(m + 1) /\ DOMAIN r = 1..m /\ m \in Nat
    BY <2>1
  <2>3. 1..(m + 1) = (1..m) \cup {m + 1}
    BY <2>2
  <2> HIDE DEF q, m
  <2>4. ProgsOf(q) = ProgsOf(r) \cup {e.prog}
    BY <2>1, <2>2, <2>3 DEF ProgsOf, q, m
  <2> QED
    BY <2>4 DEF q
<1> HIDE DEF e, n
<1>5. CASE e.prog \in ProgsOf(s)
  <2> DEFINE i == At(s, e.prog)
             r == RemoveAt(s, i)
  <2>1. i \in 1..n /\ s[i].prog = e.prog
    <3>1. PICK j \in 1..n : s[j].prog = e.prog
      BY <1>0, <1>5 DEF ProgsOf
    <3>2. \A j2 \in 1..(j - 1) : s[j2].prog # e.prog
      BY <1>0, <3>1 DEF Sound, NoneTwice
    <3> QED
      BY <1>0, <3>1, <3>2 DEF At
  <2> HIDE DEF i
  <2>2. Watched(s, t) = Append(r, e)
    BY <1>1, <1>5 DEF Watched, e, i
  <2>3. /\ r \in Seq(Entry) /\ Len(r) = n - 1
        /\ \A j \in 1..(n - 1) : r[j] = s[IF j < i THEN j ELSE j + 1]
    BY <1>0, <2>1, RemoveAtFacts DEF n
  <2> HIDE DEF r
  <2>4. p \in ProgsOf(r) \cup {e.prog}
    <3>1. CASE k = i
      BY <1>3, <2>1, <3>1
    <3>2. CASE k # i
      <4> DEFINE j == IF k < i THEN k ELSE k - 1
      <4>1. j \in 1..(n - 1) /\ (IF j < i THEN j ELSE j + 1) = k
        BY <1>0, <2>1, <3>2
      <4>2. r[j] = s[k] /\ j \in DOMAIN r
        BY <2>3, <4>1
      <4> QED
        BY <1>3, <4>2 DEF ProgsOf
    <3> QED
      BY <3>1, <3>2
  <2> QED
    BY <1>4, <2>2, <2>3, <2>4
<1>6. CASE e.prog \notin ProgsOf(s)
  <2> DEFINE d == Dropped(n)
             r == Trimmed(s)
  <2>1. Watched(s, t) = Append(r, e)
    BY <1>1, <1>6 DEF Watched, e
  <2>2. d = IF n = Keep + 1 THEN 1 ELSE 0
    BY <1>0, DroppedIs
  <2> HIDE DEF d
  <2>3. d \in 0..n
    BY <1>0, <2>2
  <2>4. /\ r \in Seq(Entry) /\ Len(r) = n - d
        /\ \A j \in 1..(n - d) : r[j] = s[d + j]
    BY <1>0, <2>3, SuffixFacts DEF Trimmed, n, d
  <2> HIDE DEF r
  <2>5. p \notin ProgsOf(r)
    BY <1>4, <2>1, <2>4
  <2>6. ~ (k > d)
    <3> SUFFICES ASSUME k > d PROVE FALSE
      OBVIOUS
    <3>1. k - d \in 1..(n - d) /\ d + (k - d) = k
      BY <1>0, <2>3
    <3>2. r[k - d] = s[k] /\ k - d \in DOMAIN r
      BY <1>0, <2>3, <2>4, <3>1
    <3> QED
      BY <1>3, <2>5, <3>2 DEF ProgsOf
  <2>7. d = 1 /\ k = 1 /\ n = Keep + 1
    BY <1>0, <2>2, <2>6
  <2> QED
    BY <1>3, <2>7 DEF Most, n
<1> QED
  BY <1>5, <1>6

(***************************************************************************)
(* A programme leaves the history only when a block writes an outdated copy *)
(* or drops the oldest of a full history, or when the page writes a copy    *)
(* without it.                                                              *)
(***************************************************************************)
THEOREM LeavesForAReason == Spec => LeavesOnlyFor
<1>1. (IInv /\ PInv) /\ (IInv /\ PInv)' /\ [Next]_vars => [LeavesFor]_vars
  <2> SUFFICES ASSUME IInv, PInv, PInv', IInv', [Next]_vars, NEW p \in Programmes, Leaves(p)
               PROVE  \/ \E b \in Blocks : BlockWrites(b) /\ base[b] # seed
                      \/ \E b \in Blocks :
                           BlockWrites(b) /\ Len(seed) = Most /\ p = seed[1].prog
                      \/ tab = "History" /\ p \notin ProgsOf(rest')
    BY DEF LeavesFor
  <2>1. p \in ProgsOf(seed) /\ p \notin ProgsOf(seed') /\ seed' # seed
    BY DEF Leaves
  <2>2. ASSUME NEW b \in Blocks, WriteSeed(b)
        PROVE  BlockWrites(b) /\ (base[b] # seed \/ (Len(seed) = Most /\ p = seed[1].prog))
    <3>1. step[b] = "stored" /\ seed' = copy[b] /\ step'[b] = "idle"
      BY <2>2 DEF WriteSeed, IInv, TasksKnown
    <3>2. PICK t \in Tasks : copy[b] = Watched(base[b], t)
      BY <3>1 DEF PInv, CopiesExplained
    <3>3. base[b] = seed => Len(seed) = Most /\ p = seed[1].prog
      BY <2>1, <3>1, <3>2, WatchedDrops DEF IInv, CopiesSound
    <3> QED
      BY <3>1, <3>3 DEF BlockWrites
  <2>3. ASSUME NEW a \in Shown, Swipe(a)
        PROVE  tab = "History" /\ p \notin ProgsOf(rest')
    BY <2>1, <2>3, SwipeDeletes DEF Swipe
  <2>4. CASE DeleteNext
    <3>1. sel' = << >> /\ seed' = arr'
      BY <2>1, <2>4 DEF DeleteNext
    <3>2. tab = "History"
      BY <2>4 DEF DeleteNext, PInv, RowsSound
    <3>3. rest' = arr'
      <4>1. ToBeDeleted' = {}
        BY <3>1 DEF ToBeDeleted, ToSet
      <4>2. { arr[DeleteAt(a)].prog : a \in ToBeDeleted }' = {}
        BY <4>1
      <4>3. arr' \in Seq(Entry)
        BY DEF IInv, CopiesSound, Sound
      <4> QED
        BY <4>2, <4>3, WithoutNone DEF PInv, RestIs
    <3> QED
      BY <2>1, <3>1, <3>2, <3>3
  <2>5. \/ \E b \in Blocks : WriteSeed(b)
        \/ \E a \in Shown : Swipe(a)
        \/ DeleteNext
    <3>1. Next
      BY <2>1 DEF vars
    <3>2. CASE Restart
      BY <2>1, <3>2 DEF Restart
    <3>3. CASE Touch \/ AcceptPush \/ Jump \/ \E a \in Shown : TouchToSee(a)
      BY <2>1, <3>3, PlaysKeep
    <3>4. CASE SelectCategory \/ PushNotice \/ Decline \/ GoTV \/ GoMe
      BY <2>1, <3>4 DEF SelectCategory, PushNotice, Decline, GoTV, GoMe
    <3>5. CASE OpenPage \/ Back \/ \E S \in SUBSET Shown : DeleteSelected(S)
      BY <2>1, <3>5 DEF OpenPage, Back, DeleteSelected
    <3>6. ASSUME NEW b \in Blocks, Block(b)
          PROVE  WriteSeed(b)
      BY <2>1, <3>6 DEF Block, Fetch, ReadSeed, StoreLast
    <3> QED
      BY <3>1, <3>2, <3>3, <3>4, <3>5, <3>6 DEF Next, Page
  <2> QED
    BY <2>2, <2>3, <2>4, <2>5
<1> QED
  BY <1>1, PageInvariant, PTL DEF Spec, LeavesOnlyFor

================================================================================
