---------------------------- MODULE PlayFlowProofs ----------------------------
(***************************************************************************)
(* For any number of channels, touches, drops and notices: a page which is *)
(* left plays nothing, what plays in the end is the channel touched last,  *)
(* and the notice never stays over a picture.                              *)
(*                                                                         *)
(* AwayIsQuiet is inductive with TypeOK: a timer that outlives the page    *)
(* always has a "shut" block behind it, since only that block leaves the   *)
(* queue without one, and it stops the timer.  The other two follow what   *)
(* is on its way through the queue: OnTheWay and LabelGoes below.          *)
(***************************************************************************)
EXTENDS PlayFlow, SequenceTheorems, TLAPS

QueueType == Seq([do : Kinds, of : Channels \cup {None}])

\* A block of that name is in the queue.
Has(d, q) == \E i \in 1..Len(q) : q[i].do = d

\* A block named for what it does has the type of the queue's elements.
LEMMA BlockType ==
  ASSUME NEW do \in Kinds PROVE Block(do) \in [do : Kinds, of : Channels \cup {None}]
  BY DEF Block

\* Posting blocks, or running the first, keeps the type of the queue.
LEMMA PostType ==
  ASSUME queue \in QueueType, NEW b \in QueueType, Post(b) PROVE queue' \in QueueType
  BY DEF QueueType, Post

LEMMA ThenType ==
  ASSUME queue \in QueueType, queue # << >>, NEW b \in QueueType, Then(b)
  PROVE  queue' \in QueueType
<1>1. Tail(queue) \in QueueType BY DEF QueueType
<1>q. QED BY <1>1 DEF QueueType, Then

\* The lists of blocks that the actions post.
LEMMA PostedTypes ==
  /\ << >> \in QueueType
  /\ \A d \in Kinds : <<Block(d)>> \in QueueType
  /\ \A d, e \in Kinds : <<Block(d), Block(e)>> \in QueueType
  /\ \A c \in Channels \cup {None}, d \in Kinds : <<[do |-> d, of |-> c]>> \in QueueType
  BY BlockType DEF QueueType

\* Posting blocks adds their names to those in the queue.
LEMMA PostHas ==
  ASSUME queue \in QueueType, NEW b \in QueueType, Post(b), NEW d
  PROVE  Has(d, queue') <=> Has(d, queue) \/ Has(d, b)
<1>1. /\ Len(queue') = Len(queue) + Len(b) /\ Len(b) \in Nat /\ Len(queue) \in Nat
      /\ \A i \in 1..Len(queue) : queue'[i] = queue[i]
      /\ \A i \in 1..Len(b) : queue'[Len(queue) + i] = b[i]
  BY DEF Post, QueueType
<1>2. ASSUME NEW i \in 1..Len(queue'), queue'[i].do = d
      PROVE  Has(d, queue) \/ Has(d, b)
  <2>1. CASE i \in 1..Len(queue)  BY <1>1, <1>2, <2>1 DEF Has
  <2>2. CASE i \notin 1..Len(queue)
    <3>1. PICK k \in 1..Len(b) : i = Len(queue) + k
      <4>1. i - Len(queue) \in 1..Len(b) /\ i = Len(queue) + (i - Len(queue))
        BY <1>1, <2>2
      <4> QED  BY <4>1
    <3> QED  BY <1>1, <1>2, <3>1 DEF Has
  <2> QED  BY <2>1, <2>2
<1>3. ASSUME NEW i \in 1..Len(queue), queue[i].do = d PROVE Has(d, queue')
  BY <1>1, <1>3 DEF Has
<1>4. ASSUME NEW i \in 1..Len(b), b[i].do = d PROVE Has(d, queue')
  <2>1. Len(queue) + i \in 1..Len(queue')  BY <1>1
  <2> QED  BY <1>1, <1>4, <2>1 DEF Has
<1> QED  BY <1>2, <1>3, <1>4 DEF Has

\* Running the first block puts those it leaves behind the others.
LEMMA ThenFacts ==
  ASSUME queue \in QueueType, queue # << >>, NEW b \in QueueType, Then(b)
  PROVE  /\ Len(queue) \in Nat \ {0} /\ Len(b) \in Nat
         /\ Len(queue') = Len(queue) - 1 + Len(b)
         /\ \A i \in 1..(Len(queue) - 1) : queue'[i] = queue[i + 1]
         /\ \A i \in 1..Len(b) : queue'[Len(queue) - 1 + i] = b[i]
<1> DEFINE E == [do : Kinds, of : Channels \cup {None}]
           t == Tail(queue)
<1>1. queue \in Seq(E) /\ b \in Seq(E)  BY DEF QueueType
<1> HIDE DEF E
<1>2. /\ t \in Seq(E) /\ Len(t) = Len(queue) - 1 /\ Len(queue) \in Nat \ {0}
      /\ Len(b) \in Nat /\ \A i \in 1..(Len(queue) - 1) : t[i] = queue[i + 1]
  BY <1>1
<1>3. queue' = t \o b  BY DEF Then
<1> HIDE DEF t
<1>4. Len(queue') = Len(t) + Len(b)
  <2>1. t \in Seq(E) /\ b \in Seq(E)  BY <1>1, <1>2
  <2> QED  BY <1>3, <2>1
<1>5. \A i \in 1..Len(t) : queue'[i] = t[i]  BY <1>1, <1>2, <1>3
<1>6. \A i \in 1..Len(b) : queue'[Len(t) + i] = b[i]  BY <1>1, <1>2, <1>3
<1> QED  BY <1>2, <1>4, <1>5, <1>6

LEMMA ThenHas ==
  ASSUME queue \in QueueType, queue # << >>, NEW b \in QueueType, Then(b), NEW d
  PROVE  /\ Has(d, queue') => Has(d, queue) \/ Has(d, b)
         /\ Has(d, queue) /\ queue[1].do # d => Has(d, queue')
         /\ Has(d, b) => Has(d, queue')
<1> DEFINE n == Len(queue) - 1
<1>1. /\ n \in Nat /\ Len(b) \in Nat /\ Len(queue') = n + Len(b) /\ Len(queue) = n + 1
      /\ \A i \in 1..n : queue'[i] = queue[i + 1]
      /\ \A i \in 1..Len(b) : queue'[n + i] = b[i]
  BY ThenFacts
<1> HIDE DEF n
<1>2. ASSUME NEW i \in 1..Len(queue'), queue'[i].do = d
      PROVE  Has(d, queue) \/ Has(d, b)
  <2>1. CASE i \in 1..n
    <3>1. i + 1 \in 1..Len(queue) /\ queue[i + 1].do = d  BY <1>1, <1>2, <2>1
    <3> QED  BY <3>1 DEF Has
  <2>2. CASE i \notin 1..n
    <3>1. i - n \in 1..Len(b) /\ i = n + (i - n)  BY <1>1, <2>2
    <3>2. b[i - n].do = d  BY <1>1, <1>2, <3>1
    <3> QED  BY <3>1, <3>2 DEF Has
  <2> QED  BY <2>1, <2>2
<1>3. ASSUME NEW i \in 1..Len(queue), queue[i].do = d, queue[1].do # d
      PROVE  Has(d, queue')
  <2>1. i # 1  BY <1>3
  <2>2. i - 1 \in 1..n /\ (i - 1) + 1 = i /\ i - 1 \in 1..Len(queue')  BY <1>1, <2>1
  <2>3. queue'[i - 1].do = d  BY <1>1, <1>3, <2>2
  <2> QED  BY <2>2, <2>3 DEF Has
<1>4. ASSUME NEW i \in 1..Len(b), b[i].do = d PROVE Has(d, queue')
  <2>1. n + i \in 1..Len(queue')  BY <1>1
  <2> QED  BY <1>1, <1>4, <2>1 DEF Has
<1> QED  BY <1>2, <1>3, <1>4 DEF Has

\* The names in the lists of blocks that the actions post.
LEMMA PostedHas ==
  /\ \A d : ~Has(d, << >>)
  /\ \A c, d, e : Has(d, <<[do |-> e, of |-> c]>>) <=> d = e
  /\ \A d, e : Has(d, <<Block(e)>>) <=> d = e
  /\ \A d, e, f : Has(d, <<Block(e), Block(f)>>) <=> d \in {e, f}
  /\ \A d, e, f, g : Has(d, <<Block(e), Block(f), Block(g)>>) <=> d \in {e, f, g}
<1>1. ASSUME NEW d PROVE ~Has(d, << >>)  BY DEF Has
<1>2. ASSUME NEW c, NEW d, NEW e PROVE Has(d, <<[do |-> e, of |-> c]>>) <=> d = e
  BY DEF Has
<1>3. ASSUME NEW d, NEW e PROVE Has(d, <<Block(e)>>) <=> d = e
  BY DEF Has, Block
<1>4. ASSUME NEW d, NEW e, NEW f PROVE Has(d, <<Block(e), Block(f)>>) <=> d \in {e, f}
  <2> DEFINE q == <<Block(e), Block(f)>>
  <2>1. /\ 1 \in 1..Len(q) /\ 2 \in 1..Len(q) /\ \A i \in 1..Len(q) : i \in {1, 2}
        /\ q[1].do = e /\ q[2].do = f
    BY DEF Block
  <2> HIDE DEF q
  <2>2. Has(d, q) <=> d \in {e, f}  BY <2>1 DEF Has
  <2> QED  BY <2>2 DEF q
<1>5. ASSUME NEW d, NEW e, NEW f, NEW g
      PROVE  Has(d, <<Block(e), Block(f), Block(g)>>) <=> d \in {e, f, g}
  <2> DEFINE q == <<Block(e), Block(f), Block(g)>>
  <2>1. /\ 1 \in 1..Len(q) /\ 2 \in 1..Len(q) /\ 3 \in 1..Len(q)
        /\ \A i \in 1..Len(q) : i \in {1, 2, 3}
        /\ q[1].do = e /\ q[2].do = f /\ q[3].do = g
    BY DEF Block
  <2> HIDE DEF q
  <2>2. Has(d, q) <=> d \in {e, f, g}  BY <2>1 DEF Has
  <2> QED  BY <2>2 DEF q
<1> QED  BY <1>1, <1>2, <1>3, <1>4, <1>5

-----------------------------------------------------------------------------
(* The type invariant.                                                      *)

\* TypeOK in three parts: what the steps change together.
Flags ==
  /\ tv \in BOOLEAN /\ away \in BOOLEAN /\ begun \in BOOLEAN /\ timer \in BOOLEAN
  /\ ring \in BOOLEAN /\ label \in BOOLEAN /\ lost \in BOOLEAN /\ stale \in BOOLEAN
  /\ resume \in {"no", "soon", "jump"}
Data ==
  /\ chosen \in Channels \cup {None}
  /\ video \in [url : Channels \cup {None}, id : Channels \cup {None}]
  /\ player \in [of : Channels \cup {None}, shown : BOOLEAN, events : Nat]
  /\ touches \in Nat /\ troubles \in Nat
Queues == queue \in QueueType /\ asked \in Seq(Channels)

LEMMA TypeParts == TypeOK <=> Flags /\ Data /\ Queues
BY Zenon DEF TypeOK, Flags, Data, Queues, QueueType

LEMMA TypeInit == Init => TypeOK
<1> SUFFICES ASSUME Init PROVE Flags /\ Data /\ Queues  BY TypeParts
<1>1. Flags  BY DEF Init, Flags
<1>2. Data  BY DEF Init, Data, NoVideo, NoPlayer
<1>3. Queues  BY PostedTypes DEF Init, Queues
<1> QED  BY <1>1, <1>2, <1>3

PlayerType == [of : Channels \cup {None}, shown : BOOLEAN, events : Nat]
LEMMA NoPlayerType == NoPlayer \in PlayerType
BY DEF NoPlayer, PlayerType

\* Every step keeps the flags Boolean.
LEMMA FlagsStep == ASSUME Flags, Data, [Next]_vars PROVE Flags'
<1>1. ASSUME RunRing PROVE Flags'
  BY Zenon, <1>1 DEF RunRing, Flags, Data, screen, counts, ghosts
<1>2. ASSUME RunSend PROVE Flags'
  BY Zenon, <1>2 DEF RunSend, Quiet, Flags, Data, screen, counts, ghosts
<1>3. ASSUME RunPlay PROVE Flags'
  BY Zenon, <1>3 DEF RunPlay, NoPlayer, Flags, Data, screen, counts, ghosts
<1>4. ASSUME RunArm PROVE Flags'
  BY Zenon, <1>4 DEF RunArm, Flags, Data, screen, counts, ghosts
<1>5. ASSUME RunCancel PROVE Flags'
  BY Zenon, <1>5 DEF RunCancel, Flags, Data, screen, counts, ghosts
<1>6. ASSUME RunWillPlay PROVE Flags'
  BY Zenon, <1>6 DEF RunWillPlay, Flags, Data, screen, counts, ghosts
<1>7. ASSUME RunShut PROVE Flags'
  BY Zenon, <1>7 DEF RunShut, Flags, Data, screen, counts, ghosts
<1>8. ASSUME RunLabel PROVE Flags'
  BY Zenon, <1>8 DEF RunLabel, NoPlayer, Flags, Data, screen, counts, ghosts
<1>9. ASSUME TimeOut PROVE Flags'
  BY Zenon, <1>9 DEF TimeOut, Flags, Data, screen, counts, ghosts
<1>10. ASSUME Touch PROVE Flags'
  BY Zenon, <1>10 DEF Touch, Select, Flags, Data, screen, counts, ghosts
<1>11. ASSUME TouchAway PROVE Flags'
  BY Zenon, <1>11 DEF TouchAway, Quiet, Flags, Data, screen, counts, ghosts
<1>12. ASSUME Answer PROVE Flags'
  BY Zenon, <1>12 DEF Answer, Answered, Refused, Quiet, Flags, Data, screen, counts, ghosts
<1>13. ASSUME Lose PROVE Flags'
  BY Zenon, <1>13 DEF Lose, Flags, Data, screen, counts, ghosts
<1>14. ASSUME Drop PROVE Flags'
  BY Zenon, <1>14 DEF Drop, Flags, Data, screen, counts, ghosts
<1>15. ASSUME Restore PROVE Flags'
  BY Zenon, <1>15 DEF Restore, Flags, Data, screen, counts, ghosts
<1>16. ASSUME Notice PROVE Flags'
  BY Zenon, <1>16 DEF Notice, Flags, Data, screen, counts, ghosts
<1>17. ASSUME Leave PROVE Flags'
  BY Zenon, <1>17 DEF Leave, NoPlayer, Flags, Data, screen, counts, ghosts
<1>18. ASSUME Return PROVE Flags'
  BY Zenon, <1>18 DEF Return, Flags, Data, screen, counts, ghosts
<1>19. ASSUME Judge PROVE Flags'
  BY Zenon, <1>19 DEF Judge, Quiet, Flags, Data, screen, counts, ghosts
<1>20. ASSUME Jump PROVE Flags'
  BY Zenon, <1>20 DEF Jump, Select, Flags, Data, screen, counts, ghosts
<1>21. ASSUME UNCHANGED vars PROVE Flags'
  BY Zenon, <1>21 DEF vars, Flags, Data, screen, counts, ghosts
<1> QED
  BY <1>1, <1>2, <1>3, <1>4, <1>5, <1>6, <1>7, <1>8, <1>9, <1>10, <1>11,
       <1>12, <1>13, <1>14, <1>15, <1>16, <1>17, <1>18, <1>19, <1>20, <1>21
       DEF Next, RunBlock

\* Every step keeps the values in their sets.
LEMMA DataStep == ASSUME Flags, Data, Queues, [Next]_vars PROVE Data'
<1>1. ASSUME RunRing PROVE Data'
  BY <1>1 DEF RunRing, Data, NoPlayer, screen, counts, ghosts
<1>2. ASSUME RunSend PROVE Data'
  <2>1. player' = player \/ player' = NoPlayer  BY <1>2 DEF RunSend, Quiet
  <2>2. UNCHANGED <<chosen, video, touches, troubles>>  BY <1>2 DEF RunSend, counts
  <2>3. player' \in PlayerType  BY <2>1, NoPlayerType DEF Data, PlayerType
  <2> QED  BY <2>2, <2>3 DEF Data, PlayerType
<1>3. ASSUME RunPlay PROVE Data'
  BY <1>3 DEF RunPlay, Data, NoPlayer, screen, counts, ghosts
<1>4. ASSUME RunArm PROVE Data'
  BY <1>4 DEF RunArm, Data, NoPlayer, screen, counts, ghosts
<1>5. ASSUME RunCancel PROVE Data'
  BY <1>5 DEF RunCancel, Data, NoPlayer, screen, counts, ghosts
<1>6. ASSUME RunWillPlay PROVE Data'
  BY <1>6 DEF RunWillPlay, Data, NoPlayer, screen, counts, ghosts
<1>7. ASSUME RunShut PROVE Data'
  BY <1>7 DEF RunShut, Data, NoPlayer, screen, counts, ghosts
<1>8. ASSUME RunLabel PROVE Data'
  BY <1>8 DEF RunLabel, Data, NoPlayer, screen, counts, ghosts
<1>9. ASSUME TimeOut PROVE Data'
  BY <1>9 DEF TimeOut, Data, NoPlayer, screen, counts, ghosts
<1>10. ASSUME Touch PROVE Data'
  BY <1>10 DEF Touch, Select, Data, NoPlayer, screen, counts, ghosts
<1>11. ASSUME TouchAway PROVE Data'
  BY <1>11 DEF TouchAway, Quiet, Data, NoPlayer, screen, counts, ghosts
<1>12. ASSUME Answer PROVE Data'
  <2>1. player' = player \/ player' = NoPlayer
    BY <1>12 DEF Answer, Answered, Refused, Quiet
  <2>2. UNCHANGED <<chosen, touches, troubles>>  BY <1>12 DEF Answer, counts
  <2>3. \/ video' = video
        \/ \E u \in {Head(asked), None} : video' = [url |-> u, id |-> chosen]
    BY <1>12 DEF Answer, Answered, Refused
  <2>4. Head(asked) \in Channels  BY <1>12 DEF Answer, Queues
  <2>5. player' \in PlayerType  BY <2>1, NoPlayerType DEF Data, PlayerType
  <2>6. video' \in [url : Channels \cup {None}, id : Channels \cup {None}]
    BY <2>3, <2>4 DEF Data
  <2> QED  BY <2>2, <2>5, <2>6 DEF Data, PlayerType
<1>13. ASSUME Lose PROVE Data'
  BY <1>13 DEF Lose, Data, NoPlayer, screen, counts, ghosts
<1>14. ASSUME Drop PROVE Data'
  BY <1>14 DEF Drop, Data, NoPlayer, screen, counts, ghosts
<1>15. ASSUME Restore PROVE Data'
  BY <1>15 DEF Restore, Data, NoPlayer, screen, counts, ghosts
<1>16. ASSUME Notice PROVE Data'
  <2>1. PICK e \in Nat : e = player.events + 1  BY DEF Data
  <2>2. player' = [of |-> player.of, shown |-> TRUE, events |-> e]
    BY <1>16, <2>1 DEF Notice, Data
  <2>3. UNCHANGED <<chosen, video, touches, troubles>>  BY <1>16 DEF Notice, counts
  <2>4. player.of \in Channels \cup {None}  BY DEF Data
  <2> QED  BY <2>2, <2>3, <2>4 DEF Data
<1>17. ASSUME Leave PROVE Data'
  BY <1>17 DEF Leave, Data, NoPlayer, screen, counts, ghosts
<1>18. ASSUME Return PROVE Data'
  BY <1>18 DEF Return, Data, NoPlayer, screen, counts, ghosts
<1>19. ASSUME Judge PROVE Data'
  <2>1. player' = player \/ player' = NoPlayer  BY <1>19 DEF Judge, Quiet
  <2>2. UNCHANGED <<chosen, video, touches, troubles>>  BY <1>19 DEF Judge, counts
  <2>3. player' \in PlayerType  BY <2>1, NoPlayerType DEF Data, PlayerType
  <2> QED  BY <2>2, <2>3 DEF Data, PlayerType
<1>20. ASSUME Jump PROVE Data'
  BY <1>20 DEF Jump, Select, Data, NoPlayer, screen, counts, ghosts
<1>21. ASSUME UNCHANGED vars PROVE Data'
  BY <1>21 DEF vars, Data, NoPlayer, screen, counts, ghosts
<1> QED
  BY <1>1, <1>2, <1>3, <1>4, <1>5, <1>6, <1>7, <1>8, <1>9, <1>10, <1>11,
       <1>12, <1>13, <1>14, <1>15, <1>16, <1>17, <1>18, <1>19, <1>20, <1>21
       DEF Next, RunBlock

\* The block that runs is one of them.
LEMMA HeadType ==
  ASSUME Queues, queue # << >>
  PROVE  queue[1] \in [do : Kinds, of : Channels \cup {None}]
<1> DEFINE E == [do : Kinds, of : Channels \cup {None}]
<1>1. queue \in Seq(E)  BY DEF Queues, QueueType
<1> HIDE DEF E
<1>2. queue[1] \in E  BY <1>1
<1> QED  BY <1>2 DEF E

\* Every step keeps the queues typed: blocks are posted behind the others or take
\* the place of the first, and a request is for the channel selected.
LEMMA QueueStep == ASSUME Data, Queues, [Next]_vars PROVE queue' \in QueueType
<1> USE DEF First
<1>1. ASSUME RunRing PROVE queue' \in QueueType
  BY <1>1, ThenType, PostedTypes DEF RunRing, Queues
<1>2. ASSUME RunSend PROVE queue' \in QueueType
  BY <1>2, ThenType, PostedTypes DEF RunSend, Queues, Kinds
<1>3. ASSUME RunPlay PROVE queue' \in QueueType
  BY <1>3, ThenType, PostedTypes DEF RunPlay, Queues
<1>4. ASSUME RunArm PROVE queue' \in QueueType
  BY <1>4, ThenType, PostedTypes DEF RunArm, Queues
<1>5. ASSUME RunCancel PROVE queue' \in QueueType
  BY <1>5, ThenType, PostedTypes DEF RunCancel, Queues
<1>6. ASSUME RunShut PROVE queue' \in QueueType
  BY <1>6, ThenType, PostedTypes DEF RunShut, Queues
<1>7. ASSUME RunLabel PROVE queue' \in QueueType
  BY <1>7, ThenType, PostedTypes DEF RunLabel, Queues
<1>8. ASSUME RunWillPlay PROVE queue' \in QueueType
  <2>1. queue[1] \in [do : Kinds, of : Channels \cup {None}]
    BY <1>8, HeadType DEF RunWillPlay
  <2>2. [queue[1] EXCEPT !.do = "shut"] = [do |-> "shut", of |-> queue[1].of]
    BY <2>1
  <2>3. <<[queue[1] EXCEPT !.do = "shut"]>> \in QueueType
    BY <2>1, <2>2, PostedTypes DEF Kinds
  <2> QED  BY <1>8, <2>3, ThenType DEF RunWillPlay, Queues
<1>9. ASSUME Touch PROVE queue' \in QueueType
  BY <1>9, PostType, PostedTypes DEF Touch, Select, Queues, Kinds
<1>10. ASSUME Jump PROVE queue' \in QueueType
  BY <1>10, PostType, PostedTypes DEF Jump, Select, Queues, Kinds
<1>11. ASSUME Answer PROVE queue' \in QueueType
  <2>1. ASSUME NEW u, Answered(u) PROVE queue' \in QueueType
    BY <2>1, PostType, PostedTypes DEF Answered, Queues, Kinds
  <2>2. CASE tv /\ Refused
    BY <2>2, PostType, PostedTypes DEF Refused, Queues, Kinds
  <2>3. CASE ~tv /\ UNCHANGED queue  BY <2>3 DEF Queues
  <2> QED  BY <1>11, <2>1, <2>2, <2>3 DEF Answer
<1>12. ASSUME Drop PROVE queue' \in QueueType
  BY <1>12, PostType, PostedTypes DEF Drop, Queues, Kinds
<1>13. ASSUME TimeOut PROVE queue' \in QueueType
  BY <1>13, PostType, PostedTypes DEF TimeOut, Queues, Kinds
<1>14. ASSUME Leave PROVE queue' \in QueueType
  BY <1>14, PostType, PostedTypes DEF Leave, Queues, Kinds
<1>15. ASSUME Notice PROVE queue' \in QueueType
  <2>1. <<[do |-> "willplay", of |-> player.of]>> \in QueueType
    BY PostedTypes DEF Data, Kinds
  <2> QED  BY <1>15, <2>1, PostType DEF Notice, Queues
<1>16. ASSUME Judge PROVE queue' \in QueueType
  <2>1. /\ <<Block("cancel"), Block("ring")>> \in QueueType
        /\ <<Block("cancel"), Block("ring"), Block("label")>> \in QueueType
    BY BlockType DEF QueueType, Kinds
  <2> QED  BY <1>16, <2>1, PostType DEF Judge, Queues
<1>17. ASSUME TouchAway \/ Lose \/ Restore \/ Return PROVE queue' \in QueueType
  BY <1>17 DEF TouchAway, Lose, Restore, Return, Queues
<1>18. ASSUME UNCHANGED vars PROVE queue' \in QueueType
  BY <1>18 DEF vars, Queues
<1> QED
  BY <1>1, <1>2, <1>3, <1>4, <1>5, <1>6, <1>7, <1>8, <1>9, <1>10, <1>11,
     <1>12, <1>13, <1>14, <1>15, <1>16, <1>17, <1>18 DEF Next, RunBlock

-----------------------------------------------------------------------------
(* A request is sent for a channel.                                         *)

\* What the inductive invariant adds: no request is queued before a channel is
\* chosen.
ChosenFirst == chosen = None => ~Has("send", queue)

\* The lists that hold no request.
LEMMA NoRequest ==
  /\ ~Has("send", << >>)
  /\ \A c, d : d # "send" => ~Has("send", <<[do |-> d, of |-> c]>>)
  /\ \A d : d # "send" => ~Has("send", <<Block(d)>>)
  /\ \A d, e : d # "send" /\ e # "send" => ~Has("send", <<Block(d), Block(e)>>)
  BY PostedHas

LEMMA ChosenStep ==
  ASSUME Data, Queues, ChosenFirst, [Next]_vars PROVE ChosenFirst'
<1> USE DEF First
<1>a. CASE chosen # None
  <2>1. chosen' = chosen \/ chosen' \in Channels
    BY Zenon DEF Next, RunBlock, vars, RunRing, RunSend, RunPlay, RunArm, RunCancel,
       RunWillPlay, RunShut, RunLabel, TimeOut, Touch, TouchAway, Answer, Lose, Drop,
       Restore, Notice, Leave, Return, Judge, Jump, Select
  <2> QED  BY <1>a, <2>1, PlayAssumption DEF ChosenFirst
<1> SUFFICES ASSUME chosen = None PROVE ChosenFirst'  BY <1>a
<1>b. ~Has("send", queue) /\ queue \in QueueType  BY DEF ChosenFirst, Queues
<1>1. ASSUME Touch \/ Jump PROVE ChosenFirst'
  BY <1>1, PlayAssumption DEF Touch, Jump, Select, ChosenFirst
<1>2. ASSUME RunRing PROVE ChosenFirst'
  BY <1>2, <1>b, ThenHas, PostedTypes, NoRequest DEF RunRing, ChosenFirst
<1>3. ASSUME RunPlay PROVE ChosenFirst'
  BY <1>3, <1>b, ThenHas, PostedTypes, NoRequest DEF RunPlay, ChosenFirst
<1>4. ASSUME RunArm PROVE ChosenFirst'
  BY <1>4, <1>b, ThenHas, PostedTypes, NoRequest DEF RunArm, ChosenFirst
<1>5. ASSUME RunCancel PROVE ChosenFirst'
  BY <1>5, <1>b, ThenHas, PostedTypes, NoRequest DEF RunCancel, ChosenFirst
<1>6. ASSUME RunShut PROVE ChosenFirst'
  BY <1>6, <1>b, ThenHas, PostedTypes, NoRequest DEF RunShut, ChosenFirst
<1>7. ASSUME RunLabel PROVE ChosenFirst'
  BY <1>7, <1>b, ThenHas, PostedTypes, NoRequest DEF RunLabel, ChosenFirst
<1>8. ASSUME RunSend PROVE ChosenFirst'
  BY <1>8, <1>b DEF RunSend, Has, Queues, QueueType
<1>9. ASSUME RunWillPlay PROVE ChosenFirst'
  <2>1. queue[1] \in [do : Kinds, of : Channels \cup {None}]
    BY <1>9, HeadType DEF RunWillPlay
  <2>2. [queue[1] EXCEPT !.do = "shut"] = [do |-> "shut", of |-> queue[1].of]
    BY <2>1
  <2>3. /\ <<[queue[1] EXCEPT !.do = "shut"]>> \in QueueType
        /\ ~Has("send", <<[queue[1] EXCEPT !.do = "shut"]>>)
    BY <2>1, <2>2, PostedTypes, NoRequest DEF Kinds
  <2> QED  BY <1>9, <1>b, <2>3, ThenHas DEF RunWillPlay, ChosenFirst
<1>10. ASSUME Answer PROVE ChosenFirst'
  <2>1. ASSUME NEW u, Answered(u) PROVE ChosenFirst'
    BY <1>b, <2>1, PostHas, PostedTypes, NoRequest DEF Answered, ChosenFirst, Kinds
  <2>2. CASE tv /\ Refused
    BY <1>b, <2>2, PostHas, PostedTypes, NoRequest DEF Refused, ChosenFirst, Kinds
  <2>3. CASE ~tv /\ UNCHANGED queue  BY <1>b, <2>3 DEF ChosenFirst
  <2> QED  BY <1>10, <2>1, <2>2, <2>3 DEF Answer
<1>11. ASSUME Drop PROVE ChosenFirst'
  BY <1>11, <1>b, PostHas, PostedTypes, NoRequest DEF Drop, ChosenFirst, Kinds
<1>12. ASSUME TimeOut PROVE ChosenFirst'
  BY <1>12, <1>b, PostHas, PostedTypes, NoRequest DEF TimeOut, ChosenFirst, Kinds
<1>13. ASSUME Leave PROVE ChosenFirst'
  BY <1>13, <1>b, PostHas, PostedTypes, NoRequest DEF Leave, ChosenFirst, Kinds
<1>14. ASSUME Notice PROVE ChosenFirst'
  <2>1. /\ <<[do |-> "willplay", of |-> player.of]>> \in QueueType
        /\ ~Has("send", <<[do |-> "willplay", of |-> player.of]>>)
    BY PostedTypes, NoRequest DEF Data, Kinds
  <2> QED  BY <1>14, <1>b, <2>1, PostHas DEF Notice, ChosenFirst
<1>15. ASSUME Judge PROVE ChosenFirst'
  <2>1. CASE tv /\ away
    <3>1. Post(<<Block("cancel"), Block("ring"), Block("label")>>)
      BY <1>15, <2>1 DEF Judge
    <3>2. <<Block("cancel"), Block("ring"), Block("label")>> \in QueueType
      BY BlockType DEF QueueType, Kinds
    <3>3. ~Has("send", <<Block("cancel"), Block("ring"), Block("label")>>)
      BY DEF Has, Block
    <3> QED  BY <1>b, <3>1, <3>2, <3>3, PostHas DEF ChosenFirst
  <2>2. CASE tv /\ ~away
    <3>1. Post(<<Block("cancel"), Block("ring")>>)
      BY <1>15, <2>2 DEF Judge
    <3> QED  BY <1>b, <3>1, PostedTypes, NoRequest, PostHas DEF ChosenFirst, Kinds
  <2>3. CASE ~tv  BY <1>15, <1>b, <2>3 DEF Judge, ChosenFirst
  <2> QED  BY <2>1, <2>2, <2>3
<1>16. ASSUME TouchAway \/ Lose \/ Restore \/ Return PROVE ChosenFirst'
  BY <1>16, <1>b DEF TouchAway, Lose, Restore, Return, ChosenFirst
<1>17. ASSUME UNCHANGED vars PROVE ChosenFirst'
  BY <1>17, <1>b DEF vars, ChosenFirst
<1> QED
  BY <1>1, <1>2, <1>3, <1>4, <1>5, <1>6, <1>7, <1>8, <1>9, <1>10, <1>11,
     <1>12, <1>13, <1>14, <1>15, <1>16, <1>17 DEF Next, RunBlock

\* What is asked is a channel.
LEMMA AskedStep ==
  ASSUME Data, Queues, ChosenFirst, [Next]_vars PROVE asked' \in Seq(Channels)
<1>1. CASE UNCHANGED asked  BY <1>1 DEF Queues
<1>2. CASE asked # << >> /\ asked' = Tail(asked)  BY <1>2 DEF Queues
<1>3. CASE asked' = << >>  BY <1>3
<1>4. CASE RunSend
  <2>1. CASE asked' = Append(asked, chosen)
    <3>1. Has("send", queue)  BY <1>4 DEF RunSend, First, Has, Queues, QueueType
    <3>2. chosen \in Channels  BY <3>1 DEF ChosenFirst, Data
    <3> QED  BY <2>1, <3>2 DEF Queues
  <2> QED  BY <1>1, <1>4, <2>1 DEF RunSend
<1> QED
  BY Zenon, <1>1, <1>2, <1>3, <1>4 DEF Next, RunBlock, vars, RunRing, RunPlay, RunArm,
     RunCancel, RunWillPlay, RunShut, RunLabel, TimeOut, Touch, TouchAway, Answer, Lose,
     Drop, Restore, Notice, Leave, Return, Judge, Jump, Select

-----------------------------------------------------------------------------
(* A page that is left is quiet.                                            *)

Stops == timer => Has("shut", queue)

LEMMA AwayParts == AwayIsQuiet <=> (~tv => player = NoPlayer /\ Stops)
BY DEF AwayIsQuiet, Stops, Has

\* A block that is run, if it is not "shut", leaves the "shut" block behind it.
LEMMA AwayStep ==
  ASSUME Queues, AwayIsQuiet, [Next]_vars PROVE AwayIsQuiet'
<1> DEFINE Away == player' = NoPlayer /\ Stops'
<1> SUFFICES ASSUME ~tv' PROVE Away
  BY AwayParts DEF AwayIsQuiet, Stops, Has
<1> USE DEF First
<1>0. ~tv => player = NoPlayer /\ Stops  BY AwayParts
<1>1. ASSUME RunRing PROVE Away
  BY <1>1, <1>0, ThenHas, PostedTypes DEF RunRing, Queues, Stops
<1>2. ASSUME RunCancel PROVE Away
  BY <1>2, <1>0, ThenHas, PostedTypes DEF RunCancel, Queues, Stops
<1>3. ASSUME RunLabel PROVE Away
  BY <1>3, <1>0, ThenHas, PostedTypes DEF RunLabel, Queues, Stops
<1>4. ASSUME RunPlay PROVE Away
  BY <1>4, <1>0, ThenHas, PostedTypes DEF RunPlay, Queues, Stops
<1>5. ASSUME RunSend PROVE Away
  <2>1. CASE Quiet  BY <2>1 DEF Quiet, Stops
  <2>2. CASE UNCHANGED <<player, timer>>
    <3>1. Then(<<Block("label")>>) \/ Then(<< >>)  BY <1>5 DEF RunSend
    <3>2. ~tv /\ queue # << >> /\ queue[1].do = "send"  BY <1>5 DEF RunSend
    <3>3. Has("shut", queue) => Has("shut", queue')
      BY <3>1, <3>2, ThenHas, PostedTypes DEF Queues, Kinds
    <3> QED  BY <1>0, <2>2, <3>2, <3>3 DEF Stops
  <2> QED  BY <1>5, <2>1, <2>2 DEF RunSend
<1>6. ASSUME RunArm PROVE Away
  BY <1>6, <1>0 DEF RunArm, Stops
<1>7. ASSUME RunShut PROVE Away
  BY <1>7, <1>0 DEF RunShut, Stops
<1>8. ASSUME RunWillPlay PROVE Away
  <2>1. <<[queue[1] EXCEPT !.do = "shut"]>> \in QueueType
    <3>1. queue[1] \in [do : Kinds, of : Channels \cup {None}]
      BY <1>8, HeadType DEF RunWillPlay
    <3>2. [queue[1] EXCEPT !.do = "shut"] = [do |-> "shut", of |-> queue[1].of]
      BY <3>1
    <3> QED  BY <3>1, <3>2, PostedTypes DEF Kinds
  <2> QED  BY <1>8, <1>0, <2>1, ThenHas DEF RunWillPlay, Queues, Stops
<1>9. ASSUME TimeOut PROVE Away
  BY <1>9, <1>0 DEF TimeOut, Stops
<1>10. ASSUME Notice PROVE Away
  BY <1>10, <1>0, PlayAssumption DEF Notice, NoPlayer
<1>11. ASSUME TouchAway PROVE Away
  BY <1>11 DEF TouchAway, Quiet, Stops
<1>12. ASSUME Judge PROVE Away
  BY <1>12, <1>0 DEF Judge, Quiet, Stops
<1>13. ASSUME Answer PROVE Away
  BY <1>13, <1>0 DEF Answer, Quiet, Stops
<1>14. ASSUME Drop PROVE Away
  BY <1>14, <1>0, PostHas, PostedTypes DEF Drop, Queues, Stops, Kinds
<1>15. ASSUME Jump PROVE Away
  <2>1. Post(<<Block("ring"), Block("send")>>) /\ UNCHANGED <<tv, player, timer>>
    BY <1>15 DEF Jump, Select
  <2>2. Has("shut", queue) => Has("shut", queue')
    BY <2>1, PostHas, PostedTypes DEF Queues, Kinds
  <2> QED  BY <1>0, <2>1, <2>2 DEF Stops
<1>16. ASSUME Touch \/ Return PROVE Away
  BY <1>16 DEF Touch, Select, Return
<1>17. ASSUME Leave PROVE Away
  <2>1. Post(<<Block("shut")>>) /\ player' = NoPlayer  BY <1>17 DEF Leave
  <2>2. Len(queue') = Len(queue) + 1 /\ queue'[Len(queue) + 1] = Block("shut")
    BY <2>1 DEF Post, Queues, QueueType
  <2>3. Len(queue) + 1 \in 1..Len(queue')  BY <2>2 DEF Queues, QueueType
  <2>4. Block("shut").do = "shut"  BY DEF Block
  <2> QED  BY <2>1, <2>2, <2>3, <2>4 DEF Stops, Has
<1>18. ASSUME Lose \/ Restore PROVE Away
  BY <1>18, <1>0 DEF Lose, Restore, Stops, Has
<1>19. ASSUME UNCHANGED vars PROVE Away
  BY <1>19, <1>0 DEF vars, Stops, Has
<1> QED
  BY <1>1, <1>2, <1>3, <1>4, <1>5, <1>6, <1>7, <1>8, <1>9, <1>10, <1>11,
     <1>12, <1>13, <1>14, <1>15, <1>16, <1>17, <1>18, <1>19 DEF Next,
     RunBlock

-----------------------------------------------------------------------------
(* What plays in the end is what was touched last.                          *)

\* A notice in the queue behind which no picture is started any more.
Cleared(q) ==
  \E i \in 1..Len(q) : q[i].do = "label" /\ \A j \in (i + 1)..Len(q) : q[j].do # "play"

\* Once the last request has been sent: it is the last of those that wait for
\* their answer; or its URL, or none, is in `video` and plays, or will; or nothing will
\* play, because of a notice on its way or because nothing is left to be played.
Going ==
  IF asked # << >> THEN asked[Len(asked)] = chosen
  ELSE \/ Cleared(queue)
       \/ /\ video.url \in {None, chosen} /\ video.id = chosen
          /\ Has("play", queue) \/ player.of \in {None, chosen}
       \/ ~Has("play", queue) /\ player.of = None

OnTheWay == tv /\ resume = "no" /\ ~lost /\ ~Has("send", queue) => Going

\* Nothing is asked of an STB that is gone, or RunSend would refuse the last
\* request and an older one would be answered.
NoneWhileAway == away => asked = << >>

\* A picture under the notice has called for what takes the notice away.
LabelGoes == label /\ player.shown => Has("willplay", queue) \/ Has("shut", queue)

\* Blocks behind a notice, or a notice behind blocks.
LEMMA PostCleared ==
  ASSUME queue \in QueueType, NEW b \in QueueType, Post(b),
         Cleared(b) \/ (Cleared(queue) /\ ~Has("play", b))
  PROVE  Cleared(queue')
<1>1. /\ Len(queue') = Len(queue) + Len(b) /\ Len(b) \in Nat /\ Len(queue) \in Nat
      /\ \A i \in 1..Len(queue) : queue'[i] = queue[i]
      /\ \A i \in 1..Len(b) : queue'[Len(queue) + i] = b[i]
  BY DEF Post, QueueType
<1>2. CASE Cleared(b)
  <2>1. PICK i \in 1..Len(b) :
           b[i].do = "label" /\ \A j \in (i + 1)..Len(b) : b[j].do # "play"
    BY <1>2 DEF Cleared
  <2>2. Len(queue) + i \in 1..Len(queue') /\ queue'[Len(queue) + i].do = "label"
    BY <1>1, <2>1
  <2>3. ASSUME NEW j \in (Len(queue) + i + 1)..Len(queue') PROVE queue'[j].do # "play"
    <3>1. j - Len(queue) \in (i + 1)..Len(b) /\ j - Len(queue) \in 1..Len(b)
          /\ j = Len(queue) + (j - Len(queue))
      BY <1>1
    <3> QED  BY <1>1, <2>1, <3>1
  <2> QED  BY <2>2, <2>3 DEF Cleared
<1>3. CASE Cleared(queue) /\ ~Has("play", b)
  <2>1. PICK i \in 1..Len(queue) :
           queue[i].do = "label" /\ \A j \in (i + 1)..Len(queue) : queue[j].do # "play"
    BY <1>3 DEF Cleared
  <2>2. i \in 1..Len(queue') /\ queue'[i].do = "label"
    BY <1>1, <2>1
  <2>3. ASSUME NEW j \in (i + 1)..Len(queue') PROVE queue'[j].do # "play"
    <3>1. CASE j \in 1..Len(queue)  BY <1>1, <2>1, <3>1
    <3>2. CASE j \notin 1..Len(queue)
      <4>1. j - Len(queue) \in 1..Len(b) /\ j = Len(queue) + (j - Len(queue))
        BY <1>1, <3>2
      <4> QED  BY <1>1, <1>3, <4>1 DEF Has
    <3> QED  BY <3>1, <3>2
  <2> QED  BY <2>2, <2>3 DEF Cleared
<1> QED  BY <1>2, <1>3

\* A block that runs keeps the notice behind it; when the notice itself runs
\* either there is another, or no block is left that starts a picture.
LEMMA ThenCleared ==
  ASSUME queue \in QueueType, queue # << >>, NEW b \in QueueType, Then(b)
  PROVE  /\ Cleared(b) => Cleared(queue')
         /\ Cleared(queue) /\ queue[1].do # "label" /\ ~Has("play", b) => Cleared(queue')
         /\ Cleared(queue) /\ b = << >> => Cleared(queue') \/ ~Has("play", queue')
<1> DEFINE n == Len(queue) - 1
<1>1. /\ n \in Nat /\ Len(b) \in Nat /\ Len(queue') = n + Len(b) /\ Len(queue) = n + 1
      /\ \A i \in 1..n : queue'[i] = queue[i + 1]
      /\ \A i \in 1..Len(b) : queue'[n + i] = b[i]
  BY ThenFacts
<1> HIDE DEF n
<1>2. ASSUME Cleared(b) PROVE Cleared(queue')
  <2>1. PICK i \in 1..Len(b) :
           b[i].do = "label" /\ \A j \in (i + 1)..Len(b) : b[j].do # "play"
    BY <1>2 DEF Cleared
  <2>2. n + i \in 1..Len(queue') /\ queue'[n + i].do = "label"
    BY <1>1, <2>1
  <2>3. ASSUME NEW j \in (n + i + 1)..Len(queue') PROVE queue'[j].do # "play"
    <3>1. j - n \in (i + 1)..Len(b) /\ j - n \in 1..Len(b) /\ j = n + (j - n)
      BY <1>1
    <3> QED  BY <1>1, <2>1, <3>1
  <2> QED  BY <2>2, <2>3 DEF Cleared
<1>3. ASSUME NEW i \in 1..Len(queue), i # 1, queue[i].do = "label", ~Has("play", b),
             \A j \in (i + 1)..Len(queue) : queue[j].do # "play"
      PROVE  Cleared(queue')
  <2>1. i - 1 \in 1..n /\ i - 1 \in 1..Len(queue') /\ (i - 1) + 1 = i
    BY <1>1, <1>3
  <2>2. queue'[i - 1].do = "label"  BY <1>1, <1>3, <2>1
  <2>3. ASSUME NEW j \in ((i - 1) + 1)..Len(queue') PROVE queue'[j].do # "play"
    <3>1. CASE j \in 1..n
      <4>1. j + 1 \in (i + 1)..Len(queue)  BY <1>1, <3>1
      <4> QED  BY <1>1, <1>3, <3>1, <4>1
    <3>2. CASE j \notin 1..n
      <4>1. j - n \in 1..Len(b) /\ j = n + (j - n)  BY <1>1, <2>1, <3>2
      <4> QED  BY <1>1, <1>3, <4>1 DEF Has
    <3> QED  BY <3>1, <3>2
  <2> QED  BY <2>1, <2>2, <2>3 DEF Cleared
<1>4. ASSUME Cleared(queue), queue[1].do # "label", ~Has("play", b)
      PROVE  Cleared(queue')
  <2>1. PICK i \in 1..Len(queue) :
           queue[i].do = "label" /\ \A j \in (i + 1)..Len(queue) : queue[j].do # "play"
    BY <1>4 DEF Cleared
  <2> QED  BY <1>3, <1>4, <2>1
<1>5. ASSUME Cleared(queue), b = << >> PROVE Cleared(queue') \/ ~Has("play", queue')
  <2>1. PICK i \in 1..Len(queue) :
           queue[i].do = "label" /\ \A j \in (i + 1)..Len(queue) : queue[j].do # "play"
    BY <1>5 DEF Cleared
  <2>2. CASE i = 1
    <3>1. Len(b) = 0  BY <1>5
    <3>2. ASSUME NEW k \in 1..Len(queue') PROVE queue'[k].do # "play"
      <4>1. k \in 1..n /\ k + 1 \in (1 + 1)..Len(queue)  BY <1>1, <3>1
      <4> QED  BY <1>1, <2>1, <2>2, <4>1
    <3> QED  BY <3>2 DEF Has
  <2>3. CASE i # 1  BY <1>3, <1>5, <2>1, <2>3, PostedHas
  <2> QED  BY <2>2, <2>3
<1> QED  BY <1>2, <1>4, <1>5

\* A block that starts no picture and is no notice, run or posted, changes nothing
\* of what is on its way.
LEMMA GoesOn ==
  ASSUME queue \in QueueType, Going, NEW b \in QueueType, ~Has("play", b),
         UNCHANGED <<asked, chosen, video>>, player'.of = player.of,
         \/ Post(b)
         \/ queue # << >> /\ queue[1].do \notin {"play", "label"} /\ Then(b)
  PROVE  Going'
<1>1. Has("play", queue') <=> Has("play", queue)
  BY PostHas, ThenHas
<1>2. Cleared(queue) => Cleared(queue')
  BY PostCleared, ThenCleared
<1> QED  BY <1>1, <1>2 DEF Going

\* A notice posted behind the others: nothing will play but what is asked.
LEMMA NoticeGoes ==
  ASSUME queue \in QueueType, NEW b \in QueueType, Cleared(b),
         asked' # << >> => asked'[Len(asked')] = chosen',
         Post(b) \/ (queue # << >> /\ Then(b))
  PROVE  Going'
<1>1. Cleared(queue')  BY PostCleared, ThenCleared
<1> QED  BY <1>1 DEF Going

LEMMA LabelsClear ==
  /\ Cleared(<<Block("label")>>)
  /\ Cleared(<<Block("label"), Block("cancel")>>)
<1>1. Cleared(<<Block("label")>>)
  <2> DEFINE q == <<Block("label")>>
  <2>1. Len(q) = 1 /\ q[1].do = "label"  BY DEF Block
  <2> HIDE DEF q
  <2>2. Cleared(q)  BY <2>1 DEF Cleared
  <2> QED  BY <2>2 DEF q
<1>2. Cleared(<<Block("label"), Block("cancel")>>)
  <2> DEFINE q == <<Block("label"), Block("cancel")>>
  <2>1. Len(q) = 2 /\ q[1].do = "label" /\ q[2].do = "cancel"  BY DEF Block
  <2> HIDE DEF q
  <2>2. Cleared(q)  BY <2>1 DEF Cleared
  <2> QED  BY <2>2 DEF q
<1> QED  BY <1>1, <1>2

\* The last request answered or lost is not the last one asked, or it was the only one.
LEMMA AskedRest ==
  ASSUME asked \in Seq(Channels), asked # << >>, asked' = Tail(asked)
  PROVE  /\ asked' # << >> => asked'[Len(asked')] = asked[Len(asked)]
         /\ asked' = << >> => Len(asked) = 1 /\ Head(asked) = asked[Len(asked)]
<1>1. /\ Len(asked) \in Nat \ {0} /\ Len(asked') = Len(asked) - 1
      /\ \A i \in 1..Len(asked') : asked'[i] = asked[i + 1]
  OBVIOUS
<1>2. CASE asked' # << >>
  <2>1. Len(asked') \in 1..Len(asked') /\ Len(asked') + 1 = Len(asked)  BY <1>1, <1>2
  <2> QED  BY <1>1, <1>2, <2>1
<1>3. CASE asked' = << >>
  <2>1. asked' \in Seq(Channels)  OBVIOUS
  <2>2. Len(asked') = 0  BY <1>3, <2>1, EmptySeq
  <2>3. Len(asked) = 1  BY <1>1, <2>2
  <2> QED  BY <1>3, <2>3
<1> QED  BY <1>2, <1>3

LEMMA WayStep ==
  ASSUME Data, Queues, NoneWhileAway, OnTheWay, [Next]_vars PROVE OnTheWay'
<1> DEFINE Settles == tv' /\ resume' = "no" /\ ~lost' /\ ~Has("send", queue')
<1> SUFFICES ASSUME Settles PROVE Going'  BY DEF OnTheWay
<1> USE DEF First
<1>q. queue \in QueueType /\ asked \in Seq(Channels)  BY DEF Queues
<1>g. ASSUME UNCHANGED <<tv, resume, lost>>, Has("send", queue) => Has("send", queue')
      PROVE  Going
  BY <1>g DEF OnTheWay
<1>1. ASSUME RunRing \/ RunCancel \/ RunArm PROVE Going'
  <2>1. /\ queue # << >> /\ queue[1].do \in {"ring", "cancel", "arm"} /\ Then(<< >>)
        /\ UNCHANGED <<tv, resume, lost, asked, chosen, video, player>>
    BY <1>1 DEF RunRing, RunCancel, RunArm, ghosts
  <2>2. Has("send", queue) => Has("send", queue')
    BY <1>q, <2>1, ThenHas, PostedTypes
  <2>3. Going  BY <1>g, <2>1, <2>2
  <2> QED  BY <1>q, <2>1, <2>3, GoesOn, PostedTypes, PostedHas
<1>2. ASSUME RunWillPlay \/ RunShut PROVE Going'
  <2>1. PICK b \in QueueType : Then(b) /\ ~Has("play", b)
    <3>1. CASE RunShut  BY <3>1, PostedTypes, PostedHas DEF RunShut
    <3>2. CASE RunWillPlay
      <4>1. queue[1] \in [do : Kinds, of : Channels \cup {None}]
        BY <3>2, HeadType DEF RunWillPlay
      <4>2. [queue[1] EXCEPT !.do = "shut"] = [do |-> "shut", of |-> queue[1].of]
        BY <4>1
      <4>3. <<[do |-> "shut", of |-> queue[1].of]>> \in QueueType
        BY <4>1, PostedTypes DEF Kinds
      <4>4. ~Has("play", <<[do |-> "shut", of |-> queue[1].of]>>)
        BY PostedHas
      <4> QED  BY <3>2, <4>2, <4>3, <4>4 DEF RunWillPlay
    <3> QED  BY <1>2, <3>1, <3>2
  <2>2. /\ queue # << >> /\ queue[1].do \in {"willplay", "shut"}
        /\ UNCHANGED <<tv, resume, lost, asked, chosen, video, player>>
    BY <1>2 DEF RunWillPlay, RunShut, ghosts
  <2>3. Has("send", queue) => Has("send", queue')
    BY <1>q, <2>1, <2>2, ThenHas
  <2>4. Going  BY <1>g, <2>2, <2>3
  <2> QED  BY <1>q, <2>1, <2>2, <2>4, GoesOn
<1>3. ASSUME RunLabel PROVE Going'
  <2>1. /\ queue # << >> /\ queue[1].do = "label" /\ Then(<< >>)
        /\ UNCHANGED <<tv, resume, lost, asked, chosen, video>> /\ player'.of = None
    BY <1>3 DEF RunLabel, NoPlayer, ghosts
  <2>2. /\ Has("send", queue) => Has("send", queue')
        /\ Has("play", queue) <=> Has("play", queue')
        /\ Cleared(queue) => Cleared(queue') \/ ~Has("play", queue')
    BY <1>q, <2>1, ThenHas, ThenCleared, PostedTypes, PostedHas
  <2>3. Going  BY <1>g, <2>1, <2>2
  <2> QED  BY <2>1, <2>2, <2>3 DEF Going
<1>4. ASSUME RunPlay PROVE Going'
  <2>1. /\ queue # << >> /\ queue[1].do = "play" /\ Then(<< >>)
        /\ UNCHANGED <<tv, resume, lost, asked, chosen, video>> /\ player'.of = video.url
    BY <1>4 DEF RunPlay, NoPlayer, ghosts
  <2>2. /\ Has("send", queue) => Has("send", queue')
        /\ Cleared(queue) => Cleared(queue')
    BY <1>q, <2>1, ThenHas, ThenCleared, PostedTypes, PostedHas
  <2>3. Has("play", queue)
    <3>1. 1 \in 1..Len(queue)  BY <1>q, <2>1 DEF QueueType
    <3> QED  BY <2>1, <3>1 DEF Has
  <2>4. Going  BY <1>g, <2>1, <2>2
  <2> QED  BY <2>1, <2>2, <2>3, <2>4 DEF Going
<1>5. ASSUME RunSend PROVE Going'
  <2>1. CASE away
    <3>1. queue # << >> /\ Then(<<Block("label")>>) /\ asked' = << >>
      BY <1>5, <2>1 DEF RunSend, NoneWhileAway
    <3> QED  BY <1>q, <3>1, NoticeGoes, LabelsClear, PostedTypes DEF Kinds
  <2>2. CASE ~away
    <3>1. asked' = Append(asked, chosen) /\ chosen' = chosen  BY <1>5, <2>2 DEF RunSend
    <3>2. asked' # << >> /\ asked'[Len(asked')] = chosen  BY <1>q, <3>1
    <3> QED  BY <3>1, <3>2 DEF Going
  <2> QED  BY <2>1, <2>2
<1>6. ASSUME TimeOut PROVE Going'
  <2>1. /\ Post(<<Block("label")>>) /\ <<Block("label")>> \in QueueType
        /\ UNCHANGED <<tv, resume, lost, asked, chosen>>
    BY <1>6, PostedTypes DEF TimeOut, ghosts, Kinds
  <2>2. Has("send", queue) => Has("send", queue')  BY <1>q, <2>1, PostHas
  <2>3. Going  BY <1>g, <2>1, <2>2
  <2> QED  BY <1>q, <2>1, <2>3, NoticeGoes, LabelsClear DEF Going
<1>7. ASSUME Drop PROVE Going'
  <2>1. /\ Post(<<Block("label")>>) /\ <<Block("label")>> \in QueueType
        /\ asked' = << >>
    BY <1>7, PostedTypes DEF Drop, Kinds
  <2> QED  BY <1>q, <2>1, NoticeGoes, LabelsClear
<1>8. ASSUME Touch \/ Jump PROVE Going'
  <2>1. Post(<<Block("ring"), Block("send")>>)  BY <1>8 DEF Touch, Jump, Select
  <2>2. <<Block("ring"), Block("send")>> \in QueueType  BY PostedTypes DEF Kinds
  <2>3. Has("send", <<Block("ring"), Block("send")>>)  BY PostedHas
  <2>4. Has("send", queue')  BY <1>q, <2>1, <2>2, <2>3, PostHas
  <2> QED  BY <2>4
<1>9. ASSUME Answer PROVE Going'
  <2>1. /\ asked # << >> /\ asked' = Tail(asked) /\ tv
        /\ UNCHANGED <<tv, resume, lost, chosen>>
    BY <1>9 DEF Answer, ghosts
  <2>2. ASSUME NEW u \in {Head(asked), None}, Answered(u) PROVE Going'
    <3>1. /\ Post(<<Block("play"), Block("arm")>>)
          /\ <<Block("play"), Block("arm")>> \in QueueType
          /\ video' = [url |-> u, id |-> chosen]
      BY <2>2, PostedTypes DEF Answered, Kinds
    <3>2. /\ Has("send", queue) => Has("send", queue')
          /\ Has("play", queue')
      BY <1>q, <3>1, PostHas, PostedHas
    <3>3. Going  BY <1>g, <2>1, <3>2
    <3>4. asked[Len(asked)] = chosen  BY <2>1, <3>3 DEF Going
    <3> QED  BY <1>q, <2>1, <3>1, <3>2, <3>4, AskedRest DEF Going
  <2>3. CASE Refused
    <3>1. /\ Post(<<Block("label"), Block("cancel")>>)
          /\ <<Block("label"), Block("cancel")>> \in QueueType
      BY <2>3, PostedTypes DEF Refused, Kinds
    <3>2. Has("send", queue) => Has("send", queue')
      BY <1>q, <3>1, PostHas
    <3>3. Going  BY <1>g, <2>1, <3>2
    <3>4. asked' # << >> => asked'[Len(asked')] = chosen'
      BY <1>q, <2>1, <3>3, AskedRest DEF Going
    <3> QED  BY <1>q, <3>1, <3>4, NoticeGoes, LabelsClear
  <2> QED  BY <1>9, <2>1, <2>2, <2>3 DEF Answer
<1>10. ASSUME Lose PROVE Going'
  <2>1. /\ asked # << >> /\ asked' = Tail(asked)
        /\ UNCHANGED <<tv, resume, chosen, queue>>
        /\ lost' = (lost \/ (Len(asked) = 1 /\ NothingToSend))
    BY <1>10 DEF Lose
  <2>2. NothingToSend  BY <2>1 DEF NothingToSend, Has
  <2>3. Going /\ Len(asked) # 1  BY <2>1, <2>2 DEF OnTheWay
  <2>4. asked' # << >> /\ asked'[Len(asked')] = chosen'
    BY <1>q, <2>1, <2>3, AskedRest DEF Going
  <2> QED  BY <2>4 DEF Going
<1>11. ASSUME Restore PROVE Going'
  <2>1. UNCHANGED <<tv, resume, lost, queue, asked, chosen, video, player>>
    BY <1>11 DEF Restore, ghosts
  <2> QED  BY <1>g, <2>1 DEF Going
<1>12. ASSUME Notice PROVE Going'
  <2>1. /\ Post(<<[do |-> "willplay", of |-> player.of]>>)
        /\ UNCHANGED <<tv, resume, lost, asked, chosen, video>> /\ player'.of = player.of
    BY <1>12 DEF Notice, Data, ghosts
  <2>2. <<[do |-> "willplay", of |-> player.of]>> \in QueueType
    BY PostedTypes DEF Data, Kinds
  <2>3. ~Has("play", <<[do |-> "willplay", of |-> player.of]>>)  BY PostedHas
  <2>4. Has("send", queue) => Has("send", queue')  BY <1>q, <2>1, <2>2, PostHas
  <2>5. Going  BY <1>g, <2>1, <2>4
  <2> QED  BY <1>q, <2>1, <2>2, <2>3, <2>5, GoesOn
<1>13. ASSUME TouchAway \/ Leave PROVE FALSE
  BY <1>13 DEF TouchAway, Leave
<1>14. ASSUME Return PROVE FALSE
  BY <1>14 DEF Return
<1>15. ASSUME Judge PROVE FALSE
  BY <1>15 DEF Judge
<1>16. ASSUME UNCHANGED vars PROVE Going'
  <2>1. UNCHANGED <<tv, resume, lost, queue, asked, chosen, video, player>>
    BY <1>16 DEF vars, ghosts
  <2> QED  BY <1>g, <2>1 DEF Going
<1> QED
  BY <1>1, <1>2, <1>3, <1>4, <1>5, <1>6, <1>7, <1>8, <1>9, <1>10, <1>11,
     <1>12, <1>13, <1>14, <1>15, <1>16 DEF Next, RunBlock

\* The STB is asked only while it is there.
LEMMA AskStep ==
  ASSUME NoneWhileAway, [Next]_vars PROVE NoneWhileAway'
<1>1. UNCHANGED <<away, asked>> \/ asked' = << >> \/ ~away'
        \/ (away' = away /\ asked # << >> /\ asked' = Tail(asked))
  BY Zenon DEF Next, RunBlock, vars, RunRing, RunSend, RunPlay, RunArm, RunCancel,
     RunWillPlay, RunShut, RunLabel, TimeOut, Touch, TouchAway, Answer, Lose, Drop,
     Restore, Notice, Leave, Return, Judge, Jump, Select
<1> QED  BY <1>1 DEF NoneWhileAway

-----------------------------------------------------------------------------
(* The notice does not stay over a picture.                                 *)

Calls == Has("willplay", queue) \/ Has("shut", queue)

LEMMA LabelStep ==
  ASSUME Data, Queues, LabelGoes, [Next]_vars PROVE LabelGoes'
<1> SUFFICES ASSUME label', player'.shown PROVE Calls'
  BY DEF LabelGoes, Calls
<1> USE DEF First
<1>q. queue \in QueueType  BY DEF Queues
<1>k. ASSUME label, player.shown, NEW b \in QueueType,
             Post(b) \/ (queue # << >> /\ queue[1].do \notin {"willplay", "shut"} /\ Then(b))
      PROVE  Calls'
  BY <1>q, <1>k, PostHas, ThenHas DEF LabelGoes, Calls
<1>n. ~NoPlayer.shown  BY DEF NoPlayer
<1>1. ASSUME RunRing \/ RunCancel \/ RunArm PROVE Calls'
  BY <1>1, <1>k, PostedTypes DEF RunRing, RunCancel, RunArm, screen
<1>2. ASSUME RunWillPlay PROVE Calls'
  <2>1. queue[1] \in [do : Kinds, of : Channels \cup {None}]
    BY <1>2, HeadType DEF RunWillPlay
  <2>2. [queue[1] EXCEPT !.do = "shut"] = [do |-> "shut", of |-> queue[1].of]
    BY <2>1
  <2>3. <<[do |-> "shut", of |-> queue[1].of]>> \in QueueType
    BY <2>1, PostedTypes DEF Kinds
  <2>4. Has("shut", <<[do |-> "shut", of |-> queue[1].of]>>)  BY PostedHas
  <2> QED  BY <1>2, <1>q, <2>2, <2>3, <2>4, ThenHas DEF RunWillPlay, Calls
<1>3. ASSUME RunShut \/ RunLabel \/ Touch \/ Jump \/ TouchAway \/ Leave PROVE FALSE
  BY <1>3, <1>n DEF RunShut, RunLabel, Touch, Jump, Select, TouchAway, Quiet, Leave
<1>4. ASSUME RunPlay PROVE Calls'
  <2>1. player' = player /\ label' = label
    BY <1>4, <1>n DEF RunPlay, NoPlayer, screen
  <2> QED  BY <1>4, <1>k, <2>1, PostedTypes DEF RunPlay
<1>5. ASSUME RunSend PROVE Calls'
  <2>1. UNCHANGED <<player, label>>  BY <1>5, <1>n DEF RunSend, Quiet, screen
  <2>2. Then(<<Block("label")>>) \/ Then(<< >>)  BY <1>5 DEF RunSend
  <2>3. <<Block("label")>> \in QueueType /\ << >> \in QueueType
    BY PostedTypes DEF Kinds
  <2> QED  BY <1>5, <1>k, <2>1, <2>2, <2>3 DEF RunSend
<1>6. ASSUME TimeOut \/ Drop PROVE Calls'
  BY <1>6, <1>k, PostedTypes DEF TimeOut, Drop, screen, Kinds
<1>7. ASSUME Answer PROVE Calls'
  <2>1. tv /\ UNCHANGED <<player, label>>
    BY <1>7, <1>n DEF Answer, Answered, Refused, Quiet, screen
  <2>2. ASSUME NEW u, Answered(u) PROVE Calls'
    BY <1>k, <2>1, <2>2, PostedTypes DEF Answered, Kinds
  <2>3. CASE Refused
    BY <1>k, <2>1, <2>3, PostedTypes DEF Refused, Kinds
  <2> QED  BY <1>7, <2>1, <2>2, <2>3 DEF Answer
<1>8. ASSUME Lose \/ Restore \/ Return \/ UNCHANGED vars PROVE Calls'
  BY <1>8 DEF Lose, Restore, Return, vars, screen, LabelGoes, Calls
<1>9. ASSUME Notice PROVE Calls'
  <2>1. <<[do |-> "willplay", of |-> player.of]>> \in QueueType
    BY PostedTypes DEF Data, Kinds
  <2>2. Has("willplay", <<[do |-> "willplay", of |-> player.of]>>)  BY PostedHas
  <2> QED  BY <1>9, <1>q, <2>1, <2>2, PostHas DEF Notice, Calls
<1>10. ASSUME Judge PROVE FALSE
  BY <1>10 DEF Judge, Quiet
<1> QED
  BY <1>1, <1>2, <1>3, <1>4, <1>5, <1>6, <1>7, <1>8, <1>9, <1>10 DEF Next, RunBlock

-----------------------------------------------------------------------------
(* The theorems.                                                            *)

IInv ==
  /\ TypeOK /\ ChosenFirst /\ AwayIsQuiet
  /\ NoneWhileAway /\ OnTheWay /\ LabelGoes

LEMMA Invariance == Spec => []IInv
<1>1. Init => IInv
  <2> SUFFICES ASSUME Init PROVE IInv  OBVIOUS
  <2>1. ~Has("send", queue)  BY DEF Init, Has
  <2>2. AwayIsQuiet  BY DEF Init, AwayIsQuiet
  <2>3. NoneWhileAway /\ LabelGoes  BY DEF Init, NoneWhileAway, LabelGoes
  <2>4. OnTheWay
    <3>1. ~Has("play", queue) /\ player.of = None /\ asked = << >>
      BY DEF Init, Has, NoPlayer
    <3> QED  BY <3>1 DEF OnTheWay, Going
  <2> QED  BY <2>1, <2>2, <2>3, <2>4, TypeInit DEF IInv, ChosenFirst
<1>2. IInv /\ [Next]_vars => IInv'
  <2> SUFFICES ASSUME IInv, [Next]_vars PROVE IInv'  OBVIOUS
  <2>1. Flags /\ Data /\ Queues /\ ChosenFirst /\ AwayIsQuiet  BY TypeParts DEF IInv
  <2>2. Flags' /\ Data'  BY <2>1, FlagsStep, DataStep
  <2>3. queue' \in QueueType /\ asked' \in Seq(Channels)  BY <2>1, QueueStep, AskedStep
  <2>4. Queues'  BY <2>3 DEF Queues, QueueType
  <2>5. TypeOK'
    BY Zenon, <2>2, <2>4 DEF TypeOK, Flags, Data, Queues, QueueType
  <2>6. NoneWhileAway' /\ OnTheWay' /\ LabelGoes'
    BY <2>1, AskStep, WayStep, LabelStep DEF IInv
  <2> QED  BY <2>1, <2>5, <2>6, ChosenStep, AwayStep DEF IInv
<1> QED  BY <1>1, <1>2, PTL DEF Spec

\* Types hold in every reachable state, for every bound: in particular what is
\* asked of the STB is always a channel that was selected.
THEOREM TypeCorrect == Spec => []TypeOK
<1>1. IInv => TypeOK  BY DEF IInv
<1> QED  BY <1>1, Invariance, PTL

\* However late an answer, a notice of the player or a queued block comes, a page
\* that was left plays nothing, and if its timer is armed a block that stops it is
\* queued.
THEOREM LeavingIsQuiet == Spec => []AwayIsQuiet
<1>1. IInv => AwayIsQuiet  BY DEF IInv
<1> QED  BY <1>1, Invariance, PTL

\* However touches, answers, drops and pages interleave: when nothing is left to
\* run and no answer is on its way, what plays is the channel touched last, under
\* its own number, unless a request was lost.
THEOREM LastTouchPlays == Spec => []SettledPlaysTheChosen
<1>1. IInv => SettledPlaysTheChosen
  <2> SUFFICES ASSUME IInv, Settled, tv, ~lost, player.of # None
               PROVE  player.of = chosen /\ video.id = chosen
    BY DEF SettledPlaysTheChosen
  <2>1. queue = << >> /\ asked = << >> /\ resume = "no"  BY DEF Settled
  <2>2. ~Has("send", queue) /\ ~Has("play", queue) /\ ~Cleared(queue)
    BY <2>1 DEF Has, Cleared
  <2>3. Going  BY <2>1, <2>2 DEF IInv, OnTheWay
  <2> QED  BY <2>1, <2>2, <2>3 DEF Going
<1> QED  BY <1>1, Invariance, PTL

\* Whatever raised the notice, it is gone once the blocks have run if there is a
\* picture.
THEOREM PictureTakesNoticeAway == Spec => []NoLabelOverPicture
<1>1. IInv => NoLabelOverPicture
  <2> SUFFICES ASSUME IInv, queue = << >> PROVE ~(label /\ player.shown)
    BY DEF NoLabelOverPicture
  <2>1. ~Has("willplay", queue) /\ ~Has("shut", queue)  BY DEF Has
  <2> QED  BY <2>1 DEF IInv, LabelGoes
<1> QED  BY <1>1, Invariance, PTL

===============================================================================
