-------------------------- MODULE OnlineGameProofs --------------------------
(***************************************************************************)
(* What holds of OnlineGame whatever the network does, the number of       *)
(* players and the bounds.                                                 *)
(***************************************************************************)
EXTENDS OnlineGame, SequenceTheorems, FiniteSetTheorems, TLAPS

\* What has been proved of the server, when it is this one.
ServerProofs == INSTANCE GameServiceProofs WITH Updates <- {}

-----------------------------------------------------------------------------
(* The server of the game is the one of GameServiceProofs, and the contest *)
(* of the clients is the one of the server: the definitions are the same.  *)

\* The sets of the server have the same cardinality here.
LEMMA SameSets ==
  \A S : /\ Server!Cardinality(S) = Cardinality(S)
         /\ ServerProofs!Cardinality(S) = Cardinality(S)
         /\ ServerProofs!IsFiniteSet(S) <=> IsFiniteSet(S)
<1>1. \A S : Server!Cardinality(S) = Cardinality(S)
  BY DEF Server!Cardinality, Cardinality
<1>2. \A S : ServerProofs!Cardinality(S) = Cardinality(S)
  BY DEF ServerProofs!Cardinality, Cardinality
<1>3. \A S : ServerProofs!IsFiniteSet(S) <=> IsFiniteSet(S)
  BY DEF ServerProofs!IsFiniteSet, IsFiniteSet
<1> QED BY <1>1, <1>2, <1>3

\* The constants of the game are what the proofs about the server assume.
LEMMA Constants == ServerProofs!ContestConstants /\ ServerProofs!ServiceConstants
<1>1. ServerProofs!ServiceConstants
  BY ServerAssumption, SameSets
  DEF Server!ServiceConstants, ServerProofs!ServiceConstants,
      Server!ClientUpdate, ServerProofs!ClientUpdate
<1>2. ServerProofs!ContestConstants
  BY ContestAssumption, SameSets DEF ContestConstants, ServerProofs!ContestConstants
<1> QED BY <1>1, <1>2

\* The result of a contest.
LEMMA SameResult ==
  ASSUME NEW h
  PROVE  Server!Result(h) = ServerProofs!Result(h)
<1> DEFINE here == {p \in Players : Server!Present(h, p)}
           there == {p \in Players : ServerProofs!Present(h, p)}
<1>1. \A p : Server!Present(h, p) <=> ServerProofs!Present(h, p)
  BY DEF Server!Present, ServerProofs!Present
<1>2. \A p : Server!Dying(h, p) <=> ServerProofs!Dying(h, p)
  BY DEF Server!Dying, ServerProofs!Dying
<1>3. here = there
  BY <1>1
<1>4. Server!Result(h) = IF \E p \in here : Server!Dying(h, p) THEN Running
                         ELSE IF here = {} THEN Draw
                         ELSE IF Server!Cardinality(here) = 1
                         THEN CHOOSE p \in here : TRUE
                         ELSE IF Len(h) >= TimeLimit THEN Draw
                         ELSE Running
  BY DEF Server!Result
<1>5. ServerProofs!Result(h) = IF \E p \in there : ServerProofs!Dying(h, p) THEN Running
                               ELSE IF there = {} THEN Draw
                               ELSE IF ServerProofs!Cardinality(there) = 1
                               THEN CHOOSE p \in there : TRUE
                               ELSE IF Len(h) >= TimeLimit THEN Draw
                               ELSE Running
  BY DEF ServerProofs!Result
<1> HIDE DEF here, there
<1> QED BY <1>2, <1>3, <1>4, <1>5, SameSets

\* The ticks of a contest, for the server and for the clients.
LEMMA SameAdvance ==
  ASSUME NEW h, NEW n, NEW acts
  PROVE  /\ Server!Advance(h, n, acts) = ServerProofs!Advance(h, n, acts)
         /\ Client!Advance(h, n, acts) = ServerProofs!Advance(h, n, acts)
         /\ \A i : Client!Applied(h, acts, i) = ServerProofs!Applied(h, acts, i)
<1>1. \A p : Server!Present(h, p) <=> ServerProofs!Present(h, p)
  BY DEF Server!Present, ServerProofs!Present
<1>2. \A p : Client!Present(h, p) <=> ServerProofs!Present(h, p)
  BY DEF Client!Present, ServerProofs!Present
<1>3. \A i : Server!Applied(h, acts, i) = ServerProofs!Applied(h, acts, i)
  BY <1>1 DEF Server!Applied, ServerProofs!Applied
<1>4. \A i : Client!Applied(h, acts, i) = ServerProofs!Applied(h, acts, i)
  BY <1>2 DEF Client!Applied, ServerProofs!Applied
<1>5. Server!Advance(h, n, acts) = ServerProofs!Advance(h, n, acts)
  BY <1>3 DEF Server!Advance, ServerProofs!Advance
<1>6. Client!Advance(h, n, acts) = ServerProofs!Advance(h, n, acts)
  BY <1>4 DEF Client!Advance, ServerProofs!Advance
<1> QED BY <1>4, <1>5, <1>6

\* game::update.
LEMMA SameUpdate ==
  ASSUME NEW queued, NEW known, NEW n, NEW d
  PROVE  Server!Update(queued, known, n, d) <=> ServerProofs!Update(queued, known, n, d)
<1>1. \A q, k : Server!Thoughts(q, k) = ServerProofs!Thoughts(q, k)
  BY DEF Server!Thoughts, ServerProofs!Thoughts, Server!Smaller, ServerProofs!Smaller
<1>2. Server!SealedActions(n, queued) = ServerProofs!SealedActions(n, queued)
  BY <1>1 DEF Server!SealedActions, ServerProofs!SealedActions
<1>4. Server!WithThoughts(n, queued) = ServerProofs!WithThoughts(n, queued)
  BY <1>1 DEF Server!WithThoughts, ServerProofs!WithThoughts
<1>3. \A h : Server!ConcludeContest(h) <=> ServerProofs!ConcludeContest(h)
  BY SameResult DEF Server!ConcludeContest, ServerProofs!ConcludeContest
<1>5. \A acts : Server!Advance(contest, n, acts)
                 = ServerProofs!Advance(contest, n, acts)
  BY SameAdvance
<1> QED
  BY <1>2, <1>3, <1>4, <1>5
  DEF Server!Update, ServerProofs!Update, Server!Checksum, ServerProofs!Checksum,
      Server!Without, ServerProofs!Without

\* Who is kicked out, and what is reported of it.
LEMMA SameKickOut ==
  /\ \A left, tick :
       Server!Desynchronized(left, tick) = ServerProofs!Desynchronized(left, tick)
  /\ \A players : Server!KickOut(players) <=> ServerProofs!KickOut(players)
  /\ \A players, event :
       Server!Report(karma, players, event) = ServerProofs!Report(karma, players, event)
<1>1. \A players, event :
        Server!Report(karma, players, event) = ServerProofs!Report(karma, players, event)
  BY DEF Server!Report, ServerProofs!Report
<1>2. \A left : Server!Silent(left) = ServerProofs!Silent(left)
  BY DEF Server!Silent, ServerProofs!Silent, Server!Humans, ServerProofs!Humans
<1>3. \A playing, tick :
        Server!OutOfPace(playing, tick) = ServerProofs!OutOfPace(playing, tick)
  BY SameSets DEF Server!OutOfPace, ServerProofs!OutOfPace
<1>4. \A left, tick :
        Server!Desynchronized(left, tick) = ServerProofs!Desynchronized(left, tick)
  BY <1>2, <1>3 DEF Server!Desynchronized, ServerProofs!Desynchronized,
                    Server!Humans, ServerProofs!Humans
<1> QED BY <1>1, <1>4 DEF Server!KickOut, ServerProofs!KickOut

\* What follows game::update.
LEMMA SameConclusion ==
  \A n : Server!Conclude(n) <=> ServerProofs!Conclude(n)
<1>1. \A winner : Server!Rewards(winner) = ServerProofs!Rewards(winner)
  BY DEF Server!Rewards, ServerProofs!Rewards
<1>2. \A winner, tick : Server!Verdicts(winner, tick) = ServerProofs!Verdicts(winner, tick)
  BY SameKickOut DEF Server!Verdicts, ServerProofs!Verdicts,
                     Server!Humans, ServerProofs!Humans
<1> QED BY <1>1, <1>2, SameKickOut DEF Server!Conclude, ServerProofs!Conclude

\* What is made of an update received.
LEMMA SameQueue ==
  ASSUME NEW p, NEW m
  PROVE  /\ Server!Discarded(p, m) <=> ServerProofs!Discarded(p, m)
         /\ Server!QueuedActions(p, m) = ServerProofs!QueuedActions(p, m)
         /\ Server!ConfirmedTicks(p, m) = ServerProofs!ConfirmedTicks(p, m)
BY DEF Server!Discarded, ServerProofs!Discarded,
       Server!QueuedActions, ServerProofs!QueuedActions,
       Server!ConfirmedTicks, ServerProofs!ConfirmedTicks,
       Server!BringsActions, ServerProofs!BringsActions,
       Server!PlayerTick, ServerProofs!PlayerTick

\* The handlers of the server.
LEMMA SameHandlers ==
  ASSUME NEW p, NEW m
  PROVE  /\ Server!Init <=> ServerProofs!Init
         /\ Server!Tick <=> ServerProofs!Tick
         /\ Server!MarkAsReady(p) <=> ServerProofs!MarkAsReady(p)
         /\ Server!KickForChecksum(p, m) <=> ServerProofs!KickForChecksum(p, m)
         /\ Server!AcceptUpdate(p, m) <=> ServerProofs!AcceptUpdate(p, m)
<1>1. Server!Init <=> ServerProofs!Init
  BY DEF Server!Init, ServerProofs!Init, Server!Humans, ServerProofs!Humans,
         Server!Checksum, ServerProofs!Checksum
<1>2. Server!Tick <=> ServerProofs!Tick
  BY DEF Server!Tick, ServerProofs!Tick, Server!Humans, ServerProofs!Humans,
         Server!simulation, ServerProofs!simulation
<1>3. Server!MarkAsReady(p) <=> ServerProofs!MarkAsReady(p)
  BY SameKickOut
  DEF Server!MarkAsReady, ServerProofs!MarkAsReady, Server!PlayerTick,
      ServerProofs!PlayerTick, Server!simulation, ServerProofs!simulation
<1>4. Server!ChecksumMismatch(m) <=> ServerProofs!ChecksumMismatch(m)
  BY DEF Server!ChecksumMismatch, ServerProofs!ChecksumMismatch
<1>5. Server!KickForChecksum(p, m) <=> ServerProofs!KickForChecksum(p, m)
  BY <1>4, SameQueue, SameKickOut
  DEF Server!KickForChecksum, ServerProofs!KickForChecksum,
      Server!simulation, ServerProofs!simulation
<1>6. \A queued, known :
        /\ Server!ToSimulation(queued) = ServerProofs!ToSimulation(queued)
        /\ Server!ToAll(known) = ServerProofs!ToAll(known)
  BY DEF Server!ToSimulation, ServerProofs!ToSimulation, Server!ToAll,
         ServerProofs!ToAll, Server!Humans, ServerProofs!Humans
<1>7. Server!AcceptUpdate(p, m) <=> ServerProofs!AcceptUpdate(p, m)
  BY <1>4, <1>6, SameQueue, SameUpdate, SameConclusion
  DEF Server!AcceptUpdate, ServerProofs!AcceptUpdate
<1> QED BY <1>1, <1>2, <1>3, <1>5, <1>7

\* The answers of the server.
LEMMA SameReply ==
  ASSUME NEW p
  PROVE  /\ Server!ActionsMessage(p)' = ServerProofs!ActionsMessage(p)'
         /\ Server!Reply(p)' = IF result' # Running /\ gameOverTick' <= completed'[p]
                               THEN Server!GameOverMessage(p)'
                               ELSE Server!ActionsMessage(p)'
         /\ Server!GameOverMessage(p)' = [type |-> "game_over", winner |-> result',
                                          reward |-> reward'[p]]
BY DEF Server!Reply, Server!GameOverMessage, Server!ActionsMessage,
       ServerProofs!ActionsMessage, Server!Smaller, ServerProofs!Smaller

-----------------------------------------------------------------------------
(* Sequences of ticks.                                                     *)

\* The types of the components are the ones of Contest.
LEMMA SameTypes ==
  /\ Action = Nat /\ Client!Action = Nat /\ ServerProofs!Action = Nat
  /\ Client!History = History /\ ServerProofs!History = History
BY DEF Action, Client!Action, ServerProofs!Action, History, Client!History,
       ServerProofs!History, Entry, Client!Entry, ServerProofs!Entry

\* The ticks from a to b, b not included: the actions done at these ticks.
Ticks(a, b) == [i \in 1..b - a |-> a + i - 1]

\* The ticks from a to b are numbers, in order, b - a of them.
LEMMA TicksType ==
  ASSUME NEW a \in Nat, NEW b \in Nat, a <= b
  PROVE  /\ Ticks(a, b) \in Seq(Nat) /\ Len(Ticks(a, b)) = b - a
         /\ \A i \in 1..b - a : Ticks(a, b)[i] = a + i - 1
<1>1. b - a \in Nat /\ \A i \in 1..b - a : a + i - 1 \in Nat
  OBVIOUS
<1> DEFINE size == b - a
<1>2. [i \in 1..size |-> a + i - 1] \in [1..size -> Nat]
  BY <1>1
<1> HIDE DEF size
<1>3. size \in Nat
  BY <1>1 DEF size
<1>4. Ticks(a, b) \in [1..size -> Nat]
  BY <1>2 DEF Ticks, size
<1>5. Ticks(a, b) \in Seq(Nat) /\ Len(Ticks(a, b)) = size
  BY <1>3, <1>4, SeqDef
<1>6. \A i \in 1..b - a : Ticks(a, b)[i] = a + i - 1
  BY DEF Ticks
<1> QED BY <1>5, <1>6 DEF size

\* A sequence is the ticks from a to b when its elements are.
LEMMA IsTicks ==
  ASSUME NEW a \in Nat, NEW b \in Nat, a <= b, NEW s \in Seq(Nat),
         Len(s) = b - a, \A i \in 1..b - a : s[i] = a + i - 1
  PROVE  s = Ticks(a, b)
<1>1. /\ Ticks(a, b) \in Seq(Nat) /\ Len(Ticks(a, b)) = b - a
      /\ \A i \in 1..b - a : Ticks(a, b)[i] = a + i - 1
  BY TicksType
<1> QED BY <1>1, SeqEqual

\* Part of a sequence whose indices are all in it.
LEMMA CutType ==
  ASSUME NEW S, NEW s \in Seq(S), NEW a \in Nat \ {0}, NEW b \in Int, b <= Len(s)
  PROVE  /\ SubSeq(s, a, b) \in Seq(S)
         /\ Len(SubSeq(s, a, b)) = IF a <= b THEN b - a + 1 ELSE 0
         /\ \A i \in 1..b - a + 1 : SubSeq(s, a, b)[i] = s[a + i - 1]
<1>1. \A i \in a..b : s[i] \in S
  BY ElementOfSeq
<1> QED BY <1>1, SubSeqProperties

\* The ticks from a to b, cut.
LEMMA TicksCut ==
  ASSUME NEW a \in Nat, NEW b \in Nat, a <= b,
         NEW n \in Nat, NEW c \in Nat, a + n <= c, c <= b
  PROVE  SubSeq(Ticks(a, b), n + 1, c - a) = Ticks(a + n, c)
<1> DEFINE s == Ticks(a, b)
           size == Len(s)
           last == c - a
           cut == SubSeq(s, n + 1, last)
<1>1. /\ s \in Seq(Nat) /\ size = b - a
      /\ \A i \in 1..b - a : s[i] = a + i - 1
  BY TicksType
<1>2. last \in Nat /\ n + 1 \in Nat \ {0} /\ last <= size /\ last = c - a
  <2> HIDE DEF size
  <2> QED BY <1>1
<1> HIDE DEF s, last
<1>3. /\ cut \in Seq(Nat)
      /\ Len(cut) = IF n + 1 <= last THEN last - (n + 1) + 1 ELSE 0
      /\ \A i \in 1..last - (n + 1) + 1 : cut[i] = s[n + 1 + i - 1]
  BY <1>1, <1>2, CutType
<1> HIDE DEF cut, size
<1>4. Len(cut) = c - (a + n)
  <2>1. (IF n + 1 <= last THEN last - (n + 1) + 1 ELSE 0) = c - (a + n)
    BY <1>2
  <2> QED BY <1>3, <2>1
<1>5. ASSUME NEW i \in 1..c - (a + n)
      PROVE  cut[i] = (a + n) + i - 1
  <2>1. i \in 1..last - (n + 1) + 1 /\ n + 1 + i - 1 \in 1..b - a
    BY <1>2
  <2>2. a + (n + 1 + i - 1) - 1 = (a + n) + i - 1
    OBVIOUS
  <2> QED BY <1>1, <1>3, <2>1, <2>2
<1>6. a + n \in Nat
  OBVIOUS
<1>7. cut = Ticks(a + n, c)
  BY <1>3, <1>4, <1>5, <1>6, IsTicks
<1> QED BY <1>7 DEF cut, s, last

\* What remains of ticks when the first ones are erased.
LEMMA TicksErased ==
  ASSUME NEW a \in Nat, NEW b \in Nat, NEW n \in Nat, a + n <= b
  PROVE  Client!Erased(Ticks(a, b), n) = Ticks(a + n, b)
<1>1. Len(Ticks(a, b)) = b - a
  BY TicksType
<1>2. a <= b /\ b <= b
  OBVIOUS
<1>3. SubSeq(Ticks(a, b), n + 1, b - a) = Ticks(a + n, b)
  BY <1>2, TicksCut
<1> QED BY <1>1, <1>3 DEF Client!Erased

Least(a, b) == IF a <= b THEN a ELSE b

\* At most the first n of them.
LEMMA TicksFirst ==
  ASSUME NEW a \in Nat, NEW b \in Nat, a <= b, NEW n \in Nat
  PROVE  Client!FirstOf(Ticks(a, b), n) = Ticks(a, Least(a + n, b))
<1> DEFINE s == Ticks(a, b)
           last == IF n <= b - a THEN n ELSE b - a
           cut == SubSeq(s, 1, last)
           c == Least(a + n, b)
<1>1. /\ s \in Seq(Nat) /\ Len(s) = b - a
      /\ \A i \in 1..b - a : s[i] = a + i - 1
  BY TicksType
<1>2. Client!FirstOf(s, n) = cut
  BY <1>1 DEF Client!FirstOf
<1>3. /\ c \in Nat /\ a <= c /\ c <= b
      /\ last \in Nat /\ last = c - a /\ last <= b - a
  BY DEF Least
<1> HIDE DEF s, last, c
<1>4. /\ cut \in Seq(Nat)
      /\ Len(cut) = IF 1 <= last THEN last - 1 + 1 ELSE 0
      /\ \A i \in 1..last - 1 + 1 : cut[i] = s[1 + i - 1]
  BY <1>1, <1>3, CutType
<1> HIDE DEF cut
<1>5. Len(cut) = c - a
  <2>1. (IF 1 <= last THEN last - 1 + 1 ELSE 0) = last
    BY <1>3
  <2> QED BY <1>3, <1>4, <2>1
<1>6. ASSUME NEW i \in 1..c - a
      PROVE  cut[i] = a + i - 1
  <2>1. i \in 1..last - 1 + 1 /\ 1 + i - 1 = i /\ i \in 1..b - a
    BY <1>3
  <2> QED BY <1>1, <1>4, <2>1
<1>7. cut = Ticks(a, c)
  BY <1>3, <1>4, <1>5, <1>6, IsTicks
<1> QED BY <1>2, <1>7 DEF s, c

\* The ticks from a to b, then those from b to c.
LEMMA TicksConcat ==
  ASSUME NEW a \in Nat, NEW b \in Nat, NEW c \in Nat, a <= b, b <= c
  PROVE  Ticks(a, b) \o Ticks(b, c) = Ticks(a, c)
<1> DEFINE s == Ticks(a, b)
           t == Ticks(b, c)
           all == s \o t
<1>1. /\ s \in Seq(Nat) /\ Len(s) = b - a
      /\ \A i \in 1..b - a : s[i] = a + i - 1
      /\ t \in Seq(Nat) /\ Len(t) = c - b
      /\ \A i \in 1..c - b : t[i] = b + i - 1
  BY TicksType
<1> HIDE DEF s, t
<1>2. /\ all \in Seq(Nat) /\ Len(all) = Len(s) + Len(t)
      /\ \A i \in 1..Len(s) + Len(t) :
           all[i] = IF i <= Len(s) THEN s[i] ELSE t[i - Len(s)]
  BY <1>1, ConcatProperties
<1> HIDE DEF all
<1>3. Len(all) = c - a
  BY <1>1, <1>2
<1>4. ASSUME NEW i \in 1..c - a
      PROVE  all[i] = a + i - 1
  <2>1. all[i] = IF i <= b - a THEN s[i] ELSE t[i - (b - a)]
    BY <1>1, <1>2
  <2>2. CASE i <= b - a
    BY <1>1, <2>1, <2>2
  <2>3. CASE ~(i <= b - a)
    <3>1. i - (b - a) \in 1..c - b /\ b + (i - (b - a)) - 1 = a + i - 1
      BY <2>3
    <3> QED BY <1>1, <2>1, <2>3, <3>1
  <2> QED BY <2>2, <2>3
<1>5. all = Ticks(a, c)
  BY <1>2, <1>3, <1>4, IsTicks, SMTT(30)
<1> QED BY <1>5 DEF all, s, t

\* What push does to an update which has the first ticks of s.
Filled(s, t, n) ==
  Client!FirstOf(s, n) \o Client!FirstOf(t, n - Len(Client!FirstOf(s, n)))

\* It has then as many of the ticks as it can.
LEMMA TicksPushed ==
  ASSUME NEW a \in Nat, NEW b \in Nat, NEW c \in Nat, a <= b, b <= c,
         NEW n \in Nat
  PROVE  Filled(Ticks(a, b), Ticks(b, c), n) = Client!FirstOf(Ticks(a, c), n)
<1> DEFINE first == Client!FirstOf(Ticks(a, b), n)
           middle == Least(a + n, b)
           room == n - (middle - a)
           last == Least(a + n, c)
<1>1. first = Ticks(a, middle) /\ Client!FirstOf(Ticks(a, c), n) = Ticks(a, last)
  <2>1. a <= c
    OBVIOUS
  <2> QED BY <2>1, TicksFirst
<1>2. /\ middle \in Nat /\ a <= middle /\ last \in Nat /\ a <= last
      /\ middle <= a + n
  BY DEF Least
<1>3. room \in Nat
  <2> HIDE DEF middle
  <2> QED BY <1>2
<1>4. \/ middle = b /\ Least(b + room, c) = last
      \/ middle = last /\ room = 0
  <2>1. CASE a + n <= b
    <3>1. middle = a + n /\ last = a + n
      BY <2>1 DEF Least
    <3> QED BY <3>1
  <2>2. CASE ~(a + n <= b)
    <3>1. middle = b
      BY <2>2 DEF Least
    <3>2. room = n - (b - a)
      BY <3>1
    <3> HIDE DEF room
    <3>3. b + room = a + n
      BY <3>2
    <3> QED BY <3>1, <3>3
  <2> QED BY <2>1, <2>2
<1>7. Len(first) = middle - a
  <2> HIDE DEF middle, last
  <2> QED BY <1>1, <1>2, TicksType
<1> HIDE DEF first, middle, last
<1>8. n - Len(first) = room
  BY <1>7
<1> HIDE DEF room
<1> DEFINE rest == Client!FirstOf(Ticks(b, c), n - Len(first))
           full == Client!FirstOf(Ticks(a, c), n)
<1>9. rest = Ticks(b, Least(b + room, c)) /\ full = Ticks(a, last)
  BY <1>1, <1>3, <1>8, TicksFirst
<1> HIDE DEF rest, full
<1>5. CASE middle = b /\ Least(b + room, c) = last
  <2>1. b <= last
    BY <1>3, <1>5 DEF Least
  <2>2. Ticks(a, b) \o Ticks(b, last) = Ticks(a, last)
    BY <1>2, <2>1, TicksConcat
  <2>3. first \o rest = full
    BY <1>1, <1>5, <1>9, <2>2
  <2> QED BY <2>3 DEF first, rest, full, Filled
<1>6. CASE middle = last /\ room = 0
  <2>1. Least(b + room, c) = b
    BY <1>6 DEF Least
  <2>2. Ticks(b, b) \in Seq(Nat) /\ Len(Ticks(b, b)) = 0
    <3>1. b <= b /\ b - b = 0
      OBVIOUS
    <3> QED BY <3>1, TicksType
  <2>3. rest = <<>>
    BY <1>9, <2>1, <2>2, EmptySeq
  <2>4. first \in Seq(Nat)
    BY <1>1, <1>2, TicksType
  <2>5. first \o rest = full
    BY <1>1, <1>6, <1>9, <2>3, <2>4, ConcatEmptySeq
  <2> QED BY <2>5 DEF first, rest, full, Filled
<1> QED BY <1>4, <1>5, <1>6

-----------------------------------------------------------------------------
(* The log of the server, and what is told of it.                          *)

WellFormed(log) == ServerProofs!WellFormed(log)

\* t is s, and possibly more.
Extends(s, t) == Len(s) <= Len(t) /\ \A i \in 1..Len(s) : t[i] = s[i]

\* Nobody is kicked out in the first n ticks of the log.
NobodyKickedIn(log, n) == \A u \in 1..n, q \in Players : log[u][q] # Kicked

\* A client in the state h is where the server was after as many ticks of its
\* log, but for what follows a kick.
Agrees(h, log) ==
  /\ Len(h) <= Len(log)
  /\ \A t \in 1..Len(h) : NobodyKickedIn(log, t) => h[t] = log[t]

\* The actions acts, told to p who has played tick ticks, are what the server
\* has applied since the tick from; nobody has more of them than p.
Sealed(p, from, acts, log, tick) ==
  /\ \A q \in Players : Len(acts[q]) <= Len(acts[p])
  /\ from + Len(acts[p]) <= Len(log)
  /\ from + Len(acts[p]) <= tick
  /\ \A q \in Players : \A i \in 1..Len(acts[p]) :
       log[from + i][q] \in Action =>
         i \in 1..Len(acts[q]) /\ acts[q][i] = log[from + i][q]

\* The count of ticks in a message is the count of those of its addressee, when
\* nobody has more.
LEMMA TickCountIs ==
  ASSUME NEW acts \in [Players -> Seq(Nat)], NEW p \in Players,
         \A q \in Players : Len(acts[q]) <= Len(acts[p])
  PROVE  Client!TickCount(acts) = Len(acts[p])
<1> DEFINE n == Len(acts[p])
           lengths == {Len(acts[q]) : q \in Players}
           Longest(k) == \A q \in Players : Len(acts[q]) <= k
<1>1. \A k \in lengths : k \in Nat
  BY LenProperties
<1>2. n \in lengths /\ Longest(n)
  OBVIOUS
<1>3. \A k \in lengths : Longest(k) => n <= k
  OBVIOUS
<1>4. \A k \in lengths : k <= n
  OBVIOUS
<1>5. Client!TickCount(acts) = CHOOSE k \in lengths : Longest(k)
  BY DEF Client!TickCount
<1> HIDE DEF lengths, n, Longest
<1>6. PICK m : m \in lengths /\ Longest(m) /\ m = CHOOSE k \in lengths : Longest(k)
  BY <1>2
<1>7. m = n
  BY <1>1, <1>2, <1>3, <1>4, <1>6
<1> QED BY <1>5, <1>6, <1>7 DEF n

\* An action is applied to a player who had one at each tick before.
LEMMA ActionsAreContiguous ==
  ASSUME NEW log \in History, WellFormed(log), NEW q \in Players,
         NEW t \in 1..Len(log), NEW u \in 1..t, log[t][q] \in Action
  PROVE  log[u][q] \in Action
<1>1. /\ Len(log) \in Nat /\ t \in Nat /\ u \in Nat /\ u <= t
      /\ u \in 1..Len(log) /\ DeathTick[q] \in Nat
  BY LenProperties, ContestAssumption DEF History, ContestConstants
<1>2. Kicked \notin Action /\ Gone \notin Action
  BY ContestAssumption DEF ContestConstants, Action
<1>3. \A v \in 1..Len(log) : log[v][q] = Gone
        <=> v - 1 > DeathTick[q] \/ \E w \in 1..v - 1 : log[w][q] = Kicked
  BY DEF WellFormed, ServerProofs!WellFormed
<1>4. ~(t - 1 > DeathTick[q]) /\ \A w \in 1..t - 1 : log[w][q] # Kicked
  BY <1>2, <1>3
<1>5. CASE u = t
  BY <1>5
<1>6. CASE u # t
  <2>1. u \in 1..t - 1 /\ ~(u - 1 > DeathTick[q]) /\ \A w \in 1..u - 1 : w \in 1..t - 1
    BY <1>1, <1>4, <1>6
  <2>2. log[u][q] # Kicked /\ log[u][q] # Gone
    BY <1>1, <1>3, <1>4, <2>1
  <2>3. log[u] \in [Players -> Entry]
    BY <1>1, ElementOfSeq DEF History
  <2> QED BY <2>2, <2>3 DEF Entry
<1> QED BY <1>5, <1>6

\* The actions of each player in two messages.
Joined(acts, more) == [q \in Players |-> acts[q] \o more[q]]

\* What is told in two messages in a row is what would be told in one.
LEMMA SealedConcat ==
  ASSUME NEW p \in Players, NEW from \in Nat, NEW tick \in Nat,
         NEW log \in History, WellFormed(log),
         NEW acts \in [Players -> Seq(Nat)], NEW more \in [Players -> Seq(Nat)],
         Sealed(p, from, acts, log, tick),
         Sealed(p, from + Len(acts[p]), more, log, tick)
  PROVE  /\ Joined(acts, more) \in [Players -> Seq(Nat)]
         /\ Len(Joined(acts, more)[p]) = Len(acts[p]) + Len(more[p])
         /\ Sealed(p, from, Joined(acts, more), log, tick)
<1> DEFINE all == Joined(acts, more)
           n == Len(acts[p])
           k == Len(more[p])
<1>1. /\ n \in Nat /\ k \in Nat /\ Len(log) \in Nat
      /\ \A q \in Players : Len(acts[q]) \in Nat /\ Len(more[q]) \in Nat
  BY LenProperties DEF History
<1>2. ASSUME NEW q \in Players
      PROVE  /\ all[q] \in Seq(Nat)
             /\ Len(all[q]) = Len(acts[q]) + Len(more[q])
             /\ \A i \in 1..Len(acts[q]) + Len(more[q]) :
                  all[q][i] = IF i <= Len(acts[q]) THEN acts[q][i]
                              ELSE more[q][i - Len(acts[q])]
  <2>1. acts[q] \in Seq(Nat) /\ more[q] \in Seq(Nat) /\ all[q] = acts[q] \o more[q]
    BY DEF Joined
  <2> QED BY <2>1, ConcatProperties
<1>3. all \in [Players -> Seq(Nat)]
  BY <1>2 DEF Joined
<1> HIDE DEF all
<1>4. Len(all[p]) = n + k
  BY <1>2
<1>5. /\ \A q \in Players : Len(acts[q]) <= n /\ Len(more[q]) <= k
      /\ from + n <= Len(log) /\ from + n <= tick
      /\ (from + n) + k <= Len(log) /\ (from + n) + k <= tick
      /\ \A q \in Players : \A i \in 1..n :
           log[from + i][q] \in Action =>
             i \in 1..Len(acts[q]) /\ acts[q][i] = log[from + i][q]
      /\ \A q \in Players : \A i \in 1..k :
           log[(from + n) + i][q] \in Action =>
             i \in 1..Len(more[q]) /\ more[q][i] = log[(from + n) + i][q]
  BY DEF Sealed
<1> HIDE DEF n, k
<1>6. ASSUME NEW q \in Players
      PROVE  Len(all[q]) <= n + k
  <2> DEFINE a == Len(acts[q])
             b == Len(more[q])
  <2>1. a \in Nat /\ b \in Nat /\ a <= n /\ b <= k /\ Len(all[q]) = a + b
    BY <1>1, <1>2, <1>5
  <2> HIDE DEF a, b
  <2> QED BY <1>1, <2>1
<1>7. ASSUME NEW q \in Players, NEW i \in 1..n + k, log[from + i][q] \in Action
      PROVE  i \in 1..Len(all[q]) /\ all[q][i] = log[from + i][q]
  <2> DEFINE a == Len(acts[q])
             b == Len(more[q])
             size == Len(log)
  <2>1. /\ a \in Nat /\ b \in Nat /\ a <= n /\ b <= k /\ Len(all[q]) = a + b
        /\ \A j \in 1..a + b : all[q][j] = IF j <= a THEN acts[q][j]
                                           ELSE more[q][j - a]
        /\ size \in Nat /\ (from + n) + k <= size
    BY <1>1, <1>2, <1>5
  <2> HIDE DEF a, b
  <2>2. CASE i <= n
    <3>1. i \in 1..n
      BY <1>1, <2>2
    <3>2. i \in 1..a /\ acts[q][i] = log[from + i][q]
      BY <1>5, <1>7, <3>1 DEF a
    <3>3. i \in 1..a + b /\ i <= a
      BY <2>1, <3>2
    <3>4. all[q][i] = acts[q][i]
      BY <2>1, <3>3
    <3> QED BY <2>1, <3>2, <3>3, <3>4
  <2>3. CASE ~(i <= n)
    <3> DEFINE j == i - n
    <3>1. /\ j \in 1..k /\ (from + n) + j = from + i
          /\ from + i \in 1..size
      <4>1. from \in Nat /\ n \in Nat /\ k \in Nat /\ i \in 1..n + k
        BY <1>1
      <4>2. size \in Nat /\ (from + n) + k <= size
        BY <2>1
      <4> HIDE DEF size
      <4>3. j \in 1..k /\ (from + n) + j = from + i
        BY <2>3, <4>1
      <4>4. from + i \in 1..size
        BY <4>1, <4>2
      <4> QED BY <4>3, <4>4
    <3>2. j \in 1..b /\ more[q][j] = log[from + i][q]
      BY <1>5, <1>7, <3>1 DEF b
    <3>3. a = n
      <4>1. CASE n = 0
        BY <2>1, <4>1
      <4>2. CASE n # 0
        <5>1. n \in 1..n /\ from + n \in 1..from + i
          BY <1>1, <2>3, <4>2
        <5>2. log[from + n][q] \in Action
          BY <1>7, <3>1, <5>1, ActionsAreContiguous DEF size
        <5>3. n \in 1..a
          BY <1>5, <5>1, <5>2 DEF a
        <5> QED BY <1>1, <2>1, <5>3
      <4> QED BY <4>1, <4>2
    <3>4. i \in 1..a + b /\ ~(i <= a) /\ i - a = j
      <4>1. i \in Nat /\ n \in Nat /\ b \in Nat
        BY <1>1, <2>1
      <4>2. i = n + j /\ j \in 1..b
        BY <3>2, <4>1
      <4> HIDE DEF j
      <4>3. i \in 1 .. n + b /\ ~(i <= n) /\ i - n = j
        BY <4>1, <4>2
      <4> QED BY <3>3, <4>3
    <3> HIDE DEF j
    <3> QED BY <2>1, <3>2, <3>4
  <2> QED BY <2>2, <2>3
<1>8. Sealed(p, from, all, log, tick)
  <2>1. from + (n + k) <= Len(log) /\ from + (n + k) <= tick
    <3> DEFINE size == Len(log)
    <3>1. size \in Nat /\ (from + n) + k <= size /\ (from + n) + k <= tick
      BY <1>1, <1>5
    <3> HIDE DEF size
    <3>2. from + (n + k) <= size /\ from + (n + k) <= tick
      BY <1>1, <3>1
    <3> QED BY <3>2 DEF size
  <2> QED BY <1>4, <1>6, <1>7, <2>1 DEF Sealed
<1> QED BY <1>3, <1>4, <1>8 DEF all, n, k

\* The ticks of the clients, as the ones of the server.
LEMMA AdvanceExtends ==
  ASSUME NEW h \in History, NEW n \in Nat,
         NEW acts \in [Players -> Seq(Nat)]
  PROVE  /\ Client!Advance(h, n, acts) \in History
         /\ Len(Client!Advance(h, n, acts)) = Len(h) + n
         /\ \A i \in 1..Len(h) : Client!Advance(h, n, acts)[i] = h[i]
         /\ \A i \in 1..n :
              Client!Advance(h, n, acts)[Len(h) + i] = Client!Applied(h, acts, i)
<1>1. h \in ServerProofs!History /\ acts \in [Players -> Seq(ServerProofs!Action)]
  BY SameTypes
<1>2. /\ ServerProofs!Advance(h, n, acts) \in ServerProofs!History
      /\ Len(ServerProofs!Advance(h, n, acts)) = Len(h) + n
      /\ \A i \in 1..Len(h) : ServerProofs!Advance(h, n, acts)[i] = h[i]
      /\ \A i \in 1..n : ServerProofs!Advance(h, n, acts)[Len(h) + i]
                           = ServerProofs!Applied(h, acts, i)
  BY <1>1, Constants, ServerProofs!AdvanceExtends
<1> QED BY <1>2, SameAdvance, SameTypes

\* A client which replays what it is told is where the server was.
LEMMA Replay ==
  ASSUME NEW p \in Players, NEW tick, NEW log \in History, WellFormed(log),
         NEW h \in History, Agrees(h, log), NEW acts \in [Players -> Seq(Nat)],
         Sealed(p, Len(h), acts, log, tick)
  PROVE  Agrees(Client!Advance(h, Len(acts[p]), acts), log)
<1> DEFINE n == Len(acts[p])
           size == Len(h)
           played == Client!Advance(h, n, acts)
           long == Len(log)
<1>1. /\ n \in Nat /\ size \in Nat /\ long \in Nat
      /\ \A q \in Players : Len(acts[q]) \in Nat
  BY LenProperties DEF History
<1>2. /\ Len(played) = size + n
      /\ \A i \in 1..size : played[i] = h[i]
      /\ \A i \in 1..n : played[size + i] = Client!Applied(h, acts, i)
  BY <1>1, AdvanceExtends
<1>3. /\ size + n <= long
      /\ \A q \in Players : \A i \in 1..n :
           log[size + i][q] \in Action =>
             i \in 1..Len(acts[q]) /\ acts[q][i] = log[size + i][q]
  BY DEF Sealed
<1>4. \A t \in 1..size : NobodyKickedIn(log, t) => h[t] = log[t]
  BY DEF Agrees
<1>5. Kicked \notin Action /\ Gone \notin Action /\ Kicked # Gone
      /\ \A q \in Players : DeathTick[q] \in Nat
  BY ContestAssumption DEF ContestConstants, Action
<1>6. \A t \in 1..long : log[t] \in [Players -> Entry]
  BY ElementOfSeq DEF History
<1>7. \A t \in 1..long, q \in Players :
        log[t][q] = Gone
          <=> t - 1 > DeathTick[q] \/ \E u \in 1..t - 1 : log[u][q] = Kicked
  BY DEF WellFormed, ServerProofs!WellFormed
<1> HIDE DEF n, played, long
<1>8. ASSUME NEW t \in 1..size + n, NobodyKickedIn(log, t)
      PROVE  played[t] = log[t]
  <2>1. CASE t <= size
    <3>1. t \in 1..size
      BY <1>1, <2>1
    <3> QED BY <1>2, <1>4, <1>8, <3>1
  <2>2. CASE ~(t <= size)
    <3> DEFINE i == t - size
    <3>1. /\ i \in 1..n /\ size + i = t /\ t \in 1..long /\ size <= t - 1
          /\ size + i - 1 = t - 1
      BY <1>1, <1>3, <2>2
    <3>2. \A u \in 1..t, q \in Players : log[u][q] # Kicked
      BY <1>8 DEF NobodyKickedIn
    <3>3. \A u \in 1..size : h[u] = log[u]
      <4> SUFFICES ASSUME NEW u \in 1..size PROVE h[u] = log[u]
        OBVIOUS
      <4>1. \A v \in 1..u : v \in 1..t
        BY <1>1, <2>2
      <4>2. NobodyKickedIn(log, u)
        BY <3>2, <4>1 DEF NobodyKickedIn
      <4> QED BY <1>4, <4>2
    <3> HIDE DEF i
    <3>4. ASSUME NEW q \in Players
          PROVE  Client!Applied(h, acts, i)[q] = log[t][q]
      <4>1. /\ t \in 1..t /\ \A u \in 1..t - 1 : u \in 1..t
            /\ \A u \in 1..size : u \in 1..t
        BY <1>1, <3>1
      <4>2. log[t][q] = Gone <=> t - 1 > DeathTick[q]
        <5>1. log[t][q] = Gone
                <=> t - 1 > DeathTick[q] \/ \E u \in 1..t - 1 : log[u][q] = Kicked
          BY <1>7, <3>1
        <5>2. ~\E u \in 1..t - 1 : log[u][q] = Kicked
          BY <3>2, <4>1
        <5> QED BY <5>1, <5>2
      <4>3. CASE t - 1 > DeathTick[q]
        <5>1. Client!Applied(h, acts, i)[q] = Gone
          BY <3>1, <4>3 DEF Client!Applied, size
        <5> QED BY <4>2, <4>3, <5>1
      <4>4. CASE ~(t - 1 > DeathTick[q])
        <5>1. log[t][q] \in Action
          BY <1>6, <3>1, <3>2, <4>1, <4>2, <4>4 DEF Entry
        <5>2. i \in 1..Len(acts[q]) /\ acts[q][i] = log[t][q]
          BY <1>3, <3>1, <5>1
        <5>3. \A u \in DOMAIN h : h[u][q] # Kicked
          <6>1. DOMAIN h = 1..size
            BY LenProperties DEF History, size
          <6> QED BY <3>2, <3>3, <4>1, <6>1
        <5>4. size <= DeathTick[q]
          BY <1>1, <1>5, <3>1, <4>4
        <5>5. Client!Present(h, q)
          BY <5>3, <5>4 DEF Client!Present, size
        <5>6. ~(i > Len(acts[q]) + 1) /\ i # Len(acts[q]) + 1
          BY <1>1, <5>2
        <5>7. ~(size + i - 1 > DeathTick[q])
          BY <3>1, <4>4
        <5> QED BY <5>2, <5>5, <5>6, <5>7 DEF Client!Applied, size
      <4> QED BY <4>3, <4>4
    <3>5. DOMAIN log[t] = Players /\ log[t] = [q \in Players |-> log[t][q]]
      BY <1>6, <3>1
    <3>6. Client!Applied(h, acts, i) = [q \in Players |-> Client!Applied(h, acts, i)[q]]
      BY DEF Client!Applied
    <3>7. Client!Applied(h, acts, i) = log[t]
      BY <3>4, <3>5, <3>6
    <3> QED BY <1>2, <3>1, <3>7
  <2> QED BY <2>1, <2>2
<1>9. size + n <= Len(log)
  BY <1>3 DEF long
<1>10. Agrees(played, log)
  BY <1>2, <1>8, <1>9 DEF Agrees
<1> QED BY <1>10 DEF played, n

\* What the log was is still true of a log which extends it.
LEMMA ExtendsKeeps ==
  ASSUME NEW log \in History, NEW longer \in History, Extends(log, longer)
  PROVE  /\ \A h \in History : Agrees(h, log) => Agrees(h, longer)
         /\ \A k \in Nat : k <= Len(log) => SubSeq(longer, 1, k) = SubSeq(log, 1, k)
         /\ \A p \in Players, from \in Nat, acts \in [Players -> Seq(Nat)],
               tick \in Nat, later \in Nat :
              Sealed(p, from, acts, log, tick) /\ tick <= later
                => Sealed(p, from, acts, longer, later)
<1> DEFINE size == Len(log)
           long == Len(longer)
<1>1. size \in Nat /\ long \in Nat
  BY LenProperties DEF History
<1>2. size <= long /\ \A i \in 1..size : longer[i] = log[i]
  BY DEF Extends
<1> HIDE DEF size, long
<1>3. ASSUME NEW h \in History, Agrees(h, log)
      PROVE  Agrees(h, longer)
  <2>1. Len(h) \in Nat /\ Len(h) <= size
    BY <1>3, LenProperties DEF History, Agrees, size
  <2>2. ASSUME NEW t \in 1..Len(h), NobodyKickedIn(longer, t)
        PROVE  h[t] = longer[t]
    <3>1. t \in 1..size /\ \A u \in 1..t : u \in 1..size
      BY <1>1, <2>1
    <3>2. NobodyKickedIn(log, t)
      BY <1>2, <2>2, <3>1 DEF NobodyKickedIn
    <3>3. h[t] = log[t]
      BY <1>3, <2>2, <3>2 DEF Agrees
    <3> QED BY <1>2, <3>1, <3>3
  <2>3. Len(h) <= long
    BY <1>1, <1>2, <2>1
  <2> QED BY <2>2, <2>3 DEF Agrees, long
<1>4. ASSUME NEW k \in Nat, k <= size
      PROVE  SubSeq(longer, 1, k) = SubSeq(log, 1, k)
  <2>1. k <= long
    BY <1>1, <1>2, <1>4
  <2>2. /\ log \in Seq([Players -> Entry]) /\ longer \in Seq([Players -> Entry])
        /\ 1 \in Nat \ {0} /\ k \in Int
    BY DEF History
  <2>3. /\ SubSeq(log, 1, k) \in Seq([Players -> Entry])
        /\ Len(SubSeq(log, 1, k)) = IF 1 <= k THEN k - 1 + 1 ELSE 0
        /\ \A i \in 1..k - 1 + 1 : SubSeq(log, 1, k)[i] = log[1 + i - 1]
    BY <1>4, <2>2, CutType DEF size
  <2>4. /\ SubSeq(longer, 1, k) \in Seq([Players -> Entry])
        /\ Len(SubSeq(longer, 1, k)) = IF 1 <= k THEN k - 1 + 1 ELSE 0
        /\ \A i \in 1..k - 1 + 1 : SubSeq(longer, 1, k)[i] = longer[1 + i - 1]
    BY <2>1, <2>2, CutType DEF long
  <2> DEFINE s == SubSeq(log, 1, k)
             t == SubSeq(longer, 1, k)
  <2> HIDE DEF s, t
  <2>5. (IF 1 <= k THEN k - 1 + 1 ELSE 0) = k
    OBVIOUS
  <2>6. ASSUME NEW i \in 1..k
        PROVE  s[i] = t[i]
    <3>1. i \in 1..k - 1 + 1 /\ 1 + i - 1 = i /\ i \in 1..size
      BY <1>1, <1>4
    <3> QED BY <1>2, <2>3, <2>4, <3>1 DEF s, t
  <2>7. /\ s \in Seq([Players -> Entry]) /\ t \in Seq([Players -> Entry])
        /\ Len(s) = k /\ Len(t) = k
    BY <2>3, <2>4, <2>5 DEF s, t
  <2> QED BY <2>6, <2>7, SeqEqual DEF s, t
<1>5. ASSUME NEW p \in Players, NEW from \in Nat, NEW acts \in [Players -> Seq(Nat)],
             NEW tick \in Nat, NEW later \in Nat,
             Sealed(p, from, acts, log, tick), tick <= later
      PROVE  Sealed(p, from, acts, longer, later)
  <2> DEFINE n == Len(acts[p])
  <2>1. n \in Nat
    BY LenProperties
  <2>2. /\ \A q \in Players : Len(acts[q]) <= n
        /\ from + n <= size /\ from + n <= tick
        /\ \A q \in Players : \A i \in 1..n :
             log[from + i][q] \in Action =>
               i \in 1..Len(acts[q]) /\ acts[q][i] = log[from + i][q]
    BY <1>5 DEF Sealed, size
  <2> HIDE DEF n
  <2>3. from + n <= long /\ from + n <= later
    BY <1>1, <1>2, <1>5, <2>1, <2>2
  <2>4. \A i \in 1..n : longer[from + i] = log[from + i]
    <3>1. \A i \in 1..n : from + i \in 1..size
      BY <1>1, <2>1, <2>2
    <3> QED BY <1>2, <3>1
  <2>5. \A q \in Players : \A i \in 1..n :
          longer[from + i][q] \in Action =>
            i \in 1..Len(acts[q]) /\ acts[q][i] = longer[from + i][q]
    BY <2>2, <2>4
  <2> QED BY <2>2, <2>3, <2>5 DEF Sealed, n, long
<1> QED BY <1>3, <1>4, <1>5 DEF size

-----------------------------------------------------------------------------
(* The inductive invariant.                                                *)

NamedByTick(acts, from) == ServerProofs!NamedByTick(acts, from)

\* An update sent by a client who has played tick ticks, whose state h has been
\* confirmed and who waits for the confirmations of the ticks from.
Sent(m, from, h, tick) ==
  /\ m.from <= from
  /\ m.from + Len(m.actions) <= tick
  /\ NamedByTick(m.actions, m.from)
  /\ m.checksumTick <= Len(h)
  /\ m.checksum = SubSeq(h, 1, m.checksumTick)

Start == [type : {"start"}]
Confirmation == [type          : {"game_update"},
                 from          : Nat,
                 finalChecksum : History,
                 actions       : [Players -> Seq(Nat)]]
GameOver == [type   : {"game_over"},
             winner : Players \cup {Running, Draw},
             reward : {"unset", "none", "draw", "victory", "defeat"}]

NetworkTypeOK ==
  /\ toServer \in [Clients -> SUBSET (Client!GameUpdate \cup {Client!Ready})]
  /\ toClient \in [Clients -> SUBSET (Start \cup Confirmation \cup GameOver)]

\* The tick confirmed by the server, as far as p knows.
Received(p) == Len(confirmed[p]) + Len(serverActions[p][p])

\* The ticks waiting for a confirmation.
QueuesInv(p) ==
  /\ Received(p) <= localTick[p]
  /\ update[p].from = Received(p)
  /\ queue[p] = Ticks(Received(p), localTick[p])
  /\ unconfirmed[p] = Ticks(Len(confirmed[p]), localTick[p])
  /\ update[p].actions = Client!FirstOf(queue[p], MaxTicksInUpdate)
  /\ phase[p] \in {"idle", "start"} => update[p] = Client!NoUpdate

\* What the updates of a client say, and the one it will send next.
SentInv(p) ==
  /\ Sent(update[p], update[p].from, confirmed[p], localTick[p])
  /\ \A m \in toServer[p] \cup {outgoing[p]} :
       m.type = "game_update"
         => Sent(m, update[p].from, confirmed[p], localTick[p])

\* What the server knows of a client.
KnownInv(p) ==
  /\ completed[p] <= update[p].from
  /\ p \in active => /\ completedAll + Len(actions[p]) <= localTick[p]
                     /\ NamedByTick(actions[p], completedAll)

\* What the server tells p in m.
Told(p, m) ==
  /\ m.type = "game_update" =>
       /\ Sealed(p, m.from, m.actions, contest, localTick[p])
       /\ m.finalChecksum = SubSeq(contest, 1, m.from + Len(m.actions[p]))
  /\ m.type = "game_over" =>
       m.winner = result /\ result # Running /\ gameOverTick <= update[p].from

ToldInv(p) == \A m \in toClient[p] : Told(p, m)

\* What a client does of it.
FollowInv(p) ==
  /\ Sealed(p, Len(confirmed[p]), serverActions[p], contest, localTick[p])
  /\ serverChecksum[p] = SubSeq(contest, 1, Received(p))
  /\ Agrees(confirmed[p], contest)
  /\ outcome[p] # Running =>
       outcome[p] = result /\ gameOverTick <= update[p].from

ClientInv(p) ==
  QueuesInv(p) /\ SentInv(p) /\ KnownInv(p) /\ ToldInv(p) /\ FollowInv(p)

\* An action is applied by the server in the tick it was done in by the player.
InTheirTick ==
  \A t \in 1..Len(contest), q \in Players :
    contest[t][q] \in Action => contest[t][q] = t - 1

IInv ==
  /\ ServerProofs!IInv
  /\ InTheirTick
  /\ Client!TypeOK
  /\ NetworkTypeOK
  /\ \A p \in Clients : ClientInv(p)

\* The types of the variables, as the lemmas above expect them.
LEMMA Types ==
  ASSUME IInv
  PROVE  /\ contest \in History /\ Len(contest) \in Nat
         /\ Len(contest) = simulationTick /\ simulationTick \in Nat
         /\ result \in Players \cup {Running, Draw} /\ gameOverTick \in Nat
         /\ active \subseteq Players /\ completedAll \in Nat
         /\ completed \in [Players -> Nat] /\ actions \in [Players -> Seq(Nat)]
         /\ WellFormed(contest)
         /\ \A p \in Clients :
              /\ p \in Players
              /\ update[p] \in Client!GameUpdate
              /\ update[p].from \in Nat /\ localTick[p] \in Nat
              /\ confirmed[p] \in History /\ Len(confirmed[p]) \in Nat
              /\ serverActions[p] \in [Players -> Seq(Nat)]
              /\ Len(serverActions[p][p]) \in Nat /\ Received(p) \in Nat
              /\ queue[p] \in Seq(Nat) /\ unconfirmed[p] \in Seq(Nat)
              /\ outgoing[p] \in Client!GameUpdate \cup {Client!Ready}
<1>1. /\ contest \in History /\ result \in Players \cup {Running, Draw}
      /\ gameOverTick \in Nat /\ active \subseteq Players /\ completedAll \in Nat
      /\ completed \in [Players -> Nat] /\ actions \in [Players -> Seq(Nat)]
      /\ Len(contest) = simulationTick /\ simulationTick \in Nat
      /\ WellFormed(contest)
  BY SameTypes
  DEF IInv, ServerProofs!IInv, ServerProofs!TypeOK, WellFormed,
      ServerProofs!ChecksumsAligned
<1>2. Len(contest) \in Nat
  BY <1>1
<1>3. ASSUME NEW p \in Clients
      PROVE  /\ p \in Players
             /\ update[p] \in Client!GameUpdate
             /\ update[p].from \in Nat /\ localTick[p] \in Nat
             /\ confirmed[p] \in History /\ Len(confirmed[p]) \in Nat
             /\ serverActions[p] \in [Players -> Seq(Nat)]
             /\ Len(serverActions[p][p]) \in Nat /\ Received(p) \in Nat
             /\ queue[p] \in Seq(Nat) /\ unconfirmed[p] \in Seq(Nat)
             /\ outgoing[p] \in Client!GameUpdate \cup {Client!Ready}
  <2>1. /\ p \in Players
        /\ update[p] \in Client!GameUpdate /\ localTick[p] \in Nat
        /\ confirmed[p] \in History /\ serverActions[p] \in [Players -> Seq(Nat)]
        /\ queue[p] \in Seq(Nat) /\ unconfirmed[p] \in Seq(Nat)
        /\ outgoing[p] \in Client!GameUpdate \cup {Client!Ready}
    BY SameTypes DEF IInv, Client!TypeOK, Clients
  <2>2. Len(confirmed[p]) \in Nat /\ Len(serverActions[p][p]) \in Nat
    BY <2>1, LenProperties DEF History
  <2>3. update[p].from \in Nat
    BY <2>1 DEF Client!GameUpdate
  <2>4. Received(p) \in Nat
    <3>1. \A a, b \in Nat : a + b \in Nat
      OBVIOUS
    <3> QED BY <2>2, <3>1 DEF Received
  <2> QED BY <2>1, <2>2, <2>3, <2>4
<1> QED BY <1>1, <1>2, <1>3

\* A player is told nothing false, and says nothing false, when only the server,
\* the network or the other players move: its log grows and its result is final.
LEMMA ClientStays ==
  ASSUME IInv, NEW p \in Clients, contest' \in History,
         phase'[p] \in {"idle", "start"} => phase[p] \in {"idle", "start"},
         update'[p] = update[p], queue'[p] = queue[p],
         outgoing'[p] \in {outgoing[p], Client!Ready},
         serverActions'[p] = serverActions[p],
         serverChecksum'[p] = serverChecksum[p],
         confirmed'[p] = confirmed[p], localTick'[p] = localTick[p],
         unconfirmed'[p] = unconfirmed[p],
         Extends(contest, contest'),
         result # Running => result' = result /\ gameOverTick' = gameOverTick,
         KnownInv(p)',
         outcome'[p] = outcome[p]
           \/ (outcome'[p] = result' /\ gameOverTick' <= update[p].from),
         toServer'[p] \subseteq toServer[p] \cup {outgoing'[p]},
         \A m \in toClient'[p] : m \in toClient[p] \/ Told(p, m)'
  PROVE  ClientInv(p)'
<1>1. ClientInv(p)
  BY DEF IInv
<1>2. Received(p)' = Received(p)
  BY DEF Received
<1>3. QueuesInv(p)'
  BY <1>1, <1>2 DEF ClientInv, QueuesInv
<1>4. SentInv(p)'
  <2>1. \A m \in toServer[p] \cup {outgoing[p]} :
          m.type = "game_update"
            => Sent(m, update[p].from, confirmed[p], localTick[p])
    BY <1>1 DEF ClientInv, SentInv
  <2>2. Client!Ready.type # "game_update"
    BY DEF Client!Ready
  <2>3. \A m \in toServer'[p] \cup {outgoing'[p]} :
          m.type = "game_update"
            => Sent(m, update[p].from, confirmed[p], localTick[p])
    BY <2>1, <2>2
  <2>4. Sent(update[p], update[p].from, confirmed[p], localTick[p])
    BY <1>1 DEF ClientInv, SentInv
  <2> QED BY <2>3, <2>4 DEF SentInv, Sent
<1>5. \A from \in Nat, acts \in [Players -> Seq(Nat)] :
        Sealed(p, from, acts, contest, localTick[p])
          => Sealed(p, from, acts, contest', localTick[p])
  <2>1. localTick[p] <= localTick[p]
    BY Types
  <2> QED BY <2>1, Types, ExtendsKeeps
<1>6. \A k \in Nat : k <= Len(contest) => SubSeq(contest', 1, k) = SubSeq(contest, 1, k)
  BY Types, ExtendsKeeps
<1>7. ASSUME NEW m \in toClient[p]
      PROVE  Told(p, m)'
  <2>1. Told(p, m)
    BY <1>1, <1>7 DEF ClientInv, ToldInv
  <2>2. ASSUME m.type = "game_update"
        PROVE  /\ Sealed(p, m.from, m.actions, contest', localTick'[p])
               /\ m.finalChecksum = SubSeq(contest', 1, m.from + Len(m.actions[p]))
    <3>1. m \in Confirmation
      BY <1>7, <2>2 DEF IInv, NetworkTypeOK, Start, GameOver
    <3>2. m.from \in Nat /\ m.actions \in [Players -> Seq(Nat)] /\ p \in Players
      BY <3>1, Types DEF Confirmation
    <3>3. Sealed(p, m.from, m.actions, contest, localTick[p])
      BY <2>1, <2>2 DEF Told
    <3>4. Len(m.actions[p]) \in Nat
      BY <3>2, LenProperties
    <3>5. m.from + Len(m.actions[p]) \in Nat /\ m.from + Len(m.actions[p]) <= Len(contest)
      BY <3>2, <3>3, <3>4 DEF Sealed
    <3>6. m.finalChecksum = SubSeq(contest, 1, m.from + Len(m.actions[p]))
      BY <2>1, <2>2 DEF Told
    <3> QED BY <1>5, <1>6, <3>2, <3>3, <3>5, <3>6
  <2> QED BY <2>1, <2>2 DEF Told
<1>8. ToldInv(p)'
  BY <1>7 DEF ToldInv
<1>9. FollowInv(p)'
  <2>1. FollowInv(p)
    BY <1>1 DEF ClientInv
  <2>2. /\ Len(confirmed[p]) \in Nat /\ serverActions[p] \in [Players -> Seq(Nat)]
        /\ Received(p) \in Nat
    BY Types
  <2>3. Sealed(p, Len(confirmed[p]), serverActions[p], contest', localTick[p])
    BY <1>5, <2>1, <2>2 DEF FollowInv
  <2>4. Received(p) <= Len(contest)
    BY <2>1 DEF FollowInv, Sealed, Received
  <2>5. serverChecksum[p] = SubSeq(contest', 1, Received(p))
    BY <1>6, <2>1, <2>2, <2>4 DEF FollowInv
  <2>6. Agrees(confirmed[p], contest')
    BY <2>1, Types, ExtendsKeeps DEF FollowInv
  <2>7. outcome'[p] # Running => outcome'[p] = result' /\ gameOverTick' <= update[p].from
    BY <2>1 DEF FollowInv
  <2> QED BY <1>2, <2>3, <2>5, <2>6, <2>7 DEF FollowInv
<1> QED BY <1>3, <1>4, <1>8, <1>9 DEF ClientInv

-----------------------------------------------------------------------------
(* What the clients do.                                                    *)

\* A message of a client remains what the client could say later.
LEMMA SentKeeps ==
  ASSUME NEW m \in Client!GameUpdate, NEW from \in Nat, NEW later \in Nat,
         from <= later, NEW h \in History, NEW longer \in History,
         Extends(h, longer), NEW tick \in Nat, NEW next \in Nat, tick <= next,
         Sent(m, from, h, tick)
  PROVE  Sent(m, later, longer, next)
<1> DEFINE start == m.from
           count == Len(m.actions)
           known == m.checksumTick
           long == Len(longer)
           size == Len(h)
<1>1. start \in Nat /\ known \in Nat /\ m.actions \in Seq(Nat)
  BY SameTypes DEF Client!GameUpdate
<1>2. count \in Nat /\ size \in Nat /\ long \in Nat
  BY <1>1, LenProperties DEF History
<1>3. /\ start <= from /\ start + count <= tick /\ known <= size
      /\ NamedByTick(m.actions, start) /\ m.checksum = SubSeq(h, 1, known)
  BY DEF Sent
<1>4. SubSeq(longer, 1, known) = SubSeq(h, 1, known)
  BY <1>1, <1>3, ExtendsKeeps
<1>5. size <= long
  BY DEF Extends
<1> HIDE DEF start, count, known, long, size
<1>6. start <= later /\ start + count <= next /\ known <= long
  BY <1>1, <1>2, <1>3, <1>5
<1> QED BY <1>3, <1>4, <1>6 DEF Sent, start, count, known, long

\* What confirm_game_tick does to the update and to the queue, for a message
\* which has been told by the server.
LEMMA ReceiveUpdateEffect ==
  ASSUME IInv, NEW p \in Clients, NEW m \in toClient[p],
         m.type = "game_update", Client!ReceiveUpdate(p, m)
  PROVE  \E k \in Nat, next \in Client!GameUpdate, all \in [Players -> Seq(Nat)] :
           LET from == Received(p) + k IN
             /\ m \in Confirmation /\ k = Len(m.actions[p]) /\ m.from = Received(p)
             /\ from \in Nat /\ from <= localTick[p]
             /\ Len(all[p]) = Len(serverActions[p][p]) + k
             /\ Sealed(p, Len(confirmed[p]), all, contest, localTick[p])
             /\ m.finalChecksum = SubSeq(contest, 1, from)
             /\ next.from = from
             /\ next.actions
                  = Client!FirstOf(Ticks(from, localTick[p]), MaxTicksInUpdate)
             /\ next.checksumTick = update[p].checksumTick
             /\ next.checksum = update[p].checksum
             /\ Ticks(from, localTick[p]) \in Seq(Nat)
             /\ next.actions \in Seq(Nat)
             /\ queue' = [queue EXCEPT ![p] = Ticks(from, localTick[p])]
             /\ update' = [update EXCEPT ![p] = next]
             /\ outgoing' \in {outgoing, [outgoing EXCEPT ![p] = next]}
             /\ serverActions' = [serverActions EXCEPT ![p] = all]
             /\ serverChecksum' = [serverChecksum EXCEPT ![p] = m.finalChecksum]
<1> DEFINE r == Received(p)
           tick == localTick[p]
           k == Len(m.actions[p])
           from == r + k
           all == Joined(serverActions[p], m.actions)
           left == Client!Erased(queue[p], Client!TickCount(m.actions))
           next == [update[p] EXCEPT !.from = @ + Client!TickCount(m.actions),
                                     !.actions = Client!FirstOf(left, MaxTicksInUpdate)]
<1>1. m \in Confirmation
  BY DEF IInv, NetworkTypeOK, Start, GameOver
<1>2. m.actions \in [Players -> Seq(Nat)] /\ k \in Nat /\ p \in Players
  BY <1>1, Types, LenProperties DEF Confirmation
<1>3. /\ Sealed(p, m.from, m.actions, contest, tick)
      /\ m.finalChecksum = SubSeq(contest, 1, m.from + k)
  BY DEF IInv, ClientInv, ToldInv, Told
<1>4. /\ Received(p) <= tick /\ update[p].from = r
      /\ queue[p] = Ticks(r, tick)
  BY DEF IInv, ClientInv, QueuesInv
<1>5. m.from = r
  BY <1>4 DEF Client!ReceiveUpdate, Client!Continues
<1>6. Client!TickCount(m.actions) = k
  BY <1>2, <1>3, TickCountIs DEF Sealed
<1>7. /\ r \in Nat /\ tick \in Nat /\ r + k <= tick /\ from \in Nat
  <2>1. r \in Nat /\ tick \in Nat
    BY Types
  <2>2. r + k <= tick
    BY <1>3, <1>5 DEF Sealed
  <2> HIDE DEF k, r
  <2> QED BY <1>2, <2>1, <2>2
<1>8. left = Ticks(from, tick)
  <2> HIDE DEF r, k, tick
  <2> QED BY <1>2, <1>4, <1>6, <1>7, TicksErased
<1>9. /\ all \in [Players -> Seq(Nat)]
      /\ Len(all[p]) = Len(serverActions[p][p]) + k
      /\ Sealed(p, Len(confirmed[p]), all, contest, tick)
  <2> DEFINE acts == serverActions[p]
             more == m.actions
             known == Len(confirmed[p])
  <2>1. /\ Sealed(p, known, acts, contest, tick)
        /\ m.from = known + Len(acts[p])
    BY <1>5 DEF IInv, ClientInv, FollowInv, Received
  <2>2. /\ acts \in [Players -> Seq(Nat)] /\ known \in Nat
        /\ contest \in History /\ WellFormed(contest) /\ tick \in Nat
        /\ more \in [Players -> Seq(Nat)] /\ p \in Players
    BY <1>2, Types
  <2> HIDE DEF acts, known, tick, more
  <2>3. Sealed(p, known + Len(acts[p]), more, contest, tick)
    BY <1>3, <2>1 DEF more
  <2>4. /\ Joined(acts, more) \in [Players -> Seq(Nat)]
        /\ Len(Joined(acts, more)[p]) = Len(acts[p]) + Len(more[p])
        /\ Sealed(p, known, Joined(acts, more), contest, tick)
    BY <2>1, <2>2, <2>3, SealedConcat
  <2> QED BY <2>4 DEF acts, known, k, more
<1>10. /\ Client!FirstOf(left, MaxTicksInUpdate) \in Seq(Nat)
       /\ left \in Seq(Nat)
  <2> DEFINE last == Least(from + MaxTicksInUpdate, tick)
  <2>1. MaxTicksInUpdate \in Nat
    BY ClientAssumption DEF Client!ClientConstants
  <2> HIDE DEF from, tick
  <2>2. from <= tick
    BY <1>7 DEF from
  <2>3. Client!FirstOf(left, MaxTicksInUpdate) = Ticks(from, last)
    BY <1>7, <1>8, <2>1, <2>2, TicksFirst
  <2>4. last \in Nat /\ from <= last
    BY <1>7, <2>1, <2>2 DEF Least
  <2> HIDE DEF last
  <2> QED BY <1>7, <1>8, <2>2, <2>3, <2>4, TicksType
<1>11. update[p] \in Client!GameUpdate
  BY Types
<1>12. /\ next \in Client!GameUpdate
       /\ next.from = from
       /\ next.actions = Client!FirstOf(left, MaxTicksInUpdate)
       /\ next.checksumTick = update[p].checksumTick
       /\ next.checksum = update[p].checksum
  <2>1. update[p].from + k = from
    BY <1>4
  <2> HIDE DEF from, left, k
  <2> QED BY <1>6, <1>7, <1>10, <1>11, <2>1, SameTypes DEF Client!GameUpdate
<1>13. /\ queue' = [queue EXCEPT ![p] = left]
       /\ update' = [update EXCEPT ![p] = next]
       /\ outgoing' \in {outgoing, [outgoing EXCEPT ![p] = next]}
       /\ serverChecksum' = [serverChecksum EXCEPT ![p] = m.finalChecksum]
  BY DEF Client!ReceiveUpdate
<1>14. serverActions' = [serverActions EXCEPT ![p] = all]
  BY DEF Client!ReceiveUpdate, Joined
<1>15. m.finalChecksum = SubSeq(contest, 1, from) /\ from <= tick
  BY <1>3, <1>5, <1>7
<1> HIDE DEF next, left, all, from, k
<1>16. /\ m.from = Received(p) /\ k = Len(m.actions[p]) /\ from = Received(p) + k
  BY <1>5 DEF k, from
<1> HIDE DEF r
<1>. k \in Nat /\ next \in Client!GameUpdate /\ all \in [Players -> Seq(Nat)]
  BY <1>2, <1>9, <1>12 DEF k
<1> WITNESS k \in Nat
<1> WITNESS next \in Client!GameUpdate
<1> WITNESS all \in [Players -> Seq(Nat)]
<1> QED BY <1>1, <1>7, <1>8, <1>9, <1>10, <1>12, <1>13, <1>14, <1>15, <1>16

\* The invariant of the client which confirms ticks.
LEMMA ReceiveUpdateStep ==
  ASSUME IInv, NEW p \in Clients, NEW m \in toClient[p],
         m.type = "game_update", Client!ReceiveUpdate(p, m),
         UNCHANGED <<serverVars, toServer>>, toClient'[p] \subseteq toClient[p]
  PROVE  Client!TypeOK' /\ ClientInv(p)'
<1>1. PICK k \in Nat, next \in Client!GameUpdate, all \in [Players -> Seq(Nat)] :
        LET from == Received(p) + k IN
          /\ m \in Confirmation /\ k = Len(m.actions[p]) /\ m.from = Received(p)
          /\ from \in Nat /\ from <= localTick[p]
          /\ Len(all[p]) = Len(serverActions[p][p]) + k
          /\ Sealed(p, Len(confirmed[p]), all, contest, localTick[p])
          /\ m.finalChecksum = SubSeq(contest, 1, from)
          /\ next.from = from
          /\ next.actions
               = Client!FirstOf(Ticks(from, localTick[p]), MaxTicksInUpdate)
          /\ next.checksumTick = update[p].checksumTick
          /\ next.checksum = update[p].checksum
          /\ Ticks(from, localTick[p]) \in Seq(Nat)
          /\ next.actions \in Seq(Nat)
          /\ queue' = [queue EXCEPT ![p] = Ticks(from, localTick[p])]
          /\ update' = [update EXCEPT ![p] = next]
          /\ outgoing' \in {outgoing, [outgoing EXCEPT ![p] = next]}
          /\ serverActions' = [serverActions EXCEPT ![p] = all]
          /\ serverChecksum' = [serverChecksum EXCEPT ![p] = m.finalChecksum]
  BY ReceiveUpdateEffect
<1>2. /\ phase[p] = "play"
      /\ UNCHANGED <<phase, looping, confirmed, localTick, unconfirmed, outcome>>
  BY DEF Client!ReceiveUpdate
<1>3. Client!TypeOK /\ ClientInv(p)
  BY DEF IInv
<1> DEFINE from == Received(p) + k
           tick == localTick[p]
<1>4. Client!TypeOK'
  <2>1. m.finalChecksum \in Client!History
    BY <1>1, SameTypes DEF Confirmation
  <2>2. Ticks(from, tick) \in Seq(Client!Action)
    BY <1>1, SameTypes
  <2>3. all \in [Players -> Seq(Client!Action)]
    BY <1>1, SameTypes
  <2> HIDE DEF from, tick
  <2>4. /\ phase' = phase /\ looping' = looping /\ confirmed' = confirmed
        /\ localTick' = localTick /\ unconfirmed' = unconfirmed
        /\ outcome' = outcome
    BY <1>2
  <2>5. queue' = [queue EXCEPT ![p] = Ticks(from, tick)]
    BY <1>1 DEF from, tick
  <2>6. /\ update' \in [Clients -> Client!GameUpdate]
        /\ outgoing' \in [Clients -> Client!GameUpdate \cup {Client!Ready}]
        /\ serverActions' \in [Clients -> [Players -> Seq(Client!Action)]]
        /\ serverChecksum' \in [Clients -> Client!History]
    BY <1>1, <1>3, <2>1, <2>3 DEF Client!TypeOK
  <2>7. queue' \in [Clients -> Seq(Client!Action)]
    BY <1>3, <2>2, <2>5 DEF Client!TypeOK
  <2> QED BY <1>3, <2>4, <2>6, <2>7 DEF Client!TypeOK
<1>5. /\ update'[p] = next /\ queue'[p] = Ticks(from, tick)
      /\ outgoing'[p] \in {outgoing[p], next}
      /\ serverActions'[p] = all /\ serverChecksum'[p] = m.finalChecksum
      /\ phase'[p] = "play" /\ confirmed'[p] = confirmed[p]
      /\ localTick'[p] = tick /\ unconfirmed'[p] = unconfirmed[p]
      /\ outcome'[p] = outcome[p]
  <2>1. p \in DOMAIN update /\ p \in DOMAIN queue /\ p \in DOMAIN outgoing
        /\ p \in DOMAIN serverActions /\ p \in DOMAIN serverChecksum
    BY <1>3 DEF Client!TypeOK
  <2> HIDE DEF from
  <2>2. queue' = [queue EXCEPT ![p] = Ticks(from, tick)]
    BY <1>1 DEF from
  <2> QED BY <1>1, <1>2, <2>1, <2>2
<1>6. /\ contest' = contest /\ result' = result /\ gameOverTick' = gameOverTick
      /\ completed' = completed /\ completedAll' = completedAll
      /\ actions' = actions /\ active' = active /\ toServer' = toServer
  BY DEF serverVars
<1>7. Received(p)' = from
  <2> DEFINE a == Len(confirmed[p])
             b == Len(serverActions[p][p])
  <2>1. a \in Nat /\ b \in Nat
    BY Types
  <2>2. from = (a + b) + k
    BY DEF Received
  <2>3. Received(p)' = a + (b + k)
    BY <1>1, <1>5 DEF Received
  <2> HIDE DEF a, b, from
  <2> QED BY <2>1, <2>2, <2>3
<1>8. /\ from \in Nat /\ tick \in Nat /\ from <= tick /\ Received(p) \in Nat
      /\ Received(p) <= from
  <2>1. Received(p) \in Nat /\ tick \in Nat
    BY Types
  <2> QED BY <1>1, <2>1
<1>9. QueuesInv(p)'
  <2>1. unconfirmed[p] = Ticks(Len(confirmed[p]), tick)
    BY <1>3 DEF ClientInv, QueuesInv
  <2>2. next.from = from
        /\ next.actions = Client!FirstOf(Ticks(from, tick), MaxTicksInUpdate)
    BY <1>1
  <2> HIDE DEF from, tick
  <2> QED BY <1>5, <1>7, <1>8, <2>1, <2>2 DEF QueuesInv
<1>10. SentInv(p)'
  <2> DEFINE h == confirmed[p]
  <2>1. /\ h \in History /\ Extends(h, h) /\ update[p].from = Received(p)
        /\ update[p].from <= from /\ tick <= tick
    BY <1>3, <1>8, Types DEF Extends, ClientInv, QueuesInv
  <2>2. ASSUME NEW x \in Client!GameUpdate, Sent(x, update[p].from, h, tick)
        PROVE  Sent(x, from, h, tick)
    <3>1. update[p].from \in Nat
      BY Types
    <3> HIDE DEF from, h, tick
    <3> QED BY <1>8, <2>1, <2>2, <3>1, SentKeeps
  <2>3. Sent(next, from, h, tick)
    <3>1. Sent(update[p], update[p].from, h, tick)
      BY <1>3 DEF ClientInv, SentInv
    <3>2. next.from = from
          /\ next.checksumTick <= Len(h)
          /\ next.checksum = SubSeq(h, 1, next.checksumTick)
      BY <1>1, <3>1 DEF Sent
    <3> DEFINE last == Least(from + MaxTicksInUpdate, tick)
    <3>3. MaxTicksInUpdate \in Nat
      BY ClientAssumption DEF Client!ClientConstants
    <3>4. next.actions = Client!FirstOf(Ticks(from, tick), MaxTicksInUpdate)
      BY <1>1
    <3> HIDE DEF from, tick, h
    <3>5. next.actions = Ticks(from, last)
      BY <1>8, <3>3, <3>4, TicksFirst
    <3>6. last \in Nat /\ from <= last /\ last <= tick
      BY <1>8, <3>3 DEF Least
    <3> HIDE DEF last
    <3>7. /\ Len(next.actions) = last - from
          /\ \A i \in 1..last - from : next.actions[i] = from + i - 1
      <4>1. from \in Nat /\ last \in Nat /\ from <= last
        BY <1>8, <3>6
      <4>2. /\ Len(Ticks(from, last)) = last - from
            /\ \A i \in 1..last - from : Ticks(from, last)[i] = from + i - 1
        BY <4>1, TicksType
      <4> QED BY <3>5, <4>2
    <3>8. from + (last - from) = last /\ from <= from
      BY <1>8, <3>6
    <3>9. NamedByTick(next.actions, from)
      BY <3>7 DEF NamedByTick, ServerProofs!NamedByTick
    <3> QED BY <3>2, <3>6, <3>7, <3>8, <3>9 DEF Sent
  <2>4. ASSUME NEW x \in toServer'[p] \cup {outgoing'[p]}, x.type = "game_update"
        PROVE  Sent(x, from, h, tick)
    <3>1. x = next \/ x \in toServer[p] \cup {outgoing[p]}
      BY <1>5, <1>6
    <3>2. CASE x = next
      BY <2>3, <3>2
    <3>3. CASE x \in toServer[p] \cup {outgoing[p]}
      <4>1. Sent(x, update[p].from, h, tick)
        BY <1>3, <2>4, <3>3 DEF ClientInv, SentInv
      <4>2. x \in Client!GameUpdate \cup {Client!Ready}
        BY <3>3, Types DEF IInv, NetworkTypeOK
      <4>3. x \in Client!GameUpdate
        BY <2>4, <4>2 DEF Client!Ready
      <4> QED BY <2>2, <4>1, <4>3
    <3> QED BY <3>1, <3>2, <3>3
  <2>5. update'[p].from = from
    BY <1>1, <1>5
  <2> HIDE DEF from
  <2> QED BY <1>5, <2>3, <2>4, <2>5 DEF SentInv
<1>11. KnownInv(p)'
  <2>1. completed[p] <= Received(p)
    BY <1>3 DEF ClientInv, QueuesInv, KnownInv
  <2>2. completed[p] \in Nat
    BY Types
  <2>3. completed[p] <= from
    <3> HIDE DEF from
    <3> QED BY <1>8, <2>1, <2>2
  <2>4. update'[p].from = from
    BY <1>1, <1>5
  <2>5. p \in active => /\ completedAll + Len(actions[p]) <= tick
                        /\ NamedByTick(actions[p], completedAll)
    BY <1>3 DEF ClientInv, KnownInv
  <2> HIDE DEF from, tick
  <2> QED BY <1>5, <1>6, <2>3, <2>4, <2>5 DEF KnownInv
<1>12. gameOverTick <= update[p].from => gameOverTick <= update'[p].from
  <2>1. gameOverTick \in Nat /\ update[p].from = Received(p) /\ update'[p].from = from
    BY <1>1, <1>3, <1>5, Types DEF ClientInv, QueuesInv
  <2> HIDE DEF from
  <2> QED BY <1>8, <2>1
<1>13. ToldInv(p)'
  <2>1. \A x \in toClient'[p] : Told(p, x)
    BY <1>3 DEF ClientInv, ToldInv
  <2> QED BY <1>5, <1>6, <1>12, <2>1 DEF ToldInv, Told
<1>14. FollowInv(p)'
  <2>1. FollowInv(p)
    BY <1>3 DEF ClientInv
  <2>2. serverChecksum'[p] = SubSeq(contest', 1, Received(p)')
    BY <1>1, <1>5, <1>6, <1>7
  <2>3. Sealed(p, Len(confirmed[p]), all, contest, tick)
    BY <1>1
  <2> QED BY <1>5, <1>6, <1>12, <2>1, <2>2, <2>3 DEF FollowInv
<1> QED BY <1>4, <1>9, <1>10, <1>11, <1>13, <1>14 DEF ClientInv

\* What run() does to the state confirmed and to the ticks waiting for a
\* confirmation.
LEMMA RunEffect ==
  ASSUME IInv, NEW p \in Clients, NEW n \in Nat, Client!Run(p, n)
  PROVE  \E synced \in History, tick \in Nat, next \in Client!GameUpdate :
           /\ tick = localTick[p] + n
           /\ synced = Client!Advance(confirmed[p], Len(serverActions[p][p]),
                                      serverActions[p])
           /\ Len(synced) = Received(p)
           /\ Extends(confirmed[p], synced)
           /\ next = update[p] \/
                /\ next.from = Received(p)
                /\ next.actions
                     = Client!FirstOf(Ticks(Received(p), tick), MaxTicksInUpdate)
                /\ next.checksumTick = Len(synced) /\ next.checksum = synced
           /\ next.actions
                = Client!FirstOf(Ticks(Received(p), tick), MaxTicksInUpdate)
           /\ confirmed' = [confirmed EXCEPT ![p] = synced]
           /\ serverActions' = [serverActions EXCEPT ![p] = Client!NoActions]
           /\ unconfirmed' = [unconfirmed EXCEPT ![p] = Ticks(Received(p), tick)]
           /\ localTick' = [localTick EXCEPT ![p] = tick]
           /\ queue' = [queue EXCEPT ![p] = Ticks(Received(p), tick)]
           /\ update' = [update EXCEPT ![p] = next]
           /\ outgoing' \in {outgoing, [outgoing EXCEPT ![p] = next]}
<1> DEFINE r == Received(p)
           c == Len(confirmed[p])
           b == Len(serverActions[p][p])
           now == localTick[p]
           tick == now + n
           synced == Client!Synchronized(p)
           mine == [i \in 1..n |-> localTick[p] + i - 1]
           kept == Client!Erased(unconfirmed[p], Len(unconfirmed[p])
                                                   - (localTick[p] - Len(synced)))
           next == IF n = 0 THEN update[p] ELSE Client!Pushed(p, mine, synced)
<1>1. /\ r \in Nat /\ c \in Nat /\ b \in Nat /\ now \in Nat /\ r = c + b
      /\ serverActions[p] \in [Players -> Seq(Nat)] /\ p \in Players
      /\ confirmed[p] \in History /\ update[p] \in Client!GameUpdate
      /\ MaxTicksInUpdate \in Nat
  BY Types, ClientAssumption DEF Received, Client!ClientConstants
<1>2. /\ r <= now /\ update[p].from = r /\ queue[p] = Ticks(r, now)
      /\ unconfirmed[p] = Ticks(c, now)
      /\ update[p].actions = Client!FirstOf(Ticks(r, now), MaxTicksInUpdate)
      /\ Sealed(p, c, serverActions[p], contest, now)
  BY DEF IInv, ClientInv, QueuesInv, FollowInv
<1>3. synced = Client!Advance(confirmed[p], b, serverActions[p])
  <2>1. Client!TickCount(serverActions[p]) = b
    BY <1>1, <1>2, TickCountIs DEF Sealed
  <2> QED BY <2>1 DEF Client!Synchronized
<1>4. synced \in History /\ Len(synced) = r /\ Extends(confirmed[p], synced)
  <2> HIDE DEF synced, b, c, r
  <2>1. /\ synced \in History /\ Len(synced) = c + b
        /\ \A i \in 1..c : synced[i] = confirmed[p][i]
    BY <1>1, <1>3, AdvanceExtends DEF c
  <2>2. c <= c + b
    BY <1>1
  <2>3. c = Len(confirmed[p])
    BY DEF c
  <2> QED BY <1>1, <2>1, <2>2, <2>3 DEF Extends
<1> HIDE DEF synced
<1>5. tick \in Nat /\ now <= tick /\ r <= tick /\ c <= now /\ c <= r
  <2> HIDE DEF now, r, c
  <2> QED BY <1>1, <1>2
<1>6. mine = Ticks(now, tick)
  <2>1. tick - now = n
    BY <1>1
  <2> QED BY <2>1 DEF Ticks
<1>7. kept = Ticks(r, now)
  <2>1. Len(unconfirmed[p]) = now - c
    <3> HIDE DEF now, c
    <3> QED BY <1>1, <1>2, <1>5, TicksType
  <2>2. Len(unconfirmed[p]) - (now - Len(synced)) = b
    <3> HIDE DEF now, c, r, b
    <3> QED BY <1>1, <1>2, <1>4, <2>1
  <2>3. kept = Client!Erased(Ticks(c, now), b)
    BY <1>2, <2>2
  <2> HIDE DEF now, c, r, b, kept
  <2>4. c + b <= now
    BY <1>1, <1>2
  <2>5. kept = Ticks(c + b, now)
    BY <1>1, <2>3, <2>4, TicksErased
  <2> QED BY <1>1, <2>5
<1>8. Ticks(r, now) \o Ticks(now, tick) = Ticks(r, tick)
  <2> HIDE DEF now, r, tick
  <2> QED BY <1>1, <1>2, <1>5, TicksConcat
<1>9. /\ confirmed' = [confirmed EXCEPT ![p] = synced]
      /\ serverActions' = [serverActions EXCEPT ![p] = Client!NoActions]
      /\ unconfirmed' = [unconfirmed EXCEPT ![p] = Ticks(r, tick)]
      /\ localTick' = [localTick EXCEPT ![p] = tick]
      /\ queue' = [queue EXCEPT ![p] = Ticks(r, tick)]
  <2>1. /\ confirmed' = [confirmed EXCEPT ![p] = synced]
        /\ serverActions' = [serverActions EXCEPT ![p] = Client!NoActions]
        /\ unconfirmed' = [unconfirmed EXCEPT ![p] = kept \o mine]
        /\ localTick' = [localTick EXCEPT ![p] = @ + n]
        /\ queue' = [queue EXCEPT ![p] = @ \o mine]
    BY DEF Client!Run, synced
  <2>2. queue[p] \o mine = Ticks(r, tick) /\ kept \o mine = Ticks(r, tick)
    <3> HIDE DEF kept, mine, r, now, tick
    <3> QED BY <1>2, <1>6, <1>7, <1>8
  <2> HIDE DEF kept, mine, r
  <2> QED BY <2>1, <2>2
<1>10. n = 0 => tick = now
  BY <1>1
<1>11. next.actions = Client!FirstOf(Ticks(r, tick), MaxTicksInUpdate)
  <2>1. CASE n = 0
    <3>1. next = update[p] /\ tick = now
      BY <1>10, <2>1
    <3> HIDE DEF next, tick, now, r
    <3> QED BY <1>2, <3>1
  <2>2. CASE n # 0
    <3>1. next.actions = update[p].actions \o Client!FirstOf(mine, Client!Room(p))
      BY <1>1, <2>2 DEF Client!Pushed, Client!GameUpdate
    <3>2. Client!Room(p) = MaxTicksInUpdate - Len(update[p].actions)
      BY DEF Client!Room
    <3>3. /\ r \in Nat /\ now \in Nat /\ tick \in Nat /\ r <= now /\ now <= tick
          /\ MaxTicksInUpdate \in Nat
      BY <1>1, <1>2, <1>5
    <3> HIDE DEF next, now, tick, r, mine
    <3>4. next.actions = Filled(Ticks(r, now), Ticks(now, tick), MaxTicksInUpdate)
      BY <1>2, <1>6, <3>1, <3>2 DEF Filled
    <3> QED BY <3>3, <3>4, TicksPushed
  <2> QED BY <2>1, <2>2
<1>12. /\ next.from = r
       /\ n # 0 => next.checksumTick = Len(synced) /\ next.checksum = synced
       /\ next = [update[p] EXCEPT !.actions = next.actions,
                                   !.checksumTick = next.checksumTick,
                                   !.checksum = next.checksum]
  <2>1. CASE n = 0
    <3>1. next = update[p]
      BY <2>1
    <3> HIDE DEF next
    <3> QED BY <1>1, <1>2, <2>1, <3>1 DEF Client!GameUpdate
  <2>2. CASE n # 0
    <3> DEFINE done == update[p].actions \o Client!FirstOf(mine, Client!Room(p))
    <3>1. next = [update[p] EXCEPT !.actions = done,
                                   !.checksumTick = Len(synced),
                                   !.checksum = synced]
      BY <2>2 DEF Client!Pushed, Client!Checksum
    <3> HIDE DEF next, done, r
    <3> QED BY <1>1, <1>2, <2>2, <3>1 DEF Client!GameUpdate
  <2> QED BY <2>1, <2>2
<1>13. next \in Client!GameUpdate
  <2>1. next.actions \in Seq(Client!Action)
    <3> DEFINE last == Least(r + MaxTicksInUpdate, tick)
    <3> HIDE DEF r, tick, next
    <3>1. next.actions = Ticks(r, last)
      <4>1. r \in Nat /\ tick \in Nat /\ r <= tick
        BY <1>1, <1>5
      <4>2. Client!FirstOf(Ticks(r, tick), MaxTicksInUpdate) = Ticks(r, last)
        BY <1>1, <4>1, TicksFirst, ZenonT(60)
      <4> QED BY <1>11, <4>2
    <3>2. last \in Nat /\ r <= last
      <4> HIDE DEF c, b, now
      <4> QED BY <1>1, <1>5 DEF Least
    <3> HIDE DEF last
    <3> QED BY <1>1, <3>1, <3>2, TicksType, SameTypes, ZenonT(60)
  <2>2. n = 0 => next = update[p]
    OBVIOUS
  <2>3. synced \in Client!History /\ Len(synced) \in Nat
    BY <1>1, <1>4, SameTypes
  <2> HIDE DEF next
  <2>4. next.checksumTick \in Nat /\ next.checksum \in Client!History
    BY <1>1, <1>12, <2>2, <2>3 DEF Client!GameUpdate
  <2> QED BY <1>1, <1>12, <2>1, <2>4 DEF Client!GameUpdate
<1>14. /\ update' = [update EXCEPT ![p] = next]
       /\ outgoing' \in {outgoing, [outgoing EXCEPT ![p] = next]}
  <2>1. /\ update' = IF n = 0 THEN update
                     ELSE [update EXCEPT ![p] = Client!Pushed(p, mine, synced)]
        /\ outgoing' = IF n = 0 \/ Client!Room(p) = 0 THEN outgoing
                       ELSE [outgoing EXCEPT ![p] = Client!Pushed(p, mine, synced)]
    BY DEF Client!Run, synced
  <2>2. update = [update EXCEPT ![p] = update[p]]
    BY DEF IInv, Client!TypeOK
  <2> HIDE DEF mine
  <2> QED BY <2>1, <2>2
<1>15. n = 0 => next = update[p]
  OBVIOUS
<1> HIDE DEF next, mine, kept
<1>16. next = update[p] \/
         /\ next.from = r
         /\ next.actions = Client!FirstOf(Ticks(r, tick), MaxTicksInUpdate)
         /\ next.checksumTick = Len(synced) /\ next.checksum = synced
  BY <1>11, <1>12, <1>15
<1>. tick = localTick[p] + n /\ synced \in History /\ tick \in Nat
     /\ next \in Client!GameUpdate
  BY <1>4, <1>5, <1>13
<1> HIDE DEF tick
<1> WITNESS synced \in History
<1> WITNESS tick \in Nat
<1> WITNESS next \in Client!GameUpdate
<1> QED BY <1>3, <1>4, <1>9, <1>11, <1>14, <1>16

\* The invariant of the client which plays.
LEMMA RunStep ==
  ASSUME IInv, NEW p \in Clients, NEW n \in Nat, Client!Run(p, n),
         UNCHANGED <<serverVars, toClient>>,
         toServer'[p] \subseteq toServer[p] \cup {outgoing'[p]}
  PROVE  Client!TypeOK' /\ ClientInv(p)'
<1>1. PICK synced \in History, tick \in Nat, next \in Client!GameUpdate :
        /\ tick = localTick[p] + n
        /\ synced = Client!Advance(confirmed[p], Len(serverActions[p][p]),
                                   serverActions[p])
        /\ Len(synced) = Received(p)
        /\ Extends(confirmed[p], synced)
        /\ next = update[p] \/
             /\ next.from = Received(p)
             /\ next.actions
                  = Client!FirstOf(Ticks(Received(p), tick), MaxTicksInUpdate)
             /\ next.checksumTick = Len(synced) /\ next.checksum = synced
        /\ next.actions
             = Client!FirstOf(Ticks(Received(p), tick), MaxTicksInUpdate)
        /\ confirmed' = [confirmed EXCEPT ![p] = synced]
        /\ serverActions' = [serverActions EXCEPT ![p] = Client!NoActions]
        /\ unconfirmed' = [unconfirmed EXCEPT ![p] = Ticks(Received(p), tick)]
        /\ localTick' = [localTick EXCEPT ![p] = tick]
        /\ queue' = [queue EXCEPT ![p] = Ticks(Received(p), tick)]
        /\ update' = [update EXCEPT ![p] = next]
        /\ outgoing' \in {outgoing, [outgoing EXCEPT ![p] = next]}
  BY RunEffect
<1>2. /\ phase[p] = "play" /\ outcome[p] = Running
      /\ looping' = [looping EXCEPT ![p] = TRUE]
      /\ UNCHANGED <<phase, serverChecksum, outcome>>
  BY DEF Client!Run
<1>3. Client!TypeOK /\ ClientInv(p)
  BY DEF IInv
<1> DEFINE r == Received(p)
           now == localTick[p]
<1>4. r \in Nat /\ now \in Nat /\ r <= now /\ now <= tick /\ r <= tick
  <2>1. r \in Nat /\ now \in Nat /\ r <= now
    BY <1>3, Types DEF ClientInv, QueuesInv
  <2>2. tick = now + n
    BY <1>1
  <2> HIDE DEF r, now
  <2> QED BY <2>1, <2>2
<1> HIDE DEF now
<1>5. Ticks(r, tick) \in Seq(Nat) /\ Client!NoActions \in [Players -> Seq(Nat)]
      /\ \A q \in Players : Client!NoActions[q] = <<>>
  <2>1. <<>> \in Seq(Nat)
    BY EmptySeq
  <2>2. Ticks(r, tick) \in Seq(Nat)
    <3> HIDE DEF r
    <3> QED BY <1>4, TicksType
  <2> QED BY <2>1, <2>2 DEF Client!NoActions
<1>6. Client!TypeOK'
  <2>1. synced \in Client!History /\ tick \in Nat
        /\ Client!NoActions \in [Players -> Seq(Client!Action)]
        /\ Ticks(r, tick) \in Seq(Client!Action)
    BY <1>5, SameTypes
  <2> HIDE DEF r
  <2>2. /\ phase' = phase /\ serverChecksum' = serverChecksum /\ outcome' = outcome
        /\ looping' = [looping EXCEPT ![p] = TRUE]
    BY <1>2
  <2>3. /\ queue' = [queue EXCEPT ![p] = Ticks(r, tick)]
        /\ unconfirmed' = [unconfirmed EXCEPT ![p] = Ticks(r, tick)]
    BY <1>1 DEF r
  <2>4. /\ confirmed' \in [Clients -> Client!History]
        /\ serverActions' \in [Clients -> [Players -> Seq(Client!Action)]]
        /\ localTick' \in [Clients -> Nat]
        /\ update' \in [Clients -> Client!GameUpdate]
        /\ outgoing' \in [Clients -> Client!GameUpdate \cup {Client!Ready}]
    BY <1>1, <1>3, <2>1 DEF Client!TypeOK
  <2>5. /\ queue' \in [Clients -> Seq(Client!Action)]
        /\ unconfirmed' \in [Clients -> Seq(Client!Action)]
        /\ looping' \in [Clients -> BOOLEAN]
    BY <1>3, <2>1, <2>2, <2>3 DEF Client!TypeOK
  <2> QED BY <1>3, <2>2, <2>4, <2>5 DEF Client!TypeOK
<1>7. /\ update'[p] = next /\ queue'[p] = Ticks(r, tick)
      /\ outgoing'[p] \in {outgoing[p], next}
      /\ serverActions'[p] = Client!NoActions
      /\ serverChecksum'[p] = serverChecksum[p]
      /\ phase'[p] = "play" /\ confirmed'[p] = synced
      /\ localTick'[p] = tick /\ unconfirmed'[p] = Ticks(r, tick)
      /\ outcome'[p] = Running
  <2>1. p \in DOMAIN update /\ p \in DOMAIN queue /\ p \in DOMAIN outgoing
        /\ p \in DOMAIN serverActions /\ p \in DOMAIN confirmed
        /\ p \in DOMAIN localTick /\ p \in DOMAIN unconfirmed
    BY <1>3 DEF Client!TypeOK
  <2>2. /\ queue' = [queue EXCEPT ![p] = Ticks(r, tick)]
        /\ unconfirmed' = [unconfirmed EXCEPT ![p] = Ticks(r, tick)]
    BY <1>1
  <2> HIDE DEF r
  <2> QED BY <1>1, <1>2, <2>1, <2>2
<1>8. /\ contest' = contest /\ result' = result /\ gameOverTick' = gameOverTick
      /\ completed' = completed /\ completedAll' = completedAll
      /\ actions' = actions /\ active' = active /\ toClient' = toClient
  BY DEF serverVars
<1>9. p \in Players /\ Len(Client!NoActions[p]) = 0 /\ Len(synced) = r
  BY <1>1, <1>5, Types, EmptySeq
<1>10. Received(p)' = r
  BY <1>4, <1>7, <1>9 DEF Received
<1>11. next.from = r
  BY <1>1, <1>3 DEF ClientInv, QueuesInv
<1>12. QueuesInv(p)'
  <2>1. next.actions = Client!FirstOf(Ticks(r, tick), MaxTicksInUpdate)
    BY <1>1
  <2> HIDE DEF r
  <2> QED BY <1>4, <1>7, <1>9, <1>10, <1>11, <2>1 DEF QueuesInv
<1>13. ASSUME NEW x \in Client!GameUpdate,
              Sent(x, update[p].from, confirmed[p], localTick[p])
       PROVE  Sent(x, r, synced, tick)
  <2>1. update[p].from = r /\ confirmed[p] \in History /\ localTick[p] = now
    BY <1>3, Types DEF ClientInv, QueuesInv, now
  <2>2. Extends(confirmed[p], synced) /\ r <= r
    BY <1>1, <1>4
  <2> DEFINE h == confirmed[p]
  <2>3. Sent(x, r, h, now) /\ h \in History /\ Extends(h, synced)
    BY <1>13, <2>1, <2>2
  <2> HIDE DEF r, h
  <2> QED BY <1>4, <2>2, <2>3, SentKeeps
<1>14. Sent(next, r, synced, tick)
  <2>1. CASE next = update[p]
    <3>1. Sent(next, update[p].from, confirmed[p], localTick[p])
      BY <1>3, <2>1 DEF ClientInv, SentInv
    <3> QED BY <1>13, <3>1
  <2>2. CASE /\ next.actions = Client!FirstOf(Ticks(r, tick), MaxTicksInUpdate)
             /\ next.checksumTick = Len(synced) /\ next.checksum = synced
    <3> DEFINE last == Least(r + MaxTicksInUpdate, tick)
    <3>1. MaxTicksInUpdate \in Nat
      BY ClientAssumption DEF Client!ClientConstants
    <3>2. next.checksum = SubSeq(synced, 1, next.checksumTick)
          /\ next.checksumTick <= Len(synced)
      <4>1. synced = SubSeq(synced, 1, Len(synced)) /\ Len(synced) \in Nat
        BY SubSeqFull, LenProperties DEF History
      <4> QED BY <2>2, <4>1
    <3> HIDE DEF r
    <3>3. next.actions = Ticks(r, last)
      BY <1>4, <2>2, <3>1, TicksFirst
    <3>4. last \in Nat /\ r <= last /\ last <= tick
      BY <1>4, <3>1 DEF Least
    <3> HIDE DEF last
    <3>5. /\ Len(Ticks(r, last)) = last - r
          /\ \A i \in 1..last - r : Ticks(r, last)[i] = r + i - 1
      BY <1>4, <3>4, TicksType
    <3>6. r + (last - r) = last /\ r <= r
      BY <1>4, <3>4
    <3>7. NamedByTick(next.actions, r)
      BY <3>3, <3>5 DEF NamedByTick, ServerProofs!NamedByTick
    <3>8. r + Len(next.actions) <= tick
      BY <3>3, <3>4, <3>5, <3>6
    <3> QED BY <1>11, <3>2, <3>6, <3>7, <3>8 DEF Sent
  <2> QED BY <1>1, <2>1, <2>2
<1>15. SentInv(p)'
  <2>1. ASSUME NEW x \in toServer'[p] \cup {outgoing'[p]}, x.type = "game_update"
        PROVE  Sent(x, r, synced, tick)
    <3>1. x = next \/ x \in toServer[p] \cup {outgoing[p]}
      BY <1>7
    <3>2. CASE x = next
      BY <1>14, <3>2
    <3>3. CASE x \in toServer[p] \cup {outgoing[p]}
      <4>1. Sent(x, update[p].from, confirmed[p], localTick[p])
        BY <1>3, <2>1, <3>3 DEF ClientInv, SentInv
      <4>2. x \in Client!GameUpdate \cup {Client!Ready}
        BY <3>3, Types DEF IInv, NetworkTypeOK
      <4>3. x \in Client!GameUpdate
        BY <2>1, <4>2 DEF Client!Ready
      <4> QED BY <1>13, <4>1, <4>3
    <3> QED BY <3>1, <3>2, <3>3
  <2> HIDE DEF r
  <2> QED BY <1>7, <1>11, <1>14, <2>1 DEF SentInv
<1>16. KnownInv(p)'
  <2>1. completed[p] <= r /\ (p \in active => NamedByTick(actions[p], completedAll))
    BY <1>3 DEF ClientInv, QueuesInv, KnownInv
  <2>2. p \in active => completedAll + Len(actions[p]) <= tick
    <3> DEFINE size == Len(actions[p])
    <3>1. size \in Nat /\ completedAll \in Nat
      BY <1>9, Types
    <3>2. p \in active => completedAll + size <= now
      BY <1>3 DEF ClientInv, KnownInv, now
    <3> HIDE DEF size
    <3>3. p \in active => completedAll + size <= tick
      BY <1>4, <3>1, <3>2
    <3> QED BY <3>3 DEF size
  <2> HIDE DEF r
  <2> QED BY <1>7, <1>8, <1>11, <2>1, <2>2 DEF KnownInv
<1>17. \A from \in Nat, acts \in [Players -> Seq(Nat)] :
         Sealed(p, from, acts, contest, localTick[p])
           => Sealed(p, from, acts, contest, tick)
  <2>1. Extends(contest, contest) /\ contest \in History /\ localTick[p] = now
    BY Types DEF Extends, now
  <2> QED BY <1>4, <1>9, <2>1, ExtendsKeeps
<1>18. ToldInv(p)'
  <2> SUFFICES ASSUME NEW x \in toClient[p]
               PROVE  Told(p, x)'
    BY <1>8 DEF ToldInv
  <2>1. Told(p, x)
    BY <1>3 DEF ClientInv, ToldInv
  <2>2. x.type = "game_update" => Sealed(p, x.from, x.actions, contest, tick)
    <3> SUFFICES ASSUME x.type = "game_update"
                 PROVE  Sealed(p, x.from, x.actions, contest, tick)
      OBVIOUS
    <3>1. x \in Confirmation
      BY DEF IInv, NetworkTypeOK, Start, GameOver
    <3>2. x.from \in Nat /\ x.actions \in [Players -> Seq(Nat)]
      BY <3>1 DEF Confirmation
    <3> QED BY <1>17, <2>1, <3>2 DEF Told
  <2>3. update'[p].from = update[p].from
    BY <1>3, <1>7, <1>11 DEF ClientInv, QueuesInv
  <2> QED BY <1>7, <1>8, <2>1, <2>2, <2>3 DEF Told
<1>19. FollowInv(p)'
  <2>1. FollowInv(p)
    BY <1>3 DEF ClientInv
  <2>2. Agrees(synced, contest)
    <3> DEFINE acts == serverActions[p]
               h == confirmed[p]
    <3>1. /\ Agrees(h, contest) /\ Sealed(p, Len(h), acts, contest, localTick[p])
          /\ h \in History /\ acts \in [Players -> Seq(Nat)] /\ p \in Players
          /\ contest \in History /\ WellFormed(contest)
      BY <2>1, Types DEF FollowInv
    <3>2. synced = Client!Advance(h, Len(acts[p]), acts)
      BY <1>1
    <3> HIDE DEF h, acts
    <3> QED BY <3>1, <3>2, Replay
  <2>3. Sealed(p, r, Client!NoActions, contest, tick)
    <3>1. r <= Len(contest)
      BY <2>1 DEF FollowInv, Sealed, Received
    <3> DEFINE none == Client!NoActions
    <3>2. \A q \in Players : none[q] = <<>>
      BY <1>5
    <3> HIDE DEF none, r
    <3>3. /\ \A q \in Players : Len(none[q]) = 0
          /\ r + 0 = r
      BY <1>4, <3>2, EmptySeq
    <3>4. Len(none[p]) = 0 /\ Len(contest) \in Nat
      BY <1>9, <3>3, Types
    <3>5. Sealed(p, r, none, contest, tick)
      BY <1>4, <3>1, <3>3, <3>4 DEF Sealed
    <3> QED BY <3>5 DEF none
  <2>4. serverChecksum'[p] = SubSeq(contest', 1, Received(p)')
    BY <1>7, <1>8, <1>10, <2>1 DEF FollowInv
  <2> HIDE DEF r
  <2> QED BY <1>7, <1>8, <1>9, <2>2, <2>3, <2>4 DEF FollowInv
<1> QED BY <1>6, <1>12, <1>15, <1>16, <1>18, <1>19 DEF ClientInv

-----------------------------------------------------------------------------
(* What the server does.                                                   *)

\* The messages and the players are the same on both sides.
LEMMA SameMessages ==
  /\ ServerProofs!ClientUpdate = Client!GameUpdate
  /\ ServerProofs!Humans = Clients
BY SameTypes
DEF ServerProofs!ClientUpdate, Client!GameUpdate, ServerProofs!Humans, Clients

\* The network makes no message up.
LEMMA Datagrams ==
  /\ \A way, m : Carrying(way, m) \subseteq way \cup {m}
  /\ \A way, m, left : left \in Delivered(way, m) => left \subseteq way
BY DEF Carrying, Delivered

\* The types of what is in the state after a step.
LEMMA ServerTypes ==
  ASSUME ServerProofs!IInv'
  PROVE  /\ contest' \in History /\ Len(contest') = simulationTick'
         /\ simulationTick' \in Nat /\ completedAll' \in Nat
         /\ result' \in Players \cup {Running, Draw} /\ gameOverTick' \in Nat
         /\ completed' \in [Players -> Nat] /\ actions' \in [Players -> Seq(Nat)]
         /\ reward' \in [Players -> {"unset", "none", "draw", "victory", "defeat"}]
BY SameTypes
DEF ServerProofs!IInv, ServerProofs!TypeOK, ServerProofs!ChecksumsAligned

\* What the server knows of the clients once it has accepted an update.
LEMMA AcceptUpdateKnows ==
  ASSUME IInv, NEW p \in Clients, NEW m \in toServer[p], m.type = "game_update",
         Server!AcceptUpdate(p, m), update' = update, localTick' = localTick
  PROVE  /\ ServerProofs!IInv'
         /\ InTheirTick'
         /\ Extends(contest, contest')
         /\ result # Running => result' = result /\ gameOverTick' = gameOverTick
         /\ simulationTick' = simulationTick => result' = result
         /\ active' \subseteq active
         /\ \A q \in Clients : KnownInv(q)'
         /\ \A q \in active \cap Clients :
              /\ completedAll' <= completed'[q]
              /\ completed'[q] <= simulationTick'
              /\ simulationTick' <= completedAll' + Len(actions'[q])
              /\ completedAll' + Len(actions'[q]) <= localTick[q]
         /\ p \in active
<1>1. m \in ServerProofs!ClientUpdate /\ p \in ServerProofs!Humans
  <2>1. m \in Client!GameUpdate \cup {Client!Ready}
    BY DEF IInv, NetworkTypeOK
  <2> QED BY <2>1, SameMessages DEF Client!Ready
<1>2. ServerProofs!IInv /\ ServerProofs!AcceptUpdate(p, m)
  BY SameHandlers DEF IInv
<1>3. ServerProofs!IInv'
  BY <1>1, <1>2, Constants, ServerProofs!AcceptUpdateStep
<1>4. /\ p \in active /\ m.from <= simulationTick
      /\ active' \subseteq active
      /\ simulationTick <= simulationTick'
      /\ Len(contest') = simulationTick'
      /\ \A i \in 1..simulationTick : contest'[i] = contest[i]
      /\ \A q \in Players \ {p} : completed'[q] = completed[q]
      /\ completed'[p] \in {completed[p], m.from}
      /\ \A q \in active \cap Clients :
           /\ completedAll' <= completed'[q]
           /\ completed'[q] <= simulationTick'
           /\ simulationTick' <= completedAll' + Len(actions'[q])
      /\ \A q \in (active \cap Clients) \ {p} :
           completedAll' + Len(actions'[q]) = completedAll + Len(actions[q])
      /\ completedAll' + Len(actions'[p])
           \in {completedAll + Len(actions[p]), m.from + Len(m.actions)}
      /\ result # Running \/ simulationTick' = simulationTick => result' = result
      /\ result # Running => gameOverTick' = gameOverTick
  BY <1>1, <1>2, Constants, SameMessages, ServerProofs!UpdateForClients
<1>5. /\ Sent(m, update[p].from, confirmed[p], localTick[p])
      /\ \A q \in Clients : KnownInv(q)
  BY DEF IInv, ClientInv, SentInv
<1>6. /\ ServerProofs!NamedByTick(m.actions, m.from)
      /\ \A q \in active \cap Clients : ServerProofs!NamedByTick(actions[q], completedAll)
  BY <1>5 DEF Sent, KnownInv, NamedByTick
<1>7. /\ \A q \in active \cap Clients :
           ServerProofs!NamedByTick(actions'[q], completedAll')
      /\ \A t \in simulationTick + 1..simulationTick', q \in Players :
           contest'[t][q] \in Nat => contest'[t][q] = t - 1
  BY <1>1, <1>2, <1>6, Constants, SameMessages, SameTypes,
     ServerProofs!UpdateInTheirTick
<1>8. simulationTick \in Nat /\ simulationTick' \in Nat /\ Len(contest) = simulationTick
  BY <1>3, Types, ServerTypes
<1>9. InTheirTick'
  <2> SUFFICES ASSUME NEW t \in 1..simulationTick', NEW q \in Players,
                      contest'[t][q] \in Nat
               PROVE  contest'[t][q] = t - 1
    BY <1>4, SameTypes DEF InTheirTick
  <2>1. CASE t <= simulationTick
    <3>1. t \in 1..Len(contest) /\ contest'[t] = contest[t]
      BY <1>4, <1>8, <2>1
    <3> QED BY <3>1, SameTypes DEF IInv, InTheirTick
  <2>2. CASE ~(t <= simulationTick)
    <3>1. t \in simulationTick + 1..simulationTick'
      BY <1>8, <2>2
    <3> QED BY <1>7, <3>1
  <2> QED BY <2>1, <2>2
<1>10. Extends(contest, contest')
  BY <1>4, <1>8 DEF Extends
<1>11. ASSUME NEW q \in Clients
       PROVE  completed'[q] <= update[q].from
  <2>1. completed[q] <= update[q].from /\ q \in Players
    BY <1>5, Types DEF KnownInv
  <2>2. CASE q = p
    <3>1. m.from <= update[p].from
      BY <1>5 DEF Sent
    <3> QED BY <1>4, <2>1, <2>2, <3>1
  <2>3. CASE q # p
    BY <1>4, <2>1, <2>3
  <2> QED BY <2>2, <2>3
<1>12. ASSUME NEW q \in active \cap Clients
       PROVE  completedAll' + Len(actions'[q]) <= localTick[q]
  <2>1. completedAll + Len(actions[q]) <= localTick[q]
    BY <1>5 DEF KnownInv
  <2>2. CASE q = p
    <3>1. m.from + Len(m.actions) <= localTick[p]
      BY <1>5 DEF Sent
    <3> QED BY <1>4, <2>1, <2>2, <3>1
  <2>3. CASE q # p
    BY <1>4, <2>1, <2>3
  <2> QED BY <2>2, <2>3
<1>13. ASSUME NEW q \in Clients
       PROVE  KnownInv(q)'
  BY <1>4, <1>7, <1>11, <1>12 DEF KnownInv, NamedByTick
<1> QED BY <1>3, <1>4, <1>9, <1>10, <1>12, <1>13

\* The answer of the server.
LEMMA ReplyTells ==
  ASSUME IInv, NEW p \in Clients, NEW m \in toServer[p], m.type = "game_update",
         Server!AcceptUpdate(p, m), update' = update, localTick' = localTick,
         NEW reply, reply = Server!Reply(p)'
  PROVE  reply \in Confirmation \cup GameOver /\ Told(p, reply)'
<1>1. /\ ServerProofs!IInv' /\ p \in active
      /\ completedAll' <= completed'[p]
      /\ completed'[p] <= simulationTick'
      /\ simulationTick' <= completedAll' + Len(actions'[p])
      /\ completedAll' + Len(actions'[p]) <= localTick[p]
      /\ KnownInv(p)'
  BY AcceptUpdateKnows
<1>2. /\ contest' \in History /\ Len(contest') = simulationTick'
      /\ simulationTick' \in Nat /\ completedAll' \in Nat
      /\ result' \in Players \cup {Running, Draw} /\ gameOverTick' \in Nat
      /\ completed' \in [Players -> Nat] /\ actions' \in [Players -> Seq(Nat)]
      /\ reward' \in [Players -> {"unset", "none", "draw", "victory", "defeat"}]
      /\ p \in Players /\ localTick[p] \in Nat /\ update[p].from \in Nat
  BY <1>1, ServerTypes, Types
<1>3. CASE result' # Running /\ gameOverTick' <= completed'[p]
  <2>1. reply = [type |-> "game_over", winner |-> result', reward |-> reward'[p]]
    BY <1>3, SameReply
  <2>2. reply \in GameOver /\ reply.type = "game_over" /\ reply.winner = result'
    BY <1>2, <2>1 DEF GameOver
  <2>3. gameOverTick' <= update[p].from
    <3> DEFINE known == completed'[p]
    <3>1. known \in Nat /\ known <= update[p].from /\ gameOverTick' <= known
      BY <1>1, <1>2, <1>3 DEF KnownInv
    <3> HIDE DEF known
    <3> QED BY <1>2, <3>1
  <2> QED BY <1>3, <2>2, <2>3 DEF Told
<1>4. CASE ~(result' # Running /\ gameOverTick' <= completed'[p])
  <2>1. reply = ServerProofs!ActionsMessage(p)'
    BY <1>4, SameReply
  <2>2. /\ reply.type = "game_update" /\ reply.from = completed'[p]
        /\ reply = [type |-> "game_update", from |-> reply.from,
                    finalChecksum |-> reply.finalChecksum,
                    actions |-> reply.actions]
        /\ reply.actions \in [Players -> Seq(Nat)]
        /\ reply.finalChecksum \in History
        /\ reply.from + Len(reply.actions[p]) <= Len(contest')
        /\ reply.finalChecksum
             = SubSeq(contest', 1, reply.from + Len(reply.actions[p]))
        /\ \A q \in Players : Len(reply.actions[q]) <= Len(reply.actions[p])
        /\ \A q \in Players : \A i \in 1..Len(reply.actions[p]) :
             contest'[reply.from + i][q] \in Nat =>
               /\ i \in 1..Len(reply.actions[q])
               /\ reply.actions[q][i] = contest'[reply.from + i][q]
    <3>1. p \in ServerProofs!Humans
      BY SameMessages
    <3> QED BY <1>1, <2>1, <3>1, Constants, SameTypes,
               ServerProofs!ActionsMessageTells
  <2>3. reply \in Confirmation
    BY <1>2, <2>2 DEF Confirmation
  <2>4. reply.from + Len(reply.actions[p]) <= localTick[p]
    <3> DEFINE last == reply.from + Len(reply.actions[p])
               reached == completedAll' + Len(actions'[p])
    <3>1. last \in Nat /\ reached \in Nat
      <4> DEFINE a == Len(reply.actions[p])
                 b == Len(actions'[p])
      <4>1. reply.actions[p] \in Seq(Nat) /\ actions'[p] \in Seq(Nat)
        BY <1>2, <2>2
      <4>2. a \in Nat
        BY <4>1, LenProperties
      <4>3. b \in Nat
        BY <4>1, LenProperties
      <4>4. reply.from \in Nat
        BY <1>2, <2>2
      <4> HIDE DEF a, b
      <4>5. \A i, j \in Nat : i + j \in Nat
        OBVIOUS
      <4>6. reply.from + a \in Nat /\ completedAll' + b \in Nat
        BY <1>2, <4>2, <4>3, <4>4, <4>5
      <4> QED BY <4>6 DEF a, b
    <3>2. last <= simulationTick' /\ simulationTick' <= reached
          /\ reached <= localTick[p]
      BY <1>1, <1>2, <2>2
    <3> HIDE DEF last, reached
    <3>3. last <= localTick[p]
      BY <1>2, <3>1, <3>2
    <3> QED BY <3>3 DEF last
  <2>5. Sealed(p, reply.from, reply.actions, contest', localTick[p])
    BY <2>2, <2>4, SameTypes DEF Sealed
  <2> QED BY <2>2, <2>3, <2>5 DEF Told
<1> QED BY <1>3, <1>4

-----------------------------------------------------------------------------
(* The steps of the game.                                                  *)

\* Nothing changes for p.
Untouched(p) ==
  /\ phase'[p] = phase[p] /\ update'[p] = update[p] /\ queue'[p] = queue[p]
  /\ outgoing'[p] = outgoing[p] /\ serverActions'[p] = serverActions[p]
  /\ serverChecksum'[p] = serverChecksum[p] /\ confirmed'[p] = confirmed[p]
  /\ localTick'[p] = localTick[p] /\ unconfirmed'[p] = unconfirmed[p]
  /\ outcome'[p] = outcome[p]
  /\ toServer'[p] \subseteq toServer[p]
  /\ toClient'[p] \subseteq toClient[p]

\* What remains true of p when it is told and confirms nothing new, and the
\* contest does not move, whoever is kicked out.
LEMMA QuietStays ==
  ASSUME IInv, NEW p \in Clients, active' \subseteq active,
         UNCHANGED <<completedAll, completed, actions, contest, result, gameOverTick>>,
         phase'[p] \in {"idle", "start"} => phase[p] \in {"idle", "start"},
         update'[p] = update[p], queue'[p] = queue[p],
         outgoing'[p] \in {outgoing[p], Client!Ready},
         serverActions'[p] = serverActions[p],
         serverChecksum'[p] = serverChecksum[p],
         confirmed'[p] = confirmed[p], localTick'[p] = localTick[p],
         unconfirmed'[p] = unconfirmed[p], outcome'[p] = outcome[p],
         toServer'[p] \subseteq toServer[p] \cup {outgoing'[p]},
         toClient'[p] \subseteq toClient[p]
  PROVE  ClientInv(p)'
<1>1. contest \in History /\ Len(contest) \in Nat /\ ClientInv(p)
  BY Types DEF IInv
<1>2. Extends(contest, contest')
  BY <1>1 DEF Extends
<1>3. KnownInv(p)'
  BY <1>1 DEF ClientInv, KnownInv
<1>4. outcome'[p] = outcome[p]
        \/ (outcome'[p] = result' /\ gameOverTick' <= update[p].from)
  OBVIOUS
<1>5. contest' \in History
      /\ (result # Running => result' = result /\ gameOverTick' = gameOverTick)
  BY <1>1
<1>6. \A m \in toClient'[p] : m \in toClient[p] \/ Told(p, m)'
  <2> TAKE m \in toClient'[p]
  <2> QED OBVIOUS
<1> QED BY <1>2, <1>3, <1>4, <1>5, <1>6, ClientStays

\* In particular, when nothing changes for p.
LEMMA UntouchedStays ==
  ASSUME IInv, NEW p \in Clients, Untouched(p), active' \subseteq active,
         UNCHANGED <<completedAll, completed, actions, contest, result, gameOverTick>>
  PROVE  ClientInv(p)'
<1>1. /\ phase'[p] \in {"idle", "start"} => phase[p] \in {"idle", "start"}
      /\ update'[p] = update[p] /\ queue'[p] = queue[p]
      /\ outgoing'[p] \in {outgoing[p], Client!Ready}
      /\ serverActions'[p] = serverActions[p]
      /\ serverChecksum'[p] = serverChecksum[p]
      /\ confirmed'[p] = confirmed[p] /\ localTick'[p] = localTick[p]
      /\ unconfirmed'[p] = unconfirmed[p] /\ outcome'[p] = outcome[p]
      /\ toServer'[p] \subseteq toServer[p] \cup {outgoing'[p]}
      /\ toClient'[p] \subseteq toClient[p]
  BY DEF Untouched
<1> QED BY <1>1, QuietStays

\* The invariant of the server does not depend on the clients.
LEMMA ServerStays ==
  ASSUME IInv, UNCHANGED serverVars
  PROVE  ServerProofs!IInv' /\ InTheirTick' /\ active' \subseteq active
<1>1. ServerProofs!IInv'
  BY Constants, ServerProofs!StutterStep
  DEF IInv, serverVars, ServerProofs!vars, ServerProofs!simulation
<1>2. InTheirTick'
  BY DEF IInv, InTheirTick, serverVars
<1> QED BY <1>1, <1>2 DEF serverVars

\* Only the exchanges of p with the server change.
Only(p) ==
  /\ UNCHANGED serverVars
  /\ \A q \in Clients \ {p} : Untouched(q)

\* The invariant of the game follows from the one of p then.
LEMMA OnlyStays ==
  ASSUME IInv, NEW p \in Clients, Only(p), Client!TypeOK', NetworkTypeOK',
         ClientInv(p)'
  PROVE  IInv'
<1>1. ASSUME NEW q \in Clients
      PROVE  ClientInv(q)'
  <2>1. CASE q # p
    <3>1. Untouched(q)
      BY <2>1 DEF Only
    <3>2. /\ active' \subseteq active
          /\ UNCHANGED <<completedAll, completed, actions, contest, result,
                         gameOverTick>>
      BY DEF Only, serverVars
    <3> QED BY <3>1, <3>2, UntouchedStays
  <2> QED BY <2>1
<1>2. ServerProofs!IInv' /\ InTheirTick'
  BY ServerStays DEF Only
<1> QED BY <1>1, <1>2 DEF IInv

\* The messages in flight.
LEMMA InFlight ==
  ASSUME IInv, toServer' \in [Clients -> SUBSET (Client!GameUpdate \cup {Client!Ready})],
         toClient' \in [Clients -> SUBSET (Start \cup Confirmation \cup GameOver)]
  PROVE  NetworkTypeOK'
BY DEF NetworkTypeOK

\* A message is sent to the server.
LEMMA Carried ==
  ASSUME IInv, NEW p \in Clients, NEW m \in Client!GameUpdate \cup {Client!Ready},
         toServer' = [toServer EXCEPT ![p] = Carrying(@, m)]
  PROVE  /\ toServer' \in [Clients -> SUBSET (Client!GameUpdate \cup {Client!Ready})]
         /\ toServer'[p] \subseteq toServer[p] \cup {m}
         /\ \A q \in Clients \ {p} : toServer'[q] = toServer[q]
<1>1. toServer \in [Clients -> SUBSET (Client!GameUpdate \cup {Client!Ready})]
  BY DEF IInv, NetworkTypeOK
<1> DEFINE way == Carrying(toServer[p], m)
<1>2. way \subseteq toServer[p] \cup {m}
  BY Datagrams
<1>3. toServer' = [toServer EXCEPT ![p] = way]
  OBVIOUS
<1> HIDE DEF way
<1> QED BY <1>1, <1>2, <1>3

\* A message is sent to a client.
LEMMA Answered ==
  ASSUME IInv, NEW p \in Clients, NEW m \in Start \cup Confirmation \cup GameOver,
         Answers(p, m)
  PROVE  /\ toClient' \in [Clients -> SUBSET (Start \cup Confirmation \cup GameOver)]
         /\ toClient'[p] \subseteq toClient[p] \cup {m}
         /\ \A q \in Clients \ {p} : toClient'[q] = toClient[q]
<1>1. toClient \in [Clients -> SUBSET (Start \cup Confirmation \cup GameOver)]
  BY DEF IInv, NetworkTypeOK
<1> DEFINE way == Carrying(toClient[p], m)
<1>2. way \subseteq toClient[p] \cup {m}
  BY Datagrams
<1>3. toClient' = [toClient EXCEPT ![p] = way]
  BY DEF Answers
<1> HIDE DEF way
<1> QED BY <1>1, <1>2, <1>3

\* Messages are taken from the network, or lost.
LEMMA Taken ==
  ASSUME IInv, NEW p \in Clients, NEW way
  PROVE  /\ way \subseteq toServer[p] /\ toServer' = [toServer EXCEPT ![p] = way]
              => /\ toServer' \in [Clients -> SUBSET (Client!GameUpdate
                                                        \cup {Client!Ready})]
                 /\ \A q \in Clients : toServer'[q] \subseteq toServer[q]
         /\ way \subseteq toClient[p] /\ toClient' = [toClient EXCEPT ![p] = way]
              => /\ toClient' \in [Clients -> SUBSET (Start \cup Confirmation
                                                        \cup GameOver)]
                 /\ \A q \in Clients : toClient'[q] \subseteq toClient[q]
BY DEF IInv, NetworkTypeOK
-----------------------------------------------------------------------------
(* Each action preserves the invariant: the clients.                       *)

\* start(): nothing has been confirmed yet.
LEMMA StartExchangeKeeps ==
  ASSUME IInv, NEW p \in Clients, StartExchange(p)
  PROVE  IInv'
<1>1. /\ UNCHANGED <<update, queue, serverActions, serverChecksum, confirmed,
                     localTick, unconfirmed, outcome, serverVars, toClient>>
      /\ phase' = [phase EXCEPT ![p] = "start"] /\ phase[p] = "idle"
      /\ outgoing' = [outgoing EXCEPT ![p] = Client!Ready]
      /\ looping' = [looping EXCEPT ![p] = TRUE]
      /\ toServer' = [toServer EXCEPT ![p] = Carrying(@, outgoing'[p])]
  BY DEF StartExchange, Client!StartExchange, Client!runner
<1>2. Client!TypeOK /\ NetworkTypeOK /\ ClientInv(p)
  BY DEF IInv
<1>3. Client!TypeOK'
  BY <1>1, <1>2 DEF Client!TypeOK
<1>4. outgoing'[p] = Client!Ready
  BY <1>1, <1>2 DEF Client!TypeOK
<1>5. /\ toServer' \in [Clients -> SUBSET (Client!GameUpdate \cup {Client!Ready})]
      /\ toServer'[p] \subseteq toServer[p] \cup {outgoing'[p]}
      /\ \A q \in Clients \ {p} : toServer'[q] = toServer[q]
  BY <1>1, <1>4, Carried
<1>6. NetworkTypeOK'
  BY <1>1, <1>2, <1>5 DEF NetworkTypeOK
<1>7. Only(p)
  BY <1>1, <1>2, <1>5 DEF Only, Untouched, Client!TypeOK
<1>8. ClientInv(p)'
  <2>2. /\ active' \subseteq active
        /\ UNCHANGED <<completedAll, completed, actions, contest, result,
                       gameOverTick>>
    BY <1>1 DEF serverVars
  <2>3. /\ phase'[p] \in {"idle", "start"} => phase[p] \in {"idle", "start"}
        /\ update'[p] = update[p] /\ queue'[p] = queue[p]
        /\ outgoing'[p] \in {outgoing[p], Client!Ready}
        /\ serverActions'[p] = serverActions[p]
        /\ serverChecksum'[p] = serverChecksum[p]
        /\ confirmed'[p] = confirmed[p] /\ localTick'[p] = localTick[p]
        /\ unconfirmed'[p] = unconfirmed[p] /\ outcome'[p] = outcome[p]
        /\ toServer'[p] \subseteq toServer[p] \cup {outgoing'[p]}
        /\ toClient'[p] \subseteq toClient[p]
    BY <1>1, <1>4, <1>5
  <2> QED BY <2>2, <2>3, QuietStays
<1> QED BY <1>3, <1>6, <1>7, <1>8, OnlyStays

\* internal_send: the message has been prepared earlier.
LEMMA ResendKeeps ==
  ASSUME IInv, NEW p \in Clients, Resend(p)
  PROVE  IInv'
<1>1. /\ UNCHANGED <<serverVars, phase, update, queue, outgoing, looping,
                     serverActions, serverChecksum, confirmed, localTick,
                     unconfirmed, outcome, toClient>>
      /\ toServer' = [toServer EXCEPT ![p] = Carrying(@, outgoing[p])]
  BY DEF Resend, clientVars
<1>2. Client!TypeOK /\ NetworkTypeOK /\ ClientInv(p)
  BY DEF IInv
<1>3. Client!TypeOK'
  BY <1>1, <1>2 DEF Client!TypeOK
<1>5. /\ toServer' \in [Clients -> SUBSET (Client!GameUpdate \cup {Client!Ready})]
      /\ toServer'[p] \subseteq toServer[p] \cup {outgoing[p]}
      /\ \A q \in Clients \ {p} : toServer'[q] = toServer[q]
  BY <1>1, Carried, Types
<1>6. NetworkTypeOK'
  BY <1>1, <1>2, <1>5 DEF NetworkTypeOK
<1>7. Only(p)
  BY <1>1, <1>2, <1>5 DEF Only, Untouched
<1>8. ClientInv(p)'
  <2>2. /\ active' \subseteq active
        /\ UNCHANGED <<completedAll, completed, actions, contest, result,
                       gameOverTick>>
    BY <1>1 DEF serverVars
  <2>3. /\ phase'[p] \in {"idle", "start"} => phase[p] \in {"idle", "start"}
        /\ update'[p] = update[p] /\ queue'[p] = queue[p]
        /\ outgoing'[p] \in {outgoing[p], Client!Ready}
        /\ serverActions'[p] = serverActions[p]
        /\ serverChecksum'[p] = serverChecksum[p]
        /\ confirmed'[p] = confirmed[p] /\ localTick'[p] = localTick[p]
        /\ unconfirmed'[p] = unconfirmed[p] /\ outcome'[p] = outcome[p]
        /\ toServer'[p] \subseteq toServer[p] \cup {outgoing'[p]}
        /\ toClient'[p] \subseteq toClient[p]
    BY <1>1, <1>5
  <2> QED BY <2>2, <2>3, QuietStays
<1> QED BY <1>3, <1>6, <1>7, <1>8, OnlyStays

\* run(), and the message it sends.
LEMMA RunKeeps ==
  ASSUME IInv, NEW p \in Clients, NEW n \in Nat, Run(p, n)
  PROVE  IInv'
<1>1. /\ Client!Run(p, n) /\ UNCHANGED <<serverVars, toClient>>
      /\ toServer' = IF looping[p] THEN toServer
                     ELSE [toServer EXCEPT ![p] = Carrying(@, outgoing'[p])]
  BY DEF Run
<1>2. Client!TypeOK /\ NetworkTypeOK
  BY DEF IInv
<1>3. outgoing'[p] \in Client!GameUpdate \cup {Client!Ready}
  <2>1. PICK next \in Client!GameUpdate :
          outgoing' \in {outgoing, [outgoing EXCEPT ![p] = next]}
    BY <1>1, RunEffect
  <2>2. outgoing \in [Clients -> Client!GameUpdate \cup {Client!Ready}]
    BY <1>2 DEF Client!TypeOK
  <2> QED BY <2>1, <2>2
<1>4. /\ toServer' \in [Clients -> SUBSET (Client!GameUpdate \cup {Client!Ready})]
      /\ toServer'[p] \subseteq toServer[p] \cup {outgoing'[p]}
      /\ \A q \in Clients \ {p} : toServer'[q] = toServer[q]
  <2>1. CASE looping[p]
    <3>1. toServer' = toServer
      BY <1>1, <2>1
    <3> QED BY <1>2, <3>1 DEF NetworkTypeOK
  <2>2. CASE ~looping[p]
    <3>1. toServer' = [toServer EXCEPT ![p] = Carrying(@, outgoing'[p])]
      BY <1>1, <2>2
    <3> QED BY <1>3, <3>1, Carried
  <2> QED BY <2>1, <2>2
<1>5. Client!TypeOK' /\ ClientInv(p)'
  BY <1>1, <1>4, RunStep
<1>6. NetworkTypeOK'
  BY <1>1, <1>2, <1>4 DEF NetworkTypeOK
<1>7. Only(p)
  <2>1. ASSUME NEW q \in Clients \ {p}
        PROVE  /\ phase'[q] = phase[q] /\ update'[q] = update[q]
               /\ queue'[q] = queue[q] /\ outgoing'[q] = outgoing[q]
               /\ serverActions'[q] = serverActions[q]
               /\ serverChecksum'[q] = serverChecksum[q]
               /\ confirmed'[q] = confirmed[q] /\ localTick'[q] = localTick[q]
               /\ unconfirmed'[q] = unconfirmed[q] /\ outcome'[q] = outcome[q]
    BY <1>1, <1>2 DEF Client!Run, Client!TypeOK
  <2> QED BY <1>1, <1>4, <2>1 DEF Only, Untouched
<1> QED BY <1>5, <1>6, <1>7, OnlyStays

\* The end of the exchange.
LEMMA LeaveKeeps ==
  ASSUME IInv, NEW p \in Clients, Leave(p)
  PROVE  IInv'
<1>1. /\ UNCHANGED <<serverVars, update, queue, outgoing, serverActions,
                     serverChecksum, confirmed, localTick, unconfirmed, outcome,
                     toServer>>
      /\ phase' = [phase EXCEPT ![p] = "left"]
      /\ looping' = [looping EXCEPT ![p] = FALSE]
      /\ toClient' = [toClient EXCEPT ![p] = {}]
  BY DEF Leave, Client!Leave, Client!runner
<1>2. Client!TypeOK /\ NetworkTypeOK /\ ClientInv(p)
  BY DEF IInv
<1>3. Client!TypeOK'
  BY <1>1, <1>2 DEF Client!TypeOK
<1>6. NetworkTypeOK'
  BY <1>1, <1>2 DEF NetworkTypeOK
<1>7. Only(p)
  BY <1>1, <1>2 DEF Only, Untouched, Client!TypeOK
<1>8. ClientInv(p)'
  <2>1. phase'[p] = "left" /\ toClient'[p] = {}
    BY <1>1, <1>2 DEF Client!TypeOK, NetworkTypeOK
  <2>2. /\ active' \subseteq active
        /\ UNCHANGED <<completedAll, completed, actions, contest, result,
                       gameOverTick>>
    BY <1>1 DEF serverVars
  <2>3. /\ phase'[p] \in {"idle", "start"} => phase[p] \in {"idle", "start"}
        /\ update'[p] = update[p] /\ queue'[p] = queue[p]
        /\ outgoing'[p] \in {outgoing[p], Client!Ready}
        /\ serverActions'[p] = serverActions[p]
        /\ serverChecksum'[p] = serverChecksum[p]
        /\ confirmed'[p] = confirmed[p] /\ localTick'[p] = localTick[p]
        /\ unconfirmed'[p] = unconfirmed[p] /\ outcome'[p] = outcome[p]
        /\ toServer'[p] \subseteq toServer[p] \cup {outgoing'[p]}
        /\ toClient'[p] \subseteq toClient[p]
    BY <1>1, <1>2, <2>1
  <2> QED BY <2>2, <2>3, QuietStays
<1> QED BY <1>3, <1>6, <1>7, <1>8, OnlyStays

\* A message is received by a client, which it may have received already.
LEMMA ClientReceivesKeeps ==
  ASSUME IInv, NEW p \in Clients, NEW m \in toClient[p], ClientReceives(p, m)
  PROVE  IInv'
<1>1. PICK way \in Delivered(toClient[p], m) :
        toClient' = [toClient EXCEPT ![p] = way]
  BY DEF ClientReceives
<1>2. way \subseteq toClient[p]
  BY Datagrams
<1>3. /\ toClient' \in [Clients -> SUBSET (Start \cup Confirmation \cup GameOver)]
      /\ \A q \in Clients : toClient'[q] \subseteq toClient[q]
  BY <1>1, <1>2, Taken
<1>4. Client!TypeOK /\ NetworkTypeOK /\ ClientInv(p)
      /\ UNCHANGED <<serverVars, toServer>>
  BY DEF IInv, ClientReceives
<1>5. NetworkTypeOK'
  BY <1>3, <1>4 DEF NetworkTypeOK
<1>6. /\ active' \subseteq active
      /\ UNCHANGED <<completedAll, completed, actions, contest, result, gameOverTick>>
  BY <1>4 DEF serverVars
<1>7. /\ toServer'[p] \subseteq toServer[p] \cup {outgoing'[p]}
      /\ toClient'[p] \subseteq toClient[p]
  BY <1>3, <1>4
<1>8. CASE UNCHANGED clientVars
  <2>1. Client!TypeOK'
    BY <1>4, <1>8 DEF Client!TypeOK, clientVars
  <2>2. \A q \in Clients : Untouched(q)
    BY <1>3, <1>4, <1>8 DEF Untouched, clientVars
  <2>3. ClientInv(p)'
    BY <1>6, <2>2, UntouchedStays
  <2> QED BY <1>4, <1>5, <2>1, <2>2, <2>3, OnlyStays DEF Only
<1>9. CASE m.type = "start" /\ Client!ReceiveStart(p)
  <2>1. /\ phase[p] = "start" /\ phase' = [phase EXCEPT ![p] = "play"]
        /\ update' = [update EXCEPT ![p] = Client!NoUpdate]
        /\ looping' = [looping EXCEPT ![p] = FALSE]
        /\ UNCHANGED <<queue, outgoing, serverActions, serverChecksum, confirmed,
                       localTick, unconfirmed, outcome>>
    BY <1>9 DEF Client!ReceiveStart, Client!runner
  <2>2. update[p] = Client!NoUpdate
    BY <1>4, <2>1 DEF ClientInv, QueuesInv
  <2>3. update' = update
    BY <1>4, <2>1, <2>2 DEF Client!TypeOK
  <2>4. phase'[p] = "play"
    BY <1>4, <2>1 DEF Client!TypeOK
  <2>5. Client!TypeOK'
    BY <1>4, <2>1, <2>3 DEF Client!TypeOK
  <2>6. /\ phase'[p] \in {"idle", "start"} => phase[p] \in {"idle", "start"}
        /\ update'[p] = update[p] /\ queue'[p] = queue[p]
        /\ outgoing'[p] \in {outgoing[p], Client!Ready}
        /\ serverActions'[p] = serverActions[p]
        /\ serverChecksum'[p] = serverChecksum[p]
        /\ confirmed'[p] = confirmed[p] /\ localTick'[p] = localTick[p]
        /\ unconfirmed'[p] = unconfirmed[p] /\ outcome'[p] = outcome[p]
    BY <2>1, <2>3, <2>4
  <2>7. ClientInv(p)'
    BY <1>6, <1>7, <2>6, QuietStays
  <2>8. Only(p)
    BY <1>3, <1>4, <2>1, <2>3 DEF Only, Untouched, Client!TypeOK
  <2> QED BY <1>5, <2>5, <2>7, <2>8, OnlyStays
<1>10. CASE m.type = "game_update" /\ Client!ReceiveUpdate(p, m)
  <2>1. Client!TypeOK' /\ ClientInv(p)'
    BY <1>4, <1>7, <1>10, ReceiveUpdateStep
  <2>2. ASSUME NEW q \in Clients \ {p}
        PROVE  /\ phase'[q] = phase[q] /\ update'[q] = update[q]
               /\ queue'[q] = queue[q] /\ outgoing'[q] = outgoing[q]
               /\ serverActions'[q] = serverActions[q]
               /\ serverChecksum'[q] = serverChecksum[q]
               /\ confirmed'[q] = confirmed[q] /\ localTick'[q] = localTick[q]
               /\ unconfirmed'[q] = unconfirmed[q] /\ outcome'[q] = outcome[q]
    BY <1>4, <1>10 DEF Client!ReceiveUpdate, Client!TypeOK
  <2>3. Only(p)
    BY <1>3, <1>4, <2>2 DEF Only, Untouched
  <2> QED BY <1>5, <2>1, <2>3, OnlyStays
<1>11. CASE m.type = "game_over" /\ Client!ReceiveGameOver(p, m)
  <2>1. /\ outcome' = [outcome EXCEPT ![p] = m.winner]
        /\ UNCHANGED <<phase, update, queue, outgoing, looping, serverActions,
                       serverChecksum, confirmed, localTick, unconfirmed>>
    BY <1>11 DEF Client!ReceiveGameOver, Client!exchange
  <2>2. m.winner = result /\ result # Running /\ gameOverTick <= update[p].from
    BY <1>4, <1>11 DEF ClientInv, ToldInv, Told
  <2>3. Client!TypeOK'
    <3>1. m.winner \in Players \cup {Running, Draw}
      BY <2>2, Types
    <3> QED BY <1>4, <2>1, <3>1 DEF Client!TypeOK
  <2>4. outcome'[p] = result
    BY <1>4, <2>1, <2>2 DEF Client!TypeOK
  <2>5. ClientInv(p)'
    <3>1. contest \in History /\ Len(contest) \in Nat
      BY Types
    <3>2. Extends(contest, contest') /\ contest' \in History
      BY <1>6, <3>1 DEF Extends
    <3>3. KnownInv(p)'
      BY <1>4, <1>6, <2>1 DEF ClientInv, KnownInv
    <3>4. /\ outcome'[p] = outcome[p]
               \/ (outcome'[p] = result' /\ gameOverTick' <= update[p].from)
          /\ result # Running => result' = result /\ gameOverTick' = gameOverTick
      BY <1>6, <2>2, <2>4
    <3>5. \A k \in toClient'[p] : k \in toClient[p] \/ Told(p, k)'
      <4> TAKE k \in toClient'[p]
      <4> QED BY <1>3
    <3>6. /\ phase'[p] \in {"idle", "start"} => phase[p] \in {"idle", "start"}
          /\ update'[p] = update[p] /\ queue'[p] = queue[p]
          /\ outgoing'[p] \in {outgoing[p], Client!Ready}
          /\ serverActions'[p] = serverActions[p]
          /\ serverChecksum'[p] = serverChecksum[p]
          /\ confirmed'[p] = confirmed[p] /\ localTick'[p] = localTick[p]
          /\ unconfirmed'[p] = unconfirmed[p]
      BY <2>1
    <3> QED BY <1>7, <3>2, <3>3, <3>4, <3>5, <3>6, ClientStays
  <2>6. Only(p)
    BY <1>3, <1>4, <2>1 DEF Only, Untouched, Client!TypeOK
  <2> QED BY <1>5, <2>3, <2>5, <2>6, OnlyStays
<1>12. \/ UNCHANGED clientVars
       \/ m.type = "start" /\ Client!ReceiveStart(p)
       \/ m.type = "game_update" /\ Client!ReceiveUpdate(p, m)
       \/ m.type = "game_over" /\ Client!ReceiveGameOver(p, m)
  BY DEF ClientReceives, Client!Receive, Client!vars, Client!exchange,
         Client!runner, clientVars
<1> QED BY <1>8, <1>9, <1>10, <1>11, <1>12

\* A message is lost.
LEMMA LoseKeeps ==
  ASSUME IInv, NEW p \in Clients, Lose(p)
  PROVE  IInv'
<1>1. UNCHANGED <<serverVars, clientVars>>
  BY DEF Lose
<1>2. Client!TypeOK /\ NetworkTypeOK
  BY DEF IInv
<1>3. NetworkTypeOK' /\ \A q \in Clients : /\ toServer'[q] \subseteq toServer[q]
                                          /\ toClient'[q] \subseteq toClient[q]
  <2>1. CASE /\ \E m \in toServer[p] :
                  toServer' = [toServer EXCEPT ![p] = toServer[p] \ {m}]
             /\ UNCHANGED toClient
    BY <1>2, <2>1 DEF NetworkTypeOK
  <2>2. CASE /\ \E m \in toClient[p] :
                  toClient' = [toClient EXCEPT ![p] = toClient[p] \ {m}]
             /\ UNCHANGED toServer
    BY <1>2, <2>2 DEF NetworkTypeOK
  <2> QED BY <2>1, <2>2 DEF Lose
<1>4. Client!TypeOK'
  BY <1>1, <1>2 DEF Client!TypeOK, clientVars
<1>5. \A q \in Clients : Untouched(q)
  BY <1>1, <1>3 DEF Untouched, clientVars
<1>6. ClientInv(p)'
  BY <1>1, <1>5, UntouchedStays DEF serverVars
<1> QED BY <1>1, <1>3, <1>4, <1>5, <1>6, OnlyStays DEF Only
-----------------------------------------------------------------------------
(* Each action preserves the invariant: the server.                        *)

\* The contest does not move: whoever is kicked out, and whatever is answered.
LEMMA ContestWaits ==
  ASSUME IInv, ServerProofs!IInv', NetworkTypeOK', UNCHANGED clientVars,
         active' \subseteq active,
         UNCHANGED <<completedAll, completed, actions, contest, result, gameOverTick>>,
         \A q \in Clients :
           /\ toServer'[q] \subseteq toServer[q]
           /\ \A m \in toClient'[q] : m \in toClient[q] \/ m \in Start
  PROVE  IInv'
<1>1. contest \in History /\ Len(contest) \in Nat
      /\ \A q \in Clients : ClientInv(q)
  BY Types DEF IInv
<1>2. InTheirTick' /\ Client!TypeOK'
  BY DEF IInv, InTheirTick, Client!TypeOK, clientVars
<1>3. ASSUME NEW p \in Clients
      PROVE  ClientInv(p)'
  <2>1. Extends(contest, contest') /\ contest' \in History
    BY <1>1 DEF Extends
  <2>2. KnownInv(p)'
    BY <1>1 DEF ClientInv, KnownInv, clientVars
  <2>3. /\ outcome'[p] = outcome[p]
             \/ (outcome'[p] = result' /\ gameOverTick' <= update[p].from)
        /\ result # Running => result' = result /\ gameOverTick' = gameOverTick
    BY DEF clientVars
  <2>4. ASSUME NEW m \in toClient'[p]
        PROVE  m \in toClient[p] \/ Told(p, m)'
    <3>1. CASE m \in Start
      <4>1. m.type = "start"
        BY <3>1 DEF Start
      <4>2. Told(p, m)'
        BY <4>1 DEF Told
      <4> QED BY <4>2
    <3> QED BY <3>1
  <2>5. \A m \in toClient'[p] : m \in toClient[p] \/ Told(p, m)'
    <3> TAKE m \in toClient'[p]
    <3> QED BY <2>4
  <2>6. /\ phase'[p] \in {"idle", "start"} => phase[p] \in {"idle", "start"}
        /\ update'[p] = update[p] /\ queue'[p] = queue[p]
        /\ outgoing'[p] \in {outgoing[p], Client!Ready}
        /\ serverActions'[p] = serverActions[p]
        /\ serverChecksum'[p] = serverChecksum[p]
        /\ confirmed'[p] = confirmed[p] /\ localTick'[p] = localTick[p]
        /\ unconfirmed'[p] = unconfirmed[p]
        /\ toServer'[p] \subseteq toServer[p] \cup {outgoing'[p]}
    BY DEF clientVars
  <2> QED BY <2>1, <2>2, <2>3, <2>5, <2>6, ClientStays
<1> QED BY <1>2, <1>3 DEF IInv

\* The passing of time.
LEMMA TickKeeps ==
  ASSUME IInv, Tick
  PROVE  IInv'
<1>1. ServerProofs!Tick /\ UNCHANGED <<clientVars, network>>
  BY SameHandlers DEF Tick
<1>2. ServerProofs!IInv'
  BY <1>1, Constants, ServerProofs!TickStep DEF IInv
<1>3. UNCHANGED <<active, completedAll, completed, actions, contest, result,
                  gameOverTick>>
  BY <1>1 DEF ServerProofs!Tick, ServerProofs!simulation
<1>4. NetworkTypeOK'
      /\ \A q \in Clients :
           /\ toServer'[q] \subseteq toServer[q]
           /\ \A m \in toClient'[q] : m \in toClient[q] \/ m \in Start
  BY <1>1 DEF IInv, NetworkTypeOK, network
<1> QED BY <1>1, <1>2, <1>3, <1>4, ContestWaits

\* A message is handled by the server, which it may have handled already.
LEMMA ServerReceivesKeeps ==
  ASSUME IInv, NEW p \in Clients, NEW m \in toServer[p], ServerReceives(p, m)
  PROVE  IInv'
<1>1. PICK way \in Delivered(toServer[p], m) :
        toServer' = [toServer EXCEPT ![p] = way]
  BY DEF ServerReceives
<1>2. way \subseteq toServer[p]
  BY Datagrams
<1>3. /\ toServer' \in [Clients -> SUBSET (Client!GameUpdate \cup {Client!Ready})]
      /\ \A q \in Clients : toServer'[q] \subseteq toServer[q]
  BY <1>1, <1>2, Taken
<1>4. Client!TypeOK /\ NetworkTypeOK /\ UNCHANGED clientVars
  BY DEF IInv, ServerReceives
<1>5. p \in ServerProofs!Humans /\ ServerProofs!IInv
  BY SameMessages DEF IInv
<1>6. CASE UNCHANGED <<serverVars, toClient>>
  <2>1. ServerProofs!IInv' /\ active' \subseteq active
        /\ UNCHANGED <<completedAll, completed, actions, contest, result, gameOverTick>>
    BY <1>6, ServerStays DEF serverVars
  <2>2. NetworkTypeOK'
    BY <1>3, <1>4, <1>6 DEF NetworkTypeOK
  <2> QED BY <1>3, <1>4, <1>6, <2>1, <2>2, ContestWaits
<1>7. CASE /\ Server!MarkAsReady(p)
           /\ IF Server!SendsStart' THEN Answers(p, [type |-> "start"])
              ELSE UNCHANGED toClient
  <2>1. ServerProofs!MarkAsReady(p)
    BY <1>7, SameHandlers
  <2>2. ServerProofs!IInv'
    BY <1>5, <2>1, Constants, ServerProofs!MarkAsReadyStep
  <2>3. active' \subseteq active
        /\ UNCHANGED <<completedAll, completed, actions, contest, result, gameOverTick>>
    BY <2>1 DEF ServerProofs!MarkAsReady, ServerProofs!KickOut,
                ServerProofs!simulation
  <2>4. [type |-> "start"] \in Start
    BY DEF Start
  <2>5. /\ toClient' \in [Clients -> SUBSET (Start \cup Confirmation \cup GameOver)]
        /\ \A q \in Clients : \A k \in toClient'[q] : k \in toClient[q] \/ k \in Start
    <3>1. CASE Answers(p, [type |-> "start"])
      <4>1. /\ toClient' \in [Clients -> SUBSET (Start \cup Confirmation \cup GameOver)]
            /\ toClient'[p] \subseteq toClient[p] \cup {[type |-> "start"]}
            /\ \A q \in Clients \ {p} : toClient'[q] = toClient[q]
        BY <2>4, <3>1, Answered
      <4> QED BY <2>4, <4>1
    <3>2. CASE UNCHANGED toClient
      BY <1>4, <3>2 DEF NetworkTypeOK
    <3> QED BY <1>7, <3>1, <3>2
  <2>6. NetworkTypeOK'
    BY <1>3, <2>5 DEF NetworkTypeOK
  <2> QED BY <1>3, <1>4, <2>2, <2>3, <2>5, <2>6, ContestWaits
<1>8. CASE Server!KickForChecksum(p, m) /\ UNCHANGED toClient
  <2>1. ServerProofs!KickForChecksum(p, m)
    BY <1>8, SameHandlers
  <2>2. ServerProofs!IInv'
    BY <1>5, <2>1, Constants, ServerProofs!KickForChecksumStep
  <2>3. active' \subseteq active
        /\ UNCHANGED <<completedAll, completed, actions, contest, result, gameOverTick>>
    BY <2>1 DEF ServerProofs!KickForChecksum, ServerProofs!KickOut,
                ServerProofs!simulation
  <2>4. NetworkTypeOK'
    BY <1>3, <1>4, <1>8 DEF NetworkTypeOK
  <2> QED BY <1>3, <1>4, <1>8, <2>2, <2>3, <2>4, ContestWaits
<1>9. CASE /\ m.type = "game_update" /\ Server!AcceptUpdate(p, m)
           /\ Answers(p, Server!Reply(p)')
  <2>1. UNCHANGED <<phase, update, queue, outgoing, looping, serverActions,
                    serverChecksum, confirmed, localTick, unconfirmed, outcome>>
    BY <1>4 DEF clientVars
  <2>2. /\ ServerProofs!IInv' /\ InTheirTick' /\ Extends(contest, contest')
        /\ result # Running => result' = result /\ gameOverTick' = gameOverTick
        /\ \A q \in Clients : KnownInv(q)'
    BY <1>9, <2>1, AcceptUpdateKnows
  <2>3. contest' \in History
    BY <2>2, ServerTypes
  <2>4. PICK reply : reply = Server!Reply(p)'
    OBVIOUS
  <2>5. reply \in Confirmation \cup GameOver /\ Told(p, reply)'
    BY <1>9, <2>1, <2>4, ReplyTells
  <2>6. /\ toClient' \in [Clients -> SUBSET (Start \cup Confirmation \cup GameOver)]
        /\ toClient'[p] \subseteq toClient[p] \cup {reply}
        /\ \A q \in Clients \ {p} : toClient'[q] = toClient[q]
    <3>1. Answers(p, reply)
      BY <1>9, <2>4
    <3> QED BY <2>5, <3>1, Answered
  <2>7. NetworkTypeOK'
    BY <1>3, <2>6 DEF NetworkTypeOK
  <2>8. Client!TypeOK'
    BY <1>4, <2>1 DEF Client!TypeOK
  <2>9. ASSUME NEW q \in Clients
        PROVE  ClientInv(q)'
    <3>1. KnownInv(q)'
      BY <2>2
    <3>2. ASSUME NEW k \in toClient'[q]
          PROVE  k \in toClient[q] \/ Told(q, k)'
      <4>1. CASE q = p /\ k = reply
        BY <2>5, <4>1
      <4>2. CASE ~(q = p /\ k = reply)
        BY <2>6, <4>2
      <4> QED BY <4>1, <4>2
    <3>3. \A k \in toClient'[q] : k \in toClient[q] \/ Told(q, k)'
      <4> TAKE k \in toClient'[q]
      <4> QED BY <3>2
    <3>4. /\ phase'[q] \in {"idle", "start"} => phase[q] \in {"idle", "start"}
          /\ update'[q] = update[q] /\ queue'[q] = queue[q]
          /\ outgoing'[q] \in {outgoing[q], Client!Ready}
          /\ serverActions'[q] = serverActions[q]
          /\ serverChecksum'[q] = serverChecksum[q]
          /\ confirmed'[q] = confirmed[q] /\ localTick'[q] = localTick[q]
          /\ unconfirmed'[q] = unconfirmed[q]
          /\ toServer'[q] \subseteq toServer[q] \cup {outgoing'[q]}
          /\ outcome'[q] = outcome[q]
               \/ (outcome'[q] = result' /\ gameOverTick' <= update[q].from)
      BY <1>3, <2>1
    <3> QED BY <2>2, <2>3, <3>1, <3>3, <3>4, ClientStays
  <2> QED BY <2>2, <2>7, <2>8, <2>9 DEF IInv
<1>10. ASSUME Server!IgnoreReady(p) \/ Server!IgnoreUpdate(p, m)
       PROVE  UNCHANGED serverVars
  BY <1>10 DEF Server!IgnoreReady, Server!IgnoreUpdate, Server!vars,
               Server!simulation, serverVars
<1> QED BY <1>6, <1>7, <1>8, <1>9, <1>10 DEF ServerReceives, ServerHandles
-----------------------------------------------------------------------------
(* What holds in every state.                                              *)

\* Nothing has been done at the tick 0.
LEMMA EmptyTicks ==
  /\ Ticks(0, 0) = <<>>
  /\ Client!FirstOf(<<>>, MaxTicksInUpdate) = <<>>
  /\ NamedByTick(<<>>, 0)
<1>1. <<>> \in Seq(Nat) /\ Len(<<>>) = 0
  BY EmptySeq
<1>2. Ticks(0, 0) = <<>>
  <2>1. Ticks(0, 0) \in Seq(Nat) /\ Len(Ticks(0, 0)) = 0 - 0
    <3>1. 0 \in Nat /\ 0 <= 0
      OBVIOUS
    <3> QED BY <3>1, TicksType
  <2>2. Len(Ticks(0, 0)) = 0
    BY <2>1
  <2> QED BY <2>1, <2>2, EmptySeq
<1>3. Client!FirstOf(<<>>, MaxTicksInUpdate) = <<>>
  <2>1. MaxTicksInUpdate \in Nat \ {0}
    BY ClientAssumption DEF Client!ClientConstants
  <2>2. Client!FirstOf(<<>>, MaxTicksInUpdate) = SubSeq(<<>>, 1, 0)
    BY <1>1, <2>1 DEF Client!FirstOf
  <2> QED BY <2>2, SubSeqEmpty
<1>4. NamedByTick(<<>>, 0)
  BY <1>1 DEF NamedByTick, ServerProofs!NamedByTick
<1> QED BY <1>2, <1>3, <1>4

\* The invariant holds when the game is launched.
LEMMA InitInvariant == Init => IInv
<1> SUFFICES ASSUME Init PROVE IInv
  OBVIOUS
<1>1. ServerProofs!Init
  BY SameHandlers DEF Init
<1>2. ServerProofs!IInv
  BY <1>1, Constants, ServerProofs!InitInvariant
<1>3. /\ contest = <<>> /\ completedAll = 0 /\ Len(<<>>) = 0 /\ result = Running
      /\ completed = [p \in Players |-> 0] /\ actions = [p \in Players |-> <<>>]
      /\ Client!Init
      /\ toServer = [p \in Clients |-> {}] /\ toClient = [p \in Clients |-> {}]
  BY <1>1, EmptySeq DEF Init, ServerProofs!Init
<1>4. InTheirTick
  BY <1>3 DEF InTheirTick
<1>5. <<>> \in History /\ <<>> \in Seq(Nat) /\ SubSeq(<<>>, 1, 0) = <<>>
      /\ Client!NoActions = [q \in Players |-> <<>>]
      /\ Client!NoActions \in [Players -> Seq(Nat)]
  BY EmptySeq, SubSeqEmpty DEF History, Client!NoActions
<1>6. Client!NoUpdate \in Client!GameUpdate
  BY <1>5, SameTypes DEF Client!NoUpdate, Client!GameUpdate
<1>7. Client!TypeOK
  BY <1>3, <1>5, <1>6, SameTypes DEF Client!Init, Client!TypeOK, Client!Checksum
<1>8. NetworkTypeOK
  BY <1>3 DEF NetworkTypeOK
<1>9. ASSUME NEW p \in Clients
      PROVE  ClientInv(p)
  <2>1. /\ update[p] = Client!NoUpdate /\ queue[p] = <<>>
        /\ outgoing[p] = Client!Ready /\ serverActions[p] = Client!NoActions
        /\ serverChecksum[p] = <<>> /\ confirmed[p] = <<>> /\ localTick[p] = 0
        /\ unconfirmed[p] = <<>> /\ outcome[p] = Running
        /\ toServer[p] = {} /\ toClient[p] = {}
        /\ p \in Players
    BY <1>3 DEF Client!Init, Client!Checksum, Clients
  <2>2. /\ Client!NoUpdate.from = 0 /\ Client!NoUpdate.actions = <<>>
        /\ Client!NoUpdate.checksumTick = 0 /\ Client!NoUpdate.checksum = <<>>
        /\ Client!Ready.type # "game_update"
    BY DEF Client!NoUpdate, Client!Ready
  <2>3. Received(p) = 0 /\ \A q \in Players : serverActions[p][q] = <<>>
    BY <1>3, <1>5, <2>1 DEF Received
  <2>4. QueuesInv(p)
    BY <1>3, <2>1, <2>2, <2>3, EmptyTicks DEF QueuesInv
  <2>5. SentInv(p)
    <3>1. Sent(update[p], update[p].from, confirmed[p], localTick[p])
      BY <1>3, <1>5, <2>1, <2>2, EmptyTicks DEF Sent
    <3> QED BY <2>1, <2>2, <3>1 DEF SentInv
  <2>6. KnownInv(p)
    BY <1>3, <2>1, <2>2, EmptyTicks DEF KnownInv
  <2>7. ToldInv(p)
    BY <2>1 DEF ToldInv
  <2>8. FollowInv(p)
    <3>1. Sealed(p, Len(confirmed[p]), serverActions[p], contest, localTick[p])
      BY <1>3, <2>1, <2>3 DEF Sealed
    <3>2. Agrees(confirmed[p], contest)
      BY <1>3, <2>1 DEF Agrees
    <3>3. serverChecksum[p] = SubSeq(contest, 1, Received(p))
      BY <1>3, <1>5, <2>1, <2>3
    <3> QED BY <2>1, <3>1, <3>2, <3>3 DEF FollowInv
  <2> QED BY <2>4, <2>5, <2>6, <2>7, <2>8 DEF ClientInv
<1> QED BY <1>2, <1>4, <1>7, <1>8, <1>9 DEF IInv

\* Every step preserves the invariant.
LEMMA NextInvariant == IInv /\ [Next]_vars => IInv'
<1> SUFFICES ASSUME IInv, [Next]_vars PROVE IInv'
  OBVIOUS
<1>1. CASE Tick
  BY <1>1, TickKeeps
<1>2. ASSUME NEW p \in Clients, StartExchange(p)
      PROVE  IInv'
  BY <1>2, StartExchangeKeeps
<1>3. ASSUME NEW p \in Clients, Resend(p)
      PROVE  IInv'
  BY <1>3, ResendKeeps
<1>4. ASSUME NEW p \in Clients, NEW n \in 0..MaxTicksPerRun, Run(p, n)
      PROVE  IInv'
  <2>1. n \in Nat
    BY ClientAssumption DEF Client!ClientConstants
  <2> QED BY <1>4, <2>1, RunKeeps
<1>5. ASSUME NEW p \in Clients, Leave(p)
      PROVE  IInv'
  BY <1>5, LeaveKeeps
<1>6. ASSUME NEW p \in Clients, NEW m \in toClient[p], ClientReceives(p, m)
      PROVE  IInv'
  BY <1>6, ClientReceivesKeeps
<1>7. ASSUME NEW p \in Clients, NEW m \in toServer[p], ServerReceives(p, m)
      PROVE  IInv'
  BY <1>7, ServerReceivesKeeps
<1>8. ASSUME NEW p \in Clients, Lose(p)
      PROVE  IInv'
  BY <1>8, LoseKeeps
<1>9. CASE UNCHANGED vars
  <2>1. /\ UNCHANGED <<serverVars, clientVars, network>>
        /\ Client!TypeOK /\ NetworkTypeOK
    BY <1>9 DEF vars, IInv
  <2>2. ServerProofs!IInv' /\ active' \subseteq active
        /\ UNCHANGED <<completedAll, completed, actions, contest, result, gameOverTick>>
    BY <2>1, ServerStays DEF serverVars
  <2>3. NetworkTypeOK'
        /\ \A q \in Clients :
             /\ toServer'[q] \subseteq toServer[q]
             /\ \A m \in toClient'[q] : m \in toClient[q] \/ m \in Start
    BY <2>1 DEF NetworkTypeOK, network
  <2> QED BY <2>1, <2>2, <2>3, ContestWaits
<1> QED
  BY <1>1, <1>2, <1>3, <1>4, <1>5, <1>6, <1>7, <1>8, <1>9 DEF Next

\* The whole invariant of a game played over the network.
THEOREM Invariance == Spec => []IInv
<1>1. Init => IInv
  BY InitInvariant
<1>2. IInv /\ [Next]_vars => IInv'
  BY NextInvariant
<1> QED BY <1>1, <1>2, PTL DEF Spec

\* The variables of the server, of the clients and of the network keep their
\* types.
THEOREM TypeCorrect == Spec => []TypeOK
<1>1. IInv => TypeOK
  <2> SUFFICES ASSUME IInv PROVE TypeOK
    OBVIOUS
  <2>1. ServerProofs!TypeOK /\ Client!TypeOK /\ NetworkTypeOK
    BY DEF IInv, ServerProofs!IInv
  <2>2. Server!TypeOK
    BY <2>1 DEF ServerProofs!TypeOK, Server!TypeOK, ServerProofs!Humans,
                Server!Humans, ServerProofs!History, Server!History,
                ServerProofs!Entry, Server!Entry, ServerProofs!Action,
                Server!Action
  <2>3. \A p \in Clients : \A m \in toServer[p] :
          m \in Client!GameUpdate \cup {Client!Ready}
    BY <2>1 DEF NetworkTypeOK
  <2>4. \A p \in Clients : \A m \in toClient[p] :
          m.type \in {"start", "game_update", "game_over"}
    BY <2>1 DEF NetworkTypeOK, Start, Confirmation, GameOver
  <2> QED BY <2>1, <2>2, <2>3, <2>4 DEF TypeOK
<1> QED BY <1>1, Invariance, PTL

\* The exchange and the runner of each client agree on what is confirmed
\* (the asserts on from_tick and on the counts in contest_runner.cpp), in
\* whatever order the datagrams come and however many times.
THEOREM QueuesAlwaysMatch == Spec => []QueuesMatch
<1>1. IInv => QueuesMatch
  <2> SUFFICES ASSUME IInv, NEW p \in Clients
               PROVE  LET received == Len(confirmed[p])
                                        + Client!TickCount(serverActions[p])
                      IN  /\ received <= localTick[p]
                          /\ update[p].from = received
                          /\ queue[p] = Client!ActionsFrom(p, received)
                          /\ unconfirmed[p]
                               = Client!ActionsFrom(p, Len(confirmed[p]))
                          /\ update[p].actions
                               = Client!FirstOf(queue[p], MaxTicksInUpdate)
    BY DEF QueuesMatch, Client!QueuesMatch
  <2>1. QueuesInv(p) /\ FollowInv(p)
    BY DEF IInv, ClientInv
  <2>2. Client!TickCount(serverActions[p]) = Len(serverActions[p][p])
    BY <2>1, Types, TickCountIs DEF FollowInv, Sealed
  <2>3. Len(confirmed[p]) + Client!TickCount(serverActions[p]) = Received(p)
    BY <2>2 DEF Received
  <2>4. \A from : Client!ActionsFrom(p, from) = Ticks(from, localTick[p])
    BY DEF Client!ActionsFrom, Ticks
  <2> QED BY <2>1, <2>3, <2>4 DEF QueuesInv
<1> QED BY <1>1, Invariance, PTL

\* What a client has been told by the server is what the server has done:
\* until somebody is kicked out, the states it has confirmed are those of the
\* server at the same ticks, and the result it is told is the one of the game.
THEOREM ClientsAlwaysFollow == Spec => []ClientsFollow
<1>1. IInv => ClientsFollow
  <2> SUFFICES ASSUME IInv PROVE ClientsFollow
    OBVIOUS
  <2>1. Len(contest) = simulationTick /\ \A p \in Clients : FollowInv(p)
    BY Types DEF IInv, ClientInv
  <2>2. AgreeUntilKick
    BY <2>1 DEF AgreeUntilKick, FollowInv, Agrees, NobodyKickedIn
  <2>3. ResultIsFinal
    BY <2>1 DEF ResultIsFinal, FollowInv
  <2> QED BY <2>2, <2>3 DEF ClientsFollow
<1> QED BY <1>1, Invariance, PTL

\* The server applies an action in the tick where the player has applied it:
\* game::update never shifts the actions, whatever has been lost or repeated
\* and whatever has been dropped by drop_old_actions.
THEOREM ActionsAreInTheirTick == Spec => []InTheirTick
<1>1. IInv => InTheirTick
  BY DEF IInv
<1> QED BY <1>1, Invariance, PTL
-----------------------------------------------------------------------------
(* Who may be kicked out.                                                  *)

\* Nobody is kicked out in a contest where everybody is active.
LEMMA WholeContest ==
  ASSUME IInv, active = Players, NEW p \in Clients
  PROVE  /\ Len(confirmed[p]) <= Len(contest)
         /\ \A t \in 1..Len(confirmed[p]) : confirmed[p][t] = contest[t]
         /\ \A k \in Nat : k <= Len(confirmed[p])
              => SubSeq(confirmed[p], 1, k) = SubSeq(contest, 1, k)
<1>1. /\ confirmed[p] \in History /\ contest \in History
      /\ Len(confirmed[p]) \in Nat /\ Len(contest) \in Nat
  BY Types
<1>2. \A t \in 1..Len(contest), q \in Players : contest[t][q] # Kicked
  BY DEF IInv, ServerProofs!IInv, ServerProofs!KickedAreOut
<1>3. Agrees(confirmed[p], contest)
  BY DEF IInv, ClientInv, FollowInv
<1>4. ASSUME NEW t \in 1..Len(confirmed[p])
      PROVE  confirmed[p][t] = contest[t]
  <2>1. \A u \in 1..t : u \in 1..Len(contest)
    BY <1>1, <1>3 DEF Agrees
  <2>2. NobodyKickedIn(contest, t)
    BY <1>2, <2>1 DEF NobodyKickedIn
  <2> QED BY <1>3, <2>2 DEF Agrees
<1>5. Extends(confirmed[p], contest)
  BY <1>3, <1>4 DEF Extends, Agrees
<1>6. \A k \in Nat : k <= Len(confirmed[p])
        => SubSeq(confirmed[p], 1, k) = SubSeq(contest, 1, k)
  BY <1>1, <1>5, ExtendsKeeps
<1> QED BY <1>3, <1>4, <1>6 DEF Agrees

\* What a client has confirmed is a part of the contest.
Replayed ==
  \A p \in Clients :
    /\ Len(confirmed[p]) <= Len(contest)
    /\ \A k \in Nat : k <= Len(confirmed[p])
         => SubSeq(confirmed[p], 1, k) = SubSeq(contest, 1, k)

\* It is so as long as everybody is in the game.
LEMMA ReplayedNext == IInv' /\ NobodyKicked' => Replayed'
<1>1. IInv /\ NobodyKicked => Replayed
  BY WholeContest DEF Replayed, NobodyKicked
<1> QED BY <1>1, PTL

\* The first player to be kicked out is not kicked for its checksum.
ChecksumsAccepted ==
  active = Players =>
    \A p \in Clients : \A m \in toServer[p] :
      m.type = "game_update" => ~Server!ChecksumMismatch(m)

\* A client who has replayed the contest sends the checksums of the contest.
LEMMA NoMismatch == IInv => ChecksumsAccepted
<1> SUFFICES ASSUME IInv, active = Players, NEW p \in Clients,
                    NEW m \in toServer[p], m.type = "game_update",
                    m.checksumTick >= completedAll
             PROVE  m.checksum = checksums[m.checksumTick - completedAll + 1]
  BY DEF ChecksumsAccepted, Server!ChecksumMismatch
<1> DEFINE tick == m.checksumTick
           base == completedAll
           size == Len(contest)
<1>1. tick \in Nat /\ base \in Nat /\ size \in Nat /\ tick >= base
  <2>1. m \in Client!GameUpdate
    BY DEF IInv, NetworkTypeOK, Client!Ready
  <2> QED BY <2>1, Types DEF Client!GameUpdate
<1>2. tick <= Len(confirmed[p]) /\ m.checksum = SubSeq(confirmed[p], 1, tick)
  BY DEF IInv, ClientInv, SentInv, Sent
<1>3. tick <= size /\ m.checksum = SubSeq(contest, 1, tick)
  <2> DEFINE known == Len(confirmed[p])
  <2>1. known \in Nat /\ known <= size
    BY Types, WholeContest
  <2>2. SubSeq(confirmed[p], 1, tick) = SubSeq(contest, 1, tick)
    BY <1>1, <1>2, WholeContest
  <2>3. tick <= known
    BY <1>2
  <2> HIDE DEF known, tick, size
  <2>4. tick <= size
    BY <1>1, <2>1, <2>3
  <2> QED BY <1>2, <2>2, <2>4 DEF tick
<1>4. /\ checksums \in Seq(History)
      /\ Len(checksums) = size - base + 1
      /\ \A i \in DOMAIN checksums : checksums[i] = SubSeq(contest, 1, base + i - 1)
  BY SameTypes DEF IInv, ServerProofs!IInv, ServerProofs!TypeOK,
                   ServerProofs!ChecksumsAligned, ServerProofs!Checksum
<1>5. DOMAIN checksums = 1..size - base + 1
  BY <1>4, LenProperties
<1> HIDE DEF tick, base, size
<1>6. /\ tick - base + 1 \in 1..size - base + 1
      /\ base + (tick - base + 1) - 1 = tick
  BY <1>1, <1>3
<1>7. checksums[tick - base + 1] = SubSeq(contest, 1, tick)
  BY <1>4, <1>5, <1>6
<1> QED BY <1>3, <1>7 DEF tick, base

\* As long as everybody is in the game, no update makes the server kick its
\* sender out for its checksum, whatever the network does with the updates:
\* push_update compares the states of a client with the same states of the
\* contest, and the client has replayed them.
THEOREM NobodyIsKickedForItsChecksumFirst == Spec => []ChecksumsAccepted
<1> QED BY NoMismatch, Invariance, PTL

\* As long as everybody is in the game, the client finds the checksum of the
\* server in the state where it has applied the actions of the server: the
\* assert of sync_with_server.
THEOREM ServerChecksumMatchesFirst ==
  Spec => [](active = Players => ServerChecksumMatches)
<1>1. IInv => (active = Players => ServerChecksumMatches)
  <2> SUFFICES ASSUME IInv, active = Players, NEW p \in Clients,
                      serverActions[p] = Client!NoActions
               PROVE  serverChecksum[p] = confirmed[p]
    BY DEF ServerChecksumMatches, Client!ServerChecksumMatches, Client!Checksum
  <2>1. /\ confirmed[p] \in History /\ Len(confirmed[p]) \in Nat /\ p \in Players
    BY Types
  <2>2. Received(p) = Len(confirmed[p])
    <3>1. Len(serverActions[p][p]) = 0
      BY <2>1, EmptySeq DEF Client!NoActions
    <3> QED BY <2>1, <3>1 DEF Received
  <2>3. serverChecksum[p] = SubSeq(contest, 1, Len(confirmed[p]))
    BY <2>2 DEF IInv, ClientInv, FollowInv
  <2>4. SubSeq(confirmed[p], 1, Len(confirmed[p])) = SubSeq(contest, 1, Len(confirmed[p]))
    BY <2>1, WholeContest
  <2>5. SubSeq(confirmed[p], 1, Len(confirmed[p])) = confirmed[p]
    BY <2>1, SubSeqFull DEF History
  <2> QED BY <2>3, <2>4, <2>5
<1> QED BY <1>1, Invariance, PTL
-----------------------------------------------------------------------------
(* As long as nobody is late, early or silent, nobody is kicked out, and   *)
(* the server and the clients implement SealedLog.                         *)

\* check_drop_desynchronized_player finds nobody among the clients.
InPace ==
  /\ \A p \in Clients : patience[p] # 0
  /\ Server!OutOfPace(Clients, [q \in Players |-> Server!PlayerTick(q)]) = {}

\* KickOut spares everybody then, when everybody was in the game.
LEMMA NobodyDesynchronized ==
  ASSUME NobodyKicked, NEW left, NEW tick, \A p \in Clients : left[p] # 0,
         Server!OutOfPace(Clients, tick) = {},
         Server!KickOut(Server!Desynchronized(left, tick))
  PROVE  NobodyKicked'
<1>1. Server!Silent(left) = {}
  BY DEF Server!Silent, NobodyKicked, Server!Humans, Clients
<1>2. (active \ {}) \cap Server!Humans = Clients
  BY DEF NobodyKicked, Server!Humans, Clients
<1>3. Server!Desynchronized(left, tick) = {}
  BY <1>1, <1>2 DEF Server!Desynchronized
<1> QED BY <1>3 DEF Server!KickOut, NobodyKicked

\* Only the pace of the players may have one of them kicked out first.
LEMMA NobodyKickedNext ==
  ASSUME IInv, NobodyKicked, InPace', [Next]_vars
  PROVE  NobodyKicked'
<1>1. CASE active' = active
  BY <1>1 DEF NobodyKicked
<1>2. ASSUME NEW p \in Clients, Server!MarkAsReady(p)
      PROVE  NobodyKicked'
  <2>1. Server!KickOut(Server!Desynchronized(patience', [q \in Players |-> Server!PlayerTick(q)]))
    BY <1>2 DEF Server!MarkAsReady
  <2>2. completedAll' = completedAll /\ actions' = actions
    BY <1>2 DEF Server!MarkAsReady, Server!simulation
  <2>3. Server!OutOfPace(Clients, [q \in Players |-> Server!PlayerTick(q)]) = {}
    BY <2>2 DEF InPace, Server!PlayerTick, Server!OutOfPace
  <2> QED BY <2>1, <2>3, NobodyDesynchronized DEF InPace
<1>3. ASSUME NEW p \in Clients, NEW m, Server!AcceptUpdate(p, m)
      PROVE  NobodyKicked'
  <2>1. PICK n : Server!Conclude(n)
    BY <1>3 DEF Server!AcceptUpdate
  <2>2. CASE active' # active
    <3>1. Server!KickOut(Server!Desynchronized(patience',
            [q \in Players |-> completedAll' + Len(actions'[q])]))
      BY <2>1, <2>2 DEF Server!Conclude
    <3>2. Server!OutOfPace(Clients, [q \in Players |-> completedAll' + Len(actions'[q])]) = {}
      BY DEF InPace, Server!PlayerTick, Server!OutOfPace
    <3> QED BY <3>1, <3>2, NobodyDesynchronized DEF InPace
  <2> QED BY <1>1, <2>2
<1>4. ASSUME NEW p \in Clients, NEW m \in toServer[p], m.type = "game_update",
             Server!KickForChecksum(p, m)
      PROVE  FALSE
  BY <1>4, NoMismatch DEF NobodyKicked, ChecksumsAccepted, Server!KickForChecksum
<1>5. ASSUME NEW p \in Clients, NEW m \in toServer[p], ServerReceives(p, m)
      PROVE  NobodyKicked'
  <2>1. Server!IgnoreReady(p) \/ Server!IgnoreUpdate(p, m) => active' = active
    BY DEF Server!IgnoreReady, Server!IgnoreUpdate, Server!vars
  <2> QED BY <1>1, <1>2, <1>3, <1>4, <1>5, <2>1 DEF ServerReceives, ServerHandles
<1>6. CASE UNCHANGED serverVars
  BY <1>1, <1>6 DEF serverVars
<1>7. CASE Tick
  BY <1>1, <1>7 DEF Tick, Server!Tick
<1>8. ASSUME NEW p \in Clients,
             \/ StartExchange(p) \/ Resend(p) \/ Leave(p) \/ Lose(p)
             \/ \E n \in 0..MaxTicksPerRun : Run(p, n)
             \/ \E m \in toClient[p] : ClientReceives(p, m)
      PROVE  UNCHANGED serverVars
  BY <1>8 DEF StartExchange, Resend, Run, Leave, ClientReceives, Lose
<1>9. UNCHANGED vars => UNCHANGED serverVars
  BY DEF vars
<1> QED BY <1>5, <1>6, <1>7, <1>8, <1>9 DEF Next

\* Everybody is in the game when it is launched.
LEMMA InitKicksNobody == Init => NobodyKicked
BY SameHandlers DEF Init, Server!Init, NobodyKicked

\* As long as nobody is late, early or silent, nobody is kicked out: the
\* players do not depend on the network for anything but their pace.
THEOREM NobodyIsKicked == Spec /\ []InPace => []NobodyKicked
<1>1. Init => NobodyKicked
  BY InitKicksNobody
<1>2. IInv /\ NobodyKicked /\ InPace' /\ [Next]_vars => NobodyKicked'
  BY NobodyKickedNext
<1> QED BY <1>1, <1>2, Invariance, PTL DEF Spec

\* The client that plays replays the log of the server, and never goes back.
LEMMA RunIsATurn ==
  ASSUME IInv, IInv', NobodyKicked', NEW p \in Clients, NEW n \in Nat, Run(p, n)
  PROVE  Promise!Turn(p)
<1>1. Client!Run(p, n) /\ UNCHANGED <<serverVars, toClient>>
  BY DEF Run
<1>2. Client!TypeOK /\ confirmed[p] \in History /\ Len(confirmed[p]) \in Nat
      /\ localTick[p] \in Nat
  BY Types DEF IInv
<1>3. PICK synced \in History, tick \in Nat :
        /\ tick = localTick[p] + n
        /\ Extends(confirmed[p], synced)
        /\ confirmed' = [confirmed EXCEPT ![p] = synced]
        /\ localTick' = [localTick EXCEPT ![p] = tick]
  BY <1>1, RunEffect
<1>4. /\ confirmed'[p] = synced /\ localTick'[p] = tick
      /\ \A q \in Clients \ {p} : /\ confirmed'[q] = confirmed[q]
                                 /\ localTick'[q] = localTick[q]
  BY <1>2, <1>3 DEF Client!TypeOK
<1>5. Promise!IsPrefix(confirmed[p], confirmed'[p])
  <2>1. SubSeq(synced, 1, Len(confirmed[p])) = SubSeq(confirmed[p], 1, Len(confirmed[p]))
    BY <1>2, <1>3, ExtendsKeeps
  <2>2. Len(confirmed[p]) <= Len(synced)
    BY <1>3 DEF Extends
  <2> QED BY <1>4, <2>1, <2>2 DEF Promise!IsPrefix
<1>6. Promise!IsPrefix(confirmed'[p], contest)
  <2>1. /\ Len(confirmed'[p]) <= Len(contest')
        /\ \A k \in Nat : k <= Len(confirmed'[p])
             => SubSeq(confirmed'[p], 1, k) = SubSeq(contest', 1, k)
    BY ReplayedNext DEF Replayed
  <2>2. contest' = contest
    BY <1>1 DEF serverVars
  <2>3. Len(confirmed'[p]) \in Nat /\ Len(confirmed'[p]) <= Len(confirmed'[p])
    BY <1>4, LenProperties DEF History
  <2> QED BY <2>1, <2>2, <2>3 DEF Promise!IsPrefix
<1>7. localTick'[p] >= localTick[p]
  BY <1>2, <1>3, <1>4
<1>8. UNCHANGED <<contest, result, outcome>>
  BY <1>1 DEF Client!Run, serverVars
<1> QED BY <1>4, <1>5, <1>6, <1>7, <1>8 DEF Promise!Turn

\* The server that accepts an update seals the ticks that everybody has played.
LEMMA AcceptUpdateSeals ==
  ASSUME IInv, IInv', NobodyKicked, NEW p \in Clients, NEW m \in toServer[p],
         m.type = "game_update", Server!AcceptUpdate(p, m), UNCHANGED clientVars
  PROVE  Promise!Seal \/ UNCHANGED <<contest, confirmed, localTick, result, outcome>>
<1>1. UNCHANGED <<update, confirmed, localTick, outcome>>
  BY DEF clientVars
<1>2. /\ Extends(contest, contest')
      /\ result # Running => result' = result
      /\ simulationTick' = simulationTick => result' = result
      /\ \A q \in active \cap Clients :
           /\ simulationTick' <= completedAll' + Len(actions'[q])
           /\ completedAll' + Len(actions'[q]) <= localTick[q]
  BY <1>1, AcceptUpdateKnows
<1>3. /\ contest \in History /\ contest' \in History
      /\ Len(contest) = simulationTick /\ Len(contest') = simulationTick'
      /\ simulationTick \in Nat /\ simulationTick' \in Nat /\ completedAll' \in Nat
      /\ actions' \in [Players -> Seq(Nat)]
      /\ \A q \in Clients : q \in Players /\ localTick[q] \in Nat
  BY Types, ServerTypes DEF IInv
<1>4. CASE contest' = contest
  <2>1. result' = result
    BY <1>2, <1>3, <1>4
  <2> QED BY <1>1, <1>4, <2>1
<1>5. CASE contest' # contest
  <2>1. SubSeq(contest', 1, Len(contest)) = SubSeq(contest, 1, Len(contest))
    <3>1. \A k \in Nat : k <= Len(contest)
            => SubSeq(contest', 1, k) = SubSeq(contest, 1, k)
      BY <1>2, <1>3, ExtendsKeeps
    <3>2. Len(contest) \in Nat /\ Len(contest) <= Len(contest)
      BY <1>3
    <3> QED BY <3>1, <3>2
  <2>2. Promise!IsStrictPrefix(contest, contest')
    BY <1>2, <1>5, <2>1 DEF Extends, Promise!IsStrictPrefix, Promise!IsPrefix
  <2>3. ASSUME NEW q \in Clients
        PROVE  Len(contest') <= localTick[q]
    <3> DEFINE reached == completedAll' + Len(actions'[q])
    <3>1. simulationTick' <= reached /\ reached <= localTick[q]
      BY <1>2, <1>3 DEF NobodyKicked
    <3>2. reached \in Nat
      <4>1. actions'[q] \in Seq(Nat)
        BY <1>3
      <4>2. Len(actions'[q]) \in Nat
        BY <4>1, LenProperties
      <4>3. \A i, j \in Nat : i + j \in Nat
        OBVIOUS
      <4> QED BY <1>3, <4>2, <4>3
    <3> HIDE DEF reached
    <3> QED BY <1>3, <3>1, <3>2
  <2> QED BY <1>1, <1>2, <2>2, <2>3 DEF Promise!Seal
<1> QED BY <1>4, <1>5

\* Each step of a game where nobody is kicked out is a step of SealedLog.
LEMMA StepsAreSealed ==
  ASSUME IInv, IInv', NobodyKicked, NobodyKicked', [Next]_vars
  PROVE  [Promise!Next]_(Promise!vars)
<1>1. CASE UNCHANGED <<contest, confirmed, localTick, result, outcome>>
  BY <1>1 DEF Promise!vars
<1>2. ASSUME NEW p \in Clients, NEW n \in 0..MaxTicksPerRun, Run(p, n)
      PROVE  Promise!Next
  <2>1. n \in Nat
    BY ClientAssumption DEF Client!ClientConstants
  <2>2. Promise!Turn(p)
    BY <1>2, <2>1, RunIsATurn
  <2> QED BY <2>2 DEF Promise!Next
<1>3. ASSUME NEW p \in Clients, NEW m \in toClient[p], ClientReceives(p, m)
      PROVE  Promise!Next \/ UNCHANGED <<contest, confirmed, localTick, result, outcome>>
  <2>1. UNCHANGED serverVars
    BY <1>3 DEF ClientReceives
  <2>2. CASE m.type = "game_over" /\ Client!ReceiveGameOver(p, m)
    <3>1. Told(p, m)
      BY DEF IInv, ClientInv, ToldInv
    <3>2. outcome' = [outcome EXCEPT ![p] = result] /\ result # Running
          /\ UNCHANGED <<confirmed, localTick>>
      BY <2>2, <3>1 DEF Told, Client!ReceiveGameOver
    <3>3. Promise!Announce(p)
      BY <2>1, <3>2 DEF Promise!Announce, serverVars
    <3> QED BY <3>3 DEF Promise!Next
  <2>3. CASE \/ UNCHANGED Client!vars
             \/ Client!ReceiveStart(p) \/ Client!ReceiveUpdate(p, m)
    <3>1. UNCHANGED <<confirmed, localTick, outcome>>
      BY <2>3 DEF Client!vars, Client!runner, Client!ReceiveStart, Client!ReceiveUpdate
    <3> QED BY <2>1, <3>1 DEF serverVars
  <2> QED BY <1>3, <2>2, <2>3 DEF ClientReceives, Client!Receive
<1>4. ASSUME NEW p \in Clients, NEW m \in toServer[p], ServerReceives(p, m)
      PROVE  [Promise!Next]_(Promise!vars)
  <2>1. UNCHANGED clientVars
    BY <1>4 DEF ServerReceives
  <2>2. CASE m.type = "game_update" /\ Server!AcceptUpdate(p, m)
    BY <1>1, <2>1, <2>2, AcceptUpdateSeals DEF Promise!Next
  <2>3. CASE \/ Server!IgnoreReady(p) \/ Server!MarkAsReady(p)
             \/ Server!IgnoreUpdate(p, m) \/ Server!KickForChecksum(p, m)
    <3>1. UNCHANGED <<contest, result>>
      BY <2>3 DEF Server!IgnoreReady, Server!MarkAsReady, Server!IgnoreUpdate,
                  Server!KickForChecksum, Server!vars, Server!simulation
    <3> QED BY <1>1, <2>1, <3>1 DEF clientVars
  <2> QED BY <1>4, <2>2, <2>3 DEF ServerReceives, ServerHandles
<1>5. CASE Tick
  <2>1. UNCHANGED <<contest, confirmed, localTick, result, outcome>>
    BY <1>5 DEF Tick, Server!Tick, Server!simulation, clientVars
  <2> QED BY <1>1, <2>1
<1>6. ASSUME NEW p \in Clients,
             StartExchange(p) \/ Resend(p) \/ Leave(p) \/ Lose(p)
      PROVE  UNCHANGED <<contest, confirmed, localTick, result, outcome>>
  BY <1>6 DEF StartExchange, Resend, Leave, Lose, Client!StartExchange,
              Client!Leave, Client!runner, serverVars, clientVars
<1>7. UNCHANGED vars => UNCHANGED <<contest, confirmed, localTick, result, outcome>>
  BY DEF vars, serverVars, clientVars
<1> QED BY <1>1, <1>2, <1>3, <1>4, <1>5, <1>6, <1>7 DEF Next

\* The server, the clients and the network implement one sealed log of ticks,
\* replayed by all, as long as nobody is late, early or silent.
THEOREM SealedLogIsImplemented == Spec /\ []InPace => SealedLogImplemented
<1>1. Init => Promise!Init
  BY SameHandlers DEF Init, Server!Init, Client!Init, Promise!Init
<1>2. IInv /\ IInv' /\ NobodyKicked /\ NobodyKicked' /\ [Next]_vars
        => [Promise!Next]_(Promise!vars)
  BY StepsAreSealed
<1> QED BY <1>1, <1>2, Invariance, NobodyIsKicked, PTL
        DEF Spec, SealedLogImplemented, Promise!Spec

-----------------------------------------------------------------------------
(* The players are in pace when the thresholds are never reached.          *)

\* The clock of the server is stopped, and the thresholds are too large for a
\* player to reach them: it is so in the runs of SealedLogImplemented.
Slack ==
  /\ ~TimePasses
  /\ LatenessThreshold > MaxLocalTick
  /\ EarlinessThreshold > MaxLocalTick

\* What the server knows of the players is bounded too.
WithinBounds ==
  \A p \in Clients :
    /\ patience[p] # 0
    /\ localTick[p] <= MaxLocalTick
    /\ completedAll + Len(actions[p]) <= MaxLocalTick

\* The distance between two players is less than a threshold.
LEMMA NobodyOutOfPace ==
  ASSUME Slack, NEW tick,
         \A p \in Clients : tick[p] \in Nat /\ tick[p] <= MaxLocalTick
  PROVE  Server!OutOfPace(Clients, tick) = {}
<1> DEFINE playing == Clients
           late  == {p \in playing : \A q \in playing \ {p} :
                                       tick[q] - tick[p] >= LatenessThreshold}
           early == {p \in playing : \A q \in playing \ {p} :
                                       tick[p] - tick[q] >= EarlinessThreshold}
<1>1. /\ LatenessThreshold \in Nat /\ EarlinessThreshold \in Nat
      /\ MaxLocalTick \in Nat
  BY ServerAssumption, ClientAssumption DEF Server!ServiceConstants, Client!ClientConstants
<1>2. Server!OutOfPace(Clients, tick)
        = IF Server!Cardinality(playing) < 2 THEN {}
          ELSE IF late # {} THEN late ELSE early
  BY DEF Server!OutOfPace
<1>3. CASE \E p \in Clients : playing \ {p} = {}
  <2>1. PICK p \in Clients : playing \ {p} = {}
    BY <1>3
  <2>2. playing = {p}
    BY <2>1
  <2>3. Cardinality(playing) = 1
    BY <2>2, FS_Singleton
  <2>4. Server!Cardinality(playing) = 1
    BY <2>3, SameSets
  <2> QED BY <1>2, <2>4
<1>4. CASE \A p \in Clients : playing \ {p} # {}
  <2>1. ASSUME NEW p \in playing
        PROVE  p \notin late /\ p \notin early
    <3>1. PICK q \in playing \ {p} : TRUE
      BY <1>4
    <3> DEFINE a == tick[p]
               b == tick[q]
    <3>2. /\ a \in Nat /\ a <= MaxLocalTick
          /\ b \in Nat /\ b <= MaxLocalTick
      BY <3>1
    <3> HIDE DEF a, b
    <3>3. ~(b - a >= LatenessThreshold) /\ ~(a - b >= EarlinessThreshold)
      BY <1>1, <3>2 DEF Slack
    <3> QED BY <3>1, <3>3 DEF a, b
  <2>2. late = {} /\ early = {}
    BY <2>1
  <2> QED BY <1>2, <2>2
<1> QED BY <1>3, <1>4

\* The bounds keep the players in pace.
LEMMA BoundsArePace ==
  ASSUME Slack, IInv, WithinBounds
  PROVE  InPace
<1> DEFINE tick == [q \in Players |-> Server!PlayerTick(q)]
<1>1. ASSUME NEW p \in Clients
      PROVE  tick[p] \in Nat /\ tick[p] <= MaxLocalTick
  <2>1. p \in Players /\ completedAll \in Nat /\ actions[p] \in Seq(Nat)
    BY Types
  <2>2. Len(actions[p]) \in Nat
    BY <2>1, LenProperties
  <2>3. \A i, j \in Nat : i + j \in Nat
    OBVIOUS
  <2>4. tick[p] = completedAll + Len(actions[p])
    BY <2>1 DEF Server!PlayerTick
  <2> QED BY <2>1, <2>2, <2>3, <2>4 DEF WithinBounds
<1>2. Server!OutOfPace(Clients, tick) = {}
  <2> HIDE DEF tick
  <2> QED BY <1>1, NobodyOutOfPace
<1> QED BY <1>2 DEF WithinBounds, InPace

\* The bounds hold when the game is launched.
LEMMA BoundsInit == Init => WithinBounds
<1> SUFFICES ASSUME Init, NEW p \in Clients
             PROVE  /\ patience[p] # 0
                    /\ localTick[p] <= MaxLocalTick
                    /\ completedAll + Len(actions[p]) <= MaxLocalTick
  BY DEF WithinBounds
<1>1. InactivityDelay \in Nat \ {0} /\ MaxLocalTick \in Nat
  BY ServerAssumption, ClientAssumption DEF Server!ServiceConstants, Client!ClientConstants
<1>2. p \in Players /\ p \in Server!Humans
  BY DEF Clients, Server!Humans
<1>3. patience[p] = InactivityDelay /\ completedAll = 0 /\ Len(actions[p]) = 0
  BY <1>2, EmptySeq DEF Init, Server!Init
<1>4. localTick[p] = 0
  BY DEF Init, Client!Init
<1> QED BY <1>1, <1>3, <1>4

\* Every step preserves the bounds, as long as nobody is kicked out.
LEMMA BoundsNext ==
  ASSUME Slack, IInv, NobodyKicked, WithinBounds, [Next]_vars
  PROVE  WithinBounds'
<1>1. /\ patience \in [Clients -> Nat] /\ Client!TypeOK
      /\ InactivityDelay \in Nat \ {0}
  BY SameMessages, ServerAssumption DEF IInv, ServerProofs!IInv, ServerProofs!TypeOK,
                                    Server!ServiceConstants
<1>2. CASE UNCHANGED <<patience, localTick, completedAll, actions>>
  BY <1>2 DEF WithinBounds
<1>3. ASSUME NEW p \in Clients, NEW n \in 0..MaxTicksPerRun, Run(p, n)
      PROVE  WithinBounds'
  <2>1. /\ localTick' = [localTick EXCEPT ![p] = @ + n]
        /\ localTick[p] + n <= MaxLocalTick
        /\ UNCHANGED <<patience, completedAll, actions>>
    BY <1>3 DEF Run, Client!Run, serverVars
  <2>2. \A q \in Clients : localTick'[q] <= MaxLocalTick
    BY <1>1, <2>1 DEF Client!TypeOK, WithinBounds
  <2> QED BY <2>1, <2>2 DEF WithinBounds
<1>4. ASSUME NEW p \in Clients, NEW m \in toServer[p], ServerReceives(p, m)
      PROVE  WithinBounds'
  <2>1. UNCHANGED <<update, localTick>>
    BY <1>4 DEF ServerReceives, clientVars
  <2>2. CASE m.type = "game_update" /\ Server!AcceptUpdate(p, m)
    <3>1. patience' = [patience EXCEPT ![p] = InactivityDelay]
      BY <2>2 DEF Server!AcceptUpdate
    <3>2. \A q \in active \cap Clients :
            completedAll' + Len(actions'[q]) <= localTick[q]
      BY <2>1, <2>2, AcceptUpdateKnows
    <3>3. ASSUME NEW q \in Clients
          PROVE  completedAll' + Len(actions'[q]) <= MaxLocalTick
      <4> DEFINE reached == completedAll' + Len(actions'[q])
      <4>1. reached <= localTick[q] /\ localTick[q] <= MaxLocalTick
        BY <3>2 DEF NobodyKicked, Clients, WithinBounds
      <4>2. reached \in Nat /\ localTick[q] \in Nat /\ MaxLocalTick \in Nat
        <5>1. completedAll' \in Nat /\ actions'[q] \in Seq(Nat)
          <6>1. completedAll' \in Nat /\ actions' \in [Players -> Seq(Nat)] /\ q \in Players
            BY <2>1, <2>2, AcceptUpdateKnows, ServerTypes, Types
          <6> QED BY <6>1
        <5>2. Len(actions'[q]) \in Nat
          BY <5>1, LenProperties
        <5>3. \A i, j \in Nat : i + j \in Nat
          OBVIOUS
        <5>4. localTick[q] \in Nat /\ MaxLocalTick \in Nat
          BY Types, ClientAssumption DEF Client!ClientConstants
        <5> QED BY <5>1, <5>2, <5>3, <5>4
      <4> HIDE DEF reached
      <4>3. reached <= MaxLocalTick
        BY <4>1, <4>2
      <4> QED BY <4>3 DEF reached
    <3>4. \A q \in Clients : patience'[q] # 0
      BY <1>1, <3>1 DEF WithinBounds
    <3> QED BY <2>1, <3>3, <3>4 DEF WithinBounds
  <2>3. CASE Server!MarkAsReady(p)
    <3>1. patience' = [patience EXCEPT ![p] = InactivityDelay]
          /\ UNCHANGED <<completedAll, actions>>
      BY <2>3 DEF Server!MarkAsReady, Server!simulation
    <3>2. \A q \in Clients : patience'[q] # 0
      BY <1>1, <3>1 DEF WithinBounds
    <3> QED BY <2>1, <3>1, <3>2 DEF WithinBounds
  <2>4. CASE \/ Server!IgnoreReady(p) \/ Server!IgnoreUpdate(p, m)
             \/ Server!KickForChecksum(p, m)
    <3>1. UNCHANGED <<patience, completedAll, actions>>
      BY <2>4 DEF Server!IgnoreReady, Server!IgnoreUpdate, Server!KickForChecksum,
                  Server!vars, Server!simulation
    <3> QED BY <1>2, <2>1, <3>1
  <2> QED BY <1>4, <2>2, <2>3, <2>4 DEF ServerReceives, ServerHandles
<1>5. ASSUME NEW p \in Clients, NEW m \in toClient[p], ClientReceives(p, m)
      PROVE  UNCHANGED <<patience, localTick, completedAll, actions>>
  BY <1>5 DEF ClientReceives, serverVars, Client!Receive, Client!vars, Client!runner,
              Client!ReceiveStart, Client!ReceiveUpdate, Client!ReceiveGameOver
<1>6. ASSUME NEW p \in Clients,
             StartExchange(p) \/ Resend(p) \/ Leave(p) \/ Lose(p)
      PROVE  UNCHANGED <<patience, localTick, completedAll, actions>>
  BY <1>6 DEF StartExchange, Resend, Leave, Lose, Client!StartExchange,
              Client!Leave, Client!runner, serverVars, clientVars
<1>7. ~Tick
  BY DEF Tick, Server!Tick, Slack
<1>8. UNCHANGED vars => UNCHANGED <<patience, localTick, completedAll, actions>>
  BY DEF vars, serverVars, clientVars
<1> QED BY <1>2, <1>3, <1>4, <1>5, <1>6, <1>7, <1>8 DEF Next

\* With this slack, nobody is late, early or silent.
THEOREM SlackIsEnough ==
  ASSUME Slack
  PROVE  Spec => []InPace
<1> DEFINE Bounded == NobodyKicked /\ WithinBounds
<1>1. Init => Bounded
  BY BoundsInit, InitKicksNobody
<1>2. IInv /\ WithinBounds => InPace
  BY BoundsArePace
<1>3. IInv' /\ WithinBounds' => InPace'
  BY <1>2, PTL
<1>4. IInv /\ IInv' /\ Bounded /\ [Next]_vars => Bounded'
  <2> SUFFICES ASSUME IInv, IInv', NobodyKicked, WithinBounds, [Next]_vars
               PROVE  NobodyKicked' /\ WithinBounds'
    OBVIOUS
  <2>1. WithinBounds'
    BY BoundsNext
  <2> QED BY <1>3, <2>1, NobodyKickedNext
<1> HIDE DEF Bounded
<1>5. Spec => []Bounded
  BY <1>1, <1>4, Invariance, PTL DEF Spec
<1>6. Bounded => WithinBounds
  BY DEF Bounded
<1> QED BY <1>2, <1>5, <1>6, Invariance, PTL

\* Whatever the network loses, repeats or reorders, nobody is kicked out and
\* the checksum the server sends is the one of the client, on the terms of the
\* runs.
THEOREM NobodyIsKickedWithSlack ==
  ASSUME Slack
  PROVE  Spec => [](NobodyKicked /\ ServerChecksumMatches)
<1>1. Spec => []NobodyKicked
  BY SlackIsEnough, NobodyIsKicked, PTL
<1>2. NobodyKicked => active = Players
  BY DEF NobodyKicked
<1> QED BY <1>1, <1>2, ServerChecksumMatchesFirst, PTL

\* On the same terms the game implements the sealed log.
THEOREM SealedLogIsImplementedWithSlack ==
  ASSUME Slack
  PROVE  Spec => SealedLogImplemented
<1> QED BY SlackIsEnough, SealedLogIsImplemented, PTL
=============================================================================
