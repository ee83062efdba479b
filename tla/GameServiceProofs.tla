------------------------- MODULE GameServiceProofs -------------------------
(***************************************************************************)
(* What holds of GameService whatever the messages, the number of players  *)
(* and the thresholds.                                                     *)
(***************************************************************************)
EXTENDS GameService, SequenceTheorems, TLAPS

USE DEF ContestConstants, ServiceConstants

-----------------------------------------------------------------------------
(* The operators on sequences.                                             *)

\* What SubSeq returns when the last index is in the sequence, as it is in all
\* the vectors the service takes parts of.
LEMMA SubSeqType ==
  ASSUME NEW S, NEW s \in Seq(S), NEW a \in Nat \ {0}, NEW b \in Int,
         b <= Len(s)
  PROVE  /\ SubSeq(s, a, b) \in Seq(S)
         /\ Len(SubSeq(s, a, b)) = IF a <= b THEN b - a + 1 ELSE 0
         /\ \A i \in 1..b - a + 1 : SubSeq(s, a, b)[i] = s[a + i - 1]
<1>1. \A i \in a..b : s[i] \in S
  BY ElementOfSeq
<1> QED BY <1>1, SubSeqProperties

\* Erasing the first n elements.
LEMMA WithoutType ==
  ASSUME NEW S, NEW s \in Seq(S), NEW n \in Nat
  PROVE  /\ Without(s, n) \in Seq(S)
         /\ n <= Len(s) => /\ Len(Without(s, n)) = Len(s) - n
                           /\ \A i \in 1..Len(s) - n :
                                Without(s, n)[i] = s[n + i]
<1>1. Len(s) \in Nat
  BY LenProperties
<1> QED BY <1>1, SubSeqType DEF Without

\* A function on the first n numbers is a sequence of n elements.
LEMMA FunctionIsSeq ==
  ASSUME NEW S, NEW n \in Nat, NEW f \in [1..n -> S]
  PROVE  f \in Seq(S) /\ Len(f) = n
BY SeqDef

-----------------------------------------------------------------------------
(* The contest.                                                            *)

\* Ticks are added to those already played, which do not change.
LEMMA AdvanceExtends ==
  ASSUME NEW h \in History, NEW n \in Nat,
         NEW acts \in [Players -> Seq(Action)]
  PROVE  /\ Advance(h, n, acts) \in History
         /\ Len(Advance(h, n, acts)) = Len(h) + n
         /\ \A i \in 1..Len(h) : Advance(h, n, acts)[i] = h[i]
         /\ \A i \in 1..n :
              Advance(h, n, acts)[Len(h) + i] = Applied(h, acts, i)
<1> DEFINE more == [i \in 1..n |-> Applied(h, acts, i)]
<1>1. ASSUME NEW i \in 1..n
      PROVE  Applied(h, acts, i) \in [Players -> Entry]
  <2> SUFFICES ASSUME NEW p \in Players
               PROVE  Applied(h, acts, i)[p] \in Entry
    BY DEF Applied
  <2>1. acts[p] \in Seq(Action) /\ Len(acts[p]) \in Nat
    BY LenProperties
  <2>2. CASE i \in 1..Len(acts[p])
    BY <2>1, <2>2, ElementOfSeq DEF Applied, Entry
  <2>3. CASE i \notin 1..Len(acts[p])
    BY <2>1, <2>3 DEF Applied, Entry
  <2> QED BY <2>2, <2>3
<1>2. more \in [1..n -> [Players -> Entry]]
  BY <1>1
<1>3. more \in Seq([Players -> Entry]) /\ Len(more) = n
  BY <1>2, FunctionIsSeq
<1>4. Advance(h, n, acts) = h \o more
  BY DEF Advance
<1>5. h \in Seq([Players -> Entry]) /\ Len(h) \in Nat
  BY LenProperties DEF History
<1>6. \A i \in 1..n : more[i] = Applied(h, acts, i)
  OBVIOUS
<1> HIDE DEF more
<1>7. /\ h \o more \in Seq([Players -> Entry])
      /\ Len(h \o more) = Len(h) + n
      /\ \A i \in 1..Len(h) + n :
           (h \o more)[i] = IF i <= Len(h) THEN h[i] ELSE more[i - Len(h)]
  BY <1>3, <1>5, ConcatProperties
<1>8. \A i \in 1..Len(h) : (h \o more)[i] = h[i]
  BY <1>5, <1>7
<1>9. ASSUME NEW i \in 1..n
      PROVE  (h \o more)[Len(h) + i] = Applied(h, acts, i)
  <2>1. Len(h) + i \in 1..Len(h) + n /\ ~(Len(h) + i <= Len(h))
          /\ Len(h) + i - Len(h) = i
    BY <1>5
  <2> QED BY <1>6, <1>7, <2>1
<1> QED BY <1>4, <1>7, <1>8, <1>9 DEF History

\* contest::tick returns a player, a draw, or that the game goes on.
LEMMA ResultType ==
  ASSUME NEW h
  PROVE  Result(h) \in Players \cup {Running, Draw}
<1> DEFINE alive == {p \in Players : Present(h, p)}
<1>1. alive # {} => (CHOOSE p \in alive : TRUE) \in Players
  OBVIOUS
<1> QED BY <1>1 DEF Result

\* The winner returned by contest::tick still has an entity.
LEMMA WinnerIsPresent ==
  ASSUME NEW h, Result(h) \in Players
  PROVE  Present(h, Result(h))
<1> DEFINE alive == {p \in Players : Present(h, p)}
<1>1. Running \notin Players /\ Draw \notin Players
  BY ContestAssumption
<1>2. alive # {} => (CHOOSE p \in alive : TRUE) \in alive
  OBVIOUS
<1>3. alive # {} /\ Result(h) = (CHOOSE p \in alive : TRUE)
  BY <1>1 DEF Result
<1> QED BY <1>2, <1>3

\* A player who has been kicked out is not there after the next tick.
LEMMA KickedIsNotPresent ==
  ASSUME NEW h \in History, NEW n \in Nat,
         NEW acts \in [Players -> Seq(Action)],
         NEW p \in Players, acts[p] = <<>>,
         NEW k \in Len(h) + 1..Len(h) + n
  PROVE  ~Present(SubSeq(Advance(h, n, acts), 1, k), p)
<1> DEFINE played == Advance(h, n, acts)
           seen == SubSeq(played, 1, k)
<1>1. /\ played \in Seq([Players -> Entry])
      /\ Len(played) = Len(h) + n
      /\ \A i \in 1..Len(h) : played[i] = h[i]
  BY AdvanceExtends DEF History
<1>2. /\ h \in Seq([Players -> Entry])
      /\ Len(h) \in Nat
      /\ DOMAIN h = 1..Len(h)
      /\ k \in Nat /\ Len(h) + 1 <= k /\ k <= Len(h) + n
      /\ DeathTick[p] \in Nat
  BY LenProperties, ContestAssumption DEF History
<1>3. played[Len(h) + 1] = Applied(h, acts, 1)
  <2>1. 1 \in 1..n
    BY <1>2
  <2> QED BY <2>1, AdvanceExtends
<1> HIDE DEF played
<1>4. /\ seen \in Seq([Players -> Entry])
      /\ Len(seen) = k
      /\ \A i \in 1..k : seen[i] = played[i]
  BY <1>1, <1>2, SubSeqType
<1>5. DOMAIN seen = 1..k
  BY <1>4, LenProperties
<1> HIDE DEF seen
<1>6. CASE Len(h) > DeathTick[p]
  BY <1>2, <1>4, <1>6 DEF Present, seen, played
<1>7. CASE \E i \in 1..Len(h) : h[i][p] = Kicked
  <2>1. PICK i \in 1..Len(h) : h[i][p] = Kicked
    BY <1>7
  <2>2. i \in 1..k /\ seen[i][p] = Kicked
    <3>1. i \in 1..k
      BY <1>2
    <3>2. seen[i] = h[i]
      BY <1>1, <1>4, <3>1
    <3> QED BY <2>1, <3>1, <3>2
  <2>3. ~Present(seen, p)
    BY <1>5, <2>2 DEF Present
  <2> QED BY <2>3 DEF seen, played
<1>8. CASE Present(h, p)
  <2>1. Len(h) <= DeathTick[p]
    BY <1>8 DEF Present
  <2>2. Applied(h, acts, 1)[p] = Kicked
    BY <1>2, <1>8, <2>1, EmptySeq DEF Applied
  <2>3. Len(h) + 1 \in 1..k /\ seen[Len(h) + 1][p] = Kicked
    BY <1>2, <1>3, <1>4, <2>2
  <2>4. ~Present(seen, p)
    BY <1>5, <2>3 DEF Present
  <2> QED BY <2>4 DEF seen, played
<1>9. Present(h, p) \/ Len(h) > DeathTick[p]
        \/ \E i \in 1..Len(h) : h[i][p] = Kicked
  BY <1>2 DEF Present
<1> QED BY <1>6, <1>7, <1>8, <1>9

\* A player is gone in a tick when it is dead, or has been kicked out before.
WellFormed(log) ==
  \A t \in 1..Len(log), q \in Players :
    log[t][q] = Gone
      <=> t - 1 > DeathTick[q] \/ \E u \in 1..t - 1 : log[u][q] = Kicked

\* contest::tick keeps the entities which are neither dead nor kicked out.
LEMMA AdvanceIsWellFormed ==
  ASSUME NEW h \in History, NEW n \in Nat,
         NEW acts \in [Players -> Seq(Action)], WellFormed(h)
  PROVE  WellFormed(Advance(h, n, acts))
<1> DEFINE played == Advance(h, n, acts)
           GoneRight(t, q) ==
             played[t][q] = Gone
               <=> t - 1 > DeathTick[q]
                     \/ \E u \in 1..t - 1 : played[u][q] = Kicked
<1>1. /\ Len(h) \in Nat /\ DOMAIN h = 1..Len(h)
      /\ Len(played) = Len(h) + n
      /\ \A i \in 1..Len(h) : played[i] = h[i]
      /\ \A i \in 1..n : played[Len(h) + i] = Applied(h, acts, i)
  BY AdvanceExtends, LenProperties DEF History
<1> HIDE DEF played
<1>2. ASSUME NEW t \in 1..Len(h), NEW q \in Players
      PROVE  GoneRight(t, q)
  <2>1. \A u \in 1..t - 1 : played[u] = h[u]
    BY <1>1
  <2>2. played[t] = h[t]
    BY <1>1
  <2> QED BY <2>1, <2>2 DEF WellFormed
<1>3. ASSUME NEW i \in 1..n, NEW q \in Players
      PROVE  GoneRight(Len(h) + i, q)
  <2> DEFINE count == Len(acts[q])
  <2>1. /\ count \in Nat /\ \A j \in 1..count : acts[q][j] \in Nat
        /\ DeathTick[q] \in Nat
    BY LenProperties, ElementOfSeq, ContestAssumption DEF Action
  <2>2. \A j \in 1..n :
          played[Len(h) + j][q] =
            IF ~Present(h, q) \/ Len(h) + j - 1 > DeathTick[q] \/ j > count + 1
            THEN Gone ELSE IF j = count + 1 THEN Kicked ELSE acts[q][j]
    <3> TAKE j \in 1..n
    <3>1. Applied(h, acts, j)[q] =
            IF ~Present(h, q) \/ Len(h) + j - 1 > DeathTick[q] \/ j > count + 1
            THEN Gone ELSE IF j = count + 1 THEN Kicked ELSE acts[q][j]
      BY DEF Applied
    <3>2. played[Len(h) + j] = Applied(h, acts, j)
      BY <1>1
    <3> HIDE DEF count
    <3> QED BY <3>1, <3>2
  <2>3. Kicked \notin Nat /\ Gone \notin Nat /\ Kicked # Gone
    BY ContestAssumption
  <2>4. Present(h, q) <=> /\ \A u \in 1..Len(h) : h[u][q] # Kicked
                         /\ Len(h) <= DeathTick[q]
    BY <1>1 DEF Present
  <2> HIDE DEF count
  <2>5. ASSUME played[Len(h) + i][q] = Gone, Len(h) + i - 1 <= DeathTick[q]
        PROVE  \E u \in 1..Len(h) + i - 1 : played[u][q] = Kicked
    <3>1. i > count + 1 \/ i = count + 1 \/ i \in 1..count
      BY <2>1
    <3>2. ~Present(h, q) \/ i > count + 1
      <4>1. ASSUME Present(h, q), ~(i > count + 1) PROVE FALSE
        <5>1. ~(Len(h) + i - 1 > DeathTick[q])
          BY <1>1, <2>1, <2>5
        <5>2. Gone = IF i = count + 1 THEN Kicked ELSE acts[q][i]
          BY <2>2, <2>5, <4>1, <5>1
        <5> QED BY <2>1, <2>3, <3>1, <4>1, <5>2
      <4> QED BY <4>1
    <3>3. CASE ~Present(h, q)
      <4>1. PICK u \in 1..Len(h) : h[u][q] = Kicked
        BY <1>1, <2>1, <2>4, <2>5, <3>3
      <4>2. u \in 1..Len(h) + i - 1 /\ played[u][q] = Kicked
        BY <1>1, <4>1
      <4> QED BY <4>2
    <3>4. CASE Present(h, q) /\ i > count + 1
      <4>1. /\ count + 1 \in 1..n
            /\ Len(h) + (count + 1) \in 1..Len(h) + i - 1
            /\ ~(Len(h) + (count + 1) - 1 > DeathTick[q])
        BY <1>1, <2>1, <2>5, <3>4
      <4>2. played[Len(h) + (count + 1)][q] = Kicked
        <5> DEFINE j == count + 1
        <5>1. /\ j \in 1..n /\ ~(j > count + 1) /\ j = count + 1
              /\ ~(Len(h) + j - 1 > DeathTick[q])
          BY <2>1, <4>1
        <5> HIDE DEF j
        <5>2. played[Len(h) + j][q] = Kicked
          BY <2>2, <3>4, <5>1
        <5> QED BY <5>1, <5>2
      <4> QED BY <4>1, <4>2
    <3> QED BY <3>2, <3>3, <3>4
  <2>6. ASSUME NEW u \in 1..Len(h) + i - 1, played[u][q] = Kicked
        PROVE  played[Len(h) + i][q] = Gone
    <3>1. CASE u <= Len(h)
      <4>1. u \in 1..Len(h) /\ h[u][q] = Kicked
        BY <1>1, <2>6, <3>1
      <4> QED BY <2>2, <2>4, <4>1
    <3>2. CASE ~(u <= Len(h))
      <4> DEFINE j == u - Len(h)
      <4>1. j \in 1..n /\ j < i /\ Len(h) + j = u
        BY <1>1, <3>2
      <4> HIDE DEF j
      <4>2. j = count + 1
        <5>1. played[Len(h) + j][q] = Kicked
          BY <2>6, <4>1
        <5>2. j \in 1..count \/ j = count + 1 \/ j > count + 1
          BY <2>1, <4>1
        <5> QED BY <2>1, <2>2, <2>3, <4>1, <5>1, <5>2
      <4>3. i > count + 1
        BY <2>1, <4>1, <4>2
      <4> QED BY <2>2, <4>3
    <3> QED BY <3>1, <3>2
  <2>7. Len(h) + i - 1 > DeathTick[q] => played[Len(h) + i][q] = Gone
    BY <2>2
  <2>8. Len(h) + i - 1 > DeathTick[q] \/ Len(h) + i - 1 <= DeathTick[q]
    BY <1>1, <2>1
  <2> QED BY <2>5, <2>6, <2>7, <2>8
<1>4. \A t \in 1..Len(played) :
        t \in 1..Len(h) \/ \E i \in 1..n : t = Len(h) + i
  <2> TAKE t \in 1..Len(played)
  <2>1. t \in 1..Len(h) \/ (t - Len(h) \in 1..n /\ t = Len(h) + (t - Len(h)))
    BY <1>1
  <2> QED BY <2>1
<1> HIDE DEF GoneRight
<1>5. ASSUME NEW t \in 1..Len(played), NEW q \in Players
      PROVE  GoneRight(t, q)
  <2>1. CASE t \in 1..Len(h)
    BY <1>2, <2>1
  <2>2. CASE \E i \in 1..n : t = Len(h) + i
    <3>1. PICK i \in 1..n : t = Len(h) + i
      BY <2>2
    <3>2. GoneRight(Len(h) + i, q)
      BY <1>3
    <3> QED BY <3>1, <3>2
  <2>3. t \in 1..Len(h) \/ \E i \in 1..n : t = Len(h) + i
    BY <1>4
  <2> QED BY <2>1, <2>2, <2>3
<1>6. WellFormed(played)
  BY <1>5 DEF WellFormed, GoneRight
<1> QED BY <1>6 DEF played

-----------------------------------------------------------------------------
(* The inductive invariant.  The types alone are not inductive: the lengths *)
(* computed by the service are differences of counters, which are natural   *)
(* numbers because these counters are ordered.                              *)

\* The actions of a bot stop where the server is, as long as the bot thinks.
BotsFollow ==
  \A q \in active \cap Bots :
    simulationTick <= DeathTick[q] + 1
      => completedAll + Len(actions[q]) = simulationTick

\* Nobody is kicked out of the contest who is still in the game.
KickedAreOut ==
  \A t \in 1..Len(contest), q \in Players :
    contest[t][q] = Kicked => q \notin active

IInv ==
  /\ TypeOK
  /\ TicksOrdered
  /\ ChecksumsAligned
  /\ DisconnectionReportedOnce
  /\ OneVerdict
  /\ WinnerIsRewarded
  /\ ActionsMatchContest
  /\ BotsFollow
  /\ WellFormed(contest)
  /\ KickedAreOut

-----------------------------------------------------------------------------
(* game::update.                                                           *)

\* What queue_actions may do: it adds actions to those known, and none for a bot.
Lengthens(queued) ==
  /\ queued \in [Players -> Seq(Action)]
  /\ \A q \in Players :
       /\ Len(actions[q]) <= Len(queued[q])
       /\ \A i \in 1..Len(actions[q]) : queued[q][i] = actions[q][i]
  /\ \A q \in Bots : queued[q] = actions[q]

\* A bot has one thought per tick until it is dead.
LEMMA ThoughtsType ==
  ASSUME simulationTick \in Nat, NEW q \in Players, NEW n \in Nat
  PROVE  /\ Thoughts(q, n) \in Seq(Action)
         /\ Len(Thoughts(q, n)) =
              IF simulationTick <= DeathTick[q]
              THEN Smaller(n, DeathTick[q] + 1 - simulationTick)
              ELSE 0
         /\ \A i \in 1..Len(Thoughts(q, n)) :
              Thoughts(q, n)[i] = simulationTick + i - 1
<1> DEFINE all == [i \in 1..n |-> simulationTick + i - 1]
           bound == Smaller(n, DeathTick[q] + 1 - simulationTick)
<1>1. all \in Seq(Action) /\ Len(all) = n
  <2>1. all \in [1..n -> Action]
    BY DEF Action
  <2> QED BY <2>1, FunctionIsSeq
<1>7. \A i \in 1..n : all[i] = simulationTick + i - 1
  OBVIOUS
<1>2. DeathTick[q] \in Nat
  BY ContestAssumption
<1>3. /\ bound \in Int /\ bound <= n
      /\ simulationTick <= DeathTick[q] => bound \in Nat
      /\ simulationTick > DeathTick[q] => bound <= 0
  BY <1>2 DEF Smaller
<1>4. Thoughts(q, n) = SubSeq(all, 1, bound)
  BY DEF Thoughts
<1> HIDE DEF all, bound
<1>5. /\ SubSeq(all, 1, bound) \in Seq(Action)
      /\ Len(SubSeq(all, 1, bound)) = IF 1 <= bound THEN bound - 1 + 1 ELSE 0
      /\ \A i \in 1..bound - 1 + 1 : SubSeq(all, 1, bound)[i] = all[1 + i - 1]
  BY <1>1, <1>3, SubSeqType
<1>6. ASSUME NEW i \in 1..Len(SubSeq(all, 1, bound))
      PROVE  SubSeq(all, 1, bound)[i] = simulationTick + i - 1
  <2>1. i \in 1..bound - 1 + 1 /\ i \in 1..n /\ 1 + i - 1 = i
    BY <1>3, <1>5
  <2> QED BY <1>5, <1>7, <2>1
<1>8. CASE simulationTick <= DeathTick[q]
  BY <1>3, <1>4, <1>5, <1>6, <1>8 DEF bound
<1>9. CASE ~(simulationTick <= DeathTick[q])
  BY <1>2, <1>3, <1>4, <1>5, <1>6, <1>9
<1> QED BY <1>8, <1>9

\* What is applied is a sequence of actions for each player, empty for those who
\* have been kicked out, which seal_player_actions takes in what is queued, and
\* the thoughts of the bot are put at the same place.
LEMMA SealedType ==
  ASSUME IInv, NEW queued \in [Players -> Seq(Action)], NEW n \in Nat,
         \A q \in active \cap Humans :
           simulationTick + n <= completedAll + Len(queued[q]),
         Lengthens(queued), NEW p \in active
  PROVE  /\ SealedActions(n, queued) \in [Players -> Seq(Action)]
         /\ \A q \in active \cap Humans : Len(SealedActions(n, queued)[q]) = n
         /\ WithThoughts(n, queued) \in [Players -> Seq(Action)]
         /\ \A q \in Players :
              /\ Len(queued[q]) <= Len(WithThoughts(n, queued)[q])
              /\ \A i \in 1..Len(queued[q]) :
                   WithThoughts(n, queued)[q][i] = queued[q][i]
         /\ \A q \in Players : \A i \in 1..Len(SealedActions(n, queued)[q]) :
              /\ simulationTick - completedAll + i
                   \in 1..Len(WithThoughts(n, queued)[q])
              /\ WithThoughts(n, queued)[q][simulationTick - completedAll + i]
                   = SealedActions(n, queued)[q][i]
<1> DEFINE base == simulationTick - completedAll
           sealed == SealedActions(n, queued)
           kept == WithThoughts(n, queued)
<1>1. /\ simulationTick \in Nat /\ completedAll \in Nat /\ base \in Nat
      /\ actions \in [Players -> Seq(Action)]
      /\ active \subseteq Players
  BY SMTT(30) DEF IInv, TypeOK, TicksOrdered
<1> HIDE DEF base
<1>2. \A q \in Players : queued[q] \in Seq(Action) /\ Len(queued[q]) \in Nat
  BY LenProperties
<1>3. ASSUME NEW q \in active \cap Humans
      PROVE  /\ sealed[q] \in Seq(Action) /\ Len(sealed[q]) = n
             /\ \A i \in 1..n : sealed[q][i] = queued[q][base + i]
             /\ kept[q] = queued[q]
             /\ base + n <= Len(queued[q])
  <2>1. base + n <= Len(queued[q])
    BY <1>1, <1>2 DEF base, Humans
  <2>2. /\ sealed[q] = SubSeq(queued[q], base + 1, base + n)
        /\ kept[q] = queued[q]
    BY <1>1 DEF SealedActions, WithThoughts, Humans, base
  <2> DEFINE s == queued[q]
             first == base + 1
             last == base + n
  <2>3. /\ first \in Nat \ {0} /\ last \in Int /\ last <= Len(s)
        /\ s \in Seq(Action)
    BY <1>1, <1>2, <2>1 DEF Humans
  <2>4. /\ last - first + 1 = n
        /\ n # 0 => first <= last
        /\ n = 0 => ~(first <= last)
        /\ \A i \in 1..n : first + i - 1 = base + i
    BY <1>1
  <2>5. sealed[q] = SubSeq(s, first, last)
    BY <2>2
  <2> HIDE DEF s, first, last
  <2>6. /\ SubSeq(s, first, last) \in Seq(Action)
        /\ Len(SubSeq(s, first, last))
             = IF first <= last THEN last - first + 1 ELSE 0
        /\ \A i \in 1..last - first + 1 :
             SubSeq(s, first, last)[i] = s[first + i - 1]
    BY <2>3, SubSeqType
  <2>7. Len(sealed[q]) = n /\ sealed[q] \in Seq(Action)
    BY <2>4, <2>5, <2>6
  <2>8. \A i \in 1..n : sealed[q][i] = s[base + i]
    BY <2>4, <2>5, <2>6
  <2> QED BY <2>1, <2>2, <2>7, <2>8 DEF s
<1>4. ASSUME NEW q \in active \cap Bots
      PROVE  /\ sealed[q] = Thoughts(q, n)
             /\ kept[q] = queued[q] \o Thoughts(q, n)
             /\ Thoughts(q, n) \in Seq(Action)
             /\ Len(Thoughts(q, n)) \in Nat
             /\ Len(Thoughts(q, n)) # 0 => Len(queued[q]) = base
  <2>1. /\ sealed[q] = Thoughts(q, n)
        /\ kept[q] = queued[q] \o Thoughts(q, n)
    BY <1>1 DEF SealedActions, WithThoughts
  <2>2. Thoughts(q, n) \in Seq(Action) /\ Len(Thoughts(q, n)) \in Nat
    BY <1>1, ThoughtsType, LenProperties
  <2>3. ASSUME Len(Thoughts(q, n)) # 0
        PROVE  Len(queued[q]) = base
    <3>1. simulationTick <= DeathTick[q]
      BY <1>1, <2>3, ThoughtsType
    <3>2. completedAll + Len(actions[q]) = simulationTick
      BY <1>1, <3>1, ContestAssumption DEF IInv, BotsFollow
    <3>3. queued[q] = actions[q] /\ Len(queued[q]) \in Nat
      BY <1>1, <1>2 DEF Lengthens
    <3> QED BY <1>1, <3>2, <3>3 DEF base
  <2> QED BY <2>1, <2>2, <2>3
<1>5. ASSUME NEW q \in Players, q \notin active
      PROVE  sealed[q] = <<>> /\ kept[q] = queued[q] /\ Len(sealed[q]) = 0
  BY <1>5, EmptySeq DEF SealedActions, WithThoughts
<1>6. \A q \in Players :
        q \in active \cap Humans \/ q \in active \cap Bots \/ q \notin active
  BY DEF Humans
<1>7. /\ sealed = [q \in Players |-> sealed[q]]
      /\ kept = [q \in Players |-> kept[q]]
  BY DEF SealedActions, WithThoughts
<1> HIDE DEF sealed, kept
<1>8. ASSUME NEW q \in active \cap Bots
      PROVE  /\ kept[q] \in Seq(Action)
             /\ Len(kept[q]) = Len(queued[q]) + Len(Thoughts(q, n))
             /\ \A i \in 1..Len(kept[q]) :
                  kept[q][i] = IF i <= Len(queued[q]) THEN queued[q][i]
                               ELSE Thoughts(q, n)[i - Len(queued[q])]
  <2> DEFINE a == queued[q]
             b == Thoughts(q, n)
  <2>1. a \in Seq(Action) /\ b \in Seq(Action) /\ kept[q] = a \o b
    BY <1>1, <1>2, <1>4
  <2> HIDE DEF a, b
  <2>2. /\ a \o b \in Seq(Action)
        /\ Len(a \o b) = Len(a) + Len(b)
        /\ \A i \in 1..Len(a) + Len(b) :
             (a \o b)[i] = IF i <= Len(a) THEN a[i] ELSE b[i - Len(a)]
    BY <2>1, ConcatProperties
  <2> QED BY <2>1, <2>2 DEF a, b
<1>9. ASSUME NEW q \in Players
      PROVE  /\ sealed[q] \in Seq(Action) /\ kept[q] \in Seq(Action)
             /\ Len(queued[q]) <= Len(kept[q])
             /\ \A i \in 1..Len(queued[q]) : kept[q][i] = queued[q][i]
             /\ \A i \in 1..Len(sealed[q]) :
                  /\ base + i \in 1..Len(kept[q])
                  /\ kept[q][base + i] = sealed[q][i]
  <2>1. CASE q \in active \cap Humans
    <3>1. /\ sealed[q] \in Seq(Action) /\ Len(sealed[q]) = n
          /\ \A i \in 1..n : sealed[q][i] = queued[q][base + i]
          /\ kept[q] = queued[q]
          /\ base + n <= Len(queued[q])
      BY <1>3, <2>1
    <3>2. queued[q] \in Seq(Action) /\ Len(queued[q]) \in Nat
      BY <1>2
    <3> DEFINE k == Len(queued[q])
    <3> HIDE DEF k
    <3>3. k \in Nat /\ base + n <= k
      BY <3>1, <3>2 DEF k
    <3>4. \A i \in 1..n : base + i \in 1..k
      BY <1>1, <3>3
    <3> QED BY <3>1, <3>2, <3>4 DEF k
  <2>2. CASE q \in active \cap Bots
    <3>1. /\ sealed[q] = Thoughts(q, n) /\ Thoughts(q, n) \in Seq(Action)
          /\ Len(Thoughts(q, n)) \in Nat /\ Len(queued[q]) \in Nat
      BY <1>2, <1>4, <2>2
    <3>2. \A i \in 1..Len(queued[q]) : kept[q][i] = queued[q][i]
      BY <1>8, <2>2, <3>1
    <3>3. ASSUME NEW i \in 1..Len(sealed[q])
          PROVE  /\ base + i \in 1..Len(kept[q])
                 /\ kept[q][base + i] = sealed[q][i]
      <4>1. Len(queued[q]) = base
        BY <1>4, <2>2, <3>1
      <4>2. Len(kept[q]) = base + Len(sealed[q])
        BY <1>8, <2>2, <3>1, <4>1
      <4> DEFINE j == base + i
      <4>3. j \in 1..Len(kept[q]) /\ ~(j <= base) /\ j - base = i
        BY <1>1, <3>1, <4>2
      <4> HIDE DEF j
      <4>4. kept[q][j] = IF j <= Len(queued[q]) THEN queued[q][j]
                         ELSE Thoughts(q, n)[j - Len(queued[q])]
        BY <1>8, <2>2, <4>3
      <4>5. kept[q][j] = Thoughts(q, n)[i]
        BY <4>1, <4>3, <4>4
      <4> QED BY <3>1, <4>3, <4>5 DEF j
    <3> QED BY <1>8, <2>2, <3>1, <3>2, <3>3
  <2>3. CASE q \notin active
    <3>1. /\ sealed[q] = <<>> /\ kept[q] = queued[q]
          /\ 1..Len(sealed[q]) = {}
      BY <1>5, <2>3
    <3> QED BY <1>2, <3>1, EmptySeq
  <2> QED BY <1>6, <2>1, <2>2, <2>3
<1> QED BY <1>3, <1>7, <1>9 DEF base, sealed, kept

\* What game::update preserves, given actions and confirmations which respect
\* the order of the ticks, and counts which respect the slowest players.
LEMMA UpdateInvariant ==
  ASSUME IInv,
         NEW queued \in [Players -> Seq(Action)],
         NEW confirmed \in [Players -> Nat],
         NEW n \in Nat, NEW d \in Nat, NEW p \in active,
         \A q \in active : /\ completedAll + d <= confirmed[q]
                           /\ confirmed[q] <= simulationTick,
         \A q \in active \cap Humans :
           simulationTick + n <= completedAll + Len(queued[q]),
         Lengthens(queued), Update(queued, confirmed, n, d)
  PROVE  /\ simulationTick' = simulationTick + n
         /\ completedAll' = completedAll + d
         /\ completed' = confirmed
         /\ actions' \in [Players -> Seq(Action)]
         /\ \A q \in active \cap Humans :
              Len(actions'[q]) = Len(queued[q]) - d
         /\ contest' \in History
         /\ checksums' \in Seq(History)
         /\ result' \in Players \cup {Running, Draw}
         /\ gameOverTick' \in Nat
         /\ ChecksumsAligned'
         /\ result # Running \/ n = 0 => result' = result
         /\ result = Running /\ result' \in Players => result' \in active
<1> DEFINE sealed == SealedActions(n, queued)
           played == Advance(contest, n, sealed)
           kept == WithThoughts(n, queued)
           pushed == [i \in 1..n |->
                        Checksum(SubSeq(played, 1, simulationTick + i))]
<1>1. /\ simulationTick \in Nat /\ completedAll \in Nat
      /\ contest \in History /\ Len(contest) = simulationTick
      /\ checksums \in Seq(History)
      /\ Len(checksums) = simulationTick - completedAll + 1
      /\ d <= simulationTick - completedAll
  BY DEF IInv, TypeOK, ChecksumsAligned
<1>2. /\ contest' = played
      /\ simulationTick' = simulationTick + n
      /\ ConcludeContest(played)
      /\ completed' = confirmed
      /\ completedAll' = completedAll + d
      /\ actions' = [q \in Players |-> Without(kept[q], d)]
      /\ checksums' = Without(checksums \o pushed, d)
  BY DEF Update
<1>3. sealed \in [Players -> Seq(Action)]
  BY SealedType
<1>4. kept \in [Players -> Seq(Action)]
  BY SealedType
<1>5. /\ played \in History
      /\ Len(played) = simulationTick + n
      /\ \A i \in 1..simulationTick : played[i] = contest[i]
  BY <1>1, <1>3, AdvanceExtends
<1> HIDE DEF sealed, played, kept, pushed
<1>7. actions' \in [Players -> Seq(Action)]
  BY <1>2, <1>4, WithoutType
<1>8. ASSUME NEW q \in active \cap Humans
      PROVE  Len(actions'[q]) = Len(queued[q]) - d
  <2>1. queued[q] \in Seq(Action) /\ Len(queued[q]) \in Nat
    BY LenProperties DEF Humans
  <2>2. kept[q] = queued[q] /\ actions'[q] = Without(kept[q], d)
    BY <1>2 DEF kept, WithThoughts, Humans
  <2>3. simulationTick + n <= completedAll + Len(queued[q])
    BY <1>8
  <2>4. d <= Len(queued[q])
    BY <1>1, <2>1, <2>3
  <2> QED BY <2>1, <2>2, <2>4, WithoutType
<1>9. /\ pushed \in Seq(History)
      /\ Len(pushed) = n
      /\ \A i \in 1..n : pushed[i] = SubSeq(played, 1, simulationTick + i)
  <2>1. \A i \in 1..n : SubSeq(played, 1, simulationTick + i) \in History
    <3> TAKE i \in 1..n
    <3>1. simulationTick + i \in Int /\ simulationTick + i <= Len(played)
      BY <1>1, <1>5
    <3>2. played \in Seq([Players -> Entry])
      BY <1>5 DEF History
    <3>3. SubSeq(played, 1, simulationTick + i) \in Seq([Players -> Entry])
      BY <3>1, <3>2, SubSeqType
    <3> QED BY <3>3 DEF History
  <2>2. pushed \in [1..n -> History]
    BY <2>1 DEF pushed, Checksum
  <2> QED BY <2>2, FunctionIsSeq DEF pushed, Checksum
<1>10. /\ checksums \o pushed \in Seq(History)
       /\ Len(checksums \o pushed) = Len(checksums) + n
       /\ \A i \in 1..Len(checksums) + n :
            (checksums \o pushed)[i] = IF i <= Len(checksums) THEN checksums[i]
                                       ELSE pushed[i - Len(checksums)]
  <2>1. checksums \in Seq(History) /\ pushed \in Seq(History) /\ Len(pushed) = n
    BY <1>1, <1>9
  <2>2. /\ checksums \o pushed \in Seq(History)
        /\ Len(checksums \o pushed) = Len(checksums) + Len(pushed)
        /\ \A i \in 1..Len(checksums) + Len(pushed) :
            (checksums \o pushed)[i] = IF i <= Len(checksums) THEN checksums[i]
                                       ELSE pushed[i - Len(checksums)]
    BY <2>1, ConcatProperties
  <2> QED BY <2>1, <2>2
<1>11. /\ checksums' \in Seq(History)
       /\ Len(checksums') = Len(checksums) + n - d
       /\ \A i \in 1..Len(checksums) + n - d :
            checksums'[i] = (checksums \o pushed)[d + i]
  <2> DEFINE all == checksums \o pushed
  <2>1. all \in Seq(History) /\ Len(all) = Len(checksums) + n
    BY <1>10
  <2>2. d <= Len(checksums) + n
    BY <1>1
  <2>3. checksums' = Without(all, d)
    BY <1>2
  <2> HIDE DEF all
  <2>4. /\ checksums' \in Seq(History)
        /\ Len(checksums') = Len(all) - d
        /\ \A i \in 1..Len(all) - d : checksums'[i] = all[d + i]
    BY <2>1, <2>2, <2>3, WithoutType
  <2> QED BY <2>1, <2>4 DEF all
<1>12. \A k \in 0..simulationTick :
         SubSeq(played, 1, k) = SubSeq(contest, 1, k)
  <2> TAKE k \in 0..simulationTick
  <2>1. /\ SubSeq(played, 1, k) \in Seq([Players -> Entry])
        /\ Len(SubSeq(played, 1, k)) = k
        /\ \A i \in 1..k : SubSeq(played, 1, k)[i] = played[i]
    BY <1>1, <1>5, SubSeqType DEF History
  <2>2. /\ SubSeq(contest, 1, k) \in Seq([Players -> Entry])
        /\ Len(SubSeq(contest, 1, k)) = k
        /\ \A i \in 1..k : SubSeq(contest, 1, k)[i] = contest[i]
    BY <1>1, SubSeqType DEF History
  <2> QED BY <1>1, <1>5, <2>1, <2>2, SeqEqual
<1>13. ASSUME NEW i \in 1..Len(checksums) + n - d
       PROVE  checksums'[i] = SubSeq(played, 1, completedAll + d + i - 1)
  <2>1. CASE d + i <= Len(checksums)
    <3>1. checksums'[i] = checksums[d + i]
      BY <1>1, <1>10, <1>11, <2>1
    <3>2. checksums[d + i] = SubSeq(contest, 1, completedAll + (d + i) - 1)
      <4>1. d + i \in DOMAIN checksums
        BY <1>1, <2>1, LenProperties
      <4> QED BY <4>1 DEF IInv, ChecksumsAligned, Checksum
    <3>3. completedAll + (d + i) - 1 \in 0..simulationTick
      BY <1>1, <2>1
    <3>4. completedAll + (d + i) - 1 = completedAll + d + i - 1
      BY <1>1
    <3> QED BY <1>12, <3>1, <3>2, <3>3, <3>4
  <2>2. CASE d + i > Len(checksums)
    <3>1. /\ d + i - Len(checksums) \in 1..n
          /\ simulationTick + (d + i - Len(checksums))
               = completedAll + d + i - 1
      BY <1>1, <2>2
    <3>2. d + i \in 1..Len(checksums) + n /\ ~(d + i <= Len(checksums))
      BY <1>1, <2>2
    <3>3. (checksums \o pushed)[d + i] = pushed[d + i - Len(checksums)]
      BY <1>10, <3>2
    <3>4. checksums'[i] = pushed[d + i - Len(checksums)]
      BY <1>11, <3>3
    <3> QED BY <1>9, <3>1, <3>4
  <2> QED BY <1>1, <2>1, <2>2
<1>14. ChecksumsAligned'
  <2>1. DOMAIN checksums' = 1..Len(checksums) + n - d
    BY <1>11, LenProperties
  <2>2. Len(contest') = simulationTick' /\ Len(checksums')
          = simulationTick' - completedAll' + 1
    BY <1>1, <1>2, <1>5, <1>11
  <2> QED BY <1>2, <1>13, <2>1, <2>2 DEF ChecksumsAligned, Checksum
<1>15. result' \in Players \cup {Running, Draw} /\ gameOverTick' \in Nat
  <2>1. result \in Players \cup {Running, Draw} /\ gameOverTick \in Nat
    BY DEF IInv, TypeOK
  <2>2. \A t \in simulationTick..Len(played) - 1 : t \in Nat
    BY <1>1, <1>5
  <2> QED BY <1>2, <2>1, <2>2, ResultType DEF ConcludeContest
<1>16. result # Running \/ n = 0 => result' = result
  <2>1. n = 0 => simulationTick..Len(played) - 1 = {}
    BY <1>1, <1>5
  <2> QED BY <1>2, <2>1 DEF ConcludeContest
<1>17. ASSUME result = Running, result' \in Players
       PROVE  result' \in active
  <2>1. result' # Running
    BY <1>17, ContestAssumption
  <2>2. PICK t \in simulationTick..Len(played) - 1 :
          result' = Result(SubSeq(played, 1, t + 1))
    BY <1>2, <1>17, <2>1 DEF ConcludeContest
  <2>3. t + 1 \in Len(contest) + 1..Len(contest) + n
    BY <1>1, <1>5
  <2>4. Present(SubSeq(played, 1, t + 1), result')
    BY <1>17, <2>2, WinnerIsPresent
  <2>5. sealed[result'] # <<>>
    BY <1>1, <1>3, <1>17, <2>3, <2>4, KickedIsNotPresent DEF played
  <2> QED BY <1>17, <2>5 DEF sealed, SealedActions
<1> QED BY <1>2, <1>5, <1>7, <1>8, <1>11, <1>14, <1>15, <1>16, <1>17

\* The actions that send_actions reads are still those of the contest once ticks
\* have been played and others forgotten.
LEMMA UpdateKeepsActions ==
  ASSUME IInv,
         NEW queued \in [Players -> Seq(Action)],
         NEW confirmed, NEW n \in Nat, NEW d \in Nat, NEW p \in active,
         d <= simulationTick - completedAll,
         \A q \in active \cap Humans :
           simulationTick + n <= completedAll + Len(queued[q]),
         Lengthens(queued), Update(queued, confirmed, n, d)
  PROVE  /\ ActionsMatchContest'
         /\ \A q \in active \cap Bots :
              simulationTick' <= DeathTick[q] + 1
                => completedAll' + Len(actions'[q]) = simulationTick'
<1> DEFINE sealed == SealedActions(n, queued)
           kept == WithThoughts(n, queued)
<1>1. /\ simulationTick \in Nat /\ completedAll \in Nat
      /\ contest \in History /\ Len(contest) = simulationTick
      /\ actions \in [Players -> Seq(Action)]
      /\ active \subseteq Players
  BY DEF IInv, TypeOK, ChecksumsAligned
<1>2. /\ contest' = Advance(contest, n, sealed)
      /\ simulationTick' = simulationTick + n
      /\ completedAll' = completedAll + d
      /\ actions' = [q \in Players |-> Without(kept[q], d)]
  BY DEF Update
<1>3. /\ sealed \in [Players -> Seq(Action)]
      /\ kept \in [Players -> Seq(Action)]
      /\ \A q \in Players :
           /\ Len(queued[q]) <= Len(kept[q])
           /\ \A i \in 1..Len(queued[q]) : kept[q][i] = queued[q][i]
      /\ \A q \in Players : \A i \in 1..Len(sealed[q]) :
           /\ simulationTick - completedAll + i \in 1..Len(kept[q])
           /\ kept[q][simulationTick - completedAll + i] = sealed[q][i]
  BY SealedType
<1>4. \A q \in active \cap Bots : kept[q] = queued[q] \o Thoughts(q, n)
  BY <1>1 DEF WithThoughts
<1> HIDE DEF sealed, kept
<1>5. /\ \A i \in 1..simulationTick : contest'[i] = contest[i]
      /\ \A i \in 1..n :
           contest'[simulationTick + i] = Applied(contest, sealed, i)
  BY <1>1, <1>2, <1>3, AdvanceExtends, ZenonT(60)
<1>6. \A q \in Players :
        /\ Len(actions[q]) \in Nat /\ Len(queued[q]) \in Nat
        /\ Len(kept[q]) \in Nat /\ Len(sealed[q]) \in Nat
        /\ DOMAIN actions[q] = 1..Len(actions[q])
  BY <1>1, <1>3, LenProperties
<1>7. \A q \in Players : d <= Len(kept[q]) =>
        /\ actions'[q] \in Seq(Action)
        /\ Len(actions'[q]) = Len(kept[q]) - d
        /\ DOMAIN actions'[q] = 1..Len(kept[q]) - d
        /\ \A i \in 1..Len(kept[q]) - d : actions'[q][i] = kept[q][d + i]
  <2> TAKE q \in Players
  <2> HAVE d <= Len(kept[q])
  <2> DEFINE s == kept[q]
  <2>1. s \in Seq(Action) /\ d <= Len(s) /\ actions'[q] = Without(s, d)
    BY <1>2, <1>3
  <2> HIDE DEF s
  <2>2. /\ Without(s, d) \in Seq(Action)
        /\ Len(Without(s, d)) = Len(s) - d
        /\ \A i \in 1..Len(s) - d : Without(s, d)[i] = s[d + i]
    BY <2>1, WithoutType
  <2>3. DOMAIN Without(s, d) = 1..Len(s) - d
    BY <2>2, LenProperties
  <2> QED BY <2>1, <2>2, <2>3 DEF s
<1>8. ASSUME NEW q \in Players,
             NEW t \in completedAll + d + 1..simulationTick + n,
             contest'[t][q] \in Action
      PROVE  /\ t - completedAll \in 1..Len(kept[q])
             /\ kept[q][t - completedAll] = contest'[t][q]
  <2>1. CASE t <= simulationTick
    <3>1. t \in completedAll + 1..simulationTick /\ t \in 1..simulationTick
      BY <1>1, <2>1
    <3>2. contest'[t] = contest[t]
      BY <1>5, <3>1
    <3>3. /\ t - completedAll \in DOMAIN actions[q]
          /\ actions[q][t - completedAll] = contest[t][q]
      BY <1>8, <3>1, <3>2 DEF IInv, ActionsMatchContest
    <3>4. t - completedAll \in 1..Len(actions[q])
      BY <1>6, <3>3
    <3>5. /\ t - completedAll \in 1..Len(queued[q])
          /\ queued[q][t - completedAll] = actions[q][t - completedAll]
      BY <1>6, <3>4 DEF Lengthens
    <3>6. /\ t - completedAll \in 1..Len(kept[q])
          /\ kept[q][t - completedAll] = queued[q][t - completedAll]
      BY <1>3, <1>6, <3>5
    <3> QED BY <3>2, <3>3, <3>5, <3>6
  <2>2. CASE ~(t <= simulationTick)
    <3> DEFINE i == t - simulationTick
    <3>1. /\ i \in 1..n /\ simulationTick + i = t
          /\ simulationTick - completedAll + i = t - completedAll
      BY <1>1, <2>2
    <3> HIDE DEF i
    <3>2. contest'[t][q] = Applied(contest, sealed, i)[q]
      BY <1>5, <3>1
    <3>3. i <= Len(sealed[q]) /\ contest'[t][q] = sealed[q][i]
      <4>1. contest'[t][q] # Kicked /\ contest'[t][q] # Gone
        BY <1>8, ContestAssumption DEF Action
      <4>2. /\ ~(i > Len(sealed[q]) + 1) /\ i # Len(sealed[q]) + 1
            /\ contest'[t][q] = sealed[q][i]
        BY <3>2, <4>1 DEF Applied
      <4>3. i \in Nat /\ Len(sealed[q]) \in Nat
        BY <1>6, <3>1
      <4> QED BY <4>2, <4>3
    <3>4. i \in 1..Len(sealed[q])
      BY <1>6, <3>1, <3>3
    <3> QED BY <1>3, <3>1, <3>3, <3>4
  <2> QED BY <2>1, <2>2
<1>9. ActionsMatchContest'
  <2> SUFFICES ASSUME NEW q \in Players,
                      NEW t \in completedAll + d + 1..simulationTick + n,
                      contest'[t][q] \in Action
               PROVE  /\ t - (completedAll + d) \in DOMAIN actions'[q]
                      /\ actions'[q][t - (completedAll + d)] = contest'[t][q]
    BY <1>2 DEF ActionsMatchContest
  <2>1. /\ t - completedAll \in 1..Len(kept[q])
        /\ kept[q][t - completedAll] = contest'[t][q]
    BY <1>8
  <2>2. /\ d <= Len(kept[q])
        /\ t - (completedAll + d) \in 1..Len(kept[q]) - d
        /\ d + (t - (completedAll + d)) = t - completedAll
    <3>1. /\ Len(kept[q]) \in Nat /\ t \in Int
          /\ completedAll + d + 1 <= t /\ t - completedAll <= Len(kept[q])
      BY <1>1, <1>6, <2>1
    <3>2. \A a, b, e \in Nat, u \in Int :
            a + b + 1 <= u /\ u - a <= e =>
              /\ b <= e /\ u - (a + b) \in 1..e - b
              /\ b + (u - (a + b)) = u - a
      OBVIOUS
    <3> QED BY <1>1, <3>1, <3>2
  <2> QED BY <1>7, <2>1, <2>2
<1>10. ASSUME NEW q \in active \cap Bots,
              simulationTick' <= DeathTick[q] + 1
       PROVE  completedAll' + Len(actions'[q]) = simulationTick'
  <2>1. DeathTick[q] \in Nat /\ q \in Players
    BY <1>1, ContestAssumption
  <2>2. simulationTick <= DeathTick[q] + 1
    BY <1>1, <1>2, <1>10, <2>1
  <2>3. completedAll + Len(actions[q]) = simulationTick
    BY <2>2 DEF IInv, BotsFollow
  <2>4. Len(Thoughts(q, n)) = n /\ Thoughts(q, n) \in Seq(Action)
    <3>1. simulationTick + n <= DeathTick[q] + 1
      BY <1>2, <1>10
    <3>2. n # 0 => /\ simulationTick <= DeathTick[q]
                   /\ Smaller(n, DeathTick[q] + 1 - simulationTick) = n
      BY <1>1, <2>1, <3>1 DEF Smaller
    <3>3. n = 0 => Smaller(n, DeathTick[q] + 1 - simulationTick) = 0
      BY <1>1, <2>1, <3>1 DEF Smaller
    <3>4. /\ Thoughts(q, n) \in Seq(Action)
          /\ Len(Thoughts(q, n)) =
               IF simulationTick <= DeathTick[q]
               THEN Smaller(n, DeathTick[q] + 1 - simulationTick)
               ELSE 0
      BY <1>1, <2>1, ThoughtsType
    <3>5. CASE n # 0
      BY <3>2, <3>4, <3>5
    <3>6. CASE n = 0
      BY <3>3, <3>4, <3>6
    <3> QED BY <3>5, <3>6
  <2>5. Len(kept[q]) = Len(actions[q]) + n
    <3> DEFINE a == actions[q]
               b == Thoughts(q, n)
    <3>1. /\ kept[q] = a \o b
          /\ a \in Seq(Action) /\ b \in Seq(Action) /\ Len(b) = n
      BY <1>1, <1>4, <2>1, <2>4 DEF Lengthens
    <3> HIDE DEF a, b
    <3>2. Len(a \o b) = Len(a) + Len(b)
      BY <3>1, ConcatProperties
    <3> QED BY <3>1, <3>2 DEF a
  <2>6. Len(actions[q]) \in Nat /\ d <= Len(kept[q])
    <3>1. Len(actions[q]) \in Nat
      BY <1>6, <2>1
    <3>2. \A a, b, c \in Nat : c <= a + b - a => c <= b + n
      OBVIOUS
    <3> QED BY <1>1, <2>3, <2>5, <3>1, <3>2
  <2>7. Len(actions'[q]) = Len(actions[q]) + n - d
    BY <1>7, <2>1, <2>5, <2>6
  <2>8. completedAll + d + (Len(actions[q]) + n - d) = simulationTick + n
    <3>1. \A a, b \in Nat : a + d + (b + n - d) = a + b + n
      OBVIOUS
    <3> QED BY <1>1, <2>3, <2>6, <3>1, ZenonT(60)
  <2> QED BY <1>2, <2>7, <2>8
<1> QED BY <1>9, <1>10

\* What the new ticks are made of.
LEMMA UpdateEntries ==
  ASSUME IInv,
         NEW queued \in [Players -> Seq(Action)],
         NEW confirmed, NEW n \in Nat, NEW d \in Nat, NEW p \in active,
         \A q \in active \cap Humans :
           simulationTick + n <= completedAll + Len(queued[q]),
         Lengthens(queued), Update(queued, confirmed, n, d)
  PROVE  /\ WellFormed(contest')
         /\ \A t \in 1..Len(contest'), q \in Players :
              contest'[t][q] = Kicked => q \notin active
         /\ \A i \in 1..simulationTick : contest'[i] = contest[i]
         /\ \A i \in 1..n, q \in Players :
              contest'[simulationTick + i][q] \in Action =>
                /\ i \in 1..Len(SealedActions(n, queued)[q])
                /\ contest'[simulationTick + i][q]
                     = SealedActions(n, queued)[q][i]
<1> DEFINE sealed == SealedActions(n, queued)
<1>1. /\ simulationTick \in Nat
      /\ contest \in History /\ Len(contest) = simulationTick
      /\ active \subseteq Players
      /\ WellFormed(contest) /\ KickedAreOut
      /\ contest' = Advance(contest, n, sealed)
  BY DEF IInv, TypeOK, ChecksumsAligned, Update
<1>2. /\ sealed \in [Players -> Seq(Action)]
      /\ \A q \in active \cap Humans : Len(sealed[q]) = n
  BY SealedType
<1>3. \A q \in active \cap Bots : sealed[q] = Thoughts(q, n)
  BY <1>1 DEF SealedActions
<1> HIDE DEF sealed
<1>4. /\ Len(contest') = simulationTick + n
      /\ \A i \in 1..simulationTick : contest'[i] = contest[i]
      /\ \A i \in 1..n :
           contest'[simulationTick + i] = Applied(contest, sealed, i)
  BY <1>1, <1>2, AdvanceExtends
<1>5. WellFormed(contest')
  BY <1>1, <1>2, AdvanceIsWellFormed
<1>6. ASSUME NEW i \in 1..n, NEW q \in Players
      PROVE  /\ i \in 1..Len(sealed[q]) \/ i = Len(sealed[q]) + 1
                  \/ i > Len(sealed[q]) + 1
             /\ Len(sealed[q]) \in Nat /\ DeathTick[q] \in Nat
             /\ i \in 1..Len(sealed[q]) => sealed[q][i] \in Nat
             /\ Kicked \notin Nat /\ Gone \notin Nat /\ Kicked # Gone
             /\ contest'[simulationTick + i][q]
                  = IF \/ ~Present(contest, q)
                       \/ simulationTick + i - 1 > DeathTick[q]
                       \/ i > Len(sealed[q]) + 1
                    THEN Gone
                    ELSE IF i = Len(sealed[q]) + 1 THEN Kicked
                    ELSE sealed[q][i]
  <2>1. sealed[q] \in Seq(Action) /\ Len(sealed[q]) \in Nat
    BY <1>2, LenProperties
  <2>2. i \in 1..Len(sealed[q]) => sealed[q][i] \in Nat
    BY <2>1, ElementOfSeq DEF Action
  <2>3. contest'[simulationTick + i] = Applied(contest, sealed, i)
    BY <1>4
  <2>4. contest'[simulationTick + i][q]
          = IF \/ ~Present(contest, q)
               \/ simulationTick + i - 1 > DeathTick[q]
               \/ i > Len(sealed[q]) + 1
            THEN Gone
            ELSE IF i = Len(sealed[q]) + 1 THEN Kicked
            ELSE sealed[q][i]
    BY <1>1, <2>3 DEF Applied
  <2>5. i \in 1..Len(sealed[q]) \/ i = Len(sealed[q]) + 1
          \/ i > Len(sealed[q]) + 1
    BY <2>1
  <2> QED BY <2>1, <2>2, <2>4, <2>5, ContestAssumption
<1>7. ASSUME NEW i \in 1..n, NEW q \in Players,
             contest'[simulationTick + i][q] \in Action
      PROVE  /\ i \in 1..Len(sealed[q])
             /\ contest'[simulationTick + i][q] = sealed[q][i]
  <2>1. contest'[simulationTick + i][q] # Gone
          /\ contest'[simulationTick + i][q] # Kicked
    BY <1>6, <1>7 DEF Action
  <2> QED BY <1>6, <2>1
<1>8. ASSUME NEW i \in 1..n, NEW q \in active,
             contest'[simulationTick + i][q] = Kicked
      PROVE  FALSE
  <2>1. /\ i = Len(sealed[q]) + 1
        /\ ~(simulationTick + i - 1 > DeathTick[q])
        /\ DeathTick[q] \in Nat
    BY <1>1, <1>6, <1>8
  <2>2. CASE q \in Humans
    BY <1>2, <2>1, <2>2
  <2>3. CASE q \in Bots
    <3> DEFINE thoughts == Thoughts(q, n)
    <3>1. /\ Len(thoughts) = IF simulationTick <= DeathTick[q]
                             THEN Smaller(n, DeathTick[q] + 1 - simulationTick)
                             ELSE 0
          /\ sealed[q] = thoughts
      BY <1>1, <1>3, <2>3, ThoughtsType
    <3> HIDE DEF thoughts
    <3>2. Smaller(n, DeathTick[q] + 1 - simulationTick)
            = IF n <= DeathTick[q] + 1 - simulationTick THEN n
              ELSE DeathTick[q] + 1 - simulationTick
      BY DEF Smaller
    <3>3. i \in Nat /\ i <= n
      OBVIOUS
    <3>4. CASE simulationTick <= DeathTick[q]
      BY <1>1, <2>1, <3>1, <3>2, <3>3, <3>4
    <3>5. CASE ~(simulationTick <= DeathTick[q])
      BY <1>1, <2>1, <3>1, <3>5
    <3> QED BY <3>4, <3>5
  <2> QED BY <1>1, <2>2, <2>3 DEF Humans
<1>9. ASSUME NEW t \in 1..Len(contest'), NEW q \in active,
             contest'[t][q] = Kicked
      PROVE  FALSE
  <2>1. CASE t <= simulationTick
    <3>1. t \in 1..Len(contest) /\ contest'[t] = contest[t] /\ q \in Players
      BY <1>1, <1>4, <2>1
    <3> QED BY <1>1, <1>9, <3>1 DEF KickedAreOut
  <2>2. CASE ~(t <= simulationTick)
    <3> DEFINE i == t - simulationTick
    <3>1. i \in 1..n /\ simulationTick + i = t
      BY <1>1, <1>4, <2>2
    <3> HIDE DEF i
    <3> QED BY <1>8, <1>9, <3>1
  <2> QED BY <2>1, <2>2
<1> QED BY <1>4, <1>5, <1>7, <1>9 DEF sealed

-----------------------------------------------------------------------------
(* The karma.                                                              *)

Ledgers == [Players -> [disconnection : Nat, shortGame : Nat,
                        goodBehavior : Nat]]

\* Reporting an event adds one to the count of this event alone.
LEMMA ReportCounts ==
  ASSUME NEW ledger \in Ledgers, NEW players
  PROVE  /\ Report(ledger, players, "disconnection") =
              [p \in Players |->
                 [disconnection |-> ledger[p].disconnection
                                     + (IF p \in players THEN 1 ELSE 0),
                  shortGame |-> ledger[p].shortGame,
                  goodBehavior |-> ledger[p].goodBehavior]]
         /\ Report(ledger, players, "shortGame") =
              [p \in Players |->
                 [disconnection |-> ledger[p].disconnection,
                  shortGame |-> ledger[p].shortGame
                                 + (IF p \in players THEN 1 ELSE 0),
                  goodBehavior |-> ledger[p].goodBehavior]]
         /\ Report(ledger, players, "goodBehavior") =
              [p \in Players |->
                 [disconnection |-> ledger[p].disconnection,
                  shortGame |-> ledger[p].shortGame,
                  goodBehavior |-> ledger[p].goodBehavior
                                    + (IF p \in players THEN 1 ELSE 0)]]
BY DEF Report, Ledgers

\* check_drop_desynchronized_player selects humans who are still in the game.
LEMMA DesynchronizedAreActive ==
  ASSUME NEW left, NEW tick
  PROVE  Desynchronized(left, tick) \subseteq active \cap Humans
BY DEF Desynchronized, Silent, OutOfPace

\* Kicking players out, in any of the three ways.
LEMMA KickOutInvariant ==
  ASSUME IInv, NEW players \in SUBSET (active \cap Humans), KickOut(players)
  PROVE  /\ active' \subseteq active
         /\ active' \subseteq Players
         /\ karma' \in Ledgers
         /\ DisconnectionReportedOnce'
         /\ \A p \in Players : /\ karma'[p].shortGame = karma[p].shortGame
                              /\ karma'[p].goodBehavior = karma[p].goodBehavior
<1>1. active \subseteq Players /\ karma \in Ledgers
  BY DEF IInv, TypeOK, Ledgers
<1>2. active' = active \ players
  BY DEF KickOut
<1>3. karma' = [p \in Players |->
                 [disconnection |-> karma[p].disconnection
                                     + (IF p \in players THEN 1 ELSE 0),
                  shortGame |-> karma[p].shortGame,
                  goodBehavior |-> karma[p].goodBehavior]]
  BY <1>1, ReportCounts DEF KickOut
<1>4. karma' \in Ledgers
  BY <1>1, <1>3 DEF Ledgers
<1>5. DisconnectionReportedOnce'
  BY <1>1, <1>2, <1>3 DEF IInv, DisconnectionReportedOnce, Humans
<1> QED BY <1>1, <1>2, <1>3, <1>4, <1>5

-----------------------------------------------------------------------------
(* The steps.                                                              *)

\* The invariant holds when the game is launched.
LEMMA InitInvariant == Init => IInv
<1> SUFFICES ASSUME Init PROVE IInv
  OBVIOUS
<1>1. <<>> \in History /\ <<>> \in Seq(Action)
  BY EmptySeq DEF History
<1>2. /\ checksums \in Seq(History) /\ Len(checksums) = 1
      /\ checksums[1] = <<>> /\ DOMAIN checksums = 1..1
  BY <1>1 DEF Init, Checksum
<1>3. TypeOK
  BY <1>1, <1>2, ServiceAssumption DEF Init, TypeOK, Humans
<1>4. TicksOrdered
  BY DEF Init, TicksOrdered, PlayerTick, Humans
<1>5. ChecksumsAligned
  <2>1. SubSeq(<<>>, 1, 0) = <<>>
    BY SubSeqEmpty
  <2>2. Len(contest) = 0 /\ simulationTick = 0 /\ completedAll = 0
          /\ contest = <<>>
    BY EmptySeq DEF Init
  <2>3. \A i \in DOMAIN checksums : i = 1
    BY <1>2
  <2>4. checksums[1] = SubSeq(contest, 1, 0 + 1 - 1)
    BY <1>2, <2>1, <2>2
  <2>5. \A i \in DOMAIN checksums :
          checksums[i] = SubSeq(contest, 1, completedAll + i - 1)
    BY <2>2, <2>3, <2>4
  <2> QED BY <1>2, <2>2, <2>5 DEF ChecksumsAligned, Checksum
<1>6. DisconnectionReportedOnce /\ OneVerdict
  BY DEF Init, DisconnectionReportedOnce, OneVerdict, Humans
<1>7. WinnerIsRewarded
  BY ContestAssumption DEF Init, WinnerIsRewarded
<1>8. ActionsMatchContest
  <2>1. completedAll + 1..simulationTick = {}
    BY DEF Init
  <2> QED BY <2>1 DEF ActionsMatchContest
<1>9. BotsFollow
  BY EmptySeq DEF Init, BotsFollow
<1>10. WellFormed(contest) /\ KickedAreOut
  <2>1. 1..Len(contest) = {}
    BY EmptySeq DEF Init
  <2> QED BY <2>1 DEF WellFormed, KickedAreOut
<1> QED BY <1>3, <1>4, <1>5, <1>6, <1>7, <1>8, <1>9, <1>10 DEF IInv

\* Kicking players out while nothing else happens to the simulation.
LEMMA KickOutStep ==
  ASSUME IInv, NEW players \in SUBSET (active \cap Humans), KickOut(players),
         UNCHANGED <<simulation, reward>>,
         ready' \subseteq Humans, patience' \in [Humans -> Nat]
  PROVE  IInv'
<1> USE DEF IInv
<1>1. /\ active' \subseteq active
      /\ active' \subseteq Players
      /\ karma' \in Ledgers
      /\ DisconnectionReportedOnce'
      /\ \A p \in Players : /\ karma'[p].shortGame = karma[p].shortGame
                           /\ karma'[p].goodBehavior = karma[p].goodBehavior
  BY KickOutInvariant
<1>2. TypeOK'
  BY <1>1 DEF TypeOK, simulation, Ledgers
<1>3. TicksOrdered'
  BY <1>1 DEF TicksOrdered, simulation, PlayerTick
<1>4. ChecksumsAligned'
  BY DEF ChecksumsAligned, simulation
<1>5. OneVerdict'
  BY <1>1 DEF OneVerdict, simulation, Humans
<1>6. WinnerIsRewarded'
  BY DEF WinnerIsRewarded, simulation
<1>7. ActionsMatchContest' /\ BotsFollow'
  BY <1>1 DEF ActionsMatchContest, BotsFollow, simulation
<1>8. WellFormed(contest)' /\ KickedAreOut'
  BY <1>1 DEF WellFormed, KickedAreOut, simulation
<1> QED BY <1>1, <1>2, <1>3, <1>4, <1>5, <1>6, <1>7, <1>8

\* The handler of "ready" preserves the invariant.
LEMMA MarkAsReadyStep ==
  ASSUME IInv, NEW p \in Humans, MarkAsReady(p)
  PROVE  IInv'
<1>1. PICK players \in SUBSET (active \cap Humans) : KickOut(players)
  BY DesynchronizedAreActive DEF MarkAsReady
<1>2. ready' \subseteq Humans /\ patience' \in [Humans -> Nat]
  BY ServiceAssumption DEF MarkAsReady, IInv, TypeOK
<1>3. UNCHANGED <<simulation, reward>>
  BY DEF MarkAsReady
<1> QED BY <1>1, <1>2, <1>3, KickOutStep

\* So does push_update when it kicks the sender out for its checksum.
LEMMA KickForChecksumStep ==
  ASSUME IInv, NEW p \in Humans, NEW m, KickForChecksum(p, m)
  PROVE  IInv'
<1>1. {p} \in SUBSET (active \cap Humans) /\ KickOut({p})
  BY DEF KickForChecksum, Discarded
<1>2. ready' \subseteq Humans /\ patience' \in [Humans -> Nat]
  BY DEF KickForChecksum, IInv, TypeOK
<1>3. UNCHANGED <<simulation, reward>>
  BY DEF KickForChecksum
<1> QED BY <1>1, <1>2, <1>3, KickOutStep

\* So does the passing of time.
LEMMA TickStep ==
  ASSUME IInv, Tick
  PROVE  IInv'
<1> USE DEF IInv
<1>1. patience' \in [Humans -> Nat]
  BY SMTT(30) DEF Tick, TypeOK
<1>2. TypeOK'
  BY <1>1 DEF Tick, TypeOK, simulation
<1>3. TicksOrdered'
  BY DEF Tick, TicksOrdered, simulation, PlayerTick
<1>4. ChecksumsAligned'
  BY DEF Tick, ChecksumsAligned, simulation
<1>5. DisconnectionReportedOnce' /\ OneVerdict' /\ WinnerIsRewarded'
  BY DEF Tick, DisconnectionReportedOnce, OneVerdict, WinnerIsRewarded,
         simulation
<1>6. ActionsMatchContest' /\ BotsFollow'
  BY DEF Tick, ActionsMatchContest, BotsFollow, simulation
<1>7. WellFormed(contest)' /\ KickedAreOut'
  BY DEF Tick, WellFormed, KickedAreOut, simulation
<1> QED BY <1>2, <1>3, <1>4, <1>5, <1>6, <1>7

\* So does a message which is ignored.
LEMMA StutterStep ==
  ASSUME IInv, UNCHANGED vars
  PROVE  IInv'
<1> USE DEF IInv, vars, simulation
<1>1. TypeOK'
  BY DEF TypeOK
<1>2. TicksOrdered'
  BY DEF TicksOrdered, PlayerTick
<1>3. ChecksumsAligned'
  BY DEF ChecksumsAligned
<1>4. DisconnectionReportedOnce' /\ OneVerdict' /\ WinnerIsRewarded'
  BY DEF DisconnectionReportedOnce, OneVerdict, WinnerIsRewarded
<1>5. ActionsMatchContest' /\ BotsFollow'
  BY DEF ActionsMatchContest, BotsFollow
<1>6. WellFormed(contest)' /\ KickedAreOut'
  BY DEF WellFormed, KickedAreOut
<1> QED BY <1>1, <1>2, <1>3, <1>4, <1>5, <1>6

\* What queue_actions does to the actions and to the confirmation of the
\* sender.
LEMMA QueueActions ==
  ASSUME IInv, NEW p \in Humans, NEW m \in ClientUpdate, ~Discarded(p, m)
  PROVE  /\ Lengthens(QueuedActions(p, m))
         /\ ConfirmedTicks(p, m) \in [Players -> Nat]
         /\ \A q \in active : /\ completedAll <= ConfirmedTicks(p, m)[q]
                             /\ ConfirmedTicks(p, m)[q] <= simulationTick
<1>1. /\ actions \in [Players -> Seq(Action)]
      /\ completed \in [Players -> Nat]
      /\ completedAll \in Nat /\ simulationTick \in Nat
      /\ p \in Players /\ active \subseteq Players
  BY DEF IInv, TypeOK, Humans
<1>2. \A q \in Players : Len(actions[q]) \in Nat
  BY <1>1, LenProperties
<1>3. CASE ~BringsActions(p, m)
  <2>1. QueuedActions(p, m) = actions /\ ConfirmedTicks(p, m) = completed
    BY <1>3 DEF QueuedActions, ConfirmedTicks
  <2> QED BY <1>1, <1>2, <2>1 DEF IInv, TicksOrdered, Lengthens
<1>4. CASE BringsActions(p, m)
  <2> DEFINE fresh == SubSeq(m.actions, PlayerTick(p) - m.from + 1,
                             Len(m.actions))
  <2>1. /\ m.from \in Nat /\ m.actions \in Seq(Action)
        /\ Len(m.actions) \in Nat /\ PlayerTick(p) \in Nat
        /\ PlayerTick(p) - m.from + 1 \in Nat \ {0}
    BY <1>1, <1>2, <1>4, LenProperties
       DEF ClientUpdate, PlayerTick, BringsActions
  <2>2. fresh \in Seq(Action) /\ Len(fresh) \in Nat
    BY <2>1, SubSeqType, LenProperties, SMTT(30)
  <2>3. QueuedActions(p, m) = [actions EXCEPT ![p] = @ \o fresh]
    BY <1>4 DEF QueuedActions
  <2> HIDE DEF fresh
  <2>4. /\ actions[p] \o fresh \in Seq(Action)
        /\ Len(actions[p] \o fresh) = Len(actions[p]) + Len(fresh)
        /\ \A i \in 1..Len(actions[p]) : (actions[p] \o fresh)[i] = actions[p][i]
    BY <1>1, <2>2, ConcatProperties
  <2>5. QueuedActions(p, m) \in [Players -> Seq(Action)]
    BY <1>1, <2>3, <2>4
  <2>6. ASSUME NEW q \in Players
        PROVE  /\ Len(actions[q]) <= Len(QueuedActions(p, m)[q])
               /\ \A i \in 1..Len(actions[q]) :
                    QueuedActions(p, m)[q][i] = actions[q][i]
    <3>1. CASE q = p
      BY <1>1, <1>2, <2>2, <2>3, <2>4, <3>1
    <3>2. CASE q # p
      BY <1>1, <1>2, <2>3, <3>2
    <3> QED BY <3>1, <3>2
  <2>7. /\ ConfirmedTicks(p, m) = [completed EXCEPT ![p] = m.from]
        /\ completed[p] <= m.from /\ m.from <= simulationTick
        /\ p \in active
    BY <1>1, <1>4, <2>1 DEF ConfirmedTicks, Discarded
  <2>8. ASSUME NEW q \in active
        PROVE  /\ completedAll <= ConfirmedTicks(p, m)[q]
               /\ ConfirmedTicks(p, m)[q] <= simulationTick
    <3>1. /\ completedAll <= completed[q] /\ completed[q] <= simulationTick
          /\ q \in Players
      BY <1>1 DEF IInv, TicksOrdered
    <3>2. CASE q = p
      BY <1>1, <2>1, <2>7, <3>1, <3>2
    <3>3. CASE q # p
      BY <1>1, <2>7, <3>1, <3>3
    <3> QED BY <3>2, <3>3
  <2>9. \A q \in Bots : QueuedActions(p, m)[q] = actions[q]
    BY <1>1, <2>3, ServiceAssumption DEF Humans
  <2>10. Lengthens(QueuedActions(p, m))
    BY <2>5, <2>6, <2>9 DEF Lengthens
  <2> QED BY <1>1, <2>1, <2>7, <2>8, <2>10
<1> QED BY <1>3, <1>4

\* What follows game::update.
LEMMA ConcludeInvariant ==
  ASSUME IInv, NEW n, Conclude(n),
         result' \in Players \cup {Running, Draw},
         result # Running \/ n = 0 => result' = result,
         result = Running /\ result' \in Players => result' \in active
  PROVE  /\ active' \subseteq active
         /\ karma' \in Ledgers
         /\ reward' \in [Players -> {"unset", "none", "draw", "victory",
                                    "defeat"}]
         /\ DisconnectionReportedOnce'
         /\ OneVerdict'
         /\ WinnerIsRewarded'
<1> USE DEF IInv
<1>1. /\ active \subseteq Players /\ karma \in Ledgers
      /\ reward \in [Players -> {"unset", "none", "draw", "victory", "defeat"}]
      /\ Humans \subseteq Players
  BY DEF TypeOK, Ledgers, Humans
<1>2. CASE /\ result = Running /\ n = 0
           /\ KickOut(Desynchronized(patience',
                        [q \in Players |-> completedAll' + Len(actions'[q])]))
           /\ UNCHANGED reward
  <2>1. PICK players \in SUBSET (active \cap Humans) : KickOut(players)
    BY <1>2, DesynchronizedAreActive
  <2>2. /\ active' \subseteq active
        /\ karma' \in Ledgers
        /\ DisconnectionReportedOnce'
        /\ \A p \in Players : /\ karma'[p].shortGame = karma[p].shortGame
                             /\ karma'[p].goodBehavior = karma[p].goodBehavior
    BY <2>1, KickOutInvariant
  <2>3. result' = Running
    BY <1>2
  <2>4. OneVerdict'
    BY <1>1, <1>2, <2>2, <2>3 DEF OneVerdict
  <2>5. WinnerIsRewarded'
    BY <2>3, ContestAssumption DEF WinnerIsRewarded
  <2> QED BY <1>1, <1>2, <2>2, <2>4, <2>5
<1>3. CASE /\ result = Running /\ result' # Running
           /\ reward' = Rewards(result')
           /\ karma' = Verdicts(result', gameOverTick')
           /\ UNCHANGED active
  <2>1. /\ karma' \in Ledgers
        /\ \A p \in Players :
             /\ karma'[p].disconnection = karma[p].disconnection
             /\ karma'[p].shortGame + karma'[p].goodBehavior
                  <= karma[p].shortGame + karma[p].goodBehavior + 1
    <3>1. CASE gameOverTick' < ShortGame
      <4>1. karma' = [p \in Players |->
                 [disconnection |-> karma[p].disconnection,
                  shortGame |-> karma[p].shortGame
                    + (IF p \in Humans \ {result'} THEN 1 ELSE 0),
                  goodBehavior |-> karma[p].goodBehavior]]
        BY <1>1, <1>3, <3>1, ReportCounts DEF Verdicts
      <4> QED BY <1>1, <4>1 DEF Ledgers
    <3>2. CASE ~(gameOverTick' < ShortGame)
      <4>1. karma' = [p \in Players |->
                 [disconnection |-> karma[p].disconnection,
                  shortGame |-> karma[p].shortGame,
                  goodBehavior |-> karma[p].goodBehavior
                    + (IF p \in active \cap Humans THEN 1 ELSE 0)]]
        BY <1>1, <1>3, <3>2, ReportCounts DEF Verdicts
      <4> QED BY <1>1, <4>1 DEF Ledgers
    <3> QED BY <3>1, <3>2
  <2>2. DisconnectionReportedOnce'
    BY <1>1, <1>3, <2>1 DEF DisconnectionReportedOnce
  <2>3. OneVerdict'
    <3> SUFFICES ASSUME NEW p \in Humans
                 PROVE  karma'[p].shortGame + karma'[p].goodBehavior <= 1
      BY <1>3 DEF OneVerdict
    <3>1. karma[p].shortGame + karma[p].goodBehavior <= 0
      BY <1>3 DEF OneVerdict
    <3>2. /\ karma[p].shortGame \in Nat /\ karma[p].goodBehavior \in Nat
          /\ karma'[p].shortGame \in Nat /\ karma'[p].goodBehavior \in Nat
          /\ p \in Players
      BY <1>1, <2>1 DEF Ledgers
    <3>3. karma'[p].shortGame + karma'[p].goodBehavior
            <= karma[p].shortGame + karma[p].goodBehavior + 1
      BY <2>1, <3>2
    <3> QED BY <3>1, <3>2, <3>3
  <2>4. reward' \in [Players -> {"unset", "none", "draw", "victory", "defeat"}]
    BY <1>3 DEF Rewards
  <2>5. WinnerIsRewarded'
    BY <1>3, ContestAssumption DEF WinnerIsRewarded, Rewards
  <2> QED BY <1>3, <2>1, <2>2, <2>3, <2>4, <2>5
<1>4. CASE /\ result # Running \/ (n > 0 /\ result' = Running)
           /\ UNCHANGED <<active, karma, reward>>
  <2>1. result' = result
    BY <1>4
  <2>2. DisconnectionReportedOnce' /\ OneVerdict' /\ WinnerIsRewarded'
    BY <1>4, <2>1 DEF DisconnectionReportedOnce, OneVerdict, WinnerIsRewarded
  <2> QED BY <1>1, <1>4, <2>2
<1> QED BY <1>2, <1>3, <1>4 DEF Conclude

\* What push_update does when the update is accepted: the actions are queued, n
\* ticks are played, and the actions of d ticks forgotten.
LEMMA AcceptUpdateEffect ==
  ASSUME IInv, NEW p \in Humans, NEW m \in ClientUpdate, AcceptUpdate(p, m)
  PROVE  \E n \in Nat, d \in Nat :
           /\ Update(QueuedActions(p, m), ConfirmedTicks(p, m), n, d)
           /\ Conclude(n)
           /\ \A q \in active :
                /\ completedAll + d <= ConfirmedTicks(p, m)[q]
                /\ ConfirmedTicks(p, m)[q] <= simulationTick
           /\ \A q \in active \cap Humans :
                /\ simulationTick + n
                     <= completedAll + Len(QueuedActions(p, m)[q])
                /\ Len(actions'[q]) = Len(QueuedActions(p, m)[q]) - d
           /\ simulationTick' = simulationTick + n
           /\ completedAll' = completedAll + d
           /\ completed' = ConfirmedTicks(p, m)
           /\ actions' \in [Players -> Seq(Action)]
           /\ contest' \in History
           /\ checksums' \in Seq(History)
           /\ result' \in Players \cup {Running, Draw}
           /\ gameOverTick' \in Nat
           /\ ChecksumsAligned'
           /\ result # Running \/ n = 0 => result' = result
           /\ result = Running /\ result' \in Players => result' \in active
<1> DEFINE queued == QueuedActions(p, m)
           confirmed == ConfirmedTicks(p, m)
           toSimulation == ToSimulation(queued)
           toAll == ToAll(confirmed)
<1>1. /\ ~Discarded(p, m)
      /\ patience' = [patience EXCEPT ![p] = InactivityDelay]
      /\ UNCHANGED ready
  BY DEF AcceptUpdate
<1>2. PICK n \in toSimulation, d \in toAll :
        /\ \A k \in toSimulation : n <= k
        /\ \A k \in toAll : d <= k
        /\ Update(queued, confirmed, n, d)
        /\ Conclude(n)
  BY DEF AcceptUpdate
<1>3. /\ Lengthens(queued) /\ queued \in [Players -> Seq(Action)]
      /\ confirmed \in [Players -> Nat]
      /\ \A q \in active : /\ completedAll <= confirmed[q]
                          /\ confirmed[q] <= simulationTick
  BY <1>1, QueueActions DEF Lengthens
<1>4. /\ completedAll \in Nat /\ simulationTick \in Nat
      /\ active \subseteq Players /\ ready \subseteq Humans
      /\ actions \in [Players -> Seq(Action)]
      /\ patience \in [Humans -> Nat]
      /\ p \in active
  BY <1>1 DEF IInv, TypeOK, Discarded
<1> HIDE DEF queued, confirmed
<1> USE DEF ToSimulation, ToAll
<1>5. /\ n \in Nat
      /\ \A q \in active \cap Humans :
           simulationTick + n <= completedAll + Len(queued[q])
  <2>1. ASSUME NEW q \in active \cap Humans
        PROVE  /\ Len(queued[q]) \in Nat
               /\ completedAll + Len(queued[q]) - simulationTick \in Nat
    <3>1. Len(queued[q]) \in Nat /\ Len(actions[q]) \in Nat
      BY <1>3, <1>4, LenProperties
    <3>2. simulationTick <= completedAll + Len(actions[q])
      BY DEF IInv, TicksOrdered, PlayerTick
    <3>3. Len(actions[q]) <= Len(queued[q])
      BY <1>3, <1>4 DEF Lengthens
    <3> QED BY <1>4, <3>1, <3>2, <3>3
  <2>2. n \in Nat
    BY <1>2, <2>1
  <2>3. ASSUME NEW q \in active \cap Humans
        PROVE  simulationTick + n <= completedAll + Len(queued[q])
    <3>1. n <= completedAll + Len(queued[q]) - simulationTick
      BY <1>2
    <3> QED BY <1>4, <2>1, <2>2, <3>1
  <2> QED BY <2>2, <2>3
<1>6. /\ d \in Nat
      /\ \A q \in active : /\ completedAll + d <= confirmed[q]
                          /\ confirmed[q] <= simulationTick
  <2>1. \A q \in active : confirmed[q] \in Nat
    BY <1>3, <1>4
  <2>2. d \in Nat
    BY <1>2, <1>3, <1>4, <2>1, SMTT(30)
  <2>3. ASSUME NEW q \in active
        PROVE  completedAll + d <= confirmed[q]
    <3>1. d <= confirmed[q] - completedAll
      BY <1>2
    <3> QED BY <1>4, <2>1, <2>2, <3>1
  <2> QED BY <1>3, <2>2, <2>3
<1>7. /\ simulationTick' = simulationTick + n
      /\ completedAll' = completedAll + d
      /\ completed' = confirmed
      /\ actions' \in [Players -> Seq(Action)]
      /\ \A q \in active \cap Humans : Len(actions'[q]) = Len(queued[q]) - d
      /\ contest' \in History
      /\ checksums' \in Seq(History)
      /\ result' \in Players \cup {Running, Draw}
      /\ gameOverTick' \in Nat
      /\ ChecksumsAligned'
      /\ result # Running \/ n = 0 => result' = result
      /\ result = Running /\ result' \in Players => result' \in active
  BY <1>2, <1>3, <1>4, <1>5, <1>6, UpdateInvariant
<1> QED BY <1>2, <1>5, <1>6, <1>7 DEF queued, confirmed

\* push_update preserves the invariant when the update is accepted: the
\* actions are queued, the ticks played, and the result recorded.
LEMMA AcceptUpdateStep ==
  ASSUME IInv, NEW p \in Humans, NEW m \in ClientUpdate, AcceptUpdate(p, m)
  PROVE  IInv'
<1> DEFINE queued == QueuedActions(p, m)
           confirmed == ConfirmedTicks(p, m)
<1>1. /\ ~Discarded(p, m)
      /\ patience' = [patience EXCEPT ![p] = InactivityDelay]
      /\ UNCHANGED ready
  BY DEF AcceptUpdate
<1>2. PICK n \in Nat, d \in Nat :
        /\ Update(queued, confirmed, n, d)
        /\ Conclude(n)
        /\ \A q \in active : /\ completedAll + d <= confirmed[q]
                            /\ confirmed[q] <= simulationTick
        /\ \A q \in active \cap Humans :
             /\ simulationTick + n <= completedAll + Len(queued[q])
             /\ Len(actions'[q]) = Len(queued[q]) - d
        /\ simulationTick' = simulationTick + n
        /\ completedAll' = completedAll + d
        /\ completed' = confirmed
        /\ actions' \in [Players -> Seq(Action)]
        /\ contest' \in History
        /\ checksums' \in Seq(History)
        /\ result' \in Players \cup {Running, Draw}
        /\ gameOverTick' \in Nat
        /\ ChecksumsAligned'
        /\ result # Running \/ n = 0 => result' = result
        /\ result = Running /\ result' \in Players => result' \in active
  BY AcceptUpdateEffect
<1>3. /\ Lengthens(queued) /\ queued \in [Players -> Seq(Action)]
      /\ confirmed \in [Players -> Nat]
      /\ \A q \in active : /\ completedAll <= confirmed[q]
                          /\ confirmed[q] <= simulationTick
  BY <1>1, QueueActions DEF Lengthens
<1>4. /\ completedAll \in Nat /\ simulationTick \in Nat
      /\ active \subseteq Players /\ ready \subseteq Humans
      /\ actions \in [Players -> Seq(Action)]
      /\ patience \in [Humans -> Nat]
      /\ p \in active
  BY <1>1 DEF IInv, TypeOK, Discarded
<1> HIDE DEF queued, confirmed
<1>5. /\ n \in Nat
      /\ \A q \in active \cap Humans :
           simulationTick + n <= completedAll + Len(queued[q])
  BY <1>2
<1>6. /\ d \in Nat
      /\ \A q \in active : /\ completedAll + d <= confirmed[q]
                          /\ confirmed[q] <= simulationTick
  BY <1>2
<1>7. /\ simulationTick' = simulationTick + n
      /\ completedAll' = completedAll + d
      /\ completed' = confirmed
      /\ actions' \in [Players -> Seq(Action)]
      /\ \A q \in active \cap Humans : Len(actions'[q]) = Len(queued[q]) - d
      /\ contest' \in History
      /\ checksums' \in Seq(History)
      /\ result' \in Players \cup {Running, Draw}
      /\ gameOverTick' \in Nat
      /\ ChecksumsAligned'
      /\ result # Running \/ n = 0 => result' = result
      /\ result = Running /\ result' \in Players => result' \in active
  BY <1>2
<1>8. /\ active' \subseteq active
      /\ karma' \in Ledgers
      /\ reward' \in [Players -> {"unset", "none", "draw", "victory", "defeat"}]
      /\ DisconnectionReportedOnce' /\ OneVerdict' /\ WinnerIsRewarded'
  <2>1. result = Running /\ result' \in Players => result' \in active'
    BY <1>2, <1>7, ContestAssumption DEF Conclude
  <2> QED BY <1>2, <1>7, <2>1, ConcludeInvariant
<1>9. TypeOK'
  <2>1. patience' \in [Humans -> Nat]
    BY <1>1, <1>4, ServiceAssumption
  <2>2. simulationTick' \in Nat /\ completedAll' \in Nat
    <3>1. simulationTick' = simulationTick + n /\ completedAll' = completedAll + d
      BY <1>7
    <3> QED BY <1>4, <1>5, <1>6, <3>1
  <2>3. ready' \subseteq Humans /\ active' \subseteq Players
    BY <1>1, <1>4, <1>8
  <2>4. completed' \in [Players -> Nat]
    BY <1>3, <1>7
  <2> QED BY <1>7, <1>8, <2>1, <2>2, <2>3, <2>4 DEF TypeOK, Ledgers
<1>10. TicksOrdered'
  <2> SUFFICES ASSUME NEW q \in active'
               PROVE  /\ completedAll' <= completed'[q]
                      /\ completed'[q] <= simulationTick'
                      /\ q \in Humans =>
                           simulationTick' <= completedAll' + Len(actions'[q])
    BY DEF TicksOrdered, PlayerTick
  <2>1. q \in active
    BY <1>8
  <2>2. confirmed[q] \in Nat
    BY <1>3, <1>4, <2>1
  <2>3. completedAll' <= completed'[q] /\ completed'[q] <= simulationTick'
    <3>1. /\ simulationTick' = simulationTick + n
          /\ completedAll' = completedAll + d
          /\ completed' = confirmed
      BY <1>7
    <3>2. completedAll + d <= confirmed[q] /\ confirmed[q] <= simulationTick
      BY <1>6, <2>1
    <3> QED BY <1>4, <1>5, <2>2, <3>1, <3>2
  <2>4. ASSUME q \in Humans
        PROVE  simulationTick' <= completedAll' + Len(actions'[q])
    <3>1. /\ Len(actions'[q]) = Len(queued[q]) - d
          /\ simulationTick + n <= completedAll + Len(queued[q])
          /\ Len(queued[q]) \in Nat
      BY <1>3, <1>4, <1>5, <1>7, <2>1, <2>4, LenProperties
    <3>2. simulationTick' = simulationTick + n /\ completedAll' = completedAll + d
      BY <1>7
    <3>3. n \in Nat /\ d \in Nat
      BY <1>5, <1>6
    <3>4. simulationTick + n <= (completedAll + d) + (Len(queued[q]) - d)
      <4>1. \A a, b, c, e \in Nat : a <= b + c => a <= (b + e) + (c - e)
        OBVIOUS
      <4>2. simulationTick + n \in Nat
        BY <1>4, <3>3
      <4> QED BY <1>4, <3>1, <3>3, <4>1, <4>2
    <3> QED BY <3>1, <3>2, <3>4
  <2> QED BY <2>3, <2>4
<1>11. ActionsMatchContest' /\ BotsFollow'
  <2>1. d <= simulationTick - completedAll
    <3>1. completedAll + d <= simulationTick
      BY <1>3, <1>4, <1>6
    <3> QED BY <1>4, <1>6, <3>1
  <2>2. /\ ActionsMatchContest'
        /\ \A q \in active \cap Bots :
             simulationTick' <= DeathTick[q] + 1
               => completedAll' + Len(actions'[q]) = simulationTick'
    BY <1>2, <1>3, <1>4, <1>5, <1>6, <2>1, UpdateKeepsActions
  <2> QED BY <1>8, <2>2 DEF BotsFollow
<1>12. WellFormed(contest)' /\ KickedAreOut'
  <2>1. /\ WellFormed(contest')
        /\ \A t \in 1..Len(contest'), q \in Players :
             contest'[t][q] = Kicked => q \notin active
    BY <1>2, <1>3, <1>4, <1>5, UpdateEntries
  <2> QED BY <1>8, <2>1 DEF WellFormed, KickedAreOut
<1> QED BY <1>7, <1>8, <1>9, <1>10, <1>11, <1>12 DEF IInv

\* The invariant is inductive.
LEMMA NextInvariant == IInv /\ [Next]_vars => IInv'
<1> SUFFICES ASSUME IInv, [Next]_vars PROVE IInv'
  OBVIOUS
<1>1. CASE UNCHANGED vars
  BY <1>1, StutterStep
<1>2. CASE Tick
  BY <1>2, TickStep
<1>3. ASSUME NEW p \in Humans, IgnoreReady(p) \/ MarkAsReady(p)
      PROVE  IInv'
  BY <1>3, StutterStep, MarkAsReadyStep DEF IgnoreReady
<1>4. ASSUME NEW p \in Humans, NEW m \in Updates, PushUpdate(p, m)
      PROVE  IInv'
  <2>1. m \in ClientUpdate
    BY ServiceAssumption
  <2>2. CASE IgnoreUpdate(p, m)
    BY <2>2, StutterStep DEF IgnoreUpdate
  <2>3. CASE KickForChecksum(p, m)
    BY <2>3, KickForChecksumStep
  <2>4. CASE AcceptUpdate(p, m)
    BY <2>1, <2>4, AcceptUpdateStep
  <2> QED BY <1>4, <2>2, <2>3, <2>4 DEF PushUpdate
<1> QED BY <1>1, <1>2, <1>3, <1>4 DEF Next

-----------------------------------------------------------------------------
(* What an accepted update changes for those who talk to the server: see   *)
(* OnlineGameProofs.                                                       *)

\* The actions acts are named by their ticks, from the tick from.
NamedByTick(acts, from) == \A i \in 1..Len(acts) : acts[i] = from + i - 1

\* queue_actions touches the sender alone, and puts an action at its tick.
LEMMA QueuedInTheirTick ==
  ASSUME IInv, NEW p \in Humans, NEW m \in ClientUpdate, ~Discarded(p, m)
  PROVE  /\ \A q \in Players \ {p} :
              /\ QueuedActions(p, m)[q] = actions[q]
              /\ ConfirmedTicks(p, m)[q] = completed[q]
         /\ ConfirmedTicks(p, m)[p] \in {completed[p], m.from}
         /\ \/ QueuedActions(p, m)[p] = actions[p]
            \/ completedAll + Len(QueuedActions(p, m)[p])
                 = m.from + Len(m.actions)
         /\ NamedByTick(actions[p], completedAll) /\ NamedByTick(m.actions, m.from)
              => NamedByTick(QueuedActions(p, m)[p], completedAll)
<1>1. /\ actions \in [Players -> Seq(Action)]
      /\ completed \in [Players -> Nat]
      /\ completedAll \in Nat /\ p \in Players
      /\ m.from \in Nat /\ m.actions \in Seq(Action)
  BY DEF IInv, TypeOK, Humans, ClientUpdate
<1>2. Len(actions[p]) \in Nat /\ Len(m.actions) \in Nat
  BY <1>1, LenProperties
<1>3. CASE ~BringsActions(p, m)
  <2>1. QueuedActions(p, m) = actions /\ ConfirmedTicks(p, m) = completed
    BY <1>3 DEF QueuedActions, ConfirmedTicks
  <2> QED BY <2>1
<1>4. CASE BringsActions(p, m)
  <2> DEFINE known == actions[p]
             news == m.actions
             first == PlayerTick(p) - m.from + 1
             fresh == SubSeq(news, first, Len(news))
  <2>1. /\ first \in Nat \ {0} /\ first <= Len(news)
        /\ known \in Seq(Action) /\ news \in Seq(Action)
        /\ Len(known) \in Nat /\ Len(news) \in Nat
    <3>1. /\ known \in Seq(Action) /\ news \in Seq(Action)
          /\ Len(known) \in Nat /\ Len(news) \in Nat
          /\ m.from + Len(news) > completedAll + Len(known)
          /\ m.from <= completedAll + Len(known)
      BY <1>1, <1>2, <1>4 DEF BringsActions, PlayerTick
    <3>2. \A a, b, c, e \in Nat :
            a + b > c + e /\ a <= c + e =>
              (c + e) - a + 1 \in Nat \ {0} /\ (c + e) - a + 1 <= b
      OBVIOUS
    <3>3. first = (completedAll + Len(known)) - m.from + 1
      BY DEF PlayerTick
    <3> HIDE DEF known, news, first
    <3> QED BY <1>1, <3>1, <3>2, <3>3
  <2>2. /\ QueuedActions(p, m) = [actions EXCEPT ![p] = known \o fresh]
        /\ ConfirmedTicks(p, m) = [completed EXCEPT ![p] = m.from]
    BY <1>4 DEF QueuedActions, ConfirmedTicks
  <2>3. /\ fresh \in Seq(Action)
        /\ Len(fresh) = Len(news) - first + 1
        /\ \A i \in 1..Len(news) - first + 1 : fresh[i] = news[first + i - 1]
    <3> HIDE DEF first, news
    <3>1. Len(news) \in Int /\ Len(news) <= Len(news)
      BY <2>1
    <3> QED BY <2>1, <3>1, SubSeqType
  <2>4. QueuedActions(p, m)[p] = known \o fresh
    BY <1>1, <2>2
  <2>5. first = (completedAll + Len(known)) - m.from + 1
    BY DEF PlayerTick
  <2> HIDE DEF known, news, first, fresh
  <2>6. /\ Len(known \o fresh) = Len(known) + Len(fresh)
        /\ \A i \in 1..Len(known) + Len(fresh) :
             (known \o fresh)[i] = IF i <= Len(known) THEN known[i]
                                   ELSE fresh[i - Len(known)]
    BY <2>1, <2>3, ConcatProperties
  <2>7. completedAll + Len(known \o fresh) = m.from + Len(news)
    <3>2. Len(known \o fresh) = Len(known) + (Len(news) - first + 1)
      BY <2>3, <2>6
    <3>3. completedAll + (Len(known) + (Len(news) - first + 1))
            = m.from + Len(news)
      <4>1. /\ m.from \in Int /\ completedAll \in Int /\ Len(known) \in Int
            /\ Len(news) \in Int /\ first \in Int
        BY <1>1, <2>1
      <4> DEFINE a == m.from
                 b == Len(news)
                 e == Len(known)
      <4>2. /\ a \in Int /\ b \in Int /\ completedAll \in Int /\ e \in Int
            /\ first \in Int /\ first = (completedAll + e) - a + 1
        BY <2>5, <4>1
      <4> HIDE DEF a, b, e
      <4>3. completedAll + (e + (b - first + 1)) = a + b
        BY <4>2
      <4> QED BY <4>3 DEF a, b, e
    <3> QED BY <3>2, <3>3
  <2>8. ASSUME NamedByTick(known, completedAll), NamedByTick(news, m.from)
        PROVE  NamedByTick(known \o fresh, completedAll)
    <3> SUFFICES ASSUME NEW i \in 1..Len(known) + Len(fresh)
                 PROVE  (known \o fresh)[i] = completedAll + i - 1
      BY <2>6 DEF NamedByTick
    <3>1. CASE i <= Len(known)
      BY <2>1, <2>6, <2>8, <3>1 DEF NamedByTick
    <3>2. CASE ~(i <= Len(known))
      <4> DEFINE j == i - Len(known)
                 k == first + j - 1
      <4>1. /\ j \in 1..Len(news) - first + 1 /\ k \in 1..Len(news)
            /\ m.from + k - 1 = completedAll + i - 1
        <5>1. /\ i \in Nat /\ i <= Len(known) + (Len(news) - first + 1)
              /\ ~(i <= Len(known))
          BY <2>1, <2>3, <3>2
        <5>2. j \in 1..Len(news) - first + 1 /\ first + j - 1 \in 1..Len(news)
          BY <2>1, <5>1
        <5>3. /\ m.from \in Int /\ completedAll \in Int /\ Len(known) \in Int
              /\ first \in Int /\ i \in Int
          BY <1>1, <2>1, <5>1
        <5> DEFINE a == m.from
                   e == Len(known)
        <5>4. /\ a \in Int /\ completedAll \in Int /\ e \in Int /\ i \in Int
              /\ first \in Int /\ first = (completedAll + e) - a + 1
          BY <2>5, <5>3
        <5> HIDE DEF a, e
        <5>6. a + (first + (i - e) - 1) - 1 = completedAll + i - 1
          BY <5>4
        <5>5. m.from + (first + (i - Len(known)) - 1) - 1 = completedAll + i - 1
          BY <5>6 DEF a, e
        <5> QED BY <5>2, <5>5
      <4>2. (known \o fresh)[i] = fresh[j]
        BY <2>6, <3>2
      <4>3. fresh[j] = news[k]
        BY <2>3, <4>1
      <4> HIDE DEF j, k
      <4>4. news[k] = m.from + k - 1
        BY <2>8, <4>1 DEF NamedByTick
      <4> QED BY <4>1, <4>2, <4>3, <4>4
    <3> QED BY <3>1, <3>2
  <2> QED BY <1>1, <2>2, <2>4, <2>7, <2>8 DEF known, news
<1> QED BY <1>3, <1>4

\* Kicked out or not, the sender has its confirmation and its actions in the
\* server, and the server has them for what it has played; a result is final.
LEMMA UpdateForClients ==
  ASSUME IInv, NEW p \in Humans, NEW m \in ClientUpdate, AcceptUpdate(p, m)
  PROVE  /\ p \in active /\ m.from <= simulationTick
         /\ active' \subseteq active
         /\ simulationTick <= simulationTick'
         /\ Len(contest') = simulationTick'
         /\ \A i \in 1..simulationTick : contest'[i] = contest[i]
         /\ \A q \in Players \ {p} : completed'[q] = completed[q]
         /\ completed'[p] \in {completed[p], m.from}
         /\ \A q \in active \cap Humans :
              /\ completedAll' <= completed'[q]
              /\ completed'[q] <= simulationTick'
              /\ simulationTick' <= completedAll' + Len(actions'[q])
         /\ \A q \in (active \cap Humans) \ {p} :
              completedAll' + Len(actions'[q]) = completedAll + Len(actions[q])
         /\ completedAll' + Len(actions'[p])
              \in {completedAll + Len(actions[p]), m.from + Len(m.actions)}
         /\ result # Running \/ simulationTick' = simulationTick
              => result' = result
         /\ result # Running => gameOverTick' = gameOverTick
<1> DEFINE queued == QueuedActions(p, m)
           confirmed == ConfirmedTicks(p, m)
<1>1. ~Discarded(p, m) /\ p \in active /\ m.from <= simulationTick
  BY DEF AcceptUpdate, Discarded, IInv, TypeOK, ClientUpdate
<1>2. PICK n \in Nat, d \in Nat :
        /\ Update(queued, confirmed, n, d)
        /\ Conclude(n)
        /\ \A q \in active : /\ completedAll + d <= confirmed[q]
                            /\ confirmed[q] <= simulationTick
        /\ \A q \in active \cap Humans :
             /\ simulationTick + n <= completedAll + Len(queued[q])
             /\ Len(actions'[q]) = Len(queued[q]) - d
        /\ simulationTick' = simulationTick + n
        /\ completedAll' = completedAll + d
        /\ completed' = confirmed
        /\ ChecksumsAligned'
        /\ result # Running \/ n = 0 => result' = result
  BY AcceptUpdateEffect
<1>3. /\ Lengthens(queued) /\ queued \in [Players -> Seq(Action)]
      /\ confirmed \in [Players -> Nat]
  BY <1>1, QueueActions DEF Lengthens
<1>4. /\ \A q \in Players \ {p} : /\ queued[q] = actions[q]
                               /\ confirmed[q] = completed[q]
      /\ confirmed[p] \in {completed[p], m.from}
      /\ \/ queued[p] = actions[p]
         \/ completedAll + Len(queued[p]) = m.from + Len(m.actions)
  BY <1>1, QueuedInTheirTick
<1>5. /\ simulationTick \in Nat /\ completedAll \in Nat
      /\ actions \in [Players -> Seq(Action)] /\ p \in Players
      /\ active \subseteq Players
  BY DEF IInv, TypeOK, Humans
<1> HIDE DEF queued, confirmed
<1>6. \A q \in Players : Len(queued[q]) \in Nat /\ confirmed[q] \in Nat
  BY <1>3, LenProperties
<1>7. active' \subseteq active
  BY <1>2 DEF Conclude, KickOut
<1>8. \A i \in 1..simulationTick : contest'[i] = contest[i]
  BY <1>1, <1>2, <1>3, UpdateEntries
<1>9. ASSUME NEW q \in active \cap Humans
      PROVE  /\ completedAll' <= completed'[q]
             /\ completed'[q] <= simulationTick'
             /\ completedAll' + Len(actions'[q]) = completedAll + Len(queued[q])
             /\ simulationTick' <= completedAll' + Len(actions'[q])
  <2>1. /\ Len(actions'[q]) = Len(queued[q]) - d
        /\ simulationTick + n <= completedAll + Len(queued[q])
        /\ completedAll + d <= confirmed[q] /\ confirmed[q] <= simulationTick
        /\ completedAll' = completedAll + d /\ completed' = confirmed
        /\ simulationTick' = simulationTick + n
    BY <1>2
  <2>2. Len(queued[q]) \in Nat /\ confirmed[q] \in Nat
    BY <1>5, <1>6
  <2>3. completedAll' + Len(actions'[q]) = completedAll + Len(queued[q])
    <3>1. \A a, b, c \in Nat : (a + b) + (c - b) = a + c
      OBVIOUS
    <3>2. (completedAll + d) + (Len(queued[q]) - d)
            = completedAll + Len(queued[q])
      BY <1>5, <2>2, <3>1, ZenonT(60)
    <3> QED BY <2>1, <3>2
  <2>4. simulationTick' <= completedAll' + Len(actions'[q])
    BY <2>1, <2>3
  <2>5. confirmed[q] <= simulationTick + n
    BY <1>5, <2>1, <2>2
  <2> QED BY <2>1, <2>3, <2>4, <2>5
<1>10. simulationTick' = simulationTick => n = 0
  BY <1>2, <1>5
<1>11. result # Running => gameOverTick' = gameOverTick
  BY <1>2 DEF Update, ConcludeContest
<1>12. Len(contest') = simulationTick' /\ simulationTick <= simulationTick'
  BY <1>2, <1>5 DEF ChecksumsAligned
<1>13. \A q \in (active \cap Humans) \ {p} :
         completedAll' + Len(actions'[q]) = completedAll + Len(actions[q])
  BY <1>4, <1>5, <1>9
<1>14. completedAll' + Len(actions'[p])
         \in {completedAll + Len(actions[p]), m.from + Len(m.actions)}
  BY <1>1, <1>4, <1>9
<1> QED BY <1>1, <1>2, <1>4, <1>7, <1>8, <1>9, <1>10, <1>11, <1>12, <1>13, <1>14

\* What is applied in a tick is what has been done at this tick, as long as the
\* messages say so.
LEMMA UpdateInTheirTick ==
  ASSUME IInv, NEW p \in Humans, NEW m \in ClientUpdate, AcceptUpdate(p, m),
         NamedByTick(m.actions, m.from),
         \A q \in active \cap Humans : NamedByTick(actions[q], completedAll)
  PROVE  /\ \A q \in active \cap Humans : NamedByTick(actions'[q], completedAll')
         /\ \A t \in simulationTick + 1..simulationTick', q \in Players :
              contest'[t][q] \in Action => contest'[t][q] = t - 1
<1> DEFINE queued == QueuedActions(p, m)
           confirmed == ConfirmedTicks(p, m)
           base == simulationTick - completedAll
<1>1. ~Discarded(p, m) /\ p \in active
  BY DEF AcceptUpdate, Discarded
<1>2. PICK n \in Nat, d \in Nat :
        /\ Update(queued, confirmed, n, d)
        /\ \A q \in active : /\ completedAll + d <= confirmed[q]
                            /\ confirmed[q] <= simulationTick
        /\ \A q \in active \cap Humans :
             /\ simulationTick + n <= completedAll + Len(queued[q])
             /\ Len(actions'[q]) = Len(queued[q]) - d
        /\ simulationTick' = simulationTick + n
        /\ completedAll' = completedAll + d
  BY AcceptUpdateEffect
<1>3. /\ Lengthens(queued) /\ queued \in [Players -> Seq(Action)]
      /\ confirmed \in [Players -> Nat]
  BY <1>1, QueueActions DEF Lengthens
<1>4. /\ simulationTick \in Nat /\ completedAll \in Nat
      /\ active \subseteq Players /\ p \in Players
  BY DEF IInv, TypeOK, Humans
<1>5. ASSUME NEW q \in active \cap Humans
      PROVE  NamedByTick(queued[q], completedAll)
  <2>1. CASE q = p
    BY <1>1, <2>1, QueuedInTheirTick
  <2>2. CASE q # p
    <3>1. queued[q] = actions[q]
      BY <1>1, <1>4, <2>2, QueuedInTheirTick
    <3> HIDE DEF queued
    <3> QED BY <3>1
  <2> QED BY <2>1, <2>2
<1>6. \A q \in Players : queued[q] \in Seq(Action) /\ Len(queued[q]) \in Nat
  BY <1>3, LenProperties
<1> HIDE DEF queued, confirmed
<1> DEFINE sealed == SealedActions(n, queued)
           kept == WithThoughts(n, queued)
<1>7. /\ \A q \in active \cap Humans : kept[q] = queued[q]
      /\ \A q \in active \cap Bots : sealed[q] = Thoughts(q, n)
      /\ \A q \in Players : q \notin active => sealed[q] = <<>>
  BY <1>4 DEF WithThoughts, SealedActions, Humans
<1>8. /\ \A q \in Players : \A i \in 1..Len(sealed[q]) :
           /\ base + i \in 1..Len(kept[q])
           /\ kept[q][base + i] = sealed[q][i]
  BY <1>1, <1>2, <1>3, SealedType
<1>9. /\ \A i \in 1..n, q \in Players :
           contest'[simulationTick + i][q] \in Action =>
             /\ i \in 1..Len(sealed[q])
             /\ contest'[simulationTick + i][q] = sealed[q][i]
  BY <1>1, <1>2, <1>3, UpdateEntries
<1>10. \A q \in active \cap Humans : actions'[q] = Without(queued[q], d)
  BY <1>2, <1>4, <1>7 DEF Update
<1> HIDE DEF sealed, kept, base
<1>11. ASSUME NEW q \in active \cap Humans
       PROVE  NamedByTick(actions'[q], completedAll')
  <2> DEFINE s == queued[q]
             count == Len(s)
  <2>1. /\ s \in Seq(Action) /\ count \in Nat /\ d <= count
        /\ NamedByTick(s, completedAll)
        /\ actions'[q] = Without(s, d) /\ Len(actions'[q]) = count - d
    <3>1. /\ completedAll + d <= confirmed[q] /\ confirmed[q] <= simulationTick
          /\ simulationTick + n <= completedAll + count
          /\ confirmed[q] \in Nat /\ count \in Nat
      BY <1>2, <1>3, <1>4, <1>6
    <3>2. d <= count
      <4> HIDE DEF count
      <4>1. completedAll + d <= simulationTick
        BY <1>4, <3>1
      <4> QED BY <1>4, <3>1, <4>1
    <3> QED BY <1>2, <1>4, <1>5, <1>6, <1>10, <3>2
  <2> HIDE DEF s
  <2>2. \A i \in 1..count - d : Without(s, d)[i] = s[d + i]
    BY <2>1, WithoutType
  <2>3. \A i \in 1..count : s[i] = completedAll + i - 1
    BY <2>1 DEF NamedByTick
  <2> HIDE DEF count
  <2>4. ASSUME NEW i \in 1..count - d
        PROVE  actions'[q][i] = completedAll + d + i - 1
    <3>1. d + i \in 1..count
      BY <2>1
    <3>2. s[d + i] = completedAll + (d + i) - 1
      BY <2>3, <3>1
    <3>3. completedAll + (d + i) - 1 = completedAll + d + i - 1
      BY <1>4
    <3> QED BY <2>1, <2>2, <3>2, <3>3
  <2> QED BY <1>2, <2>1, <2>4 DEF NamedByTick
<1>12. ASSUME NEW i \in 1..n, NEW q \in Players,
              contest'[simulationTick + i][q] \in Action
       PROVE  contest'[simulationTick + i][q] = simulationTick + i - 1
  <2>1. i \in 1..Len(sealed[q]) /\ contest'[simulationTick + i][q] = sealed[q][i]
    BY <1>9, <1>12
  <2>2. CASE q \in active \cap Humans
    <3>1. /\ base + i \in 1..Len(queued[q]) /\ queued[q][base + i] = sealed[q][i]
      BY <1>7, <1>8, <2>1, <2>2
    <3>2. queued[q][base + i] = completedAll + (base + i) - 1
      BY <1>5, <2>2, <3>1 DEF NamedByTick
    <3>3. completedAll + (base + i) - 1 = simulationTick + i - 1
      BY <1>4 DEF base
    <3> QED BY <2>1, <3>1, <3>2, <3>3
  <2>3. CASE q \in active \cap Bots
    <3>1. \A j \in 1..Len(Thoughts(q, n)) :
            Thoughts(q, n)[j] = simulationTick + j - 1
      BY <1>4, ThoughtsType
    <3>2. sealed[q] = Thoughts(q, n)
      BY <1>7, <2>3
    <3> QED BY <2>1, <3>1, <3>2
  <2>4. CASE q \notin active
    BY <1>7, <2>1, <2>4, EmptySeq
  <2> QED BY <2>2, <2>3, <2>4 DEF Humans
<1>13. ASSUME NEW t \in simulationTick + 1..simulationTick', NEW q \in Players,
              contest'[t][q] \in Action
       PROVE  contest'[t][q] = t - 1
  <2> DEFINE i == t - simulationTick
  <2>1. i \in 1..n /\ simulationTick + i = t
    BY <1>2, <1>4
  <2> HIDE DEF i
  <2>2. contest'[simulationTick + i][q] \in Action
    BY <1>13, <2>1
  <2>3. contest'[simulationTick + i][q] = simulationTick + i - 1
    BY <1>12, <2>1, <2>2
  <2>4. simulationTick + i - 1 = t - 1
    BY <1>4, <2>1
  <2> QED BY <2>1, <2>3, <2>4
<1>14. \A q \in active \cap Humans : NamedByTick(actions'[q], completedAll')
  BY <1>11
<1>15. \A t \in simulationTick + 1..simulationTick', q \in Players :
         contest'[t][q] \in Action => contest'[t][q] = t - 1
  BY <1>13
<1> QED BY <1>14, <1>15

\* The count actions from the start-th one, or fewer.
Part(s, start, count) == SubSeq(s, start + 1, Smaller(start + count, Len(s)))

\* A part of a sequence is a sequence, of the length asked for when it is there.
LEMMA PartType ==
  ASSUME NEW s \in Seq(Action), NEW start \in Nat, NEW count \in Nat
  PROVE  /\ Part(s, start, count) \in Seq(Action)
         /\ Len(Part(s, start, count)) \in Nat
         /\ Len(Part(s, start, count)) <= count
         /\ start + count <= Len(s) => Len(Part(s, start, count)) = count
         /\ \A i \in 1..count : start + i <= Len(s) =>
              /\ i \in 1..Len(Part(s, start, count))
              /\ Part(s, start, count)[i] = s[start + i]
<1> DEFINE length == Len(s)
           first == start + 1
           last == Smaller(start + count, length)
           cut == SubSeq(s, first, last)
           size == Len(cut)
<1>1. length \in Nat
  BY LenProperties
<1>2. Part(s, start, count) = cut
  BY DEF Part
<1> HIDE DEF length
<1>3. /\ first \in Nat \ {0} /\ first = start + 1
      /\ last \in Int /\ last <= length /\ last <= start + count
      /\ last = length \/ last = start + count
      /\ start + count <= length => last = start + count
  BY <1>1 DEF Smaller
<1> HIDE DEF first, last
<1>4. /\ cut \in Seq(Action)
      /\ size = IF first <= last THEN last - first + 1 ELSE 0
      /\ \A i \in 1..last - first + 1 : cut[i] = s[first + i - 1]
  BY <1>3, SubSeqType DEF length
<1> HIDE DEF cut, size
<1>5. /\ size \in Nat /\ size <= count
      /\ start + count <= length => size = count
  BY <1>3, <1>4
<1>6. ASSUME NEW i \in 1..count, start + i <= length
      PROVE  i \in 1..size /\ cut[i] = s[start + i]
  <2>1. start + i <= last
    BY <1>1, <1>3, <1>6
  <2>2. /\ i \in 1..last - first + 1 /\ i \in 1..size
        /\ first + i - 1 = start + i
    BY <1>3, <1>4, <2>1
  <2> QED BY <1>4, <2>2
<1> QED BY <1>2, <1>4, <1>5, <1>6 DEF length, size

\* The message of send_actions, in the state after an update of p: its own
\* actions are not shorter than the ones of the others, which are what the
\* contest has applied, and the checksum is the one of the last tick of the
\* message.
LEMMA ActionsMessageTells ==
  ASSUME IInv', NEW p \in Humans,
         completedAll' <= completed'[p],
         completed'[p] <= simulationTick',
         simulationTick' <= completedAll' + Len(actions'[p]),
         NEW m, m = ActionsMessage(p)'
  PROVE  /\ m.type = "game_update" /\ m.from = completed'[p]
         /\ m = [type |-> "game_update", from |-> m.from,
                 finalChecksum |-> m.finalChecksum, actions |-> m.actions]
         /\ m.actions \in [Players -> Seq(Action)]
         /\ m.finalChecksum \in History
         /\ m.from + Len(m.actions[p]) <= Len(contest')
         /\ m.finalChecksum = SubSeq(contest', 1, m.from + Len(m.actions[p]))
         /\ \A q \in Players : Len(m.actions[q]) <= Len(m.actions[p])
         /\ \A q \in Players : \A i \in 1..Len(m.actions[p]) :
              contest'[m.from + i][q] \in Action =>
                /\ i \in 1..Len(m.actions[q])
                /\ m.actions[q][i] = contest'[m.from + i][q]
<1> DEFINE known == completed'[p]
           played == simulationTick'
           base == completedAll'
           own == Len(actions'[p])
           start == known - base
           count == Smaller(MaxTicksPerMessage, played - known)
<1>1. /\ played \in Nat /\ base \in Nat /\ known \in Nat /\ p \in Players
      /\ actions' \in [Players -> Seq(Action)]
      /\ contest' \in History /\ checksums' \in Seq(History)
      /\ MaxTicksPerMessage \in Nat
  BY ServiceAssumption DEF IInv, TypeOK, Humans
<1>2. /\ Len(contest') = played
      /\ Len(checksums') = played - base + 1
      /\ \A i \in DOMAIN checksums' :
           checksums'[i] = SubSeq(contest', 1, base + i - 1)
      /\ DOMAIN checksums' = 1..Len(checksums')
      /\ \A q \in Players : Len(actions'[q]) \in Nat
                            /\ DOMAIN actions'[q] = 1..Len(actions'[q])
      /\ \A q \in Players : \A t \in base + 1..played :
           contest'[t][q] \in Action =>
             /\ t - base \in DOMAIN actions'[q]
             /\ actions'[q][t - base] = contest'[t][q]
  BY <1>1, LenProperties DEF IInv, ChecksumsAligned, ActionsMatchContest, Checksum
<1>3. /\ m = [type |-> "game_update", from |-> known,
              finalChecksum |-> checksums'[start + count + 1],
              actions |-> [q \in Players |-> Part(actions'[q], start, count)]]
  BY DEF ActionsMessage, Part
<1>4. /\ base <= known /\ known <= played /\ played <= base + own
      /\ own \in Nat
  BY <1>1, <1>2
<1> HIDE DEF known, played, base, own
<1>5. /\ start \in Nat /\ count \in Nat
      /\ known = base + start /\ known + count <= played
      /\ start + count <= own
  <2> DEFINE ahead == played - known
  <2>1. /\ ahead \in Nat /\ start \in Nat /\ known = base + start
        /\ known + ahead = played /\ start + ahead <= own
    BY <1>1, <1>4
  <2> HIDE DEF ahead, start
  <2>2. count = Smaller(MaxTicksPerMessage, ahead)
    BY DEF ahead
  <2> HIDE DEF count
  <2>3. count \in Nat /\ count <= ahead
    BY <1>1, <2>1, <2>2 DEF Smaller
  <2> QED BY <1>1, <1>4, <2>1, <2>3
<1> HIDE DEF start, count
<1>6. /\ m.type = "game_update" /\ m.from = known
      /\ m = [type |-> "game_update", from |-> m.from,
              finalChecksum |-> m.finalChecksum, actions |-> m.actions]
      /\ m.finalChecksum = checksums'[start + count + 1]
      /\ m.actions = [q \in Players |-> Part(actions'[q], start, count)]
  BY <1>3
<1>7. ASSUME NEW q \in Players
      PROVE  /\ m.actions[q] = Part(actions'[q], start, count)
             /\ m.actions[q] \in Seq(Action)
             /\ Len(m.actions[q]) <= count
             /\ start + count <= Len(actions'[q]) => Len(m.actions[q]) = count
             /\ \A i \in 1..count : start + i <= Len(actions'[q]) =>
                  /\ i \in 1..Len(m.actions[q])
                  /\ m.actions[q][i] = actions'[q][start + i]
  <2> DEFINE all == actions'[q]
             told == m.actions[q]
  <2>1. told = Part(all, start, count)
    BY <1>6
  <2>2. all \in Seq(Action)
    BY <1>1
  <2> HIDE DEF all, told
  <2>3. /\ told \in Seq(Action)
        /\ Len(told) <= count
        /\ start + count <= Len(all) => Len(told) = count
        /\ \A i \in 1..count : start + i <= Len(all) =>
             i \in 1..Len(told) /\ told[i] = all[start + i]
    BY <1>5, <2>1, <2>2, PartType
  <2> QED BY <2>1, <2>3 DEF all, told
<1>8. Len(m.actions[p]) = count
  BY <1>1, <1>5, <1>7 DEF own
<1>9. /\ start + count + 1 \in 1..Len(checksums')
      /\ base + (start + count + 1) - 1 = known + count
  <2> DEFINE length == Len(checksums')
  <2>1. length = played - base + 1
    BY <1>2
  <2> HIDE DEF length
  <2>2. start + count + 1 \in 1..length
    <3>1. start + count + 1 <= length
      BY <1>1, <1>5, <2>1
    <3>2. length \in Nat /\ start + count + 1 \in Nat \ {0}
      BY <1>1, <1>5, <2>1, <3>1
    <3> QED BY <3>1, <3>2
  <2> QED BY <1>1, <1>5, <2>2 DEF length
<1>10. /\ m.finalChecksum = SubSeq(contest', 1, known + count)
       /\ m.finalChecksum \in History
  <2> DEFINE i == start + count + 1
  <2>1. i \in 1..Len(checksums') /\ base + i - 1 = known + count
    BY <1>9
  <2>2. m.finalChecksum = checksums'[i]
    BY <1>6
  <2> HIDE DEF i
  <2>3. checksums'[i] = SubSeq(contest', 1, base + i - 1)
    BY <1>2, <2>1
  <2>4. checksums'[i] \in History
    BY <1>1, <2>1, ElementOfSeq
  <2> QED BY <2>1, <2>2, <2>3, <2>4
<1>11. ASSUME NEW q \in Players, NEW i \in 1..count,
              contest'[known + i][q] \in Action
       PROVE  /\ i \in 1..Len(m.actions[q])
              /\ m.actions[q][i] = contest'[known + i][q]
  <2> DEFINE t == known + i
             length == Len(actions'[q])
  <2>1. t \in base + 1..played /\ t - base = start + i
    BY <1>1, <1>5
  <2>2. contest'[t][q] \in Action
    BY <1>11
  <2>3. length \in Nat /\ DOMAIN actions'[q] = 1..length
    BY <1>2
  <2> HIDE DEF length, t
  <2>4. t - base \in 1..length /\ actions'[q][t - base] = contest'[t][q]
    BY <1>2, <2>1, <2>2, <2>3
  <2>5. start + i <= length
    BY <2>1, <2>3, <2>4
  <2> QED BY <1>7, <2>1, <2>4, <2>5 DEF length, t
<1>12. /\ m.actions \in [Players -> Seq(Action)]
       /\ \A q \in Players : Len(m.actions[q]) <= Len(m.actions[p])
       /\ m.from + Len(m.actions[p]) <= Len(contest')
       /\ m.finalChecksum = SubSeq(contest', 1, m.from + Len(m.actions[p]))
  BY <1>2, <1>5, <1>6, <1>7, <1>8, <1>10
<1>13. \A q \in Players : \A i \in 1..Len(m.actions[p]) :
         contest'[m.from + i][q] \in Action =>
           /\ i \in 1..Len(m.actions[q])
           /\ m.actions[q][i] = contest'[m.from + i][q]
  BY <1>6, <1>8, <1>11
<1> QED BY <1>6, <1>10, <1>12, <1>13 DEF known

-----------------------------------------------------------------------------
(* The theorems.                                                           *)

\* The inductive invariant holds in every reachable state of the service.
THEOREM Invariance == Spec => []IInv
<1>1. Init => IInv
  BY InitInvariant
<1>2. IInv /\ [Next]_vars => IInv'
  BY NextInvariant
<1> QED BY <1>1, <1>2, PTL DEF Spec

\* The variables of the service have their types whatever the clients send:
\* no length computed in drop_old_actions, align_simulation_tick or
\* seal_player_actions is negative.
THEOREM TypeCorrect == Spec => []TypeOK
<1>1. IInv => TypeOK
  BY DEF IInv
<1> QED BY <1>1, Invariance, PTL

\* The counters of game are ordered for every player still in it.
THEOREM TicksAreOrdered == Spec => []TicksOrdered
<1>1. IInv => TicksOrdered
  BY DEF IInv
<1> QED BY <1>1, Invariance, PTL

\* push_update and send_actions find the checksum of the tick they look for.
THEOREM ChecksumsAreAligned == Spec => []ChecksumsAligned
<1>1. IInv => ChecksumsAligned
  BY DEF IInv
<1> QED BY <1>1, Invariance, PTL

\* What send_actions takes from the vectors of actions is what was applied in the
\* contest, for any number of players, with a bot or not, and whoever is kicked out.
THEOREM ActionsAlwaysMatch == Spec => []ActionsMatchContest
<1>1. IInv => ActionsMatchContest
  BY DEF IInv
<1> QED BY <1>1, Invariance, PTL

\* A player is kicked out once, by one of check_drop_desynchronized_player's
\* three criteria or by the validation of the checksum.
THEOREM DisconnectionIsReportedOnce == Spec => []DisconnectionReportedOnce
<1>1. IInv => DisconnectionReportedOnce
  BY DEF IInv
<1> QED BY <1>1, Invariance, PTL

\* record_game_over judges each player at most once.
THEOREM VerdictIsUnique == Spec => []OneVerdict
<1>1. IInv => OneVerdict
  BY DEF IInv
<1> QED BY <1>1, Invariance, PTL

\* The winner is not a player who has been kicked out: it gets its coins.
THEOREM WinnerGetsReward == Spec => []WinnerIsRewarded
<1>1. IInv => WinnerIsRewarded
  BY DEF IInv
<1> QED BY <1>1, Invariance, PTL

\* The karma and the rewards of a game are the deserved ones.
THEOREM KarmaIsAlwaysDeserved == Spec => []KarmaIsDeserved
<1>1. IInv => KarmaIsDeserved
  BY DEF IInv, KarmaIsDeserved
<1> QED BY <1>1, Invariance, PTL

=============================================================================
