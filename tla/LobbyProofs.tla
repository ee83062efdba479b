---------------------------- MODULE LobbyProofs ----------------------------
(***************************************************************************)
(* Proofs about the lobby of the server, and about the clients who look    *)
(* for a game over the network.                                            *)
(***************************************************************************)
EXTENDS OnlineLobby, FiniteSetTheorems, TLAPS

-----------------------------------------------------------------------------
(* Encounters.                                                             *)

Rank(keep, i) == Cardinality({j \in keep : j <= i})

\* The indices kept when others are erased are numbered from one, in order:
\* Nth is the inverse of Rank.
LEMMA NthIsInKeep ==
  ASSUME NEW n \in Nat, NEW keep \in SUBSET (1..n)
  PROVE  /\ IsFiniteSet(keep)
         /\ Cardinality(keep) \in 0..n
         /\ \A k \in 1..Cardinality(keep) :
              Nth(keep, k) \in keep /\ Rank(keep, Nth(keep, k)) = k
         /\ \A i \in keep :
              Rank(keep, i) \in 1..Cardinality(keep)
              /\ Nth(keep, Rank(keep, i)) = i
<1> DEFINE upTo(i) == {j \in keep : j <= i}
           c == Cardinality(keep)
           f == [i \in keep |-> Cardinality(upTo(i))]
<1>0. \A i \in keep : i \in Nat
  OBVIOUS
<1>1. IsFiniteSet(keep) /\ c \in 0..n
  <2>1. IsFiniteSet(1..n) /\ Cardinality(1..n) = n
    BY FS_Interval
  <2>2. IsFiniteSet(keep) /\ Cardinality(keep) <= n
    BY <2>1, FS_Subset
  <2> QED BY <2>2, FS_CardinalityType
<1>2. \A i \in keep : IsFiniteSet(upTo(i)) /\ Cardinality(upTo(i)) \in 1..c
  <2> TAKE i \in keep
  <2>1. upTo(i) \in SUBSET keep /\ i \in upTo(i)
    BY <1>0
  <2>2. IsFiniteSet(upTo(i)) /\ Cardinality(upTo(i)) <= c
    BY <1>1, <2>1, FS_Subset
  <2>3. Cardinality(upTo(i)) \in Nat /\ Cardinality(upTo(i)) # 0
    BY <2>1, <2>2, FS_CardinalityType, FS_EmptySet
  <2> QED BY <1>1, <2>2, <2>3
<1>3. \A i, j \in keep : i < j => Cardinality(upTo(i)) # Cardinality(upTo(j))
  <2> SUFFICES ASSUME NEW i \in keep, NEW j \in keep, i < j,
                      Cardinality(upTo(i)) = Cardinality(upTo(j))
               PROVE  FALSE
    OBVIOUS
  <2>0. \A k \in keep : k <= i => k <= j
    BY <1>0
  <2>1. upTo(i) \in SUBSET upTo(j)
    BY <2>0
  <2>2. upTo(j) = upTo(i)
    <3> DEFINE s == upTo(i)
               t == upTo(j)
    <3>1. IsFiniteSet(t) /\ s \in SUBSET t /\ Cardinality(t) = Cardinality(s)
      BY <1>2, <2>1
    <3> HIDE DEF s, t
    <3>2. t = s
      BY <3>1, FS_Subset
    <3> QED BY <3>2 DEF s, t
  <2>3. j \in upTo(j) /\ j \notin upTo(i)
    BY <1>0
  <2> QED BY <2>2, <2>3
<1>4. \A i, j \in keep : f[i] = f[j] => i = j
  <2> TAKE i, j \in keep
  <2>1. i < j \/ j < i \/ i = j
    BY <1>0
  <2> QED BY <1>3, <2>1
<1>5. f \in Injection(keep, 1..c)
  BY <1>2, <1>4 DEF Injection, IsInjective
<1>6. f \in Surjection(keep, 1..c)
  <2>1. IsFiniteSet(1..c) /\ Cardinality(1..c) = c
    BY <1>1, FS_Interval
  <2> QED BY <1>5, <2>1, FS_Injection
<1>7. \A k \in 1..c : \E i \in keep : Cardinality(upTo(i)) = k
  BY <1>6 DEF Surjection
<1>8. \A k \in 1..c : Nth(keep, k) \in keep /\ Rank(keep, Nth(keep, k)) = k
  BY <1>7 DEF Nth, Rank
<1>9. \A i \in keep : Rank(keep, i) \in 1..c /\ Nth(keep, Rank(keep, i)) = i
  <2> TAKE i \in keep
  <2>1. Rank(keep, i) \in 1..c
    BY <1>2 DEF Rank
  <2>2. /\ Nth(keep, Rank(keep, i)) \in keep
        /\ Rank(keep, Nth(keep, Rank(keep, i))) = Rank(keep, i)
    BY <1>8, <2>1
  <2> QED BY <1>4, <2>1, <2>2 DEF Rank
<1> QED BY <1>1, <1>8, <1>9

Distinct(e) ==
  \A i, j \in 1..e.count : i # j => e.sessions[i] # e.sessions[j]

\* An encounter of distinct sessions.
Filled(e) == e \in Encounters /\ Members(e) \subseteq Sessions /\ Distinct(e)

ReadyMembers(e) == {e.sessions[i] : i \in {j \in 1..e.count : e.ready[j]}}

\* An erasure moves the elements kept, and it stays in the array.
LEMMA CompactedElements ==
  ASSUME NEW n \in 0..MaxPlayers, NEW keep \in SUBSET (1..n),
         NEW T, NEW a \in [Slots -> T]
  PROVE  /\ Compacted(a, keep, n) \in [Slots -> T]
         /\ \A k \in 1..Cardinality(keep) :
              Compacted(a, keep, n)[k] = a[Nth(keep, k)]
<1> DEFINE c == Cardinality(keep)
           b == Compacted(a, keep, n)
<1>0. MaxPlayers \in Nat /\ n \in Nat /\ n <= MaxPlayers
  BY EncounterConstants
<1>1. c \in 0..n /\ \A k \in 1..c : Nth(keep, k) \in keep
  BY <1>0, NthIsInKeep
<1>2. 1..n \subseteq Slots /\ 1..c \subseteq Slots
  BY <1>0, <1>1 DEF Slots
<1>3. b = [i \in Slots |-> IF i <= c THEN a[Nth(keep, i)]
                           ELSE IF i <= n THEN a[n] ELSE a[i]]
  BY DEF Compacted
<1>4. \A k \in 1..c : b[k] = a[Nth(keep, k)]
  <2> TAKE k \in 1..c
  <2>1. k <= c /\ k \in Slots
    BY <1>1, <1>2
  <2> HIDE DEF c, b
  <2> QED BY <1>3, <2>1
<1>5. \A i \in Slots : b[i] \in T
  <2> TAKE i \in Slots
  <2>1. i \in Nat /\ i >= 1
    BY <1>0 DEF Slots
  <2>2. CASE i <= c
    <3>1. i \in 1..c
      BY <1>1, <2>1, <2>2
    <3>2. Nth(keep, i) \in Slots
      BY <1>1, <1>2, <3>1
    <3> QED BY <1>4, <3>1, <3>2
  <2>3. CASE ~(i <= c) /\ i <= n
    <3>1. n \in Slots
      BY <1>0, <2>1, <2>3 DEF Slots
    <3> HIDE DEF c, b
    <3> QED BY <1>3, <2>3, <3>1
  <2>4. CASE ~(i <= c) /\ ~(i <= n)
    <3> HIDE DEF c, b
    <3> QED BY <1>3, <2>4
  <2> QED BY <2>2, <2>3, <2>4
<1>6. b \in [Slots -> T]
  <2> HIDE DEF c
  <2>1. b = [i \in Slots |-> b[i]]
    BY <1>3
  <2> QED BY <1>5, <2>1
<1> QED BY <1>4, <1>6

\* What the calls of erase leave.
LEMMA KeptEntries ==
  ASSUME NEW e \in Encounters, NEW keep \in SUBSET (1..e.count)
  PROVE  /\ Kept(e, keep) \in Encounters
         /\ Kept(e, keep).count = Cardinality(keep)
         /\ Kept(e, keep).channel = e.channel
         /\ \A k \in 1..Cardinality(keep) :
              /\ Kept(e, keep).sessions[k] = e.sessions[Nth(keep, k)]
              /\ Kept(e, keep).release[k] = e.release[Nth(keep, k)]
              /\ Kept(e, keep).ready[k] = e.ready[Nth(keep, k)]
<1> DEFINE c == Cardinality(keep)
           n == e.count
<1>1. n \in 0..MaxPlayers
  BY DEF Encounters
<1>2. c \in 0..MaxPlayers
  <2>1. MaxPlayers \in Nat /\ n \in Nat /\ n <= MaxPlayers
    BY <1>1, EncounterConstants
  <2>2. c \in 0..n
    BY <2>1, NthIsInKeep
  <2> HIDE DEF c, n
  <2> QED BY <2>1, <2>2
<1>3. /\ e.sessions \in [Slots -> Sessions \cup {NoSession}]
      /\ e.release \in [Slots -> 0..ReleaseDelay]
      /\ e.botDate \in [Slots -> Nat]
      /\ e.ready \in [Slots -> BOOLEAN]
      /\ e.channel \in Nat
  BY DEF Encounters
<1>4. /\ Compacted(e.sessions, keep, n) \in [Slots -> Sessions \cup {NoSession}]
      /\ \A k \in 1..c :
           Compacted(e.sessions, keep, n)[k] = e.sessions[Nth(keep, k)]
  BY <1>1, <1>3, CompactedElements
<1>5. /\ Compacted(e.release, keep, n) \in [Slots -> 0..ReleaseDelay]
      /\ \A k \in 1..c :
           Compacted(e.release, keep, n)[k] = e.release[Nth(keep, k)]
  <2> DEFINE T == 0..ReleaseDelay
  <2>1. e.release \in [Slots -> T]
    BY <1>3
  <2> HIDE DEF T
  <2>2. /\ Compacted(e.release, keep, n) \in [Slots -> T]
        /\ \A k \in 1..c :
             Compacted(e.release, keep, n)[k] = e.release[Nth(keep, k)]
    BY <1>1, <2>1, CompactedElements
  <2> QED BY <2>2 DEF T
<1>6. Compacted(e.botDate, keep, n) \in [Slots -> Nat]
  BY <1>1, <1>3, CompactedElements
<1>7. /\ Compacted(e.ready, keep, n) \in [Slots -> BOOLEAN]
      /\ \A k \in 1..c :
           Compacted(e.ready, keep, n)[k] = e.ready[Nth(keep, k)]
  BY <1>1, <1>3, CompactedElements
<1> DEFINE s == Compacted(e.sessions, keep, n)
           r == Compacted(e.release, keep, n)
           b == Compacted(e.botDate, keep, n)
           y == Compacted(e.ready, keep, n)
           f == [e EXCEPT !.count = c, !.sessions = s, !.release = r,
                          !.botDate = b, !.ready = y]
<1>8. Kept(e, keep) = f
  BY DEF Kept
<1> HIDE DEF s, r, b, y
<1> HIDE DEF c, n
<1>9. /\ f.count = c /\ f.sessions = s /\ f.release = r /\ f.botDate = b
      /\ f.ready = y /\ f.channel = e.channel
  BY DEF Encounters
<1>10. f \in Encounters
  BY <1>2, <1>3, <1>4, <1>5, <1>6, <1>7 DEF Encounters, s, r, b, y
<1> HIDE DEF f
<1> QED BY <1>4, <1>5, <1>7, <1>8, <1>9, <1>10 DEF c, s, r, y

\* The sessions kept are distinct, and as ready as they were.
LEMMA KeptIsFilled ==
  ASSUME NEW e, Filled(e), NEW keep \in SUBSET (1..e.count)
  PROVE  /\ Filled(Kept(e, keep))
         /\ Members(Kept(e, keep)) = {e.sessions[i] : i \in keep}
         /\ ReadyMembers(Kept(e, keep)) =
              {e.sessions[i] : i \in {j \in keep : e.ready[j]}}
         /\ Kept(e, keep).channel = e.channel
         /\ Kept(e, keep).count <= e.count
<1> DEFINE f == Kept(e, keep)
           c == Cardinality(keep)
<1>1. e \in Encounters /\ Members(e) \subseteq Sessions /\ Distinct(e)
  BY DEF Filled
<1>2. e.count \in Nat
  BY <1>1, EncounterConstants DEF Encounters
<1>3. /\ c \in 0..e.count
      /\ \A k \in 1..c : Nth(keep, k) \in keep /\ Rank(keep, Nth(keep, k)) = k
      /\ \A i \in keep : Rank(keep, i) \in 1..c /\ Nth(keep, Rank(keep, i)) = i
  BY <1>2, NthIsInKeep
<1>4. /\ f \in Encounters
      /\ f.count = c
      /\ f.channel = e.channel
      /\ \A k \in 1..c : /\ f.sessions[k] = e.sessions[Nth(keep, k)]
                         /\ f.ready[k] = e.ready[Nth(keep, k)]
  BY <1>1, KeptEntries
<1> HIDE DEF f, c
<1>5. Members(f) = {e.sessions[i] : i \in keep}
  <2>1. \A s \in Members(f) : s \in {e.sessions[i] : i \in keep}
    BY <1>3, <1>4 DEF Members
  <2>2. \A i \in keep : e.sessions[i] \in Members(f)
    <3> TAKE i \in keep
    <3>1. f.sessions[Rank(keep, i)] = e.sessions[i] /\ Rank(keep, i) \in 1..c
      BY <1>3, <1>4
    <3> QED BY <1>4, <3>1 DEF Members
  <2> QED BY <2>1, <2>2
<1>6. Distinct(f)
  <2> SUFFICES ASSUME NEW i \in 1..c, NEW j \in 1..c, i # j
               PROVE  f.sessions[i] # f.sessions[j]
    BY <1>4 DEF Distinct
  <2>1. Nth(keep, i) # Nth(keep, j) /\ Nth(keep, i) \in 1..e.count
        /\ Nth(keep, j) \in 1..e.count
    BY <1>3
  <2>2. e.sessions[Nth(keep, i)] # e.sessions[Nth(keep, j)]
    BY <1>1, <2>1 DEF Distinct
  <2> QED BY <1>4, <2>2
<1>7. ReadyMembers(f) = {e.sessions[i] : i \in {j \in keep : e.ready[j]}}
  <2>1. ASSUME NEW k \in 1..c, f.ready[k]
        PROVE  f.sessions[k] \in {e.sessions[i] : i \in {j \in keep : e.ready[j]}}
    BY <1>3, <1>4, <2>1
  <2>2. ASSUME NEW i \in keep, e.ready[i]
        PROVE  e.sessions[i] \in ReadyMembers(f)
    <3>1. /\ Rank(keep, i) \in 1..c
          /\ f.sessions[Rank(keep, i)] = e.sessions[i]
          /\ f.ready[Rank(keep, i)]
      BY <1>3, <1>4, <2>2
    <3> QED BY <1>4, <3>1 DEF ReadyMembers
  <2>3. \A x \in ReadyMembers(f) : \E k \in 1..c : f.ready[k] /\ x = f.sessions[k]
    BY <1>4 DEF ReadyMembers
  <2> QED BY <2>1, <2>2, <2>3
<1>8. Members(f) \subseteq Sessions
  BY <1>1, <1>5 DEF Members
<1> QED BY <1>2, <1>3, <1>4, <1>5, <1>6, <1>7, <1>8 DEF Filled, f

\* session_index finds the session, or returns the index after the last one.
LEMMA IndexOfIs ==
  ASSUME NEW e \in Encounters, NEW s
  PROVE  /\ IndexOf(e, s) \in 1..e.count + 1
         /\ IndexOf(e, s) <= e.count <=> s \in Members(e)
         /\ s \in Members(e) => IndexOf(e, s) \in 1..e.count
                                /\ e.sessions[IndexOf(e, s)] = s
<1> DEFINE n == e.count
           t == {i \in 1..n : e.sessions[i] = s}
           Found(i) == /\ i <= n => e.sessions[i] = s
                       /\ \A j \in 1..i - 1 : e.sessions[j] # s
<1>1. n \in Nat
  BY EncounterConstants DEF Encounters
<1>2. \E i \in 1..n + 1 : Found(i)
  <2>1. CASE t = {}
    <3> DEFINE m == n + 1
    <3>1. m \in 1..n + 1 /\ ~(m <= n) /\ 1..m - 1 = 1..n
      BY <1>1
    <3>2. \A j \in 1..n : e.sessions[j] # s
      BY <2>1
    <3> HIDE DEF n, m
    <3>3. Found(m)
      BY <3>1, <3>2
    <3> QED BY <3>1, <3>3
  <2>2. CASE t # {}
    <3> DEFINE m == Nth(t, 1)
               u == {j \in t : j <= m}
    <3>1. t \in SUBSET (1..n)
      OBVIOUS
    <3>2. IsFiniteSet(t) /\ Cardinality(t) \in Nat /\ Cardinality(t) # 0
      BY <1>1, <2>2, <3>1, NthIsInKeep, FS_EmptySet
    <3>3. 1 \in 1..Cardinality(t)
      BY <3>2
    <3>4. m \in t /\ Cardinality(u) = 1
      BY <1>1, <3>1, <3>3, NthIsInKeep DEF Rank
    <3>5. m \in 1..n /\ m \in Nat /\ e.sessions[m] = s
      BY <1>1, <3>4
    <3>6. IsFiniteSet(u)
      BY <3>2, FS_Subset
    <3>7. PICK x : u = {x}
      BY <3>4, <3>6, FS_Singleton
    <3>8. m \in u
      BY <3>4, <3>5
    <3>9. \A j \in 1..m - 1 : e.sessions[j] # s
      <4> SUFFICES ASSUME NEW j \in 1..m - 1, e.sessions[j] = s
                   PROVE  FALSE
        OBVIOUS
      <4>1. j \in 1..n /\ j <= m /\ j # m
        BY <1>1, <3>5
      <4>2. j \in u
        BY <4>1
      <4> QED BY <3>7, <3>8, <4>1, <4>2
    <3>10. m \in 1..n + 1
      BY <1>1, <3>5
    <3> HIDE DEF m, n
    <3> QED BY <3>5, <3>9, <3>10
  <2> QED BY <2>1, <2>2
<1>3. IndexOf(e, s) \in 1..n + 1 /\ Found(IndexOf(e, s))
  BY <1>2 DEF IndexOf
<1>4. IndexOf(e, s) <= n => IndexOf(e, s) \in 1..n
  BY <1>1, <1>3
<1>5. IndexOf(e, s) <= n => s \in Members(e)
  BY <1>3, <1>4 DEF Members
<1>6. s \in Members(e) => IndexOf(e, s) <= n
  <2> SUFFICES ASSUME s \in Members(e), ~(IndexOf(e, s) <= n)
               PROVE  FALSE
    OBVIOUS
  <2>1. IndexOf(e, s) - 1 = n
    BY <1>1, <1>3
  <2>2. \A j \in 1..n : e.sessions[j] # s
    BY <1>3, <2>1
  <2> QED BY <2>2 DEF Members
<1> QED BY <1>3, <1>4, <1>5, <1>6

\* A new encounter has one session.
LEMMA NewEncounterIsFilled ==
  ASSUME NEW s \in Sessions
  PROVE  /\ Filled(NewEncounter(s))
         /\ Members(NewEncounter(s)) = {s}
         /\ ReadyMembers(NewEncounter(s)) = {}
         /\ NewEncounter(s).channel = 0
<1>1. MaxPlayers \in Nat /\ MaxPlayers >= 2 /\ ReleaseDelay \in Nat
      /\ BotDelay \in Nat
  BY EncounterConstants
<1>2. 1 \in Slots /\ 1 \in 0..MaxPlayers /\ 1..1 = {1}
  BY <1>1 DEF Slots
<1>3. NewEncounter(s) \in Encounters
  BY <1>1, <1>2 DEF NewEncounter, Encounters
<1>4. /\ NewEncounter(s).count = 1
      /\ NewEncounter(s).sessions[1] = s
      /\ NewEncounter(s).ready[1] = FALSE
      /\ NewEncounter(s).channel = 0
  BY <1>2 DEF NewEncounter
<1> QED BY <1>2, <1>3, <1>4 DEF Filled, Members, ReadyMembers, Distinct

\* The dates do not change who is in the encounter.
LEMMA ElapsedIsFilled ==
  ASSUME NEW e, Filled(e)
  PROVE  /\ Filled(Elapsed(e))
         /\ Members(Elapsed(e)) = Members(e)
         /\ ReadyMembers(Elapsed(e)) = ReadyMembers(e)
         /\ Elapsed(e).channel = e.channel
<1> DEFINE Less(d) == [i \in Slots |-> IF d[i] = 0 THEN 0 ELSE d[i] - 1]
<1>1. e \in Encounters
  BY DEF Filled
<1>2. /\ e.release \in [Slots -> 0..ReleaseDelay]
      /\ e.botDate \in [Slots -> Nat]
      /\ ReleaseDelay \in Nat
  BY <1>1, EncounterConstants DEF Encounters
<1>3. Less(e.release) \in [Slots -> 0..ReleaseDelay]
  BY <1>2
<1>4. Less(e.botDate) \in [Slots -> Nat]
  BY <1>2
<1> DEFINE r == Less(e.release)
           b == Less(e.botDate)
           f == [e EXCEPT !.release = r, !.botDate = b]
<1>5. Elapsed(e) = f
  BY DEF Elapsed
<1> HIDE DEF r, b
<1>6. f \in Encounters
  BY <1>1, <1>3, <1>4 DEF Encounters, r, b
<1>7. /\ f.count = e.count /\ f.sessions = e.sessions
      /\ f.ready = e.ready /\ f.channel = e.channel
  BY <1>1 DEF Encounters
<1> HIDE DEF f
<1> QED BY <1>5, <1>6, <1>7 DEF Filled, Members, ReadyMembers, Distinct

\* remove_inactive_sessions, once the date of a session has been refreshed.
LEMMA WithoutInactiveIsFilled ==
  ASSUME NEW e, Filled(e)
  PROVE  /\ Filled(WithoutInactive(e))
         /\ Members(WithoutInactive(e)) \subseteq Members(e)
         /\ ReadyMembers(WithoutInactive(e)) \subseteq ReadyMembers(e)
         /\ WithoutInactive(e).channel = e.channel
         /\ WithoutInactive(e).count <= e.count
         /\ \A i \in 1..e.count :
              e.release[i] > 0 =>
                /\ e.sessions[i] \in Members(WithoutInactive(e))
                /\ e.ready[i] => e.sessions[i] \in ReadyMembers(WithoutInactive(e))
<1> DEFINE keep == {i \in 1..e.count : e.release[i] > 0}
<1>1. keep \in SUBSET (1..e.count)
  OBVIOUS
<1>2. WithoutInactive(e) = Kept(e, keep)
  BY DEF WithoutInactive
<1> HIDE DEF keep
<1>3. /\ Filled(Kept(e, keep))
      /\ Members(Kept(e, keep)) = {e.sessions[i] : i \in keep}
      /\ ReadyMembers(Kept(e, keep)) =
           {e.sessions[i] : i \in {j \in keep : e.ready[j]}}
      /\ Kept(e, keep).channel = e.channel
      /\ Kept(e, keep).count <= e.count
  BY <1>1, KeptIsFilled
<1>4. {e.sessions[i] : i \in keep} \subseteq Members(e)
  BY <1>1 DEF Members
<1>5. \A i \in 1..e.count : e.release[i] > 0 => i \in keep
  BY DEF keep
<1>6. {e.sessions[i] : i \in {j \in keep : e.ready[j]}} \subseteq ReadyMembers(e)
  BY <1>1 DEF ReadyMembers
<1> QED BY <1>2, <1>3, <1>4, <1>5, <1>6

\* remove_non_ready_players.
LEMMA WithoutNonReadyIsFilled ==
  ASSUME NEW e, Filled(e)
  PROVE  /\ Filled(WithoutNonReady(e))
         /\ Members(WithoutNonReady(e)) = ReadyMembers(e)
         /\ ReadyMembers(WithoutNonReady(e)) = ReadyMembers(e)
         /\ WithoutNonReady(e).channel = e.channel
<1> DEFINE keep == {i \in 1..e.count : e.ready[i]}
<1>1. keep \in SUBSET (1..e.count)
  OBVIOUS
<1>2. WithoutNonReady(e) = Kept(e, keep)
  BY DEF WithoutNonReady
<1>3. /\ {e.sessions[i] : i \in keep} = ReadyMembers(e)
      /\ {e.sessions[i] : i \in {j \in keep : e.ready[j]}} = ReadyMembers(e)
  BY DEF ReadyMembers
<1> HIDE DEF keep
<1>4. /\ Filled(Kept(e, keep))
      /\ Members(Kept(e, keep)) = {e.sessions[i] : i \in keep}
      /\ ReadyMembers(Kept(e, keep)) =
           {e.sessions[i] : i \in {j \in keep : e.ready[j]}}
      /\ Kept(e, keep).channel = e.channel
  BY <1>1, KeptIsFilled
<1> QED BY <1>2, <1>3, <1>4

\* Only some dates and flags of the slots are written.
LEMMA SameSessions ==
  ASSUME NEW e, Filled(e), NEW f \in Encounters,
         f.count = e.count, f.sessions = e.sessions
  PROVE  Filled(f) /\ Members(f) = Members(e)
BY DEF Filled, Members, Distinct

\* A session which is not in the encounter goes in the next slot.
LEMMA InsertedIsFilled ==
  ASSUME NEW e, Filled(e), e.count # MaxPlayers,
         NEW s \in Sessions, s \notin Members(e)
  PROVE  /\ Filled(Inserted(e, s))
         /\ Members(Inserted(e, s)) = Members(e) \cup {s}
         /\ ReadyMembers(Inserted(e, s)) \subseteq ReadyMembers(e)
         /\ Inserted(e, s).channel = 0
<1> DEFINE n == e.count
           m == n + 1
           f == Inserted(e, s)
<1>1. e \in Encounters /\ Members(e) \subseteq Sessions /\ Distinct(e)
  BY DEF Filled
<1>2. n \in Nat /\ m \in 0..MaxPlayers /\ m \in Slots /\ m \notin 1..n
      /\ 1..m = (1..n) \cup {m} /\ 1..n \subseteq Slots
  BY <1>1, EncounterConstants DEF Encounters, Slots
<1>3. /\ e.sessions \in [Slots -> Sessions \cup {NoSession}]
      /\ e.ready \in [Slots -> BOOLEAN]
  BY <1>1 DEF Encounters
<1> DEFINE a == [e.sessions EXCEPT ![m] = s]
           y == [e.ready EXCEPT ![m] = FALSE]
<1>4. /\ a \in [Slots -> Sessions \cup {NoSession}]
      /\ a[m] = s
      /\ \A i \in 1..n : a[i] = e.sessions[i]
  BY <1>2, <1>3
<1>5. /\ y \in [Slots -> BOOLEAN]
      /\ y[m] = FALSE
      /\ \A i \in 1..n : y[i] = e.ready[i]
  BY <1>2, <1>3
<1> DEFINE g == [e EXCEPT !.count = m, !.sessions = a, !.ready = y,
                          !.channel = 0]
<1>6. f = g
  BY <1>1 DEF Inserted, Encounters
<1> HIDE DEF a, y, m, f
<1>7. f \in Encounters
  <2>1. g \in Encounters
    BY <1>1, <1>2, <1>4, <1>5 DEF Encounters
  <2> QED BY <1>6, <2>1
<1>8. f.count = m /\ f.sessions = a /\ f.ready = y /\ f.channel = 0
  <2>1. g.count = m /\ g.sessions = a /\ g.ready = y /\ g.channel = 0
    BY <1>1 DEF Encounters
  <2> HIDE DEF g
  <2> QED BY <1>6, <2>1
<1>9. Members(f) = Members(e) \cup {s}
  BY <1>2, <1>4, <1>8 DEF Members
<1>10. ReadyMembers(f) \subseteq ReadyMembers(e)
  BY <1>2, <1>4, <1>5, <1>8 DEF ReadyMembers
<1>11. Distinct(f)
  <2> SUFFICES ASSUME NEW i \in 1..m, NEW j \in 1..m, i # j
               PROVE  a[i] # a[j]
    BY <1>8 DEF Distinct
  <2>1. CASE i \in 1..n /\ j \in 1..n
    BY <1>1, <1>4, <2>1 DEF Distinct
  <2>2. CASE i = m /\ j \in 1..n
    <3>1. a[j] \in Members(e)
      BY <1>4, <2>2 DEF Members
    <3> QED BY <1>4, <2>2, <3>1
  <2>3. CASE j = m /\ i \in 1..n
    <3>1. a[i] \in Members(e)
      BY <1>4, <2>3 DEF Members
    <3> QED BY <1>4, <2>3, <3>1
  <2> QED BY <1>2, <2>1, <2>2, <2>3
<1> QED BY <1>1, <1>7, <1>9, <1>10, <1>11, <1>8 DEF Filled, f

\* A player on hold sends its request again: it stays, and the inactive ones
\* leave.
LEMMA RefreshedMember ==
  ASSUME NEW e, Filled(e), NEW s \in Members(e),
         NEW i \in 1..e.count, e.sessions[i] = s,
         NEW f \in Encounters, f.count = e.count, f.sessions = e.sessions,
         f.release[i] > 0,
         \A j \in 1..e.count : f.ready[j] => e.ready[j] \/ e.sessions[j] = s
  PROVE  /\ Filled(f)
         /\ Members(f) = Members(e)
         /\ ReadyMembers(f) \subseteq ReadyMembers(e) \cup {s}
         /\ s \in Members(WithoutInactive(f))
<1>1. Filled(f) /\ Members(f) = Members(e)
  BY SameSessions
<1>2. ReadyMembers(f) \subseteq ReadyMembers(e) \cup {s}
  BY DEF ReadyMembers
<1>3. s \in Members(WithoutInactive(f))
  BY <1>1, WithoutInactiveIsFilled
<1> QED BY <1>1, <1>2, <1>3

\* The date of a member is put back, and its flag may be.
LEMMA WrittenFields ==
  ASSUME NEW e \in Encounters, NEW i \in 1..e.count
  PROVE  LET f == [e EXCEPT !.release[i] = ReleaseDelay, !.ready[i] = TRUE]
             g == [e EXCEPT !.release[i] = ReleaseDelay]
         IN /\ f \in Encounters
            /\ f.count = e.count
            /\ f.sessions = e.sessions
            /\ f.channel = e.channel
            /\ f.release[i] > 0
            /\ f.ready[i]
            /\ \A j \in 1..e.count : j # i => f.ready[j] = e.ready[j]
            /\ g \in Encounters
            /\ g.count = e.count
            /\ g.sessions = e.sessions
            /\ g.channel = e.channel
            /\ g.release[i] > 0
            /\ g.ready = e.ready
<1> DEFINE r == [e.release EXCEPT ![i] = ReleaseDelay]
           y == [e.ready EXCEPT ![i] = TRUE]
           f == [e EXCEPT !.release[i] = ReleaseDelay, !.ready[i] = TRUE]
           g == [e EXCEPT !.release[i] = ReleaseDelay]
           h == [e EXCEPT !.release = r, !.ready = y]
           k == [e EXCEPT !.release = r]
<1>1. ReleaseDelay \in Nat /\ ReleaseDelay > 0
  BY EncounterConstants
<1>2. e.count \in Nat /\ e.count <= MaxPlayers /\ MaxPlayers \in Nat
      /\ e.release \in [Slots -> 0..ReleaseDelay] /\ e.ready \in [Slots -> BOOLEAN]
  BY EncounterConstants DEF Encounters
<1>3. i \in Slots /\ 1..e.count \subseteq Slots
  BY <1>2 DEF Slots
<1>4. r \in [Slots -> 0..ReleaseDelay] /\ r[i] > 0
  BY <1>1, <1>2, <1>3
<1>5. y \in [Slots -> BOOLEAN] /\ y[i]
      /\ \A j \in 1..e.count : j # i => y[j] = e.ready[j]
  BY <1>2, <1>3
<1>6. f = h /\ g = k
  BY DEF Encounters
<1> HIDE DEF r, y, f, g
<1>7. h \in Encounters /\ k \in Encounters
  BY <1>4, <1>5 DEF Encounters
<1>8. /\ h.count = e.count /\ h.sessions = e.sessions /\ h.channel = e.channel
      /\ h.release = r /\ h.ready = y
      /\ k.count = e.count /\ k.sessions = e.sessions /\ k.channel = e.channel
      /\ k.release = r /\ k.ready = e.ready
  BY DEF Encounters
<1> HIDE DEF h, k
<1> QED BY <1>4, <1>5, <1>6, <1>7, <1>8 DEF f, g

\* Whatever is written at a stale index by refresh_encounter, the sessions of
\* the encounter are distinct.  Nobody is made ready, unless the encounter is
\* full and does not have the session.
LEMMA RefreshedIsFilled ==
  ASSUME NEW e, Filled(e), NEW s \in Sessions, NEW f \in Refreshed(e, s)
  PROVE  /\ Filled(f)
         /\ Members(f) \subseteq Members(e) \cup {s}
         /\ e.channel = 0 => f.channel = 0
         /\ e.count < MaxPlayers \/ s \in Members(e)
              => /\ s \in Members(f)
                 /\ ReadyMembers(f) \subseteq ReadyMembers(e)
<1> DEFINE index == IndexOf(e, s)
           p == WithoutInactive(e)
           q == Inserted(p, s)
<1>1. e \in Encounters
  BY DEF Filled
<1>2. e.count \in Nat /\ e.count <= MaxPlayers /\ MaxPlayers \in Nat
      /\ ReleaseDelay \in Nat /\ BotDelay \in Nat
      /\ e.ready \in [Slots -> BOOLEAN] /\ e.release \in [Slots -> 0..ReleaseDelay]
  BY <1>1, EncounterConstants DEF Encounters
<1>3. /\ index \in 1..e.count + 1
      /\ index <= e.count <=> s \in Members(e)
      /\ s \in Members(e) => index \in 1..e.count /\ e.sessions[index] = s
  BY <1>1, IndexOfIs
<1>4. /\ Filled(p)
      /\ Members(p) \subseteq Members(e)
      /\ ReadyMembers(p) \subseteq ReadyMembers(e)
      /\ p.channel = e.channel
      /\ p.count <= e.count
  BY WithoutInactiveIsFilled
<1> HIDE DEF index, p
<1>5. f \in IF index <= e.count
            THEN {WithoutInactive([e EXCEPT !.release[index] = ReleaseDelay])}
            ELSE IF p.count = MaxPlayers THEN {p}
            ELSE IF index <= MaxPlayers
            THEN {[q EXCEPT !.release[index] = ReleaseDelay,
                            !.botDate[index] = BotDelay]}
            ELSE {[q EXCEPT !.botDate[1] = ReleaseDelay, !.ready = flags]
                    : flags \in [Slots -> BOOLEAN]}
  BY DEF Refreshed, index, p
<1>6. CASE index <= e.count
  <2> DEFINE g == [e EXCEPT !.release[index] = ReleaseDelay]
  <2>1. s \in Members(e) /\ index \in 1..e.count /\ e.sessions[index] = s
    BY <1>3, <1>6
  <2>2. f = WithoutInactive(g)
    BY <1>5, <1>6
  <2>3. /\ g \in Encounters /\ g.count = e.count /\ g.sessions = e.sessions
        /\ g.channel = e.channel /\ g.release[index] > 0 /\ g.ready = e.ready
    BY <1>1, <2>1, WrittenFields
  <2> HIDE DEF g
  <2>4. \A j \in 1..e.count : g.ready[j] => e.ready[j] \/ e.sessions[j] = s
    BY <2>3
  <2>5. /\ Filled(g)
        /\ Members(g) = Members(e)
        /\ s \in Members(WithoutInactive(g))
    BY <2>1, <2>3, <2>4, RefreshedMember
  <2>6. ReadyMembers(g) = ReadyMembers(e)
    BY <2>3 DEF ReadyMembers
  <2>7. /\ Filled(f)
        /\ Members(f) \subseteq Members(g)
        /\ ReadyMembers(f) \subseteq ReadyMembers(g)
        /\ f.channel = g.channel
    BY <2>2, <2>5, WithoutInactiveIsFilled
  <2> QED BY <2>2, <2>3, <2>5, <2>6, <2>7
<1>7. CASE ~(index <= e.count) /\ p.count = MaxPlayers
  <2>1. f = p
    BY <1>5, <1>7
  <2>2. s \notin Members(e)
    BY <1>3, <1>7
  <2>3. ~(e.count < MaxPlayers)
    BY <1>2, <1>4, <1>7
  <2> QED BY <1>4, <2>1, <2>2, <2>3
<1>8. CASE ~(index <= e.count) /\ p.count # MaxPlayers
  <2>1. s \notin Members(e) /\ s \notin Members(p)
    BY <1>3, <1>4, <1>8
  <2>2. /\ Filled(q)
        /\ Members(q) = Members(p) \cup {s}
        /\ ReadyMembers(q) \subseteq ReadyMembers(p)
        /\ q.channel = 0
    BY <1>4, <1>8, <2>1, InsertedIsFilled
  <2> HIDE DEF q
  <2>3. q \in Encounters
    BY <2>2 DEF Filled
  <2>4. /\ q.release \in [Slots -> 0..ReleaseDelay]
        /\ q.botDate \in [Slots -> Nat]
        /\ q.ready \in [Slots -> BOOLEAN]
    BY <2>3 DEF Encounters
  <2>5. CASE index <= MaxPlayers
    <3> DEFINE r == [q.release EXCEPT ![index] = ReleaseDelay]
               b == [q.botDate EXCEPT ![index] = BotDelay]
               g == [q EXCEPT !.release = r, !.botDate = b]
    <3>1. f = [q EXCEPT !.release[index] = ReleaseDelay,
                        !.botDate[index] = BotDelay]
      BY <1>5, <1>8, <2>5
    <3>2. f = g
      <4>1. [q EXCEPT !.release[index] = ReleaseDelay] = [q EXCEPT !.release = r]
        BY <2>3 DEF Encounters
      <4> DEFINE h == [q EXCEPT !.release = r]
      <4>2. f = [h EXCEPT !.botDate[index] = BotDelay]
        BY <3>1, <4>1
      <4>3. h.botDate = q.botDate
        BY <2>3 DEF Encounters
      <4>4. [h EXCEPT !.botDate[index] = BotDelay] = [h EXCEPT !.botDate = b]
        BY <2>3, <4>3 DEF Encounters
      <4> QED BY <4>2, <4>4
    <3>3. r \in [Slots -> 0..ReleaseDelay] /\ b \in [Slots -> Nat]
      <4>1. index \in Slots
        BY <1>2, <1>3, <2>5 DEF Slots
      <4>2. ReleaseDelay \in 0..ReleaseDelay
        BY <1>2
      <4> QED BY <1>2, <2>4, <4>1, <4>2
    <3> HIDE DEF r, b
    <3>4. g \in Encounters
      BY <2>3, <3>3 DEF Encounters
    <3>5. /\ g.count = q.count /\ g.sessions = q.sessions
          /\ g.ready = q.ready /\ g.channel = q.channel
      BY <2>3 DEF Encounters
    <3> HIDE DEF g
    <3>6. /\ f \in Encounters /\ f.count = q.count /\ f.sessions = q.sessions
          /\ f.ready = q.ready /\ f.channel = q.channel
      BY <3>2, <3>4, <3>5
    <3>7. Filled(f) /\ Members(f) = Members(q)
      BY <2>2, <3>6, SameSessions
    <3>8. ReadyMembers(f) = ReadyMembers(q)
      BY <3>6 DEF ReadyMembers
    <3> QED BY <1>4, <2>2, <3>6, <3>7, <3>8
  <2>6. CASE ~(index <= MaxPlayers)
    <3>1. PICK flags \in [Slots -> BOOLEAN] :
            f = [q EXCEPT !.botDate[1] = ReleaseDelay, !.ready = flags]
      BY <1>5, <1>8, <2>6
    <3> DEFINE b == [q.botDate EXCEPT ![1] = ReleaseDelay]
               g == [q EXCEPT !.botDate = b, !.ready = flags]
    <3>2. f = g
      BY <2>3, <3>1 DEF Encounters
    <3>3. b \in [Slots -> Nat]
      BY <1>2, <2>4
    <3> HIDE DEF b
    <3>4. g \in Encounters
      BY <2>3, <3>3 DEF Encounters
    <3>5. g.count = q.count /\ g.sessions = q.sessions /\ g.channel = q.channel
      BY <2>3 DEF Encounters
    <3> HIDE DEF g
    <3>6. /\ f \in Encounters /\ f.count = q.count /\ f.sessions = q.sessions
          /\ f.channel = q.channel
      BY <3>2, <3>4, <3>5
    <3>7. Filled(f) /\ Members(f) = Members(q)
      BY <2>2, <3>6, SameSessions
    <3>8. ~(e.count < MaxPlayers)
      BY <1>2, <1>3, <2>6
    <3> QED BY <1>4, <2>1, <2>2, <3>6, <3>7, <3>8
  <2> QED BY <2>5, <2>6
<1> QED BY <1>6, <1>7, <1>8

\* A player accepts an encounter: it stays, and only this player becomes ready.
LEMMA AcceptedIsFilled ==
  ASSUME NEW e, Filled(e), NEW s \in Members(e), NEW now \in BOOLEAN
  PROVE  /\ Filled(Accepted(e, s, now))
         /\ Members(Accepted(e, s, now)) \subseteq Members(e)
         /\ ReadyMembers(Accepted(e, s, now)) \subseteq ReadyMembers(e) \cup {s}
         /\ s \in ReadyMembers(Accepted(e, s, now))
         /\ Accepted(e, s, now).channel = e.channel
         /\ e.channel # 0 => Members(Accepted(e, s, now)) = Members(e)
<1> DEFINE i == IndexOf(e, s)
           f == [e EXCEPT !.release[i] = ReleaseDelay, !.ready[i] = TRUE]
<1>1. e \in Encounters /\ Distinct(e)
  BY DEF Filled
<1>2. i \in 1..e.count /\ e.sessions[i] = s
  BY <1>1, IndexOfIs
<1> HIDE DEF i
<1>3. /\ f \in Encounters
      /\ f.count = e.count
      /\ f.sessions = e.sessions
      /\ f.channel = e.channel
      /\ f.release[i] > 0
      /\ f.ready[i]
      /\ \A j \in 1..e.count : j # i => f.ready[j] = e.ready[j]
  BY <1>1, <1>2, WrittenFields
<1> HIDE DEF f
<1>4. \A j \in 1..e.count : f.ready[j] => e.ready[j] \/ e.sessions[j] = s
  BY <1>2, <1>3
<1>5. /\ Filled(f)
      /\ Members(f) = Members(e)
      /\ ReadyMembers(f) \subseteq ReadyMembers(e) \cup {s}
  BY <1>2, <1>3, <1>4, RefreshedMember
<1>6. Accepted(e, s, now) =
        IF e.channel # 0 THEN f
        ELSE IF now THEN WithoutNonReady(WithoutInactive(f))
        ELSE WithoutInactive(f)
  BY DEF Accepted, f, i
<1> DEFINE h == WithoutInactive(f)
           k == WithoutNonReady(h)
<1>10. s \in ReadyMembers(f)
  BY <1>2, <1>3 DEF ReadyMembers
<1>7. /\ Filled(h)
      /\ s \in ReadyMembers(h)
      /\ Members(h) \subseteq Members(f)
      /\ ReadyMembers(h) \subseteq ReadyMembers(f)
      /\ h.channel = f.channel
  BY <1>2, <1>3, <1>5, WithoutInactiveIsFilled
<1> HIDE DEF h
<1>8. /\ Filled(k)
       /\ Members(k) = ReadyMembers(h)
       /\ ReadyMembers(k) = ReadyMembers(h)
       /\ k.channel = h.channel
  BY <1>7, WithoutNonReadyIsFilled
<1>9. ReadyMembers(h) \subseteq Members(h)
  BY DEF ReadyMembers, Members
<1> HIDE DEF k
<1> QED BY <1>3, <1>5, <1>6, <1>7, <1>8, <1>9, <1>10 DEF h, k

-----------------------------------------------------------------------------
(* The lobby of the server.                                                *)

\* The encounters in the service are made of distinct sessions, and their ids
\* have been given.
EncountersInv ==
  /\ encounters \in [Kinds -> [Ids -> Encounters \cup {Absent}]]
  /\ nextEncounter \in [Kinds -> Nat]
  /\ \A k \in Kinds : nextEncounter[k] \in 1..MaxEncounters[k] + 1
  /\ \A k \in Kinds, id \in Ids :
       Exists(k, id) => Filled(encounters[k][id]) /\ id < nextEncounter[k]

\* The sessions which the service of the random games believes to be in the
\* encounter id.
MappedTo(id) == {s \in Sessions : encounterOf[s] = id}

\* A session believed to be in an encounter is in it, unless its removal is
\* still to be handled.  The sessions which may come back without being looked
\* for an encounter have their place in it.
MappingInv ==
  /\ doneSessions \in SUBSET (Sessions \X Ids)
  /\ encounterOf \in [Sessions -> Ids \cup {0}]
  /\ \A s \in Sessions :
       encounterOf[s] # 0 => encounterOf[s] < nextEncounter["random"]
  /\ \A id \in Ids : Exists("random", id) =>
       LET in == Members(encounters["random"][id]) IN
       /\ \A s \in MappedTo(id) \ in : <<s, id>> \in doneSessions
       /\ Cardinality(in \cup MappedTo(id)) <= MaxPlayers

\* The channel of a session is the last game of which it is a player, if it is
\* still there.
GamesInv ==
  /\ games \in Seq([players : SUBSET Sessions, bot : BOOLEAN,
                    status : {"running", "over", "gone"}])
  /\ channelOf \in [Sessions -> Channels \cup {0}]
  /\ \A s \in Sessions :
       IF channelOf[s] # 0
       THEN /\ channelOf[s] \in GamesOf(s)
            /\ games[channelOf[s]].status # "gone"
            /\ \A d \in GamesOf(s) : d <= channelOf[s]
       ELSE \/ GamesOf(s) = {}
            \/ \E c \in GamesOf(s) : /\ games[c].status = "gone"
                                     /\ \A d \in GamesOf(s) : d <= c

\* The players of a launched encounter are players of its game.
LaunchesInv ==
  \A k \in Kinds, id \in Ids :
    LET e == encounters[k][id] IN
    Exists(k, id) /\ e.channel # 0 =>
      /\ e.channel \in DOMAIN games
      /\ Members(e) \subseteq games[e.channel].players

CleanUpInv ==
  /\ doneEncounters \in [Kinds -> SUBSET Ids]
  /\ autoStart \in [Ids -> [left : 0..AutoStartDelay, set : BOOLEAN]]
  /\ encounterNamed \in [Names -> Ids \cup {0}]

LobbyInv ==
  EncountersInv /\ MappingInv /\ GamesInv /\ LaunchesInv /\ CleanUpInv

\* An id without an encounter.
LEMMA AbsentIsNoEncounter ==
  Absent \notin Encounters /\ Members(Absent) = {} /\ ReadyMembers(Absent) = {}
<1>1. Absent \notin Encounters
  <2>1. \A e \in Encounters : DOMAIN e = {"count", "sessions", "release",
                                         "botDate", "ready", "channel"}
    BY DEF Encounters
  <2>2. DOMAIN Absent = {"count"}
    BY DEF Absent
  <2> QED BY <2>1, <2>2
<1>2. Absent.count = 0 /\ 1..0 = {}
  BY DEF Absent
<1>3. Members(Absent) = {} /\ ReadyMembers(Absent) = {}
  BY <1>2 DEF Members, ReadyMembers
<1> QED BY <1>1, <1>3

\* There are as many sessions as slots in use.
LEMMA CountOfMembers ==
  ASSUME NEW e, Filled(e)
  PROVE  IsFiniteSet(Members(e)) /\ Cardinality(Members(e)) = e.count
<1> DEFINE n == e.count
           f == [i \in 1..n |-> e.sessions[i]]
<1>1. n \in Nat /\ Distinct(e)
  BY EncounterConstants DEF Filled, Encounters
<1>2. f \in Injection(1..n, Members(e))
  BY <1>1 DEF Injection, IsInjective, Distinct, Members
<1>3. f \in Surjection(1..n, Members(e))
  BY DEF Surjection, Members
<1>4. ExistsBijection(1..n, Members(e))
  BY <1>2, <1>3 DEF ExistsBijection, Bijection
<1> HIDE DEF n
<1>5. Cardinality(Members(e)) = n
  BY <1>1, <1>4, FS_CountingElements
<1>6. IsFiniteSet(Members(e))
  BY <1>1, <1>4, FS_NatBijection
<1> QED BY <1>5, <1>6 DEF n

\* The two kinds of encounters, and their numbers.
LEMMA KindsAndIds ==
  /\ "random" \in Kinds /\ "named" \in Kinds
  /\ \A k \in Kinds, n \in Nat : n # 0 /\ n <= MaxEncounters[k] => n \in Ids
  /\ Ids \subseteq Nat /\ 0 \notin Ids
<1>1. \A k \in Kinds : MaxEncounters[k] \in Nat
  BY LobbyConstants DEF Kinds
<1>2. \A k \in Kinds, n \in Nat :
        n # 0 /\ n <= MaxEncounters[k] => n \in 1..MaxEncounters[k]
  BY <1>1
<1>3. \A k \in Kinds : 1..MaxEncounters[k] \subseteq Nat /\ 0 \notin 1..MaxEncounters[k]
  BY <1>1
<1> QED BY <1>2, <1>3 DEF Ids, Kinds

\* One encounter is written.
Writes(k, id, f) == encounters' = [encounters EXCEPT ![k][id] = f]

\* It alone changes.
LEMMA OneEncounter ==
  ASSUME EncountersInv, NEW k \in Kinds, NEW id \in Ids, NEW f, Writes(k, id, f)
  PROVE  /\ encounters'[k][id] = f
         /\ \A l \in Kinds, i \in Ids :
              l # k \/ i # id => encounters'[l][i] = encounters[l][i]
         /\ f \in Encounters \cup {Absent}
              => encounters' \in [Kinds -> [Ids -> Encounters \cup {Absent}]]
<1> DEFINE E == Encounters \cup {Absent}
           row == [encounters[k] EXCEPT ![id] = f]
<1>1. encounters \in [Kinds -> [Ids -> E]]
  BY DEF EncountersInv
<1> HIDE DEF E
<1>2. encounters' = [encounters EXCEPT ![k] = row]
  BY DEF Writes
<1>3. encounters[k] \in [Ids -> E]
  BY <1>1
<1>4. /\ row[id] = f
      /\ \A i \in Ids : i # id => row[i] = encounters[k][i]
      /\ f \in E => row \in [Ids -> E]
  BY <1>3
<1> HIDE DEF row
<1>5. encounters'[k] = row /\ \A l \in Kinds : l # k => encounters'[l] = encounters[l]
  BY <1>1, <1>2
<1>6. f \in E => encounters' \in [Kinds -> [Ids -> E]]
  BY <1>1, <1>2, <1>4
<1>7. encounters'[k][id] = f
  BY <1>4, <1>5
<1>8. \A l \in Kinds, i \in Ids :
        l # k \/ i # id => encounters'[l][i] = encounters[l][i]
  BY <1>4, <1>5
<1> QED BY <1>6, <1>7, <1>8 DEF E

\* The encounters stay right when a right one is written.
LEMMA FilledStays ==
  ASSUME EncountersInv, NEW k \in Kinds, NEW id \in Ids, NEW f, Filled(f),
         encounters' = [encounters EXCEPT ![k][id] = f],
         nextEncounter' \in [Kinds -> Nat],
         \A l \in Kinds : /\ nextEncounter'[l] \in 1..MaxEncounters[l] + 1
                          /\ nextEncounter[l] <= nextEncounter'[l],
         id < nextEncounter'[k]
  PROVE  EncountersInv'
<1>1. f \in Encounters
  BY DEF Filled
<1>2. /\ encounters' \in [Kinds -> [Ids -> Encounters \cup {Absent}]]
      /\ encounters'[k][id] = f
      /\ \A l \in Kinds, i \in Ids :
           l # k \/ i # id => encounters'[l][i] = encounters[l][i]
  <2>1. Writes(k, id, f) /\ f \in Encounters \cup {Absent}
    BY <1>1 DEF Writes
  <2> QED BY <2>1, OneEncounter
<1>3. ASSUME NEW l \in Kinds, NEW i \in Ids, Exists(l, i)'
      PROVE  Filled(encounters'[l][i]) /\ i < nextEncounter'[l]
  <2>1. CASE l = k /\ i = id
    BY <1>2, <2>1
  <2>2. CASE l # k \/ i # id
    <3>1. encounters'[l][i] = encounters[l][i]
      BY <1>2, <2>2
    <3>2. Exists(l, i)
      BY <1>3, <3>1 DEF Exists
    <3>3. Filled(encounters[l][i]) /\ i < nextEncounter[l]
      BY <3>2 DEF EncountersInv
    <3>4. i \in Nat /\ nextEncounter[l] \in Nat /\ nextEncounter'[l] \in Nat
          /\ nextEncounter[l] <= nextEncounter'[l]
      BY KindsAndIds DEF EncountersInv
    <3>5. i < nextEncounter'[l]
      BY <3>3, <3>4
    <3> QED BY <3>1, <3>3, <3>5
  <2> QED BY <2>1, <2>2
<1> QED BY <1>2, <1>3 DEF EncountersInv

\* A new game is the last one of its players, and of nobody else.
LEMMA NewGameIsLast ==
  ASSUME GamesInv, NEW f, Filled(f), NEW bot \in BOOLEAN, NewGame(f, bot)
  PROVE  /\ GamesInv'
         /\ Len(games) + 1 \in DOMAIN games'
         /\ games'[Len(games) + 1].players = Members(f)
         /\ \A c \in DOMAIN games : c \in DOMAIN games' /\ games'[c] = games[c]
<1> DEFINE n == Len(games)
           m == n + 1
           Games == [players : SUBSET Sessions, bot : BOOLEAN,
                     status : {"running", "over", "gone"}]
           g == [players |-> Members(f), bot |-> bot, status |-> "running"]
<1>1. games \in Seq(Games) /\ channelOf \in [Sessions -> Channels \cup {0}]
  BY DEF GamesInv
<1>2. /\ n < MaxGames
      /\ games' = Append(games, g)
      /\ channelOf' = [s \in Sessions |-> IF s \in Members(f) THEN m
                                          ELSE channelOf[s]]
  BY DEF NewGame
<1>3. g \in Games /\ g.players = Members(f) /\ g.status = "running"
  BY DEF Filled
<1> HIDE DEF g
<1>4. /\ games' \in Seq(Games)
      /\ DOMAIN games = 1..n /\ DOMAIN games' = 1..m /\ n \in Nat
      /\ games'[m] = g
      /\ \A c \in 1..n : games'[c] = games[c]
  <2> HIDE DEF Games
  <2> QED BY <1>1, <1>2, <1>3
<1>5. m \in Channels /\ m \in Nat /\ m # 0 /\ m \in 1..m /\ 1..m = (1..n) \cup {m}
  BY <1>2, <1>4, LobbyConstants DEF Channels
<1>6. channelOf' \in [Sessions -> Channels \cup {0}]
  BY <1>1, <1>2, <1>5
<1>7. ASSUME NEW s \in Sessions
      PROVE  IF channelOf'[s] # 0
             THEN /\ channelOf'[s] \in GamesOf(s)'
                  /\ games'[channelOf'[s]].status # "gone"
                  /\ \A d \in GamesOf(s)' : d <= channelOf'[s]
             ELSE \/ GamesOf(s)' = {}
                  \/ \E c \in GamesOf(s)' : /\ games'[c].status = "gone"
                                            /\ \A d \in GamesOf(s)' : d <= c
  <2>1. CASE s \in Members(f)
    <3>1. channelOf'[s] = m
      BY <1>2, <2>1
    <3>2. m \in GamesOf(s)' /\ games'[m].status # "gone"
      BY <1>3, <1>4, <1>5, <2>1 DEF GamesOf
    <3>3. \A d \in 1..m : d <= m
      BY <1>4
    <3>4. \A d \in GamesOf(s)' : d <= m
      BY <1>4, <3>3 DEF GamesOf
    <3> HIDE DEF m
    <3> QED BY <1>5, <3>1, <3>2, <3>4
  <2>2. CASE s \notin Members(f)
    <3>1. channelOf'[s] = channelOf[s]
      BY <1>2, <2>2
    <3>2. GamesOf(s)' = GamesOf(s)
      BY <1>3, <1>4, <1>5, <2>2 DEF GamesOf
    <3>3. \A c \in GamesOf(s) : games'[c] = games[c]
      BY <1>4 DEF GamesOf
    <3> QED BY <3>1, <3>2, <3>3 DEF GamesInv
  <2> QED BY <2>1, <2>2
<1> QED BY <1>3, <1>4, <1>5, <1>6, <1>7 DEF GamesInv

\* When its last game ends, a session is still known to be in it; when it is
\* cleaned up, the session is forgotten.
LEMMA StatusChanges ==
  ASSUME GamesInv, NEW c \in DOMAIN games, FinishGame(c) \/ CleanUpGame(c)
  PROVE  /\ GamesInv'
         /\ DOMAIN games' = DOMAIN games
         /\ \A d \in DOMAIN games : games'[d].players = games[d].players
<1> DEFINE Games == [players : SUBSET Sessions, bot : BOOLEAN,
                     status : {"running", "over", "gone"}]
<1>1. games \in Seq(Games) /\ channelOf \in [Sessions -> Channels \cup {0}]
  BY DEF GamesInv
<1>2. PICK status \in {"over", "gone"} :
        /\ games' = [games EXCEPT ![c].status = status]
        /\ channelOf' = IF status = "gone" THEN ChannelsLeft(c) ELSE channelOf
        /\ status = "over" => games[c].status = "running"
  BY DEF FinishGame, CleanUpGame
<1>3. /\ [games[c] EXCEPT !.status = status] \in Games
      /\ [games[c] EXCEPT !.status = status].players = games[c].players
      /\ [games[c] EXCEPT !.status = status].status = status
  <2> DEFINE g == games[c]
             h == [g EXCEPT !.status = status]
  <2>1. g \in Games
    <3> HIDE DEF Games
    <3> QED BY <1>1
  <2> HIDE DEF g
  <2>2. h \in Games /\ h.players = g.players /\ h.status = status
    BY <1>2, <2>1
  <2> QED BY <2>2 DEF g
<1>4. /\ games' \in Seq(Games)
      /\ DOMAIN games' = DOMAIN games
      /\ games'[c] = [games[c] EXCEPT !.status = status]
      /\ \A d \in DOMAIN games : d # c => games'[d] = games[d]
  <2> DEFINE g == [games[c] EXCEPT !.status = status]
  <2>1. games' = [games EXCEPT ![c] = g]
    BY <1>2
  <2> HIDE DEF g, Games
  <2>2. g \in Games
    BY <1>3 DEF g
  <2>3. [games EXCEPT ![c] = g] \in Seq(Games)
    BY <1>1, <2>2
  <2> QED BY <1>1, <2>1, <2>3 DEF g
<1> HIDE DEF Games
<1>5. \A d \in DOMAIN games : games'[d].players = games[d].players
  BY <1>3, <1>4
<1>6. \A s \in Sessions : GamesOf(s)' = GamesOf(s)
  BY <1>4, <1>5 DEF GamesOf
<1>7. channelOf' \in [Sessions -> Channels \cup {0}]
  BY <1>1, <1>2 DEF ChannelsLeft
<1>8. games'[c].status = status /\ \A d \in DOMAIN games : d # c => games'[d] = games[d]
  BY <1>3, <1>4
<1>9. ASSUME NEW s \in Sessions
      PROVE  IF channelOf'[s] # 0
             THEN /\ channelOf'[s] \in GamesOf(s)
                  /\ games'[channelOf'[s]].status # "gone"
                  /\ \A d \in GamesOf(s) : d <= channelOf'[s]
             ELSE \/ GamesOf(s) = {}
                  \/ \E d \in GamesOf(s) : /\ games'[d].status = "gone"
                                           /\ \A b \in GamesOf(s) : b <= d
  <2>1. GamesOf(s) \subseteq DOMAIN games
    BY DEF GamesOf
  <2>2. CASE channelOf[s] = c /\ status = "gone"
    <3>1. c # 0 => c \in GamesOf(s) /\ \A d \in GamesOf(s) : d <= c
      BY <2>2 DEF GamesInv
    <3>2. c # 0
      BY <1>1
    <3>3. s \in games[c].players
      BY <3>1, <3>2 DEF GamesOf
    <3>4. channelOf'[s] = 0
      BY <1>2, <2>2, <3>3 DEF ChannelsLeft
    <3> QED BY <1>8, <2>2, <3>1, <3>2, <3>4
  <2>3. CASE ~(channelOf[s] = c /\ status = "gone")
    <3>1. channelOf'[s] = channelOf[s]
      BY <1>2, <2>3 DEF ChannelsLeft
    <3>2. CASE channelOf[s] # 0
      <4>1. /\ channelOf[s] \in GamesOf(s)
            /\ games[channelOf[s]].status # "gone"
            /\ \A d \in GamesOf(s) : d <= channelOf[s]
        BY <3>2 DEF GamesInv
      <4>2. games'[channelOf[s]].status # "gone"
        BY <1>2, <1>8, <2>1, <2>3, <4>1
      <4> QED BY <3>1, <3>2, <4>1, <4>2
    <3>3. CASE channelOf[s] = 0 /\ GamesOf(s) # {}
      <4>1. PICK d \in GamesOf(s) : /\ games[d].status = "gone"
                                    /\ \A b \in GamesOf(s) : b <= d
        BY <3>3 DEF GamesInv
      <4>2. games'[d].status = "gone"
        BY <1>2, <1>8, <2>1, <4>1
      <4> QED BY <3>1, <3>3, <4>1, <4>2
    <3> QED BY <3>1, <3>2, <3>3
  <2> QED BY <2>2, <2>3
<1>10. ASSUME NEW s \in Sessions
       PROVE  IF channelOf'[s] # 0
              THEN /\ channelOf'[s] \in GamesOf(s)'
                   /\ games'[channelOf'[s]].status # "gone"
                   /\ \A d \in GamesOf(s)' : d <= channelOf'[s]
              ELSE \/ GamesOf(s)' = {}
                   \/ \E d \in GamesOf(s)' : /\ games'[d].status = "gone"
                                             /\ \A b \in GamesOf(s)' : b <= d
  BY <1>6, <1>9
<1> QED BY <1>4, <1>5, <1>7, <1>10 DEF GamesInv, Games


-----------------------------------------------------------------------------
(* The actions of the lobby.                                               *)

\* The lobby starts with nothing.
LEMMA StartIsRight == ASSUME Init PROVE LobbyInv
<1>1. \A k \in Kinds, id \in Ids : encounters[k][id] = Absent
  BY DEF Init
<1>2. \A k \in Kinds, id \in Ids : ~Exists(k, id)
  BY <1>1 DEF Exists
<1>3. EncountersInv
  <2>1. encounters \in [Kinds -> [Ids -> Encounters \cup {Absent}]]
    BY DEF Init
  <2>2. nextEncounter \in [Kinds -> Nat] /\ \A k \in Kinds : nextEncounter[k] = 1
    BY DEF Init
  <2>3. \A k \in Kinds : MaxEncounters[k] \in Nat
    BY LobbyConstants DEF Kinds
  <2>4. \A k \in Kinds : 1 \in 1..MaxEncounters[k] + 1
    BY <2>3
  <2> QED BY <1>2, <2>1, <2>2, <2>4 DEF EncountersInv
<1>4. MappingInv
  BY <1>2, KindsAndIds DEF Init, MappingInv
<1>5. GamesInv
  BY DEF Init, GamesInv, GamesOf
<1>6. LaunchesInv
  BY <1>2 DEF LaunchesInv
<1>7. CleanUpInv
  BY LobbyConstants DEF Init, CleanUpInv, Unset
<1> QED BY <1>3, <1>4, <1>5, <1>6, <1>7 DEF LobbyInv

\* The encounters launched stay in their games when an encounter is written
\* which is not launched, or whose players are in its game.
LEMMA LaunchesStay ==
  ASSUME EncountersInv, LaunchesInv, NEW k \in Kinds, NEW id \in Ids, NEW f,
         encounters' = [encounters EXCEPT ![k][id] = f],
         \A c \in DOMAIN games : /\ c \in DOMAIN games'
                                 /\ games'[c].players = games[c].players,
         \/ f = Absent
         \/ f.channel = 0
         \/ /\ f.channel \in DOMAIN games'
            /\ Members(f) \subseteq games'[f.channel].players
  PROVE  LaunchesInv'
<1>1. /\ encounters'[k][id] = f
      /\ \A l \in Kinds, i \in Ids :
           l # k \/ i # id => encounters'[l][i] = encounters[l][i]
  BY DEF EncountersInv
<1>2. ASSUME NEW l \in Kinds, NEW i \in Ids,
             Exists(l, i)', encounters'[l][i].channel # 0
      PROVE  /\ encounters'[l][i].channel \in DOMAIN games'
             /\ Members(encounters'[l][i])
                  \subseteq games'[encounters'[l][i].channel].players
  <2>1. CASE l = k /\ i = id
    BY <1>1, <1>2, <2>1 DEF Exists
  <2>2. CASE l # k \/ i # id
    <3>1. encounters'[l][i] = encounters[l][i]
      BY <1>1, <2>2
    <3>2. Exists(l, i) /\ encounters[l][i].channel # 0
      BY <1>2, <3>1 DEF Exists
    <3>3. /\ encounters[l][i].channel \in DOMAIN games
          /\ Members(encounters[l][i])
               \subseteq games[encounters[l][i].channel].players
      BY <3>2 DEF LaunchesInv
    <3> QED BY <3>1, <3>3
  <2> QED BY <2>1, <2>2
<1>3. \A l \in Kinds, i \in Ids :
        Exists(l, i)' /\ encounters'[l][i].channel # 0 =>
          /\ encounters'[l][i].channel \in DOMAIN games'
          /\ Members(encounters'[l][i])
               \subseteq games'[encounters'[l][i].channel].players
  BY <1>2
<1> QED BY <1>3 DEF LaunchesInv

\* After a clean-up, the sessions believed to be in an encounter are in it.
LEMMA CleanMapping ==
  ASSUME EncountersInv', doneSessions' = {},
         encounterOf' \in [Sessions -> Ids \cup {0}],
         \A s \in Sessions :
           encounterOf'[s] # 0 => encounterOf'[s] < nextEncounter'["random"],
         \A s \in Sessions, id \in Ids :
           encounterOf'[s] = id /\ Exists("random", id)'
             => s \in Members(encounters'["random"][id])
  PROVE  MappingInv'
<1>1. ASSUME NEW id \in Ids, Exists("random", id)'
      PROVE  LET in == Members(encounters'["random"][id]) IN
             /\ \A s \in MappedTo(id)' \ in : <<s, id>> \in doneSessions'
             /\ Cardinality(in \cup MappedTo(id)') <= MaxPlayers
  <2> DEFINE e == encounters'["random"][id]
             in == Members(e)
  <2>1. MappedTo(id)' \subseteq in
    BY <1>1 DEF MappedTo
  <2>2. Filled(e)
    BY <1>1, KindsAndIds DEF EncountersInv
  <2>3. Cardinality(in) = e.count /\ e.count <= MaxPlayers
    BY <2>2, CountOfMembers, EncounterConstants DEF Filled, Encounters
  <2> HIDE DEF in, e
  <2>4. in \cup MappedTo(id)' = in
    BY <2>1
  <2>5. Cardinality(in \cup MappedTo(id)') <= MaxPlayers
    BY <2>3, <2>4
  <2> QED BY <2>1, <2>5 DEF in, e
<1> QED BY <1>1 DEF MappingInv

\* The mapping follows the random encounters: nothing changes in it with them.
LEMMA SameMapping ==
  ASSUME MappingInv, UNCHANGED <<doneSessions, encounterOf>>,
         nextEncounter'["random"] = nextEncounter["random"],
         \A id \in Ids :
           Exists("random", id)' =>
             /\ Exists("random", id)
             /\ Members(encounters'["random"][id])
                  = Members(encounters["random"][id])
  PROVE  MappingInv'
<1>1. \A id \in Ids : MappedTo(id)' = MappedTo(id)
  BY DEF MappedTo
<1>2. ASSUME NEW id \in Ids, Exists("random", id)'
      PROVE  LET in == Members(encounters'["random"][id]) IN
             /\ \A s \in MappedTo(id)' \ in : <<s, id>> \in doneSessions'
             /\ Cardinality(in \cup MappedTo(id)') <= MaxPlayers
  <2>1. Exists("random", id)
    BY <1>2
  <2>2. /\ \A s \in MappedTo(id) \ Members(encounters["random"][id]) :
             <<s, id>> \in doneSessions
        /\ Cardinality(Members(encounters["random"][id]) \cup MappedTo(id))
             <= MaxPlayers
    BY <2>1 DEF MappingInv
  <2>3. Members(encounters'["random"][id]) = Members(encounters["random"][id])
    BY <1>2
  <2> QED BY <1>1, <2>2, <2>3
<1> QED BY <1>2 DEF MappingInv

\* Nobody becomes ready in a random encounter.
NobodyReady ==
  \A id \in Ids : ReadyMembers(encounters'["random"][id])
                    \subseteq ReadyMembers(encounters["random"][id])

\* Nobody is ready in an encounter that did not get a ready member.
LEMMA ReadyStays ==
  ASSUME EncountersInv, NEW k \in Kinds, NEW id \in Ids, NEW f,
         encounters' = [encounters EXCEPT ![k][id] = f],
         k = "random" => ReadyMembers(f) \subseteq ReadyMembers(encounters[k][id])
  PROVE  NobodyReady
<1>1. /\ encounters'[k][id] = f
      /\ \A l \in Kinds, i \in Ids :
           l # k \/ i # id => encounters'[l][i] = encounters[l][i]
  BY DEF EncountersInv
<1>2. ASSUME NEW i \in Ids
      PROVE  ReadyMembers(encounters'["random"][i])
               \subseteq ReadyMembers(encounters["random"][i])
  <2>1. CASE k = "random" /\ i = id
    BY <1>1, <2>1
  <2>2. CASE k # "random" \/ i # id
    <3>1. encounters'["random"][i] = encounters["random"][i]
      BY <1>1, <2>2, KindsAndIds
    <3> QED BY <3>1
  <2> QED BY <2>1, <2>2
<1> QED BY <1>2 DEF NobodyReady

\* A session which is believed to be in an encounter has its place there.
LEMMA PlaceIsKept ==
  ASSUME EncountersInv, MappingInv, NEW s \in Sessions, NEW id \in Ids,
         Exists("random", id), encounterOf[s] = id
  PROVE  \/ encounters["random"][id].count < MaxPlayers
         \/ s \in Members(encounters["random"][id])
<1> DEFINE e == encounters["random"][id]
           in == Members(e)
           all == in \cup MappedTo(id)
<1>1. Filled(e)
  BY KindsAndIds DEF EncountersInv
<1>2. IsFiniteSet(in) /\ Cardinality(in) = e.count
  BY <1>1, CountOfMembers
<1>3. /\ in \subseteq Sessions
      /\ e.count \in Nat /\ e.count <= MaxPlayers /\ MaxPlayers \in Nat
  BY <1>1, EncounterConstants DEF Filled, Encounters
<1>4. Cardinality(all) <= MaxPlayers
  BY DEF MappingInv
<1>5. s \in MappedTo(id) /\ MappedTo(id) \subseteq Sessions
  BY DEF MappedTo
<1> HIDE DEF e, in
<1>6. IsFiniteSet(all)
  BY <1>3, <1>5, EncounterConstants, FS_Subset
<1>7. SUFFICES ASSUME s \notin in
               PROVE  e.count < MaxPlayers
  BY DEF e, in
<1>8. IsFiniteSet(in \cup {s}) /\ Cardinality(in \cup {s}) = e.count + 1
  BY <1>2, <1>7, FS_AddElement
<1>9. in \cup {s} \in SUBSET all
  BY <1>5
<1> HIDE DEF all
<1>10. Cardinality(in \cup {s}) <= Cardinality(all)
  BY <1>6, <1>9, FS_Subset
<1>11. e.count + 1 <= Cardinality(all) /\ Cardinality(all) \in Nat
  BY <1>6, <1>8, <1>10, FS_CardinalityType
<1>12. Cardinality(all) <= MaxPlayers
  BY <1>4 DEF all
<1> QED BY <1>3, <1>11, <1>12

\* A player on hold stays, whoever leaves.
LEMMA KeepWaitingIsRight ==
  ASSUME LobbyInv, NEW s \in Sessions, KeepWaiting(s)
  PROVE  /\ LobbyInv' /\ NobodyReady
         /\ encounterOf[s] \in Ids
         /\ encounterOf[s] < nextEncounter["random"]
         /\ Exists("random", encounterOf[s])
         /\ encounters["random"][encounterOf[s]].channel = 0
         /\ encounters'["random"][encounterOf[s]].channel = 0
<1> DEFINE id == encounterOf[s]
           e == encounters["random"][id]
<1>0. EncountersInv /\ MappingInv /\ GamesInv /\ LaunchesInv /\ CleanUpInv
  BY DEF LobbyInv
<1>1. /\ id \in Ids /\ Exists("random", id) /\ e.channel = 0
      /\ UNCHANGED <<nextEncounter, doneEncounters, encounterOf, autoStart,
                     encounterNamed, games, channelOf>>
  BY DEF KeepWaiting, Refreshable, Exists, registry
<1>2. Filled(e) /\ id < nextEncounter["random"] /\ "random" \in Kinds
  BY <1>0, <1>1, KindsAndIds DEF EncountersInv
<1>3. PICK f \in Refreshed(e, s) :
        /\ encounters' = [encounters EXCEPT !["random"][id] = f]
        /\ doneSessions' = doneSessions \cup Kicks(id, e, f)
  BY DEF KeepWaiting
<1> HIDE DEF id, e
<1>4. e.count < MaxPlayers \/ s \in Members(e)
  BY <1>0, <1>1, PlaceIsKept DEF id, e
<1>5. /\ Filled(f) /\ Members(f) \subseteq Members(e) \cup {s} /\ f.channel = 0
      /\ s \in Members(f) /\ ReadyMembers(f) \subseteq ReadyMembers(e)
  BY <1>1, <1>2, <1>4, RefreshedIsFilled
<1>6. EncountersInv'
  <2>1. /\ nextEncounter' \in [Kinds -> Nat]
        /\ \A l \in Kinds : /\ nextEncounter'[l] \in 1..MaxEncounters[l] + 1
                            /\ nextEncounter[l] <= nextEncounter'[l]
        /\ id < nextEncounter'["random"]
    BY <1>0, <1>1, <1>2 DEF EncountersInv
  <2> QED BY <1>0, <1>1, <1>2, <1>3, <1>5, <2>1, FilledStays
<1>7. LaunchesInv'
  BY <1>0, <1>1, <1>2, <1>3, <1>5, LaunchesStay
<1>8. NobodyReady
  BY <1>0, <1>1, <1>2, <1>3, <1>5, ReadyStays DEF e
<1>9. /\ encounters'["random"][id] = f
      /\ \A i \in Ids : i # id =>
           encounters'["random"][i] = encounters["random"][i]
  BY <1>0, <1>1, <1>2, <1>3 DEF EncountersInv
<1>10. MappingInv'
  <2>1. /\ doneSessions' \in SUBSET (Sessions \X Ids)
        /\ doneSessions \subseteq doneSessions'
        /\ \A t \in Members(e) \ Members(f) : <<t, id>> \in doneSessions'
    BY <1>0, <1>1, <1>2, <1>3 DEF MappingInv, Kicks, Filled
  <2>2. encounterOf' \in [Sessions -> Ids \cup {0}]
        /\ \A t \in Sessions :
             encounterOf'[t] # 0 => encounterOf'[t] < nextEncounter'["random"]
    BY <1>0, <1>1 DEF MappingInv
  <2>3. \A i \in Ids : MappedTo(i)' = MappedTo(i)
    BY <1>1 DEF MappedTo
  <2>4. ASSUME NEW i \in Ids, Exists("random", i)'
        PROVE  LET in == Members(encounters'["random"][i]) IN
               /\ \A t \in MappedTo(i)' \ in : <<t, i>> \in doneSessions'
               /\ Cardinality(in \cup MappedTo(i)') <= MaxPlayers
    <3>1. CASE i = id
      <4> DEFINE new == Members(f) \cup MappedTo(id)
                 old == Members(e) \cup MappedTo(id)
      <4>1. /\ \A t \in MappedTo(id) \ Members(e) : <<t, id>> \in doneSessions
            /\ Cardinality(old) <= MaxPlayers
        BY <1>0, <1>1 DEF MappingInv, e
      <4>2. \A t \in MappedTo(id) \ Members(f) : <<t, id>> \in doneSessions'
        BY <2>1, <4>1
      <4>3. s \in MappedTo(id) /\ MappedTo(id) \subseteq Sessions
        BY DEF MappedTo, id
      <4>4. new \in SUBSET old /\ old \subseteq Sessions
        BY <1>2, <1>5, <4>3 DEF Filled
      <4> HIDE DEF new, old
      <4>5. IsFiniteSet(old)
        BY <4>4, EncounterConstants, FS_Subset
      <4>6. IsFiniteSet(new) /\ Cardinality(new) <= Cardinality(old)
        BY <4>4, <4>5, FS_Subset
      <4>7. Cardinality(new) \in Nat /\ Cardinality(old) \in Nat
        BY <4>5, <4>6, FS_CardinalityType
      <4>8. Cardinality(new) <= MaxPlayers
        BY <4>1, <4>6, <4>7, EncounterConstants
      <4> QED BY <1>9, <2>3, <3>1, <4>2, <4>8 DEF new
    <3>2. CASE i # id
      <4>1. encounters'["random"][i] = encounters["random"][i]
        BY <1>9, <3>2
      <4>2. Exists("random", i)
        BY <2>4, <4>1 DEF Exists
      <4>3. LET in == Members(encounters["random"][i]) IN
            /\ \A t \in MappedTo(i) \ in : <<t, i>> \in doneSessions
            /\ Cardinality(in \cup MappedTo(i)) <= MaxPlayers
        BY <1>0, <4>2 DEF MappingInv
      <4> QED BY <2>1, <2>3, <4>1, <4>3
    <3> QED BY <3>1, <3>2
  <2> QED BY <2>1, <2>2, <2>4 DEF MappingInv
<1>11. GamesInv' /\ CleanUpInv'
  BY <1>0, <1>1 DEF GamesInv, CleanUpInv, GamesOf
<1> QED
  BY <1>1, <1>2, <1>5, <1>6, <1>7, <1>8, <1>9, <1>10, <1>11 DEF LobbyInv, id, e

\* The clean-up which follows the change of the encounter id into f: the
\* sessions in kicked, and those of whom the mapping says nothing, are forgotten.
Cleans(id, f, map, kicked) ==
  /\ encounters' = [encounters EXCEPT !["random"][id] = f]
  /\ map \in [Sessions -> Ids \cup {0}]
  /\ encounterOf' = Mapping(map, kicked) /\ doneSessions' = {}
  /\ doneSessions \subseteq kicked
  /\ \A t \in Sessions :
       /\ map[t] # 0 => map[t] < nextEncounter'["random"]
       /\ map[t] = encounterOf[t] \/ (map[t] = id /\ t \in Members(f))
       /\ encounterOf[t] = id /\ f # Absent
            => t \in Members(f) \/ <<t, id>> \in kicked

\* The sessions it leaves in the mapping are in the encounter.
LEMMA CleanedMapping ==
  ASSUME EncountersInv, MappingInv, EncountersInv', NEW id \in Ids, NEW f,
         NEW map, NEW kicked, Cleans(id, f, map, kicked)
  PROVE  MappingInv'
<1>0. /\ encounters' = [encounters EXCEPT !["random"][id] = f]
      /\ map \in [Sessions -> Ids \cup {0}]
      /\ encounterOf' = Mapping(map, kicked) /\ doneSessions' = {}
      /\ doneSessions \subseteq kicked
      /\ \A t \in Sessions :
           /\ map[t] # 0 => map[t] < nextEncounter'["random"]
           /\ map[t] = encounterOf[t] \/ (map[t] = id /\ t \in Members(f))
           /\ encounterOf[t] = id /\ f # Absent
                => t \in Members(f) \/ <<t, id>> \in kicked
  BY DEF Cleans
<1>1. /\ encounterOf' \in [Sessions -> Ids \cup {0}]
      /\ \A t \in Sessions :
           encounterOf'[t] # 0 => /\ encounterOf'[t] = map[t]
                                  /\ <<t, map[t]>> \notin kicked
  BY <1>0 DEF Mapping
<1>2. /\ encounters'["random"][id] = f
      /\ \A i \in Ids : i # id =>
           encounters'["random"][i] = encounters["random"][i]
  BY <1>0, KindsAndIds DEF EncountersInv
<1>3. ASSUME NEW t \in Sessions, NEW i \in Ids,
             encounterOf'[t] = i, Exists("random", i)'
      PROVE  t \in Members(encounters'["random"][i])
  <2>1. map[t] = i /\ <<t, i>> \notin kicked
    BY <1>1, <1>3, KindsAndIds
  <2>2. CASE i = id
    <3>1. f # Absent
      BY <1>2, <1>3, <2>2 DEF Exists
    <3>2. encounterOf[t] = id \/ t \in Members(f)
      BY <1>0, <2>1, <2>2
    <3> QED BY <1>0, <1>2, <2>1, <2>2, <3>1, <3>2
  <2>3. CASE i # id
    <3>1. encounterOf[t] = i
      BY <1>0, <2>1, <2>3
    <3>2. Exists("random", i)
      BY <1>2, <1>3, <2>3 DEF Exists
    <3>3. t \in Members(encounters["random"][i]) \/ <<t, i>> \in doneSessions
      BY <3>1, <3>2 DEF MappingInv, MappedTo
    <3> QED BY <1>0, <1>2, <2>1, <2>3, <3>3
  <2> QED BY <2>2, <2>3
<1>4. \A t \in Sessions :
        encounterOf'[t] # 0 => encounterOf'[t] < nextEncounter'["random"]
  BY <1>0, <1>1
<1> QED BY <1>0, <1>1, <1>3, <1>4, CleanMapping

\* The clean-ups of the two services keep their dates right.
LEMMA CleanUpsStay ==
  ASSUME CleanUpInv
  PROVE  /\ \A dates \in [Ids -> [left : 0..AutoStartDelay, set : BOOLEAN]] :
              /\ CleanUpRandom(dates) /\ UNCHANGED encounterNamed => CleanUpInv'
         /\ \A map \in [Names -> Ids \cup {0}] :
              /\ CleanUpNamed(map) /\ UNCHANGED autoStart => CleanUpInv'
<1>1. \A D : [doneEncounters EXCEPT ![D] = {}] \in [Kinds -> SUBSET Ids]
  BY DEF CleanUpInv
<1>2. Unset \in [left : 0..AutoStartDelay, set : BOOLEAN]
  BY LobbyConstants DEF Unset
<1>3. ASSUME NEW dates \in [Ids -> [left : 0..AutoStartDelay, set : BOOLEAN]],
             CleanUpRandom(dates), UNCHANGED encounterNamed
      PROVE  CleanUpInv'
  BY <1>1, <1>2, <1>3 DEF CleanUpInv, CleanUpRandom
<1>4. ASSUME NEW map \in [Names -> Ids \cup {0}],
             CleanUpNamed(map), UNCHANGED autoStart
      PROVE  CleanUpInv'
  BY <1>1, <1>4 DEF CleanUpInv, CleanUpNamed
<1> QED BY <1>3, <1>4

\* A player enters an encounter which has a place.
LEMMA JoinRandomIsRight ==
  ASSUME LobbyInv, NEW s \in Sessions, NEW id \in Ids, JoinRandomIn(s, id)
  PROVE  /\ LobbyInv' /\ NobodyReady
         /\ id < nextEncounter["random"]
         /\ Exists("random", id)
         /\ encounters["random"][id].channel = 0
         /\ encounters'["random"][id].channel = 0
<1> DEFINE e == encounters["random"][id]
<1>0. EncountersInv /\ MappingInv /\ GamesInv /\ LaunchesInv /\ CleanUpInv
  BY DEF LobbyInv
<1>1. /\ Exists("random", id) /\ e.channel = 0 /\ e.count < MaxPlayers
      /\ UNCHANGED <<nextEncounter, encounterNamed, games, channelOf>>
  BY DEF JoinRandomIn, Joinable, registry
<1>2. Filled(e) /\ id < nextEncounter["random"] /\ "random" \in Kinds
  BY <1>0, <1>1, KindsAndIds DEF EncountersInv
<1>3. PICK f \in Refreshed(e, s) :
        LET kicked == doneSessions \cup Kicks(id, e, f) IN
        /\ encounters' = [encounters EXCEPT !["random"][id] = f]
        /\ encounterOf' = Mapping([encounterOf EXCEPT ![s] = id], kicked)
        /\ CleanUpRandom(autoStart)
  BY DEF JoinRandomIn
<1> HIDE DEF e
<1>4. /\ Filled(f) /\ Members(f) \subseteq Members(e) \cup {s} /\ f.channel = 0
      /\ s \in Members(f) /\ ReadyMembers(f) \subseteq ReadyMembers(e)
  BY <1>1, <1>2, RefreshedIsFilled
<1>5. EncountersInv'
  <2>1. /\ nextEncounter' \in [Kinds -> Nat]
        /\ \A l \in Kinds : /\ nextEncounter'[l] \in 1..MaxEncounters[l] + 1
                            /\ nextEncounter[l] <= nextEncounter'[l]
        /\ id < nextEncounter'["random"]
    BY <1>0, <1>1, <1>2 DEF EncountersInv
  <2> QED BY <1>0, <1>2, <1>3, <1>4, <2>1, FilledStays
<1>6. LaunchesInv'
  BY <1>0, <1>1, <1>2, <1>3, <1>4, LaunchesStay
<1>7. NobodyReady
  BY <1>0, <1>2, <1>3, <1>4, ReadyStays DEF e
<1>8. MappingInv'
  <2> DEFINE map == [encounterOf EXCEPT ![s] = id]
             kicked == doneSessions \cup Kicks(id, e, f)
  <2>1. map \in [Sessions -> Ids \cup {0}]
        /\ \A t \in Sessions : map[t] = IF t = s THEN id ELSE encounterOf[t]
    BY <1>0 DEF MappingInv
  <2>2. encounterOf' = Mapping(map, kicked) /\ doneSessions' = {}
        /\ doneSessions \subseteq kicked
    BY <1>3 DEF CleanUpRandom
  <2>3. \A t \in Sessions : map[t] # 0 => map[t] < nextEncounter'["random"]
    BY <1>0, <1>1, <1>2, <2>1 DEF MappingInv
  <2>4. \A t \in Sessions :
          encounterOf[t] = id => t \in Members(f) \/ <<t, id>> \in kicked
    <3> SUFFICES ASSUME NEW t \in Sessions, encounterOf[t] = id,
                        t \notin Members(f)
                 PROVE  <<t, id>> \in kicked
      OBVIOUS
    <3>1. t \in Members(e) \/ <<t, id>> \in doneSessions
      BY <1>0, <1>1 DEF MappingInv, MappedTo, e
    <3> QED BY <3>1 DEF Kicks
  <2>5. \A t \in Sessions :
          map[t] = encounterOf[t] \/ (map[t] = id /\ t \in Members(f))
    BY <1>4, <2>1
  <2>6. encounters' = [encounters EXCEPT !["random"][id] = f]
    BY <1>3
  <2> HIDE DEF map, kicked
  <2>7. Cleans(id, f, map, kicked)
    BY <2>1, <2>2, <2>3, <2>4, <2>5, <2>6 DEF Cleans
  <2> QED BY <1>0, <1>5, <2>7, CleanedMapping
<1>9. GamesInv'
  BY <1>0, <1>1 DEF GamesInv, GamesOf
<1>10. CleanUpInv'
  <2>1. autoStart \in [Ids -> [left : 0..AutoStartDelay, set : BOOLEAN]]
    BY <1>0 DEF CleanUpInv
  <2> QED BY <1>0, <1>1, <1>3, <2>1, CleanUpsStay
<1>11. encounters'["random"][id] = f
  BY <1>0, <1>2, <1>3 DEF EncountersInv
<1> QED
  BY <1>1, <1>2, <1>4, <1>5, <1>6, <1>7, <1>8, <1>9, <1>10, <1>11
  DEF LobbyInv, e

\* A player looks for a game, and no encounter has a place.
LEMMA CreateRandomIsRight ==
  ASSUME LobbyInv, NEW s \in Sessions, CreateRandom(s)
  PROVE  /\ LobbyInv' /\ NobodyReady
         /\ nextEncounter["random"] \in Ids
         /\ nextEncounter'["random"] = nextEncounter["random"] + 1
         /\ encounters'["random"][nextEncounter["random"]].channel = 0
<1> DEFINE id == nextEncounter["random"]
           f == NewEncounter(s)
<1>0. EncountersInv /\ MappingInv /\ GamesInv /\ LaunchesInv /\ CleanUpInv
  BY DEF LobbyInv
<1>1. /\ id <= MaxEncounters["random"]
      /\ encounters' = [encounters EXCEPT !["random"][id] = f]
      /\ nextEncounter' = [nextEncounter EXCEPT !["random"] = id + 1]
      /\ encounterOf' = Mapping([encounterOf EXCEPT ![s] = id], doneSessions)
      /\ CleanUpRandom(autoStart)
      /\ UNCHANGED <<encounterNamed, games, channelOf>>
  BY DEF CreateRandom, registry
<1>2. nextEncounter \in [Kinds -> Nat] /\ "random" \in Kinds
      /\ id \in 1..MaxEncounters["random"] + 1
      /\ \A l \in Kinds : MaxEncounters[l] \in Nat
  BY <1>0, KindsAndIds, LobbyConstants DEF EncountersInv, Kinds
<1>3. id \in Ids /\ id \in Nat /\ id # 0
  BY <1>1, <1>2, KindsAndIds
<1>4. Filled(f) /\ Members(f) = {s} /\ ReadyMembers(f) = {} /\ f.channel = 0
  BY NewEncounterIsFilled
<1> HIDE DEF f
<1>5. /\ nextEncounter' \in [Kinds -> Nat]
      /\ \A l \in Kinds : /\ nextEncounter'[l] \in 1..MaxEncounters[l] + 1
                          /\ nextEncounter[l] <= nextEncounter'[l]
      /\ nextEncounter'["random"] = id + 1
  BY <1>0, <1>1, <1>2, <1>3 DEF EncountersInv
<1>6. EncountersInv'
  <2>1. id < nextEncounter'["random"]
    BY <1>3, <1>5
  <2> QED BY <1>0, <1>1, <1>2, <1>3, <1>4, <1>5, <2>1, FilledStays
<1>7. LaunchesInv'
  BY <1>0, <1>1, <1>2, <1>3, <1>4, LaunchesStay
<1>8. NobodyReady
  BY <1>0, <1>1, <1>2, <1>3, <1>4, ReadyStays
<1>9. MappingInv'
  <2> DEFINE map == [encounterOf EXCEPT ![s] = id]
  <2>1. map \in [Sessions -> Ids \cup {0}]
        /\ \A t \in Sessions : map[t] = IF t = s THEN id ELSE encounterOf[t]
    BY <1>0, <1>3 DEF MappingInv
  <2>2. encounterOf' = Mapping(map, doneSessions) /\ doneSessions' = {}
    BY <1>1 DEF CleanUpRandom
  <2>3. \A t \in Sessions : encounterOf[t] # 0 => encounterOf[t] < id
        /\ encounterOf[t] \in Nat
    BY <1>0, <1>2, KindsAndIds DEF MappingInv
  <2>4. \A t \in Sessions : map[t] # 0 => map[t] < id + 1
    BY <1>3, <2>1, <2>3
  <2>5. \A t \in Sessions : encounterOf[t] # id
    BY <1>3, <2>3
  <2>6. \A t \in Sessions :
          map[t] = encounterOf[t] \/ (map[t] = id /\ t \in Members(f))
    BY <1>4, <2>1
  <2> HIDE DEF map, id
  <2>7. \A t \in Sessions : map[t] # 0 => map[t] < nextEncounter'["random"]
    BY <1>5, <2>4
  <2>8. \A t \in Sessions :
          encounterOf[t] = id /\ f # Absent
            => t \in Members(f) \/ <<t, id>> \in doneSessions
    BY <2>5
  <2>9. encounters' = [encounters EXCEPT !["random"][id] = f]
    BY <1>1 DEF id
  <2>10. map \in [Sessions -> Ids \cup {0}]
    BY <2>1
  <2>11. Cleans(id, f, map, doneSessions)
    BY <2>2, <2>6, <2>7, <2>8, <2>9, <2>10 DEF Cleans
  <2> QED BY <1>0, <1>3, <1>6, <2>11, CleanedMapping
<1>10. GamesInv'
  BY <1>0, <1>1 DEF GamesInv, GamesOf
<1>11. CleanUpInv'
  <2>1. autoStart \in [Ids -> [left : 0..AutoStartDelay, set : BOOLEAN]]
    BY <1>0 DEF CleanUpInv
  <2> QED BY <1>0, <1>1, <2>1, CleanUpsStay
<1>12. encounters'["random"][id] = f
  BY <1>0, <1>1, <1>2, <1>3 DEF EncountersInv
<1> QED
  BY <1>3, <1>4, <1>5, <1>6, <1>7, <1>8, <1>9, <1>10, <1>11, <1>12 DEF LobbyInv

\* An acceptance: the player stays and is the only one who becomes ready.  If
\* the game is created, it is the one of the players of the encounter.
LEMMA MarkAsReadyIsRight ==
  ASSUME EncountersInv, GamesInv, LaunchesInv,
         NEW k \in Kinds, NEW s \in Sessions, NEW id \in Ids, NEW now \in BOOLEAN,
         MarkAsReady(k, s, id, now), nextEncounter' = nextEncounter
  PROVE  LET e == encounters[k][id]
             f == encounters'[k][id]
         IN /\ EncountersInv' /\ GamesInv' /\ LaunchesInv'
            /\ encounters' = [encounters EXCEPT ![k][id] = f]
            /\ e = Absent => f = Absent
            /\ e # Absent => /\ Filled(f)
                             /\ e.channel # 0 => f.channel = e.channel
            /\ Members(f) = Members(WhenReady(k, s, id, now))
            /\ ReadyMembers(f) \subseteq ReadyMembers(e) \cup {s}
            /\ s \in Members(e) => s \in Members(f)
            /\ \A c \in DOMAIN games : /\ c \in DOMAIN games'
                                       /\ games'[c].players = games[c].players
<1> DEFINE e == encounters[k][id]
           w == WhenReady(k, s, id, now)
           m == Len(games) + 1
           bot == k = "random" /\ EnableBots /\ BotIsDue(e, w, s)
           full == s \in Members(e) /\ w.channel = 0 /\ Startable(w, bot)
<1>1. e = Absent \/ (Exists(k, id) /\ Filled(e) /\ id < nextEncounter[k])
  BY DEF EncountersInv, Exists
<1>2. bot \in BOOLEAN
  BY DEF BotIsDue
<1>3. \/ full /\ NewGame(w, bot)
         /\ encounters' = [encounters EXCEPT ![k][id] = [w EXCEPT !.channel = m]]
      \/ ~full /\ encounters' = [encounters EXCEPT ![k][id] = w]
         /\ UNCHANGED <<games, channelOf>>
  BY DEF MarkAsReady, registry
<1>4. /\ s \in Members(e) => w = Accepted(e, s, now)
      /\ s \notin Members(e) => w = e
      /\ full => s \in Members(e) /\ w.channel = 0
  BY DEF WhenReady
<1> HIDE DEF e, w, bot, full
<1>5. CASE s \notin Members(e)
  <2>1. /\ encounters' = [encounters EXCEPT ![k][id] = e] /\ ~full
        /\ UNCHANGED <<games, channelOf>>
    BY <1>3, <1>4, <1>5
  <2>2. encounters' = encounters
    BY <2>1 DEF EncountersInv, e
  <2>3. EncountersInv' /\ GamesInv' /\ LaunchesInv'
    BY <2>1, <2>2, nextEncounter' = nextEncounter
    DEF EncountersInv, GamesInv, LaunchesInv, Exists, GamesOf
  <2>4. e # Absent => Filled(e)
    BY <1>1
  <2>5. Members(e) = Members(w)
    BY <1>4, <1>5
  <2> QED BY <1>5, <2>1, <2>2, <2>3, <2>4, <2>5 DEF e, w
<1>6. CASE s \in Members(e)
  <2>1. Filled(e) /\ e # Absent /\ id < nextEncounter[k]
    BY <1>1, <1>6, AbsentIsNoEncounter DEF Exists, e
  <2>2. /\ Filled(w)
        /\ Members(w) \subseteq Members(e)
        /\ ReadyMembers(w) \subseteq ReadyMembers(e) \cup {s}
        /\ s \in ReadyMembers(w)
        /\ w.channel = e.channel
        /\ e.channel # 0 => Members(w) = Members(e)
    BY <1>4, <1>6, <2>1, AcceptedIsFilled
  <2>3. s \in Members(w)
    BY <2>2 DEF ReadyMembers, Members
  <2>4. /\ nextEncounter' \in [Kinds -> Nat]
        /\ \A l \in Kinds : /\ nextEncounter'[l] \in 1..MaxEncounters[l] + 1
                            /\ nextEncounter[l] <= nextEncounter'[l]
        /\ id < nextEncounter'[k]
    BY <2>1 DEF EncountersInv
  <2>5. ASSUME NEW f, Filled(f), Members(f) = Members(w),
               ReadyMembers(f) = ReadyMembers(w),
               e.channel # 0 => f.channel = e.channel,
               encounters' = [encounters EXCEPT ![k][id] = f],
               GamesInv',
               \A c \in DOMAIN games : /\ c \in DOMAIN games'
                                       /\ games'[c].players = games[c].players,
               f.channel # 0 => /\ f.channel \in DOMAIN games'
                                /\ Members(f) \subseteq games'[f.channel].players
        PROVE  /\ EncountersInv' /\ GamesInv' /\ LaunchesInv'
               /\ encounters'[k][id] = f
               /\ s \in Members(f)
               /\ ReadyMembers(f) \subseteq ReadyMembers(e) \cup {s}
    <3>1. EncountersInv'
      BY <2>4, <2>5, FilledStays
    <3>2. LaunchesInv'
      BY <2>5, LaunchesStay
    <3>3. encounters'[k][id] = f
      BY <2>5 DEF EncountersInv
    <3> QED BY <2>2, <2>3, <2>5, <3>1, <3>2, <3>3
  <2>6. CASE full
    <3> DEFINE f == [w EXCEPT !.channel = m]
    <3>1. NewGame(w, bot) /\ encounters' = [encounters EXCEPT ![k][id] = f]
      BY <1>3, <2>6
    <3>2. /\ GamesInv' /\ m \in DOMAIN games'
          /\ games'[m].players = Members(w)
          /\ \A c \in DOMAIN games : c \in DOMAIN games' /\ games'[c] = games[c]
      BY <1>2, <2>2, <3>1, NewGameIsLast
    <3>3. m \in Nat
      BY DEF GamesInv
    <3>4. w \in Encounters
      BY <2>2 DEF Filled
    <3> HIDE DEF m
    <3>5. /\ f \in Encounters /\ f.count = w.count /\ f.sessions = w.sessions
          /\ f.ready = w.ready /\ f.channel = m
      BY <3>3, <3>4 DEF Encounters
    <3> HIDE DEF f
    <3>6. Filled(f) /\ Members(f) = Members(w)
      BY <2>2, <3>5, SameSessions
    <3>7. ReadyMembers(f) = ReadyMembers(w)
      BY <3>5 DEF ReadyMembers
    <3>8. e.channel = 0
      BY <1>4, <2>2, <2>6
    <3>9. /\ EncountersInv' /\ GamesInv' /\ LaunchesInv'
          /\ encounters'[k][id] = f
          /\ s \in Members(f)
          /\ ReadyMembers(f) \subseteq ReadyMembers(e) \cup {s}
      BY <2>5, <3>1, <3>2, <3>5, <3>6, <3>7, <3>8
    <3> QED BY <2>1, <3>1, <3>2, <3>6, <3>8, <3>9 DEF e, w
  <2>7. CASE ~full
    <3>1. /\ encounters' = [encounters EXCEPT ![k][id] = w]
          /\ UNCHANGED <<games, channelOf>>
      BY <1>3, <2>7
    <3>2. GamesInv'
      BY <3>1 DEF GamesInv, GamesOf
    <3>3. e.channel # 0 => /\ e.channel \in DOMAIN games
                           /\ Members(e) \subseteq games[e.channel].players
      BY <1>1, <2>1 DEF LaunchesInv, e
    <3>4. w.channel # 0 => /\ w.channel \in DOMAIN games'
                           /\ Members(w) \subseteq games'[w.channel].players
      BY <2>2, <3>1, <3>3
    <3>5. /\ EncountersInv' /\ GamesInv' /\ LaunchesInv'
          /\ encounters'[k][id] = w
          /\ s \in Members(w)
          /\ ReadyMembers(w) \subseteq ReadyMembers(e) \cup {s}
      BY <2>2, <2>5, <3>1, <3>2, <3>4
    <3> QED BY <2>1, <2>2, <3>1, <3>5 DEF e, w
  <2> QED BY <2>6, <2>7
<1> QED BY <1>5, <1>6

\* A player who is ready in a random encounter changes no other one.
LEMMA AcceptRandomIsRight ==
  ASSUME LobbyInv, NEW s \in Sessions, NEW id \in Ids, AcceptRandom(s, id)
  PROVE  LET e == encounters["random"][id]
             f == encounters'["random"][id]
         IN /\ LobbyInv'
            /\ \A i \in Ids : i # id =>
                 encounters'["random"][i] = encounters["random"][i]
            /\ e = Absent <=> f = Absent
            /\ e # Absent /\ e.channel # 0 => f.channel = e.channel
            /\ s \in Members(e) => s \in Members(f)
            /\ ReadyMembers(f) \subseteq ReadyMembers(e) \cup {s}
            /\ nextEncounter' = nextEncounter
            /\ \A c \in DOMAIN games : /\ c \in DOMAIN games'
                                       /\ games'[c].players = games[c].players
<1> DEFINE e == encounters["random"][id]
           f == encounters'["random"][id]
           now == autoStart[id].set /\ autoStart[id].left = 0
           w == WhenReady("random", s, id, now)
           kicked == doneSessions \cup Kicks(id, e, w)
           dates == [autoStart EXCEPT ![id] =
                       IF now THEN Unset
                       ELSE IF @.set THEN @
                       ELSE [left |-> AutoStartDelay, set |-> TRUE]]
<1>0. EncountersInv /\ MappingInv /\ GamesInv /\ LaunchesInv /\ CleanUpInv
      /\ "random" \in Kinds
  BY KindsAndIds DEF LobbyInv
<1>1. /\ MarkAsReady("random", s, id, now)
      /\ encounterOf' = Mapping(encounterOf, kicked)
      /\ CleanUpRandom(dates)
      /\ UNCHANGED <<nextEncounter, encounterNamed>>
  BY DEF AcceptRandom
<1>2. autoStart \in [Ids -> [left : 0..AutoStartDelay, set : BOOLEAN]]
  BY <1>0 DEF CleanUpInv
<1>3. now \in BOOLEAN
  BY <1>2
<1>4. dates \in [Ids -> [left : 0..AutoStartDelay, set : BOOLEAN]]
  <2> DEFINE d == IF now THEN Unset
                  ELSE IF autoStart[id].set THEN autoStart[id]
                  ELSE [left |-> AutoStartDelay, set |-> TRUE]
  <2>1. d \in [left : 0..AutoStartDelay, set : BOOLEAN]
    BY <1>2, LobbyConstants DEF Unset
  <2>2. dates = [autoStart EXCEPT ![id] = d]
    OBVIOUS
  <2> HIDE DEF d, dates
  <2> QED BY <1>2, <2>1, <2>2
<1> HIDE DEF now, dates
<1>5. /\ EncountersInv' /\ GamesInv' /\ LaunchesInv'
      /\ encounters' = [encounters EXCEPT !["random"][id] = f]
      /\ e = Absent => f = Absent
      /\ e # Absent => /\ Filled(f)
                       /\ e.channel # 0 => f.channel = e.channel
      /\ Members(f) = Members(w)
      /\ ReadyMembers(f) \subseteq ReadyMembers(e) \cup {s}
      /\ s \in Members(e) => s \in Members(f)
      /\ \A c \in DOMAIN games : /\ c \in DOMAIN games'
                                 /\ games'[c].players = games[c].players
  BY <1>0, <1>1, <1>3, MarkAsReadyIsRight
<1> HIDE DEF w, f
<1>6. MappingInv'
  <2>1. encounterOf \in [Sessions -> Ids \cup {0}]
        /\ \A t \in Sessions :
             encounterOf[t] # 0 => encounterOf[t] < nextEncounter'["random"]
    BY <1>0, <1>1 DEF MappingInv
  <2>2. doneSessions' = {} /\ doneSessions \subseteq kicked
    BY <1>1 DEF CleanUpRandom
  <2>3. ASSUME NEW t \in Sessions, encounterOf[t] = id, f # Absent
        PROVE  t \in Members(f) \/ <<t, id>> \in kicked
    <3>1. Exists("random", id)
      BY <1>5, <2>3 DEF Exists
    <3>2. t \in Members(e) \/ <<t, id>> \in doneSessions
      BY <1>0, <2>3, <3>1 DEF MappingInv, MappedTo
    <3> QED BY <1>5, <3>2 DEF Kicks
  <2>4. encounterOf' = Mapping(encounterOf, kicked)
    BY <1>1
  <2> HIDE DEF kicked, e
  <2>5. Cleans(id, f, encounterOf, kicked)
    BY <1>5, <2>1, <2>2, <2>3, <2>4 DEF Cleans
  <2> QED BY <1>0, <1>5, <2>5, CleanedMapping
<1>7. CleanUpInv'
  BY <1>0, <1>1, <1>4, CleanUpsStay
<1>8. \A i \in Ids : i # id =>
        encounters'["random"][i] = encounters["random"][i]
  BY <1>0, <1>5 DEF EncountersInv
<1>9. e # Absent => f # Absent
  BY <1>5, AbsentIsNoEncounter DEF Filled
<1> QED BY <1>1, <1>5, <1>6, <1>7, <1>8, <1>9 DEF LobbyInv, f

\* The named games, whose encounters are not those of the random games.
LEMMA NamedIsRight ==
  ASSUME LobbyInv, NEW s \in Sessions,
         \/ \E n \in Names : CreateNamed(s, n) \/ JoinNamed(s, n)
         \/ \E id \in Ids : AcceptNamed(s, id)
  PROVE  LobbyInv' /\ NobodyReady
<1>0. /\ EncountersInv /\ MappingInv /\ GamesInv /\ LaunchesInv /\ CleanUpInv
      /\ "named" \in Kinds /\ "random" \in Kinds
  BY KindsAndIds DEF LobbyInv
<1>1. ASSUME encounters'["random"] = encounters["random"],
             nextEncounter'["random"] = nextEncounter["random"],
             UNCHANGED <<doneSessions, encounterOf>>
      PROVE  MappingInv' /\ NobodyReady
  <2>1. \A id \in Ids :
          Exists("random", id)' => /\ Exists("random", id)
                                   /\ Members(encounters'["random"][id])
                                        = Members(encounters["random"][id])
    BY <1>1 DEF Exists
  <2>2. MappingInv'
    BY <1>0, <1>1, <2>1, SameMapping
  <2> QED BY <1>1, <2>2 DEF NobodyReady
<1>2. \A id \in Ids : \A f :
        encounters' = [encounters EXCEPT !["named"][id] = f]
          => encounters'["random"] = encounters["random"]
  BY <1>0 DEF EncountersInv
<1>3. ASSUME NEW n \in Names, CreateNamed(s, n)
      PROVE  LobbyInv' /\ NobodyReady
  <2> DEFINE id == nextEncounter["named"]
             f == NewEncounter(s)
             map == [encounterNamed EXCEPT ![n] = id]
  <2>1. /\ id <= MaxEncounters["named"]
        /\ encounters' = [encounters EXCEPT !["named"][id] = f]
        /\ nextEncounter' = [nextEncounter EXCEPT !["named"] = id + 1]
        /\ CleanUpNamed(map)
        /\ UNCHANGED <<doneSessions, encounterOf, autoStart, games, channelOf>>
    BY <1>3 DEF CreateNamed, registry
  <2>2. nextEncounter \in [Kinds -> Nat]
        /\ id \in 1..MaxEncounters["named"] + 1
        /\ \A l \in Kinds : MaxEncounters[l] \in Nat
    BY <1>0, LobbyConstants DEF EncountersInv, Kinds
  <2>3. id \in Ids /\ id \in Nat /\ id # 0
    BY <1>0, <2>1, <2>2, KindsAndIds
  <2>4. Filled(f) /\ f.channel = 0
    BY NewEncounterIsFilled
  <2> HIDE DEF f
  <2>5. /\ nextEncounter' \in [Kinds -> Nat]
        /\ \A l \in Kinds : /\ nextEncounter'[l] \in 1..MaxEncounters[l] + 1
                            /\ nextEncounter[l] <= nextEncounter'[l]
        /\ id < nextEncounter'["named"]
        /\ nextEncounter'["random"] = nextEncounter["random"]
    BY <1>0, <2>1, <2>2, <2>3 DEF EncountersInv
  <2>6. EncountersInv'
    BY <1>0, <2>1, <2>3, <2>4, <2>5, FilledStays
  <2>7. LaunchesInv'
    BY <1>0, <2>1, <2>3, <2>4, LaunchesStay
  <2>8. MappingInv' /\ NobodyReady
    BY <1>1, <1>2, <2>1, <2>3, <2>5
  <2>9. map \in [Names -> Ids \cup {0}]
    BY <1>0, <2>3 DEF CleanUpInv
  <2>10. CleanUpInv'
    BY <1>0, <2>1, <2>9, CleanUpsStay
  <2>11. GamesInv'
    BY <1>0, <2>1 DEF GamesInv, GamesOf
  <2> QED BY <2>6, <2>7, <2>8, <2>10, <2>11 DEF LobbyInv
<1>4. ASSUME NEW n \in Names, JoinNamed(s, n)
      PROVE  LobbyInv' /\ NobodyReady
  <2> DEFINE id == encounterNamed[n]
             e == encounters["named"][id]
  <2>1. /\ id # 0
        /\ CleanUpNamed(encounterNamed)
        /\ UNCHANGED <<nextEncounter, doneSessions, encounterOf, autoStart,
                       games, channelOf>>
    BY <1>4 DEF JoinNamed, registry
  <2>2. id \in Ids /\ encounterNamed \in [Names -> Ids \cup {0}]
    BY <1>0, <2>1 DEF CleanUpInv
  <2>3. GamesInv' /\ CleanUpInv'
    BY <1>0, <2>1, <2>2, CleanUpsStay DEF GamesInv, GamesOf
  <2>4. CASE Exists("named", id) /\ e.channel = 0
    <3>1. PICK f \in Refreshed(e, s) :
            encounters' = [encounters EXCEPT !["named"][id] = f]
      BY <1>4, <2>4 DEF JoinNamed
    <3>2. Filled(e) /\ id < nextEncounter["named"]
      BY <1>0, <2>2, <2>4 DEF EncountersInv
    <3> HIDE DEF id, e
    <3>3. Filled(f) /\ f.channel = 0
      BY <2>4, <3>1, <3>2, RefreshedIsFilled
    <3>4. /\ nextEncounter' \in [Kinds -> Nat]
          /\ \A l \in Kinds : /\ nextEncounter'[l] \in 1..MaxEncounters[l] + 1
                              /\ nextEncounter[l] <= nextEncounter'[l]
          /\ id < nextEncounter'["named"]
      BY <1>0, <2>1, <3>2 DEF EncountersInv
    <3>5. EncountersInv'
      BY <1>0, <2>2, <3>1, <3>3, <3>4, FilledStays
    <3>6. LaunchesInv'
      BY <1>0, <2>1, <2>2, <3>1, <3>3, LaunchesStay
    <3>7. MappingInv' /\ NobodyReady
      BY <1>1, <1>2, <2>1, <2>2, <3>1
    <3> QED BY <2>3, <3>5, <3>6, <3>7 DEF LobbyInv
  <2>5. CASE ~(Exists("named", id) /\ e.channel = 0)
    <3>1. encounters' = encounters
      BY <1>4, <2>5 DEF JoinNamed
    <3>2. EncountersInv' /\ LaunchesInv'
      BY <1>0, <2>1, <3>1 DEF EncountersInv, LaunchesInv, Exists
    <3>3. MappingInv' /\ NobodyReady
      BY <1>1, <2>1, <3>1
    <3> QED BY <2>3, <3>2, <3>3 DEF LobbyInv
  <2> QED BY <2>4, <2>5
<1>5. ASSUME NEW id \in Ids, AcceptNamed(s, id)
      PROVE  LobbyInv' /\ NobodyReady
  <2>1. /\ MarkAsReady("named", s, id, FALSE)
        /\ CleanUpNamed(encounterNamed)
        /\ UNCHANGED <<nextEncounter, doneSessions, encounterOf, autoStart>>
    BY <1>5 DEF AcceptNamed
  <2>2. /\ EncountersInv' /\ GamesInv' /\ LaunchesInv'
        /\ encounters' = [encounters EXCEPT !["named"][id]
                                              = encounters'["named"][id]]
    <3> DEFINE now == FALSE
    <3>1. now \in BOOLEAN /\ MarkAsReady("named", s, id, now)
          /\ nextEncounter' = nextEncounter
      BY <2>1
    <3> HIDE DEF now
    <3> QED BY <1>0, <3>1, MarkAsReadyIsRight
  <2>3. MappingInv' /\ NobodyReady
    <3> DEFINE f == encounters'["named"][id]
    <3>1. encounters' = [encounters EXCEPT !["named"][id] = f]
      BY <2>2
    <3> HIDE DEF f
    <3> QED BY <1>1, <1>2, <2>1, <3>1
  <2>4. CleanUpInv'
    <3>1. encounterNamed \in [Names -> Ids \cup {0}]
      BY <1>0 DEF CleanUpInv
    <3> QED BY <1>0, <2>1, <3>1, CleanUpsStay
  <2> QED BY <2>2, <2>3, <2>4 DEF LobbyInv
<1> QED BY <1>3, <1>4, <1>5

\* What is left of an encounter by the clean-up of the service k.
LeftOf(k, id) == IF Exists(k, id) THEN WithoutInactive(encounters[k][id])
                 ELSE Absent

\* The inactive sessions leave every encounter, and the empty ones are gone.
LEMMA CleanUpMatchmakingIsRight ==
  ASSUME LobbyInv, NEW k \in Kinds, CleanUpMatchmaking(k)
  PROVE  /\ LobbyInv' /\ NobodyReady
         /\ nextEncounter' = nextEncounter
         /\ \A l \in Kinds, id \in Ids :
              Exists(l, id)'
                => /\ Exists(l, id)
                   /\ encounters'[l][id].channel = encounters[l][id].channel
<1>0. EncountersInv /\ MappingInv /\ GamesInv /\ LaunchesInv /\ CleanUpInv
      /\ "random" \in Kinds
  BY KindsAndIds DEF LobbyInv
<1>1. /\ encounters' = [encounters EXCEPT ![k] =
                          [id \in Ids |-> IF LeftOf(k, id).count = 0 THEN Absent
                                          ELSE LeftOf(k, id)]]
      /\ doneSessions' =
           IF k = "named" THEN doneSessions
           ELSE doneSessions \cup UNION {Kicks(id, encounters[k][id], LeftOf(k, id))
                                          : id \in Ids}
      /\ doneEncounters' = [doneEncounters EXCEPT ![k] =
                              @ \cup {id \in Ids : /\ Exists(k, id)
                                                   /\ LeftOf(k, id).count = 0}]
      /\ UNCHANGED <<nextEncounter, encounterOf, autoStart, encounterNamed,
                     games, channelOf>>
  BY DEF CleanUpMatchmaking, LeftOf, registry
<1>2. \A id \in Ids : Exists(k, id) =>
        /\ Filled(LeftOf(k, id))
        /\ Members(LeftOf(k, id)) \subseteq Members(encounters[k][id])
        /\ ReadyMembers(LeftOf(k, id)) \subseteq ReadyMembers(encounters[k][id])
        /\ LeftOf(k, id).channel = encounters[k][id].channel
  BY <1>0, WithoutInactiveIsFilled DEF EncountersInv, LeftOf
<1>3. \A id \in Ids : ~Exists(k, id) => LeftOf(k, id) = Absent
  BY DEF LeftOf
<1>4. \A id \in Ids :
        encounters'[k][id] = IF LeftOf(k, id).count = 0 THEN Absent
                             ELSE LeftOf(k, id)
  BY <1>0, <1>1 DEF EncountersInv
<1>5. \A l \in Kinds : l # k => encounters'[l] = encounters[l]
  BY <1>0, <1>1 DEF EncountersInv
<1>6. ASSUME NEW l \in Kinds, NEW id \in Ids
      PROVE  LET e == encounters[l][id]
                 f == encounters'[l][id]
             IN /\ f \in Encounters \cup {Absent}
                /\ ReadyMembers(f) \subseteq ReadyMembers(e)
                /\ f # Absent => /\ e # Absent /\ Filled(f)
                                 /\ Members(f) \subseteq Members(e)
                                 /\ f.channel = e.channel
                                 /\ l # k => f = e
                                 /\ l = k => f = LeftOf(k, id)
  <2>1. CASE l = k /\ encounters'[k][id] = Absent
    BY <2>1, AbsentIsNoEncounter
  <2>2. CASE l = k /\ encounters'[k][id] # Absent
    <3>1. encounters'[k][id] = LeftOf(k, id) /\ Exists(k, id)
      BY <1>3, <1>4, <2>2
    <3>2. Filled(encounters'[k][id]) /\ encounters[k][id] # Absent
      BY <1>2, <3>1 DEF Exists
    <3> QED BY <1>2, <2>2, <3>1, <3>2 DEF Filled
  <2>3. CASE l # k
    <3>1. encounters'[l][id] = encounters[l][id]
      BY <1>5, <2>3
    <3>2. /\ encounters[l][id] \in Encounters \cup {Absent}
          /\ encounters[l][id] # Absent => Filled(encounters[l][id])
      BY <1>0 DEF EncountersInv, Exists
    <3> QED BY <2>3, <3>1, <3>2
  <2> QED BY <2>1, <2>2, <2>3
<1>7. EncountersInv'
  <2>1. encounters' \in [Kinds -> [Ids -> Encounters \cup {Absent}]]
    <3> DEFINE g == [id \in Ids |-> IF LeftOf(k, id).count = 0 THEN Absent
                                    ELSE LeftOf(k, id)]
    <3>1. g \in [Ids -> Encounters \cup {Absent}]
      BY <1>4, <1>6
    <3>2. encounters' = [encounters EXCEPT ![k] = g]
      BY <1>1
    <3> HIDE DEF g
    <3> QED BY <1>0, <3>1, <3>2 DEF EncountersInv
  <2>2. ASSUME NEW l \in Kinds, NEW id \in Ids, Exists(l, id)'
        PROVE  Filled(encounters'[l][id]) /\ id < nextEncounter'[l]
    <3>1. Filled(encounters'[l][id]) /\ Exists(l, id)
      BY <1>6, <2>2 DEF Exists
    <3> QED BY <1>0, <1>1, <3>1 DEF EncountersInv
  <2> QED BY <1>0, <1>1, <2>1, <2>2 DEF EncountersInv
<1>8. LaunchesInv'
  <2>1. ASSUME NEW l \in Kinds, NEW id \in Ids, Exists(l, id)',
               encounters'[l][id].channel # 0
        PROVE  /\ encounters'[l][id].channel \in DOMAIN games'
               /\ Members(encounters'[l][id])
                    \subseteq games'[encounters'[l][id].channel].players
    <3>1. /\ Exists(l, id)
          /\ Members(encounters'[l][id]) \subseteq Members(encounters[l][id])
          /\ encounters'[l][id].channel = encounters[l][id].channel
      BY <1>6, <2>1 DEF Exists
    <3>2. /\ encounters[l][id].channel \in DOMAIN games
          /\ Members(encounters[l][id])
               \subseteq games[encounters[l][id].channel].players
      BY <1>0, <2>1, <3>1 DEF LaunchesInv
    <3> QED BY <1>1, <3>1, <3>2
  <2> QED BY <2>1 DEF LaunchesInv
<1>9. NobodyReady
  BY <1>0, <1>6 DEF NobodyReady
<1>10. MappingInv'
  <2>1. /\ doneSessions' \in SUBSET (Sessions \X Ids)
        /\ doneSessions \subseteq doneSessions'
        /\ k = "random" => \A id \in Ids :
             Kicks(id, encounters[k][id], LeftOf(k, id)) \subseteq doneSessions'
    <3>1. ASSUME NEW id \in Ids
          PROVE  Members(encounters[k][id]) \subseteq Sessions
      BY <1>0, AbsentIsNoEncounter DEF EncountersInv, Exists, Filled
    <3>2. \A id \in Ids :
            Kicks(id, encounters[k][id], LeftOf(k, id)) \subseteq Sessions \X Ids
      BY <3>1 DEF Kicks
    <3>3. doneSessions \subseteq Sessions \X Ids
      BY <1>0 DEF MappingInv
    <3> QED BY <1>1, <3>2, <3>3
  <2>2. /\ encounterOf' \in [Sessions -> Ids \cup {0}]
        /\ \A t \in Sessions :
             encounterOf'[t] # 0 => encounterOf'[t] < nextEncounter'["random"]
        /\ \A id \in Ids : MappedTo(id)' = MappedTo(id)
    BY <1>0, <1>1 DEF MappingInv, MappedTo
  <2>3. ASSUME NEW id \in Ids, Exists("random", id)'
        PROVE  LET in == Members(encounters'["random"][id]) IN
               /\ \A t \in MappedTo(id)' \ in : <<t, id>> \in doneSessions'
               /\ Cardinality(in \cup MappedTo(id)') <= MaxPlayers
    <3> DEFINE e == encounters["random"][id]
               f == encounters'["random"][id]
               new == Members(f) \cup MappedTo(id)
               old == Members(e) \cup MappedTo(id)
    <3>1. /\ Exists("random", id) /\ Filled(e)
          /\ Members(f) \subseteq Members(e)
          /\ "random" # k => f = e
          /\ "random" = k => f = LeftOf(k, id)
      BY <1>0, <1>6, <2>3 DEF Exists, EncountersInv
    <3>2. /\ \A t \in MappedTo(id) \ Members(e) : <<t, id>> \in doneSessions
          /\ Cardinality(old) <= MaxPlayers
      BY <1>0, <3>1 DEF MappingInv
    <3>3. \A t \in Members(e) \ Members(f) : <<t, id>> \in doneSessions'
      BY <2>1, <3>1 DEF Kicks
    <3>4. \A t \in MappedTo(id) \ Members(f) : <<t, id>> \in doneSessions'
      BY <2>1, <3>2, <3>3
    <3>5. new \in SUBSET old /\ old \subseteq Sessions
      BY <3>1 DEF Filled, MappedTo
    <3> HIDE DEF new, old, e, f
    <3>6. IsFiniteSet(old)
      BY <3>5, EncounterConstants, FS_Subset
    <3>7. IsFiniteSet(new) /\ Cardinality(new) <= Cardinality(old)
      BY <3>5, <3>6, FS_Subset
    <3>8. Cardinality(new) \in Nat /\ Cardinality(old) \in Nat
      BY <3>6, <3>7, FS_CardinalityType
    <3>9. Cardinality(new) <= MaxPlayers
      BY <3>2, <3>7, <3>8, EncounterConstants
    <3> QED BY <2>2, <3>4, <3>9 DEF new, f
  <2> QED BY <2>1, <2>2, <2>3 DEF MappingInv
<1>11. GamesInv'
  BY <1>0, <1>1 DEF GamesInv, GamesOf
<1>12. CleanUpInv'
  BY <1>0, <1>1 DEF CleanUpInv
<1>13. \A l \in Kinds, id \in Ids :
         Exists(l, id)' => /\ Exists(l, id)
                           /\ encounters'[l][id].channel = encounters[l][id].channel
  BY <1>6 DEF Exists
<1> QED BY <1>1, <1>7, <1>8, <1>9, <1>10, <1>11, <1>12, <1>13 DEF LobbyInv

\* The time passes.
LEMMA TickIsRight ==
  ASSUME LobbyInv, Tick
  PROVE  /\ LobbyInv' /\ NobodyReady
         /\ \A k \in Kinds, id \in Ids :
              Exists(k, id)'
                => /\ Exists(k, id)
                   /\ encounters'[k][id].channel = encounters[k][id].channel
<1>0. EncountersInv /\ MappingInv /\ GamesInv /\ LaunchesInv /\ CleanUpInv
  BY DEF LobbyInv
<1>1. /\ encounters' = [k \in Kinds |->
                          [id \in Ids |-> IF Exists(k, id)
                                          THEN Elapsed(encounters[k][id])
                                          ELSE Absent]]
      /\ UNCHANGED <<nextEncounter, doneSessions, doneEncounters, encounterOf,
                     encounterNamed, games, channelOf>>
  BY DEF Tick, garbage, registry
<1>2. ASSUME NEW k \in Kinds, NEW id \in Ids
      PROVE  LET e == encounters[k][id]
                 f == encounters'[k][id]
             IN /\ f \in Encounters \cup {Absent}
                /\ f # Absent => Exists(k, id) /\ Filled(f)
                /\ Members(f) = Members(e)
                /\ ReadyMembers(f) = ReadyMembers(e)
                /\ f # Absent => f.channel = e.channel
  <2>1. CASE Exists(k, id)
    <3>1. encounters'[k][id] = Elapsed(encounters[k][id])
      BY <1>1, <2>1
    <3>2. Filled(encounters[k][id])
      BY <1>0, <2>1 DEF EncountersInv
    <3> QED BY <2>1, <3>1, <3>2, ElapsedIsFilled DEF Filled
  <2>2. CASE ~Exists(k, id)
    <3>1. encounters'[k][id] = Absent /\ encounters[k][id] = Absent
      BY <1>1, <2>2 DEF Exists
    <3> QED BY <3>1
  <2> QED BY <2>1, <2>2
<1>3. EncountersInv'
  <2>1. \A k \in Kinds, id \in Ids :
          Exists(k, id)' => Filled(encounters'[k][id]) /\ id < nextEncounter'[k]
    BY <1>0, <1>1, <1>2 DEF EncountersInv, Exists
  <2>2. encounters' \in [Kinds -> [Ids -> Encounters \cup {Absent}]]
    <3>1. \A k \in Kinds, id \in Ids :
            encounters'[k][id] \in Encounters \cup {Absent}
      BY <1>2
    <3> QED BY <1>1, <3>1
  <2> QED BY <1>0, <1>1, <2>1, <2>2 DEF EncountersInv
<1>4. MappingInv'
  <2>1. \A id \in Ids :
          Exists("random", id)' => /\ Exists("random", id)
                                   /\ Members(encounters'["random"][id])
                                        = Members(encounters["random"][id])
    BY <1>2, KindsAndIds DEF Exists
  <2> QED BY <1>0, <1>1, <2>1, SameMapping
<1>5. LaunchesInv'
  <2>1. ASSUME NEW k \in Kinds, NEW id \in Ids, Exists(k, id)',
               encounters'[k][id].channel # 0
        PROVE  /\ encounters'[k][id].channel \in DOMAIN games'
               /\ Members(encounters'[k][id])
                    \subseteq games'[encounters'[k][id].channel].players
    <3>1. /\ Exists(k, id)
          /\ Members(encounters'[k][id]) = Members(encounters[k][id])
          /\ encounters'[k][id].channel = encounters[k][id].channel
      BY <1>2, <2>1 DEF Exists
    <3>2. /\ encounters[k][id].channel \in DOMAIN games
          /\ Members(encounters[k][id])
               \subseteq games[encounters[k][id].channel].players
      BY <1>0, <2>1, <3>1 DEF LaunchesInv
    <3> QED BY <1>1, <3>1, <3>2
  <2> QED BY <2>1 DEF LaunchesInv
<1>6. NobodyReady
  BY <1>2, KindsAndIds DEF NobodyReady
<1>7. GamesInv'
  BY <1>0, <1>1 DEF GamesInv, GamesOf
<1>8. CleanUpInv'
  <2> DEFINE Dates == [left : 0..AutoStartDelay, set : BOOLEAN]
  <2>1. autoStart \in [Ids -> Dates]
    BY <1>0 DEF CleanUpInv
  <2>2. ASSUME NEW d \in Dates, d.left # 0
        PROVE  [d EXCEPT !.left = d.left - 1] \in Dates
    <3>1. d.left - 1 \in 0..AutoStartDelay
      BY <2>2, LobbyConstants
    <3> QED BY <3>1
  <2>3. autoStart' = [id \in Ids |->
                        IF autoStart[id].left = 0 THEN autoStart[id]
                        ELSE [autoStart[id] EXCEPT !.left = autoStart[id].left - 1]]
    BY DEF Tick
  <2> HIDE DEF Dates
  <2>4. autoStart' \in [Ids -> Dates]
    BY <2>1, <2>2, <2>3
  <2> QED BY <1>0, <1>1, <2>4 DEF CleanUpInv, Dates
<1>9. \A k \in Kinds, id \in Ids :
        Exists(k, id)'
          => /\ Exists(k, id)
             /\ encounters'[k][id].channel = encounters[k][id].channel
  BY <1>2 DEF Exists
<1> QED BY <1>3, <1>4, <1>5, <1>6, <1>7, <1>8, <1>9 DEF LobbyInv

\* A game ends, or it is forgotten.
LEMMA GamesEndRight ==
  ASSUME LobbyInv, NEW c \in DOMAIN games, FinishGame(c) \/ CleanUpGame(c)
  PROVE  /\ LobbyInv' /\ NobodyReady
         /\ UNCHANGED <<encounters, nextEncounter>>
         /\ \A d \in DOMAIN games : /\ d \in DOMAIN games'
                                    /\ games'[d].players = games[d].players
<1>0. EncountersInv /\ MappingInv /\ GamesInv /\ LaunchesInv /\ CleanUpInv
  BY DEF LobbyInv
<1>1. UNCHANGED <<encounters, nextEncounter, doneSessions, doneEncounters,
                  encounterOf, autoStart, encounterNamed>>
  BY DEF FinishGame, CleanUpGame, garbage
<1>2. /\ GamesInv'
      /\ DOMAIN games' = DOMAIN games
      /\ \A d \in DOMAIN games : games'[d].players = games[d].players
  BY <1>0, StatusChanges
<1>3. EncountersInv' /\ CleanUpInv' /\ NobodyReady
  BY <1>0, <1>1 DEF EncountersInv, CleanUpInv, NobodyReady, Exists
<1>4. MappingInv'
  BY <1>0, <1>1 DEF MappingInv, MappedTo, Exists
<1>5. LaunchesInv'
  BY <1>0, <1>1, <1>2 DEF LaunchesInv, Exists
<1> QED BY <1>1, <1>2, <1>3, <1>4, <1>5 DEF LobbyInv

\* A step of something else keeps the invariant.
LEMMA SameLobby == ASSUME LobbyInv, UNCHANGED vars PROVE LobbyInv'
<1>1. UNCHANGED <<encounters, nextEncounter, doneSessions, doneEncounters,
                  encounterOf, autoStart, encounterNamed, games, channelOf>>
  BY DEF vars, garbage, registry
<1>2. EncountersInv' /\ LaunchesInv' /\ CleanUpInv'
  BY <1>1 DEF LobbyInv, EncountersInv, LaunchesInv, CleanUpInv, Exists
<1>3. MappingInv'
  BY <1>1 DEF LobbyInv, MappingInv, MappedTo, Exists
<1>4. GamesInv'
  BY <1>1 DEF LobbyInv, GamesInv, GamesOf
<1> QED BY <1>2, <1>3, <1>4 DEF LobbyInv

\* The invariant is inductive.
LEMMA LobbyStep ==
  ASSUME LobbyInv, [Next]_vars
  PROVE  /\ LobbyInv'
         /\ \A id \in Ids :
              \/ ReadyMembers(encounters'["random"][id])
                   \subseteq ReadyMembers(encounters["random"][id])
              \/ \E s \in Sessions :
                   /\ AcceptRandom(s, id)
                   /\ ReadyMembers(encounters'["random"][id])
                        \subseteq ReadyMembers(encounters["random"][id]) \cup {s}
<1>1. ASSUME NEW s \in Sessions, KeepWaiting(s)
      PROVE  LobbyInv' /\ NobodyReady
  BY <1>1, KeepWaitingIsRight
<1>2. ASSUME NEW s \in Sessions, JoinRandom(s)
      PROVE  LobbyInv' /\ NobodyReady
  BY <1>2, JoinRandomIsRight DEF JoinRandom
<1>3. ASSUME NEW s \in Sessions, CreateRandom(s)
      PROVE  LobbyInv' /\ NobodyReady
  BY <1>3, CreateRandomIsRight
<1>4. ASSUME NEW s \in Sessions, NEW n \in Names,
             CreateNamed(s, n) \/ JoinNamed(s, n)
      PROVE  LobbyInv' /\ NobodyReady
  BY <1>4, NamedIsRight
<1>5. ASSUME NEW s \in Sessions, NEW id \in Ids, AcceptNamed(s, id)
      PROVE  LobbyInv' /\ NobodyReady
  BY <1>5, NamedIsRight
<1>6. ASSUME NEW k \in Kinds, CleanUpMatchmaking(k)
      PROVE  LobbyInv' /\ NobodyReady
  BY <1>6, CleanUpMatchmakingIsRight
<1>7. ASSUME NEW c \in DOMAIN games, FinishGame(c) \/ CleanUpGame(c)
      PROVE  LobbyInv' /\ NobodyReady
  BY <1>7, GamesEndRight
<1>8. ASSUME Tick
      PROVE  LobbyInv' /\ NobodyReady
  BY <1>8, TickIsRight
<1>9. ASSUME NEW s \in Sessions, NEW id \in Ids, AcceptRandom(s, id)
      PROVE  /\ LobbyInv'
             /\ \A i \in Ids :
                  \/ ReadyMembers(encounters'["random"][i])
                       \subseteq ReadyMembers(encounters["random"][i])
                  \/ \E t \in Sessions :
                       /\ AcceptRandom(t, i)
                       /\ ReadyMembers(encounters'["random"][i])
                            \subseteq ReadyMembers(encounters["random"][i])
                                        \cup {t}
  <2>1. /\ LobbyInv'
        /\ \A i \in Ids : i # id =>
             encounters'["random"][i] = encounters["random"][i]
        /\ ReadyMembers(encounters'["random"][id])
             \subseteq ReadyMembers(encounters["random"][id]) \cup {s}
    BY <1>9, AcceptRandomIsRight
  <2>2. ASSUME NEW i \in Ids
        PROVE  \/ ReadyMembers(encounters'["random"][i])
                    \subseteq ReadyMembers(encounters["random"][i])
               \/ \E t \in Sessions :
                    /\ AcceptRandom(t, i)
                    /\ ReadyMembers(encounters'["random"][i])
                         \subseteq ReadyMembers(encounters["random"][i]) \cup {t}
    <3>1. CASE i = id
      BY <1>9, <2>1, <3>1
    <3>2. CASE i # id
      BY <2>1, <3>2
    <3> QED BY <3>1, <3>2
  <2> QED BY <2>1, <2>2
<1>10. CASE UNCHANGED vars
  <2>1. UNCHANGED encounters
    BY <1>10 DEF vars
  <2>2. LobbyInv'
    BY <1>10, SameLobby
  <2> QED BY <2>1, <2>2
<1>11. NobodyReady =>
         \A id \in Ids : ReadyMembers(encounters'["random"][id])
                           \subseteq ReadyMembers(encounters["random"][id])
  BY DEF NobodyReady
<1>12. CASE Next
  <2>1. CASE \E s \in Sessions, id \in Ids : AcceptRandom(s, id)
    BY <1>9, <2>1
  <2>2. CASE ~\E s \in Sessions, id \in Ids : AcceptRandom(s, id)
    <3>1. LobbyInv' /\ NobodyReady
      BY <1>1, <1>2, <1>3, <1>4, <1>5, <1>6, <1>7, <1>8, <1>12, <2>2 DEF Next
    <3> QED BY <1>11, <3>1
  <2> QED BY <2>1, <2>2
<1> QED BY <1>10, <1>12

\* Whatever the requests, in any order, the invariant of the lobby holds.
THEOREM LobbyIsRight == Spec => []LobbyInv
<1>1. Init => LobbyInv
  BY StartIsRight
<1>2. LobbyInv /\ [Next]_vars => LobbyInv'
  BY LobbyStep
<1> QED BY <1>1, <1>2, PTL DEF Spec

\* The variables have their types: the dates stay in their bounds, the games
\* have channels, the sessions are in arrays of which the first are in use.
THEOREM LobbyIsTyped == Spec => []TypeOK
<1>1. LobbyInv => TypeOK
  BY DEF LobbyInv, EncountersInv, MappingInv, GamesInv, CleanUpInv, TypeOK
<1> QED BY <1>1, LobbyIsRight, PTL

\* OnceInEncounter, for any number of sessions, players by encounter and
\* encounters: whatever the requests, the erasures and the stale indices at which
\* refresh_encounter writes, no session is twice in an encounter.
THEOREM SessionsAreDistinct == Spec => []OnceInEncounter
<1>1. LobbyInv => OnceInEncounter
  <2> SUFFICES ASSUME LobbyInv, NEW k \in Kinds, NEW id \in Ids
               PROVE  Distinct(encounters[k][id])
    BY DEF OnceInEncounter, Distinct
  <2>1. CASE Exists(k, id)
    BY <2>1 DEF LobbyInv, EncountersInv, Filled
  <2>2. CASE ~Exists(k, id)
    <3>1. encounters[k][id].count = 0
      BY <2>2 DEF Exists, Absent
    <3> QED BY <3>1 DEF Distinct
  <2> QED BY <2>1, <2>2
<1> QED BY <1>1, LobbyIsRight, PTL

\* The invariant is enough for the property.
LEMMA LastGameFollows == LobbyInv => LastGameIsKnown
<1> SUFFICES ASSUME LobbyInv, NEW s \in Sessions
             PROVE  channelOf[s]
                      = IF GamesOf(s) = {} \/ games[LastGame(s)].status = "gone"
                        THEN 0 ELSE LastGame(s)
  BY DEF LastGameIsKnown
<1>1. GamesInv /\ GamesOf(s) \subseteq Nat
  BY DEF LobbyInv, GamesInv, GamesOf
<1>2. ASSUME NEW c \in GamesOf(s), \A d \in GamesOf(s) : d <= c
      PROVE  LastGame(s) = c
  <2>1. \A b \in GamesOf(s) : (\A d \in GamesOf(s) : d <= b) => b = c
    <3> TAKE b \in GamesOf(s)
    <3> HAVE \A d \in GamesOf(s) : d <= b
    <3>1. c <= b /\ b <= c /\ b \in Nat /\ c \in Nat
      BY <1>1, <1>2
    <3> QED BY <3>1
  <2> QED BY <1>2, <2>1 DEF LastGame
<1>3. CASE channelOf[s] # 0
  <2>1. /\ channelOf[s] \in GamesOf(s)
        /\ games[channelOf[s]].status # "gone"
        /\ \A d \in GamesOf(s) : d <= channelOf[s]
    BY <1>1, <1>3 DEF GamesInv
  <2> QED BY <1>2, <2>1
<1>4. CASE channelOf[s] = 0
  <2>1. \/ GamesOf(s) = {}
        \/ \E c \in GamesOf(s) : /\ games[c].status = "gone"
                                 /\ \A d \in GamesOf(s) : d <= c
    BY <1>1, <1>4 DEF GamesInv
  <2> QED BY <1>2, <1>4, <2>1
<1> QED BY <1>3, <1>4

\* However launches and clean-ups of games are interleaved, the service knows
\* the last game of a player as long as it exists, and then none.
THEOREM LastGamesAreKnown == Spec => []LastGameIsKnown
BY LastGameFollows, LobbyIsRight, PTL

\* Both ways to say that a session is ready.
LEMMA ReadyMembersAreReady ==
  \A k, id, s : ReadyIn(k, id, s) <=> s \in ReadyMembers(encounters[k][id])
BY DEF ReadyIn, ReadyMembers

\* RandomGamesWait, for any number of sessions, players by encounter and
\* encounters: a player of a random game becomes ready by its own acceptance
\* only.  The flags which refresh_encounter overwrites when the encounter is full
\* are never reached, because a session on hold has its place.
THEOREM PlayersAreAwaited == Spec => RandomGamesWait
<1>1. ASSUME LobbyInv, [Next]_vars
      PROVE  ReadyByAccepting("random")
  <2> SUFFICES ASSUME NEW id \in Ids, NEW s \in Sessions,
                      ReadyIn("random", id, s)', ~ReadyIn("random", id, s)
               PROVE  AcceptRandom(s, id)
    BY DEF ReadyByAccepting
  <2>1. /\ s \in ReadyMembers(encounters'["random"][id])
        /\ s \notin ReadyMembers(encounters["random"][id])
    BY DEF ReadyIn, ReadyMembers
  <2> QED BY <1>1, <2>1, LobbyStep
<1>2. LobbyInv /\ [Next]_vars => [ReadyByAccepting("random")]_vars
  BY <1>1
<1> QED BY <1>2, LobbyIsRight, PTL DEF Spec, RandomGamesWait

-----------------------------------------------------------------------------
(* The clients and the network.                                            *)

\* The user has accepted a game exactly when the exchange repeats it, and the
\* exchange is stopped out of the screen.
RightClient(c) ==
  /\ c \in Searchers
  /\ IF c.screen = "matchmaking"
     THEN IF c.launching THEN c.exchange = "accept" /\ c.message # 0
          ELSE c.exchange = "start" /\ c.message = 0
     ELSE c.exchange = "idle" /\ ~c.launching
  /\ c.screen = "matchmaking" /\ c.shown >= 2 => c.encounter # 0

\* The id of an encounter which has been created.
Given(id) == id \in Ids /\ id < nextEncounter["random"]

\* The session s has been launched in the game channel, the one of the encounter
\* id if it is still there.
LaunchedIn(s, id, channel) ==
  /\ Given(id)
  /\ channel \in DOMAIN games
  /\ s \in games[channel].players
  /\ Exists("random", id) => encounters["random"][id].channel = channel

ClientsInv ==
  /\ clients \in [Sessions -> Searchers]
  /\ \A s \in Sessions :
       /\ RightClient(clients[s])
       /\ clients[s].encounter = 0 \/ Given(clients[s].encounter)
       /\ clients[s].message = 0 \/ Given(clients[s].message)
       /\ clients[s].screen = "game"
            => LaunchedIn(s, clients[s].message, clients[s].channel)

\* A message of the current search of a client is about the encounter which the
\* client has accepted, if it is about an acceptance.
RightRequest(m) ==
  /\ m.from \in Sessions
  /\ m.token \in Nat /\ m.token <= clients[m.from].token
  /\ m.message = 0 \/ Given(m.message)
  /\ m.message # 0 /\ m.token = clients[m.from].token
       => clients[m.from].message = m.message

RightReply(m) ==
  /\ m.to \in Sessions
  /\ m.token \in Nat /\ m.token <= clients[m.to].token
  /\ m.count \in Nat /\ m.channel \in Nat
  /\ Given(m.encounter)
  /\ m.channel # 0 =>
       /\ LaunchedIn(m.to, m.encounter, m.channel)
       /\ m.token = clients[m.to].token => clients[m.to].message = m.encounter

RequestsInv == \A m \in requests : RightRequest(m)
RepliesInv == \A m \in replies : RightReply(m)

OnlineInv == LobbyInv /\ ClientsInv /\ RequestsInv /\ RepliesInv

\* The ids given and the games are never taken back, and an encounter whose game
\* is launched stays the one of this game as long as it is there.
Followed ==
  /\ nextEncounter["random"] \in Nat /\ nextEncounter'["random"] \in Nat
  /\ nextEncounter["random"] <= nextEncounter'["random"]
  /\ \A c \in DOMAIN games : /\ c \in DOMAIN games'
                             /\ games'[c].players = games[c].players
  /\ \A id \in Ids :
       LET e == encounters["random"][id]
           f == encounters'["random"][id]
       IN Given(id) /\ f # Absent
            => e # Absent /\ (e.channel # 0 => f.channel = e.channel)

\* The actions of the lobby which the requests of the clients reach.
LEMMA RequestsFollow ==
  ASSUME LobbyInv, NEW s \in Sessions
  PROVE  /\ KeepWaiting(s) => LobbyInv' /\ Followed
         /\ \A id \in Ids : JoinRandomIn(s, id) => LobbyInv' /\ Followed
         /\ CreateRandom(s) => LobbyInv' /\ Followed
         /\ \A id \in Ids : AcceptRandom(s, id) => LobbyInv' /\ Followed
<1>0. EncountersInv /\ "random" \in Kinds
  BY KindsAndIds DEF LobbyInv
<1>1. nextEncounter["random"] \in Nat
  BY <1>0 DEF EncountersInv
<1>2. ASSUME NEW id \in Ids, NEW f,
             encounters["random"][id] # Absent,
             encounters["random"][id].channel = 0,
             encounters' = [encounters EXCEPT !["random"][id] = f],
             UNCHANGED <<nextEncounter, games>>
      PROVE  Followed
  <2>1. \A i \in Ids : i # id =>
          encounters'["random"][i] = encounters["random"][i]
    BY <1>0, <1>2 DEF EncountersInv
  <2> QED BY <1>1, <1>2, <2>1 DEF Followed
<1>3. ASSUME KeepWaiting(s)
      PROVE  LobbyInv' /\ Followed
  <2> DEFINE id == encounterOf[s]
  <2>1. LobbyInv' /\ id \in Ids /\ Exists("random", id)
        /\ encounters["random"][id].channel = 0
    BY <1>3, KeepWaitingIsRight
  <2>2. UNCHANGED <<nextEncounter, games>>
    BY <1>3 DEF KeepWaiting, registry
  <2>3. \E f : encounters' = [encounters EXCEPT !["random"][id] = f]
    BY <1>3 DEF KeepWaiting
  <2> HIDE DEF id
  <2> QED BY <1>2, <2>1, <2>2, <2>3 DEF Exists
<1>4. ASSUME NEW id \in Ids, JoinRandomIn(s, id)
      PROVE  LobbyInv' /\ Followed
  <2>1. /\ LobbyInv' /\ Exists("random", id)
        /\ encounters["random"][id].channel = 0
    BY <1>4, JoinRandomIsRight
  <2>2. UNCHANGED <<nextEncounter, games>>
    BY <1>4 DEF JoinRandomIn, registry
  <2>3. \E f : encounters' = [encounters EXCEPT !["random"][id] = f]
    BY <1>4 DEF JoinRandomIn
  <2> QED BY <1>2, <2>1, <2>2, <2>3 DEF Exists
<1>5. ASSUME CreateRandom(s)
      PROVE  LobbyInv' /\ Followed
  <2> DEFINE id == nextEncounter["random"]
  <2>1. /\ LobbyInv' /\ id \in Ids /\ nextEncounter'["random"] = id + 1
    BY <1>5, CreateRandomIsRight
  <2>2. UNCHANGED games
    BY <1>5 DEF CreateRandom, registry
  <2>3. encounters' = [encounters EXCEPT !["random"][id] = NewEncounter(s)]
    BY <1>5 DEF CreateRandom
  <2>4. \A i \in Ids : i # id =>
          encounters'["random"][i] = encounters["random"][i]
    BY <1>0, <2>3 DEF EncountersInv
  <2>5. ~Given(id)
    BY <1>1 DEF Given
  <2> QED BY <1>1, <2>1, <2>2, <2>4, <2>5 DEF Followed
<1>6. ASSUME NEW id \in Ids, AcceptRandom(s, id)
      PROVE  LobbyInv' /\ Followed
  <2> DEFINE e == encounters["random"][id]
             f == encounters'["random"][id]
  <2>1. /\ LobbyInv'
        /\ \A i \in Ids : i # id =>
             encounters'["random"][i] = encounters["random"][i]
        /\ e = Absent <=> f = Absent
        /\ e # Absent /\ e.channel # 0 => f.channel = e.channel
        /\ nextEncounter' = nextEncounter
        /\ \A c \in DOMAIN games : /\ c \in DOMAIN games'
                                   /\ games'[c].players = games[c].players
    BY <1>6, AcceptRandomIsRight
  <2> QED BY <1>1, <2>1 DEF Followed
<1> QED BY <1>3, <1>4, <1>5, <1>6

\* The timers of the server and the ends of the games.
LEMMA ServerFollows ==
  ASSUME LobbyInv, Server
  PROVE  LobbyInv' /\ Followed /\ [Next]_vars
<1>0. EncountersInv /\ "random" \in Kinds
  BY KindsAndIds DEF LobbyInv
<1>1. nextEncounter["random"] \in Nat
  BY <1>0 DEF EncountersInv
<1>2. CASE CleanUpMatchmaking("random")
  <2>1. /\ LobbyInv' /\ nextEncounter' = nextEncounter
        /\ \A id \in Ids :
             Exists("random", id)'
               => /\ Exists("random", id)
                  /\ encounters'["random"][id].channel
                       = encounters["random"][id].channel
    BY <1>0, <1>2, CleanUpMatchmakingIsRight
  <2>2. UNCHANGED games
    BY <1>2 DEF CleanUpMatchmaking, registry
  <2>3. Followed
    BY <1>1, <2>1, <2>2 DEF Followed, Exists
  <2> QED BY <1>0, <1>2, <2>1, <2>3 DEF Next
<1>3. CASE Tick
  <2>1. /\ LobbyInv'
        /\ \A id \in Ids :
             Exists("random", id)'
               => /\ Exists("random", id)
                  /\ encounters'["random"][id].channel
                       = encounters["random"][id].channel
    BY <1>0, <1>3, TickIsRight
  <2>2. UNCHANGED <<games, nextEncounter>>
    BY <1>3 DEF Tick, registry
  <2>3. Followed
    BY <1>1, <2>1, <2>2 DEF Followed, Exists
  <2> QED BY <1>3, <2>1, <2>3 DEF Next
<1>4. ASSUME NEW c \in DOMAIN games, FinishGame(c) \/ CleanUpGame(c)
      PROVE  LobbyInv' /\ Followed /\ [Next]_vars
  <2>1. /\ LobbyInv'
        /\ UNCHANGED <<encounters, nextEncounter>>
        /\ \A d \in DOMAIN games : /\ d \in DOMAIN games'
                                   /\ games'[d].players = games[d].players
    BY <1>4, GamesEndRight
  <2>2. Followed
    BY <1>1, <2>1 DEF Followed
  <2> QED BY <1>4, <2>1, <2>2 DEF Next
<1> QED BY <1>2, <1>3, <1>4 DEF Server

\* An encounter that has been given, or launched, remains so.
LEMMA LaunchedStays ==
  ASSUME LobbyInv, Followed
  PROVE  /\ \A id : Given(id) => Given(id)'
         /\ \A s, id, channel :
              LaunchedIn(s, id, channel) => LaunchedIn(s, id, channel)'
<1>1. \A id : Given(id) => Given(id)'
  <2> DEFINE n == nextEncounter["random"]
             m == nextEncounter'["random"]
  <2>1. Ids \subseteq Nat /\ n \in Nat /\ m \in Nat /\ n <= m
    BY KindsAndIds DEF Followed
  <2>2. \A id \in Ids : id < n => id < m
    <3> HIDE DEF n, m
    <3> QED BY <2>1
  <2> QED BY <2>2 DEF Given
<1>2. ASSUME NEW s, NEW id, NEW channel, LaunchedIn(s, id, channel)
      PROVE  LaunchedIn(s, id, channel)'
  <2>1. channel # 0
    BY <1>2 DEF LobbyInv, GamesInv, LaunchedIn
  <2>2. /\ Given(id) /\ id \in Ids
        /\ channel \in DOMAIN games /\ s \in games[channel].players
        /\ encounters["random"][id] # Absent
             => encounters["random"][id].channel = channel
    BY <1>2 DEF LaunchedIn, Given, Exists
  <2>3. channel \in DOMAIN games' /\ s \in games'[channel].players
    BY <2>2 DEF Followed
  <2>4. encounters'["random"][id] # Absent
          => encounters'["random"][id].channel = channel
    BY <2>1, <2>2 DEF Followed
  <2> QED BY <1>1, <2>2, <2>3, <2>4 DEF LaunchedIn, Exists
<1> QED BY <1>1, <1>2

\* Nothing becomes wrong for the clients and the messages when the lobby follows.
LEMMA OthersFollow ==
  ASSUME OnlineInv, LobbyInv', Followed, UNCHANGED clients
  PROVE  /\ ClientsInv'
         /\ \A m : RightRequest(m) => RightRequest(m)'
         /\ \A m : RightReply(m) => RightReply(m)'
<1>1. /\ \A id : Given(id) => Given(id)'
      /\ \A s, id, channel :
           LaunchedIn(s, id, channel) => LaunchedIn(s, id, channel)'
  BY LaunchedStays DEF OnlineInv
<1>2. ClientsInv'
  BY <1>1 DEF OnlineInv, ClientsInv
<1>3. ASSUME NEW m, RightRequest(m)
      PROVE  RightRequest(m)'
  BY <1>1, <1>3 DEF RightRequest
<1>4. ASSUME NEW m, RightReply(m)
      PROVE  RightReply(m)'
  BY <1>1, <1>4 DEF RightReply
<1> QED BY <1>2, <1>3, <1>4

\* A request is handled, and answered or not.
LEMMA ConsumeIsRight ==
  ASSUME OnlineInv, LobbyInv', Followed, NEW m \in requests, NEW answer,
         Consume(m, answer), \A r \in answer : RightReply(r)'
  PROVE  OnlineInv'
<1>1. /\ UNCHANGED clients
      /\ requests' \subseteq requests
      /\ replies' \subseteq replies \cup answer
  BY DEF Consume
<1>2. /\ ClientsInv'
      /\ \A r : RightRequest(r) => RightRequest(r)'
      /\ \A r : RightReply(r) => RightReply(r)'
  BY <1>1, OthersFollow
<1>3. RequestsInv'
  <2>1. \A r \in requests' : RightRequest(r)
    BY <1>1 DEF OnlineInv, RequestsInv
  <2> QED BY <1>2, <2>1 DEF RequestsInv
<1>4. RepliesInv'
  <2>1. \A r \in replies' : RightReply(r) \/ r \in answer
    BY <1>1 DEF OnlineInv, RepliesInv
  <2> QED BY <1>2, <2>1 DEF RepliesInv
<1> QED BY <1>2, <1>3, <1>4 DEF OnlineInv

\* A client does something: it keeps the encounter it has accepted, or it starts
\* another search.
LEMMA ClientChanges ==
  ASSUME OnlineInv, NEW s \in Sessions, NEW d, Update(s, d), RightClient(d),
         d.token >= clients[s].token,
         d.token = clients[s].token
           => d.message = clients[s].message \/ clients[s].message = 0,
         d.encounter = 0 \/ Given(d.encounter),
         d.message = 0 \/ Given(d.message),
         d.screen = "game" => LaunchedIn(s, d.message, d.channel)
  PROVE  /\ LobbyInv' /\ ClientsInv'
         /\ \A m : RightRequest(m) => RightRequest(m)'
         /\ \A m : RightReply(m) => RightReply(m)'
<1>1. /\ clients \in [Sessions -> Searchers] /\ d \in Searchers
      /\ clients' = [clients EXCEPT ![s] = d]
      /\ UNCHANGED <<encounters, nextEncounter, doneSessions, doneEncounters,
                     encounterOf, autoStart, encounterNamed, games, channelOf>>
  BY DEF OnlineInv, ClientsInv, Update, service, garbage, registry, RightClient
<1>2. LobbyInv'
  BY SameLobby DEF Update, OnlineInv, service, vars
<1>3. /\ \A id : Given(id)' = Given(id)
      /\ \A t, id, channel : LaunchedIn(t, id, channel)' = LaunchedIn(t, id, channel)
  BY <1>1 DEF Given, LaunchedIn, Exists
<1>4. /\ clients' \in [Sessions -> Searchers]
      /\ clients'[s] = d
      /\ \A t \in Sessions : t # s => clients'[t] = clients[t]
  BY <1>1
<1>5. ClientsInv'
  <2>1. ASSUME NEW t \in Sessions
        PROVE  /\ RightClient(clients'[t])
               /\ clients'[t].encounter = 0 \/ Given(clients'[t].encounter)
               /\ clients'[t].message = 0 \/ Given(clients'[t].message)
               /\ clients'[t].screen = "game"
                    => LaunchedIn(t, clients'[t].message, clients'[t].channel)
    <3>1. CASE t = s
      BY <1>4, <3>1
    <3>2. CASE t # s
      BY <1>4, <3>2 DEF OnlineInv, ClientsInv
    <3> QED BY <3>1, <3>2
  <2> QED BY <1>3, <1>4, <2>1 DEF ClientsInv, RightClient
<1>6. ASSUME NEW t \in Sessions
      PROVE  /\ clients[t].token \in Nat /\ clients'[t].token \in Nat
             /\ clients[t].token <= clients'[t].token
             /\ clients'[t].token = clients[t].token
                  => \/ clients'[t].message = clients[t].message
                     \/ clients[t].message = 0
  <2>1. clients[t].token \in Nat /\ clients'[t].token \in Nat
    BY <1>1, <1>4 DEF Searchers
  <2>2. CASE t = s
    BY <1>4, <2>1, <2>2
  <2>3. CASE t # s
    BY <1>4, <2>1, <2>3
  <2> QED BY <2>1, <2>2, <2>3
<1>7. ASSUME NEW m, RightRequest(m)
      PROVE  RightRequest(m)'
  <2>1. m.from \in Sessions /\ m.token \in Nat
        /\ m.token <= clients[m.from].token
    BY <1>7 DEF RightRequest
  <2>2. m.token <= clients'[m.from].token
        /\ (m.token = clients'[m.from].token
             => m.token = clients[m.from].token
                /\ clients'[m.from].token = clients[m.from].token)
    BY <1>6, <2>1
  <2>3. m.message # 0 /\ m.token = clients'[m.from].token
          => clients'[m.from].message = m.message
    BY <1>6, <1>7, <2>1, <2>2 DEF RightRequest
  <2> QED BY <1>3, <1>7, <2>2, <2>3 DEF RightRequest
<1>8. ASSUME NEW m, RightReply(m)
      PROVE  RightReply(m)'
  <2>1. m.to \in Sessions /\ m.token \in Nat
        /\ m.token <= clients[m.to].token
    BY <1>8 DEF RightReply
  <2>2. m.token <= clients'[m.to].token
        /\ (m.token = clients'[m.to].token
             => m.token = clients[m.to].token
                /\ clients'[m.to].token = clients[m.to].token)
    BY <1>6, <2>1
  <2>3. m.encounter # 0
    BY <1>8, KindsAndIds DEF RightReply, Given
  <2>4. m.channel # 0 /\ m.token = clients'[m.to].token
          => clients'[m.to].message = m.encounter
    BY <1>6, <1>8, <2>1, <2>2, <2>3 DEF RightReply
  <2> QED BY <1>3, <1>8, <2>2, <2>4 DEF RightReply
<1> QED BY <1>2, <1>5, <1>7, <1>8

\* What the client keeps when it asks for an encounter.
LEMMA StartedFields ==
  ASSUME NEW c \in Searchers
  PROVE  /\ Started(c) \in Searchers
         /\ Started(c).exchange = "start"
         /\ Started(c).token = c.token + 1
         /\ Started(c).message = 0
         /\ Started(c).screen = c.screen
         /\ Started(c).launching = c.launching
         /\ Started(c).encounter = c.encounter
         /\ Started(c).shown = c.shown
<1> DEFINE t == c.token + 1
           d == [c EXCEPT !.exchange = "start", !.token = t, !.message = 0]
<1>1. Started(c) = d
  BY DEF Started
<1>2. t \in Nat
  BY DEF Searchers
<1> HIDE DEF t
<1>3. d \in Searchers
  BY <1>2 DEF Searchers
<1>4. /\ d.exchange = "start" /\ d.token = t /\ d.message = 0
      /\ d.screen = c.screen /\ d.launching = c.launching
      /\ d.encounter = c.encounter /\ d.shown = c.shown
  BY DEF Searchers
<1> QED BY <1>1, <1>3, <1>4 DEF t

\* What it keeps when it stops to ask.
LEMMA StoppedFields ==
  ASSUME NEW c \in Searchers
  PROVE  /\ Stopped(c) \in Searchers
         /\ Stopped(c).exchange = "idle"
         /\ Stopped(c).encounter = 0
         /\ Stopped(c).token = c.token
         /\ Stopped(c).message = c.message
         /\ Stopped(c).screen = c.screen
         /\ Stopped(c).launching = c.launching
         /\ Stopped(c).shown = c.shown
         /\ Stopped(c).channel = c.channel
BY DEF Stopped, Searchers

\* What it keeps when it leaves the screen.
LEMMA ClosedFields ==
  ASSUME NEW c \in Searchers
  PROVE  /\ Closed(c) \in Searchers
         /\ Closed(c).exchange = "idle"
         /\ Closed(c).encounter = 0
         /\ ~Closed(c).launching
         /\ Closed(c).token = c.token
         /\ Closed(c).message = c.message
<1> DEFINE p == Stopped(c)
           d == [p EXCEPT !.launching = FALSE, !.shown = 0]
<1>1. Closed(c) = d
  BY DEF Closed
<1>2. /\ p \in Searchers /\ p.exchange = "idle" /\ p.encounter = 0
      /\ p.token = c.token /\ p.message = c.message
  BY StoppedFields
<1> HIDE DEF p
<1>3. /\ d \in Searchers
      /\ d.exchange = p.exchange /\ d.encounter = p.encounter
      /\ d.launching = FALSE /\ d.token = p.token /\ d.message = p.message
  BY <1>2 DEF Searchers
<1> QED BY <1>1, <1>2, <1>3

\* The button "play".
LEMMA SearchIsRight ==
  ASSUME OnlineInv, NEW s \in Sessions, Search(s)
  PROVE  OnlineInv'
<1> DEFINE c == clients[s]
           b == [c EXCEPT !.screen = "matchmaking", !.shown = 1]
           d == Started(b)
<1>1. c.screen = "lobby" /\ Update(s, d) /\ UNCHANGED <<requests, replies>>
  BY DEF Search, Displayed
<1>2. c \in Searchers /\ RightClient(c) /\ (c.encounter = 0 \/ Given(c.encounter))
  BY DEF OnlineInv, ClientsInv
<1> HIDE DEF c
<1>3. ~c.launching /\ c.token \in Nat
  BY <1>1, <1>2 DEF RightClient, Searchers
<1>4. /\ b \in Searchers /\ b.screen = "matchmaking" /\ b.shown = 1
      /\ b.token = c.token /\ b.launching = c.launching
      /\ b.encounter = c.encounter
  BY <1>2 DEF Searchers, Screens
<1> HIDE DEF b
<1>5. /\ d \in Searchers /\ d.exchange = "start" /\ d.token = c.token + 1
      /\ d.message = 0 /\ d.screen = "matchmaking" /\ ~d.launching
      /\ d.encounter = c.encounter /\ d.shown = 1
  BY <1>3, <1>4, StartedFields
<1> HIDE DEF d
<1>6. RightClient(d) /\ d.token >= c.token /\ d.token # c.token
  BY <1>3, <1>5 DEF RightClient
<1>7. /\ LobbyInv' /\ ClientsInv'
      /\ \A m : RightRequest(m) => RightRequest(m)'
      /\ \A m : RightReply(m) => RightReply(m)'
  BY <1>1, <1>2, <1>5, <1>6, ClientChanges DEF c
<1> QED BY <1>1, <1>7 DEF OnlineInv, RequestsInv, RepliesInv

\* The ready button.
LEMMA AcceptGameIsRight ==
  ASSUME OnlineInv, NEW s \in Sessions, AcceptGame(s)
  PROVE  OnlineInv'
<1> DEFINE c == clients[s]
           b == [c EXCEPT !.launching = TRUE]
           d == [b EXCEPT !.exchange = "accept", !.message = b.encounter]
<1>1. CanAccept(c) /\ Update(s, d) /\ UNCHANGED <<requests, replies>>
  BY DEF AcceptGame, GameAccepted, Accepting
<1>2. c \in Searchers /\ RightClient(c) /\ (c.encounter = 0 \/ Given(c.encounter))
  BY DEF OnlineInv, ClientsInv
<1> HIDE DEF c
<1>3. /\ c.screen = "matchmaking" /\ ~c.launching /\ c.message = 0
      /\ c.encounter # 0 /\ c.token \in Nat
  BY <1>1, <1>2 DEF RightClient, Searchers, CanAccept
<1>4. /\ b \in Searchers /\ b.screen = c.screen /\ b.shown = c.shown
      /\ b.token = c.token /\ b.launching /\ b.encounter = c.encounter
  BY <1>2 DEF Searchers
<1> HIDE DEF b
<1>5. /\ d \in Searchers /\ d.exchange = "accept" /\ d.token = c.token
      /\ d.message = c.encounter /\ d.screen = "matchmaking" /\ d.launching
      /\ d.encounter = c.encounter
  BY <1>3, <1>4 DEF Searchers
<1> HIDE DEF d
<1>6. RightClient(d) /\ d.token >= c.token
  BY <1>3, <1>5 DEF RightClient
<1>7. /\ LobbyInv' /\ ClientsInv'
      /\ \A m : RightRequest(m) => RightRequest(m)'
      /\ \A m : RightReply(m) => RightReply(m)'
  BY <1>1, <1>2, <1>3, <1>5, <1>6, ClientChanges DEF c
<1> QED BY <1>1, <1>7 DEF OnlineInv, RequestsInv, RepliesInv

\* The back button, and the end of the game.
LEMMA LeaveIsRight ==
  ASSUME OnlineInv, NEW s \in Sessions, Back(s) \/ LeaveGame(s)
  PROVE  OnlineInv'
<1> DEFINE c == clients[s]
<1>1. c \in Searchers /\ RightClient(c) /\ UNCHANGED <<requests, replies>>
      /\ (c.encounter = 0 \/ Given(c.encounter))
      /\ (c.message = 0 \/ Given(c.message))
  BY DEF OnlineInv, ClientsInv, Back, LeaveGame
<1>2. c.token \in Nat
  BY <1>1 DEF Searchers
<1>3. PICK d : /\ Update(s, d)
               /\ d \in Searchers /\ d.screen = "lobby" /\ d.exchange = "idle"
               /\ ~d.launching /\ d.token = c.token /\ d.message = c.message
               /\ d.encounter = 0 \/ d.encounter = c.encounter
  <2>1. CASE Back(s)
    <3> DEFINE b == Closed(c)
               d == [b EXCEPT !.screen = "lobby"]
    <3>1. /\ b \in Searchers /\ b.exchange = "idle" /\ b.encounter = 0
          /\ ~b.launching /\ b.token = c.token /\ b.message = c.message
      BY <1>1, ClosedFields
    <3>2. Update(s, d)
      BY <2>1 DEF Back
    <3> HIDE DEF b
    <3>3. /\ d \in Searchers /\ d.screen = "lobby" /\ d.exchange = b.exchange
          /\ d.encounter = b.encounter /\ d.launching = b.launching
          /\ d.token = b.token /\ d.message = b.message
      BY <3>1 DEF Searchers, Screens
    <3> HIDE DEF d, c
    <3> QED BY <3>1, <3>2, <3>3
  <2>2. CASE LeaveGame(s)
    <3> DEFINE d == [c EXCEPT !.screen = "lobby", !.channel = 0]
    <3>1. Update(s, d) /\ c.screen = "game"
      BY <2>2 DEF LeaveGame, BackFromGame
    <3> HIDE DEF c
    <3>2. c.exchange = "idle" /\ ~c.launching
      BY <1>1, <3>1 DEF RightClient
    <3>3. /\ d \in Searchers /\ d.screen = "lobby" /\ d.exchange = c.exchange
          /\ d.encounter = c.encounter /\ d.launching = c.launching
          /\ d.token = c.token /\ d.message = c.message
      BY <1>1 DEF Searchers, Screens
    <3> HIDE DEF d
    <3> QED BY <3>1, <3>2, <3>3
  <2> QED BY <2>1, <2>2
<1>4. RightClient(d) /\ d.token >= c.token
  BY <1>2, <1>3 DEF RightClient
<1>5. /\ LobbyInv' /\ ClientsInv'
      /\ \A m : RightRequest(m) => RightRequest(m)'
      /\ \A m : RightReply(m) => RightReply(m)'
  BY <1>1, <1>3, <1>4, ClientChanges
<1> QED BY <1>1, <1>5 DEF OnlineInv, RequestsInv, RepliesInv

\* The exchange repeats its message.
LEMMA ResendIsRight ==
  ASSUME OnlineInv, NEW s \in Sessions, Resend(s)
  PROVE  OnlineInv'
<1> DEFINE c == clients[s]
           r == [from |-> s, token |-> c.token, message |-> c.message]
<1>1. /\ requests' = requests \cup {r}
      /\ UNCHANGED <<encounters, nextEncounter, doneSessions, doneEncounters,
                     encounterOf, autoStart, encounterNamed, games, channelOf,
                     clients, replies>>
  BY DEF Resend, service, garbage, registry
<1>2. c.token \in Nat /\ (c.message = 0 \/ Given(c.message))
  BY DEF OnlineInv, ClientsInv, Searchers
<1>3. RightRequest(r)
  BY <1>2 DEF RightRequest
<1>4. LobbyInv'
  BY SameLobby DEF Resend, OnlineInv, service, vars
<1>5. /\ \A id : Given(id)' = Given(id)
      /\ \A t, id, channel : LaunchedIn(t, id, channel)' = LaunchedIn(t, id, channel)
  BY <1>1 DEF Given, LaunchedIn, Exists
<1> HIDE DEF r
<1>6. \A m \in requests' : RightRequest(m)
  BY <1>1, <1>3 DEF OnlineInv, RequestsInv
<1>7. RequestsInv'
  <2>1. \A m : RightRequest(m) => RightRequest(m)'
    BY <1>1, <1>5 DEF RightRequest
  <2> QED BY <1>6, <2>1 DEF RequestsInv
<1>8. RepliesInv'
  <2>1. \A m : RightReply(m) => RightReply(m)'
    BY <1>1, <1>5 DEF RightReply
  <2> QED BY <1>1, <2>1 DEF OnlineInv, RepliesInv
<1>9. ClientsInv'
  BY <1>1, <1>5 DEF OnlineInv, ClientsInv
<1> QED BY <1>4, <1>7, <1>8, <1>9 DEF OnlineInv

\* The screen of the client which has received the number of players.
LEMMA ProposedFields ==
  ASSUME NEW c, RightClient(c), c.screen = "matchmaking", c.encounter # 0,
         NEW count \in Nat
  PROVE  LET d == Proposed(c, count) IN
         /\ RightClient(d)
         /\ d.screen = "matchmaking"
         /\ d.token >= c.token
         /\ d.token = c.token => d.message = c.message
         /\ d.message = 0 \/ d.message = c.message
         /\ d.encounter = 0 \/ d.encounter = c.encounter
<1> DEFINE d == Proposed(c, count)
<1>1. c \in Searchers /\ c.token \in Nat
  BY DEF RightClient, Searchers
<1>2. CASE count = 1 /\ c.launching
  <2> DEFINE a == [c EXCEPT !.launching = FALSE]
             b == Stopped(a)
             e == Started(b)
  <2>1. d = [e EXCEPT !.shown = count]
    BY <1>2 DEF Proposed
  <2>2. /\ a \in Searchers /\ a.screen = c.screen /\ a.token = c.token
        /\ a.launching = FALSE
    BY <1>1 DEF Searchers
  <2> HIDE DEF a, d
  <2>3. /\ b \in Searchers /\ b.screen = c.screen /\ b.token = c.token
        /\ ~b.launching /\ b.encounter = 0
    BY <2>2, StoppedFields
  <2> HIDE DEF b
  <2>4. /\ e \in Searchers /\ e.screen = c.screen /\ e.token = c.token + 1
        /\ ~e.launching /\ e.encounter = 0 /\ e.message = 0
        /\ e.exchange = "start"
    BY <2>3, StartedFields
  <2> HIDE DEF e
  <2>5. /\ d \in Searchers /\ d.screen = c.screen /\ d.token = c.token + 1
        /\ ~d.launching /\ d.encounter = 0 /\ d.message = 0
        /\ d.exchange = "start" /\ d.shown = 1
    BY <1>2, <2>1, <2>4 DEF Searchers
  <2>6. d.token >= c.token /\ d.token # c.token
    BY <1>1, <2>5
  <2> QED BY <2>5, <2>6 DEF RightClient, d
<1>3. CASE ~(count = 1 /\ c.launching)
  <2>1. d = [c EXCEPT !.shown = count]
    BY <1>3 DEF Proposed
  <2> HIDE DEF d
  <2>2. /\ d \in Searchers /\ d.screen = c.screen /\ d.token = c.token
        /\ d.launching = c.launching /\ d.encounter = c.encounter
        /\ d.message = c.message /\ d.exchange = c.exchange
    BY <1>1, <2>1 DEF Searchers
  <2> QED BY <1>1, <2>2 DEF RightClient, d
<1> QED BY <1>2, <1>3

\* A message of the server reaches the client, maybe one of a former search: the
\* game is the one of the encounter which the client has accepted, or nothing
\* happens.
LEMMA ReceiveReplyIsRight ==
  ASSUME OnlineInv, NEW m \in replies, ReceiveReply(m)
  PROVE  OnlineInv'
<1> DEFINE s == m.to
           c == clients[s]
           d == Answer(s, m)
<1>1. Update(s, d) /\ replies' \subseteq replies /\ UNCHANGED requests
  BY DEF ReceiveReply
<1>2. /\ RightReply(m) /\ s \in Sessions
      /\ m.count \in Nat /\ Given(m.encounter) /\ m.encounter # 0
  BY KindsAndIds DEF OnlineInv, RepliesInv, RightReply, Given
<1>3. /\ c \in Searchers /\ RightClient(c)
      /\ c.encounter = 0 \/ Given(c.encounter)
      /\ c.message = 0 \/ Given(c.message)
      /\ c.screen = "game" => LaunchedIn(s, c.message, c.channel)
  BY <1>2 DEF OnlineInv, ClientsInv
<1>4. c.token \in Nat
  BY <1>3 DEF Searchers
<1>5. d = IF m.channel = 0 THEN OnHold(c, m) ELSE Launched(c, m)
  BY DEF Answer
<1> HIDE DEF c, d
<1>6. /\ RightClient(d)
      /\ d.token >= c.token
      /\ d.token = c.token => d.message = c.message
      /\ d.message = 0 \/ d.message = c.message
      /\ d.encounter = 0 \/ d.encounter = c.encounter \/ d.encounter = m.encounter
      /\ d.screen = "game" => LaunchedIn(s, d.message, d.channel)
  <2>1. CASE d = c
    BY <1>3, <1>4, <2>1
  <2>2. CASE m.channel = 0 /\ d # c
    <3> DEFINE b == [c EXCEPT !.encounter = m.encounter]
    <3>1. Waiting(c) /\ d = Proposed(b, m.count)
      BY <1>5, <2>2 DEF OnHold
    <3>2. c.screen = "matchmaking"
      BY <1>3, <3>1 DEF RightClient, Waiting
    <3>3. m.encounter \in Nat
      BY <1>2, KindsAndIds DEF Given
    <3>4. /\ b \in Searchers /\ b.screen = c.screen /\ b.token = c.token
          /\ b.launching = c.launching /\ b.message = c.message
          /\ b.exchange = c.exchange /\ b.encounter = m.encounter
          /\ b.shown = c.shown
      BY <1>3, <3>3 DEF Searchers
    <3> HIDE DEF b
    <3>5. RightClient(b)
      BY <1>2, <1>3, <3>4 DEF RightClient
    <3>6. /\ RightClient(d)
          /\ d.screen = "matchmaking"
          /\ d.token >= b.token
          /\ d.token = b.token => d.message = b.message
          /\ d.message = 0 \/ d.message = b.message
          /\ d.encounter = 0 \/ d.encounter = b.encounter
      BY <1>2, <3>1, <3>2, <3>4, <3>5, ProposedFields
    <3> QED BY <3>4, <3>6
  <2>3. CASE m.channel # 0 /\ d # c
    <3> DEFINE b == Closed(c)
    <3>1. /\ c.exchange = "accept" /\ m.token = c.token
          /\ d = [b EXCEPT !.screen = "game", !.channel = m.channel]
      BY <1>5, <2>3 DEF Launched
    <3>2. LaunchedIn(s, m.encounter, m.channel) /\ m.channel \in Nat
          /\ c.message = m.encounter
      BY <1>2, <2>3, <3>1 DEF RightReply, c
    <3>3. /\ b \in Searchers /\ b.exchange = "idle" /\ b.encounter = 0
          /\ ~b.launching /\ b.token = c.token /\ b.message = c.message
      BY <1>3, ClosedFields
    <3> HIDE DEF b
    <3>4. /\ d \in Searchers /\ d.exchange = "idle" /\ d.encounter = 0
          /\ ~d.launching /\ d.token = c.token /\ d.message = c.message
          /\ d.screen = "game" /\ d.channel = m.channel
      BY <3>1, <3>2, <3>3 DEF Searchers, Screens
    <3>5. RightClient(d) /\ d.token >= c.token
      BY <1>4, <3>4 DEF RightClient
    <3> QED BY <3>2, <3>4, <3>5
  <2> QED BY <2>1, <2>2, <2>3
<1>7. /\ LobbyInv' /\ ClientsInv'
      /\ \A r : RightRequest(r) => RightRequest(r)'
      /\ \A r : RightReply(r) => RightReply(r)'
  BY <1>1, <1>2, <1>3, <1>6, ClientChanges DEF c
<1> QED BY <1>1, <1>7 DEF OnlineInv, RequestsInv, RepliesInv

\* An answer to the request m about an encounter which exists or has existed.
LEMMA AnswerIsRight ==
  ASSUME OnlineInv, UNCHANGED clients, NEW m \in requests,
         NEW id, Given(id)', NEW count \in Nat, NEW channel \in Nat,
         channel # 0 => LaunchedIn(m.from, id, channel)' /\ m.message = id
  PROVE  RightReply([to |-> m.from, token |-> m.token, encounter |-> id,
                     count |-> count, channel |-> channel])'
<1> DEFINE a == [to |-> m.from, token |-> m.token, encounter |-> id,
                 count |-> count, channel |-> channel]
<1>1. /\ m.from \in Sessions
      /\ m.token \in Nat /\ m.token <= clients[m.from].token
      /\ m.message # 0 /\ m.token = clients[m.from].token
           => clients[m.from].message = m.message
  BY DEF OnlineInv, RequestsInv, RightRequest
<1>2. id # 0
  BY KindsAndIds DEF Given
<1>3. /\ a.to = m.from /\ a.token = m.token /\ a.encounter = id
      /\ a.count = count /\ a.channel = channel
  OBVIOUS
<1> HIDE DEF a
<1>4. RightReply(a)'
  BY <1>1, <1>2, <1>3 DEF RightReply
<1> QED BY <1>4 DEF a

\* The players of an encounter are counted.
LEMMA CountIsNatural ==
  ASSUME LobbyInv', NEW id, Given(id)'
  PROVE  encounters'["random"][id].count \in Nat
<1>1. encounters'["random"][id] \in Encounters \cup {Absent}
  BY KindsAndIds DEF LobbyInv, EncountersInv, Given
<1> QED BY <1>1, EncounterConstants DEF Encounters, Absent

\* The server tells the encounter it knows.
LEMMA OnHoldIsRight ==
  ASSUME OnlineInv, LobbyInv', UNCHANGED clients, NEW m \in requests,
         NEW id, Given(id)', NEW a \in OnHoldIn(m, id)
  PROVE  RightReply(a)'
<1> DEFINE e == encounters["random"][id]
           f == encounters'["random"][id]
<1>1. f.count \in Nat
  BY CountIsNatural
<1>2. PICK n \in Nat : n = PlayersShown(e, f, m.from)
  BY <1>1 DEF PlayersShown
<1>3. PICK channel \in Nat : channel = 0
  OBVIOUS
<1>4. a = [to |-> m.from, token |-> m.token, encounter |-> id, count |-> n,
           channel |-> channel]
  BY <1>2, <1>3 DEF OnHoldIn, Hold
<1>5. RightReply([to |-> m.from, token |-> m.token, encounter |-> id,
                  count |-> n, channel |-> channel])'
  BY <1>3, AnswerIsRight
<1> QED BY <1>4, <1>5

\* A request of a game, answered or not.
LEMMA ReceiveRequestIsRight ==
  ASSUME OnlineInv, NEW m \in requests, ReceiveRequest(m)
  PROVE  OnlineInv' /\ [Next]_vars
<1> DEFINE s == m.from
<1>1. LobbyInv /\ s \in Sessions /\ UNCHANGED clients
  BY DEF OnlineInv, RequestsInv, RightRequest, ReceiveRequest, Consume
<1>2. CASE InActiveGame(s) /\ UNCHANGED service /\ Consume(m, {})
  <2>1. UNCHANGED vars
    BY <1>2 DEF service, vars
  <2>2. LobbyInv' /\ UNCHANGED <<encounters, nextEncounter, games>>
    BY <1>1, <2>1, SameLobby DEF vars, registry
  <2>3. Followed
    BY <1>1, <2>2, KindsAndIds DEF Followed, LobbyInv, EncountersInv
  <2>4. \A r \in {} : RightReply(r)'
    OBVIOUS
  <2>5. OnlineInv'
    BY <1>2, <2>2, <2>3, <2>4, ConsumeIsRight
  <2> QED BY <2>1, <2>5
<1>3. CASE KeepWaiting(s) /\ Consume(m, OnHoldIn(m, encounterOf[s]))
  <2>0. PICK id : id = encounterOf[s]
    OBVIOUS
  <2>1. LobbyInv' /\ Followed
    BY <1>1, <1>3, RequestsFollow
  <2>2. id \in Ids /\ id < nextEncounter["random"]
    BY <1>1, <1>3, <2>0, KeepWaitingIsRight
  <2>3. Given(id)'
    BY <1>1, <2>1, <2>2, LaunchedStays DEF Given
  <2>4. \A a \in OnHoldIn(m, id) : RightReply(a)'
    BY <1>1, <2>1, <2>3, OnHoldIsRight
  <2>5. OnlineInv'
    BY <1>3, <2>0, <2>1, <2>4, ConsumeIsRight
  <2> QED BY <1>1, <1>3, <2>5 DEF Next
<1>4. ASSUME NEW id \in Ids, JoinRandomIn(s, id), Consume(m, OnHoldIn(m, id))
      PROVE  OnlineInv' /\ [Next]_vars
  <2>1. LobbyInv' /\ Followed
    BY <1>1, <1>4, RequestsFollow
  <2>2. id < nextEncounter["random"]
    BY <1>1, <1>4, JoinRandomIsRight
  <2>3. Given(id)'
    BY <1>1, <2>1, <2>2, LaunchedStays DEF Given
  <2>4. \A a \in OnHoldIn(m, id) : RightReply(a)'
    BY <1>1, <2>1, <2>3, OnHoldIsRight
  <2>5. OnlineInv'
    BY <1>4, <2>1, <2>4, ConsumeIsRight
  <2>6. JoinRandom(s)
    BY <1>4 DEF JoinRandom
  <2> QED BY <1>1, <2>5, <2>6 DEF Next
<1>5. CASE CreateRandom(s) /\ Consume(m, Hold(m, nextEncounter["random"], 1))
  <2>1. PICK id : id = nextEncounter["random"]
    OBVIOUS
  <2>2. PICK n \in Nat, channel \in Nat : n = 1 /\ channel = 0
    OBVIOUS
  <2> DEFINE a == [to |-> m.from, token |-> m.token, encounter |-> id,
                   count |-> n, channel |-> channel]
  <2>3. LobbyInv' /\ Followed
    BY <1>1, <1>5, RequestsFollow
  <2>4. id \in Ids /\ nextEncounter'["random"] = id + 1 /\ id \in Nat
    BY <1>1, <1>5, <2>1, CreateRandomIsRight, KindsAndIds
  <2>5. Given(id)'
    BY <2>4 DEF Given
  <2>6. RightReply(a)'
    BY <1>1, <2>2, <2>5, AnswerIsRight
  <2>7. Consume(m, {a})
    BY <1>5, <2>1, <2>2 DEF Hold
  <2> HIDE DEF a
  <2>8. \A r \in {a} : RightReply(r)'
    BY <2>6
  <2>9. OnlineInv'
    BY <2>3, <2>7, <2>8, ConsumeIsRight
  <2> QED BY <1>1, <1>5, <2>9 DEF Next
<1> QED BY <1>2, <1>3, <1>4, <1>5 DEF ReceiveRequest

\* When the players of an encounter are ready, its game is launched.
LEMMA StartedIsLaunched ==
  ASSUME LobbyInv, NEW s \in Sessions, NEW id \in Ids, AcceptRandom(s, id),
         s \in Members(encounters["random"][id]),
         LET e == encounters["random"][id]
             f == encounters'["random"][id]
         IN Startable(f, EnableBots /\ BotIsDue(e, f, s))
  PROVE  encounters'["random"][id].channel # 0
<1> DEFINE now == autoStart[id].set /\ autoStart[id].left = 0
           e == encounters["random"][id]
           f == encounters'["random"][id]
           w == WhenReady("random", s, id, now)
           bot == EnableBots /\ BotIsDue(e, w, s)
           full == s \in Members(e) /\ w.channel = 0 /\ Startable(w, bot)
           m == Len(games) + 1
<1>1. EncountersInv /\ MarkAsReady("random", s, id, now) /\ "random" \in Kinds
      /\ m # 0 /\ autoStart[id].set \in BOOLEAN
  BY KindsAndIds DEF AcceptRandom, LobbyInv, GamesInv, CleanUpInv
<1>2. \/ full
         /\ encounters' = [encounters EXCEPT !["random"][id]
                                               = [w EXCEPT !.channel = m]]
      \/ ~full /\ encounters' = [encounters EXCEPT !["random"][id] = w]
  BY <1>1 DEF MarkAsReady
<1>3. Filled(e) /\ w = Accepted(e, s, now) /\ now \in BOOLEAN
  <2>1. e # Absent
    BY AbsentIsNoEncounter
  <2> QED BY <1>1, <2>1 DEF EncountersInv, Exists, WhenReady
<1> HIDE DEF now, e, w, full, m
<1>4. w \in Encounters
  BY <1>3, AcceptedIsFilled DEF Filled, e
<1>5. CASE full
  <2> DEFINE g == [w EXCEPT !.channel = m]
  <2>1. g.channel = m
    BY <1>4 DEF Encounters
  <2>2. encounters' = [encounters EXCEPT !["random"][id] = g]
    BY <1>2, <1>5
  <2> HIDE DEF g
  <2>3. f = g
    BY <1>1, <2>2 DEF EncountersInv
  <2> QED BY <1>1, <2>1, <2>3
<1>6. CASE ~full
  <2>1. f = w
    BY <1>1, <1>2, <1>6 DEF EncountersInv
  <2>2. Startable(w, bot)
    BY <2>1 DEF e
  <2> QED BY <1>6, <2>1, <2>2 DEF full, e
<1> QED BY <1>5, <1>6

\* An acceptance, answered or not.
LEMMA ReceiveAcceptIsRight ==
  ASSUME OnlineInv, NEW m \in requests, ReceiveAccept(m)
  PROVE  OnlineInv' /\ [Next]_vars
<1> DEFINE s == m.from
           id == m.message
           e == encounters["random"][id]
           f == encounters'["random"][id]
           answer == ReadyAnswer(m, e, f)
<1>1. /\ LobbyInv /\ s \in Sessions /\ UNCHANGED clients /\ Given(id)
      /\ AcceptRandom(s, id) /\ Consume(m, answer)
  BY DEF OnlineInv, RequestsInv, RightRequest, ReceiveAccept, Consume
<1>2. id \in Ids /\ id < nextEncounter["random"]
  BY <1>1 DEF Given
<1>3. LobbyInv' /\ Followed
  BY <1>1, <1>2, RequestsFollow
<1>4. Given(id)'
  BY <1>1, <1>3, LaunchedStays
<1>5. f.count \in Nat
  BY <1>3, <1>4, CountIsNatural
<1>6. ASSUME NEW a \in answer
      PROVE  RightReply(a)'
  <2> DEFINE bot == EnableBots /\ BotIsDue(e, f, s)
  <2>1. e # Absent /\ s \in Members(e)
    BY DEF ReadyAnswer
  <2>2. CASE ~Startable(f, bot)
    <3>1. PICK count \in Nat, channel \in Nat :
            /\ channel = 0
            /\ a = [to |-> s, token |-> m.token, encounter |-> id,
                    count |-> count, channel |-> channel]
      BY <1>5, <2>1, <2>2 DEF ReadyAnswer, Hold
    <3> QED BY <1>1, <1>4, <3>1, AnswerIsRight
  <2>3. CASE Startable(f, bot)
    <3>1. f.channel # 0
      BY <1>1, <1>2, <2>1, <2>3, StartedIsLaunched
    <3>2. s \in Members(f) /\ f # Absent
      BY <1>1, <1>2, <2>1, AcceptRandomIsRight
    <3>3. LaunchesInv' /\ "random" \in Kinds
      BY <1>3, KindsAndIds DEF LobbyInv
    <3>4. /\ f.channel \in DOMAIN games'
          /\ Members(f) \subseteq games'[f.channel].players
      BY <1>2, <3>1, <3>2, <3>3 DEF LaunchesInv, Exists
    <3>5. f.channel \in Nat
      BY <1>3, <3>4 DEF LobbyInv, GamesInv
    <3>6. PICK count \in Nat, channel \in Nat :
            count = f.count /\ channel = f.channel
      BY <1>5, <3>5
    <3>7. a = [to |-> s, token |-> m.token, encounter |-> id,
               count |-> count, channel |-> channel]
      BY <2>1, <2>3, <3>6 DEF ReadyAnswer, Launch
    <3>8. LaunchedIn(s, id, channel)'
      BY <1>4, <3>2, <3>4, <3>6 DEF LaunchedIn
    <3> QED BY <1>1, <1>4, <3>7, <3>8, AnswerIsRight
  <2> QED BY <2>2, <2>3
<1> HIDE DEF answer
<1>7. OnlineInv'
  BY <1>1, <1>3, <1>6, ConsumeIsRight
<1> QED BY <1>1, <1>2, <1>7 DEF Next

\* Nothing is asked at first.
LEMMA OnlineStart == ASSUME OnlineInit PROVE OnlineInv
<1>1. LobbyInv /\ requests = {} /\ replies = {}
  BY StartIsRight DEF OnlineInit
<1>2. \A s \in Sessions : clients[s] = InTheLobby
  BY DEF OnlineInit
<1>3. InTheLobby \in Searchers /\ RightClient(InTheLobby)
      /\ InTheLobby.encounter = 0 /\ InTheLobby.message = 0
      /\ InTheLobby.screen = "lobby"
  BY DEF InTheLobby, RightClient, Searchers, Screens
<1> HIDE DEF InTheLobby
<1>4. clients \in [Sessions -> Searchers]
  BY <1>3 DEF OnlineInit
<1>5. ClientsInv
  BY <1>2, <1>3, <1>4 DEF ClientsInv
<1> QED BY <1>1, <1>5 DEF OnlineInv, RequestsInv, RepliesInv

\* Each step of the clients, the network and the server is one of the lobby or
\* leaves the lobby alone, and the invariant holds after it.
LEMMA OnlineStep ==
  ASSUME OnlineInv, [OnlineNext]_allVars
  PROVE  OnlineInv' /\ [Next]_vars
<1>1. ASSUME NEW s \in Sessions,
             \/ Resend(s) \/ Search(s) \/ AcceptGame(s)
             \/ Back(s) \/ LeaveGame(s)
      PROVE  OnlineInv' /\ [Next]_vars
  <2>1. OnlineInv'
    BY <1>1, ResendIsRight, SearchIsRight, AcceptGameIsRight, LeaveIsRight
  <2>2. UNCHANGED service
    BY <1>1 DEF Resend, Search, AcceptGame, Back, LeaveGame, Update
  <2> QED BY <2>1, <2>2 DEF service, vars
<1>2. ASSUME NEW m \in replies, ReceiveReply(m)
      PROVE  OnlineInv' /\ [Next]_vars
  <2>1. OnlineInv'
    BY <1>2, ReceiveReplyIsRight
  <2>2. UNCHANGED service
    BY <1>2 DEF ReceiveReply, Update
  <2> QED BY <2>1, <2>2 DEF service, vars
<1>3. ASSUME NEW m \in requests, ReceiveRequest(m) \/ ReceiveAccept(m)
      PROVE  OnlineInv' /\ [Next]_vars
  BY <1>3, ReceiveRequestIsRight, ReceiveAcceptIsRight
<1>4. CASE Server
  <2>1. LobbyInv' /\ Followed /\ [Next]_vars
    BY <1>4, ServerFollows DEF OnlineInv
  <2>2. UNCHANGED <<clients, requests, replies>>
    BY <1>4 DEF Server
  <2>3. /\ ClientsInv'
        /\ \A m : RightRequest(m) => RightRequest(m)'
        /\ \A m : RightReply(m) => RightReply(m)'
    BY <2>1, <2>2, OthersFollow
  <2>4. OnlineInv'
    BY <2>1, <2>2, <2>3 DEF OnlineInv, RequestsInv, RepliesInv
  <2> QED BY <2>1, <2>4
<1>5. CASE UNCHANGED allVars
  <2>1. UNCHANGED <<service, clients, requests, replies>>
    BY <1>5 DEF allVars
  <2>2. UNCHANGED vars /\ UNCHANGED <<encounters, nextEncounter, games>>
    BY <2>1 DEF service, vars, registry
  <2>3. LobbyInv'
    BY <2>2, SameLobby DEF OnlineInv
  <2>4. Followed
    BY <2>2, KindsAndIds
    DEF Followed, OnlineInv, LobbyInv, EncountersInv
  <2>5. /\ ClientsInv'
        /\ \A m : RightRequest(m) => RightRequest(m)'
        /\ \A m : RightReply(m) => RightReply(m)'
    BY <2>1, <2>3, <2>4, OthersFollow
  <2>6. OnlineInv'
    BY <2>1, <2>3, <2>5 DEF OnlineInv, RequestsInv, RepliesInv
  <2> QED BY <2>2, <2>6
<1> QED BY <1>1, <1>2, <1>3, <1>4, <1>5 DEF OnlineNext

\* The invariant of the clients, the network and the lobby.
THEOREM OnlineLobbyIsRight == OnlineSpec => []OnlineInv
<1>1. OnlineInit => OnlineInv
  BY OnlineStart
<1>2. OnlineInv /\ [OnlineNext]_allVars => OnlineInv'
  BY OnlineStep
<1> QED BY <1>1, <1>2, PTL DEF OnlineSpec

\* The lobby with its clients is the one of any requests: the messages lost, late
\* and repeated are requests that Lobby allows, in an order it allows.
THEOREM OnlineLobbyImplementsLobby == OnlineSpec => Spec
<1>1. OnlineInit => Init
  BY DEF OnlineInit
<1>2. OnlineInv /\ [OnlineNext]_allVars => [Next]_vars
  BY OnlineStep
<1> QED BY <1>1, <1>2, OnlineLobbyIsRight, PTL DEF OnlineSpec, Spec

\* GamesAreKnown, for any number of clients, searches, messages, encounters and
\* games: the server knows the last game of each player; a player who plays is in
\* a game the server has launched for it, the one of the encounter the player has
\* accepted; and the exchange knows the encounter when the user can accept it.
THEOREM GamesAreAgreed == OnlineSpec => []GamesAreKnown
<1>1. OnlineInv => GamesAreKnown
  <2> SUFFICES ASSUME OnlineInv
               PROVE  GamesAreKnown
    OBVIOUS
  <2>1. LastGameIsKnown
    BY LastGameFollows DEF OnlineInv
  <2>2. PlaysAcceptedGame
    BY DEF OnlineInv, ClientsInv, PlaysAcceptedGame, LaunchedIn
  <2>3. AcceptHasEncounter
    BY DEF OnlineInv, ClientsInv, RightClient, AcceptHasEncounter, CanAccept
  <2> QED BY <2>1, <2>2, <2>3 DEF GamesAreKnown
<1> QED BY <1>1, OnlineLobbyIsRight, PTL

\* What is proved of the lobby is true of the one with its clients.
THEOREM OnlineLobbyKeepsPromises ==
  OnlineSpec => /\ []OnceInEncounter
                /\ RandomGamesWait
BY OnlineLobbyImplementsLobby, SessionsAreDistinct, PlayersAreAwaited, PTL
=============================================================================
