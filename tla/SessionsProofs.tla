--------------------------- MODULE SessionsProofs ---------------------------
(***************************************************************************)
(* What holds of Sessions whatever the requests, the users, the delays and *)
(* the penalties: the maps of the sessions, of the tokens and of the users *)
(* agree, and a session announced to a client is alive and its own.        *)
(*                                                                         *)
(* The answers of one batch are handled by a loop; what it does is proved  *)
(* by induction on the number of answers handled (Iterates, Induction).    *)
(***************************************************************************)
EXTENDS Sessions, FiniteSetTheorems, SequenceTheorems, WellFoundedInduction, TLAPS

-----------------------------------------------------------------------------
(* The inductive invariant.                                                *)

\* authentication_exchange::start draws a token for the credential it sends.
TokensAreDrawn ==
  \A r1, r2 \in Requests : r1.token = r2.token => r1.credential = r2.credential

\* The three maps agree.  The two first conjuncts make TokensAgree; a user whose
\* id is no session number is in the session m_id_to_session tells, if in any.
MapsAgree(so, cl, us) ==
  /\ \A s \in Ids : cl[s] # Absent => so[cl[s].token] = s
  /\ \A t \in SoundTokens : so[t] # 0 => cl[so[t]] # Absent /\ cl[so[t]].token = t
  /\ \A u \in Users \ Ids, s \in Ids :
       cl[s] # Absent /\ cl[s].user = u => us[u] = s

\* The sessions which are not given yet have no client, and those which are have a
\* credential that could be decoded.
ClientsAreSound(cl) ==
  \A s \in Ids : cl[s] # Absent => s < nextSession /\ cl[s].credential \in WellFormed

\* The requests for the business server come from such credentials.
QueuesAreSound ==
  TokensAreDrawn =>
    /\ \A i \in DOMAIN queue : queue[i].token \in SoundTokens
    /\ \A i \in DOMAIN inFlight : inFlight[i].token \in SoundTokens

\* What the loop of user_id_response works on.
Batches == [sessionOf : [Tokens -> Ids \cup {0}],
            clients : [Ids -> Clients \cup {Absent}],
            userSession : [Users -> Ids \cup {0}],
            alive : BOOLEAN,
            result : [Tokens -> Ids \cup {0, Refused}]]

\* A session to announce is the one of its token, has a client, and its user is
\* known.
ResultsAreAlive(b) ==
  \A t \in Tokens : b.result[t] \in Ids =>
    /\ b.sessionOf[t] = b.result[t]
    /\ b.clients[b.result[t]] # Absent
    /\ b.clients[b.result[t]].user # 0
    /\ TokensAreDrawn => t \in SoundTokens

BatchIsRight(b) ==
  /\ b \in Batches
  /\ MapsAgree(b.sessionOf, b.clients, b.userSession)
  /\ ClientsAreSound(b.clients)
  /\ ResultsAreAlive(b)

SessionsInv ==
  /\ TypeOK
  /\ MapsAgree(sessionOf, clients, userSession)
  /\ ClientsAreSound(clients)
  /\ QueuesAreSound

-----------------------------------------------------------------------------
(* Loops.                                                                  *)

\* A nonempty set of natural numbers has a least element.
LEMMA LeastNatural ==
  ASSUME NEW S, S \subseteq Nat, S # {}
  PROVE  \E m \in S : \A n \in S : m <= n
<1> DEFINE R == OpToRel(<, Nat)
<1>1. PICK m \in S : \A n \in S : ~(<<n, m>> \in R)
  BY NatLessThanWellFounded, WFMin
<1>2. \A i, j \in Nat : i < j => <<i, j>> \in R
  BY DEF OpToRel
<1> HIDE DEF R
<1>3. \A n \in S : m <= n
  <2> TAKE n \in S
  <2>1. m \in Nat /\ n \in Nat /\ ~(n < m)
    BY <1>1, <1>2
  <2> QED
    BY <2>1
<1> QED
  BY <1>3

\* What holds before a loop and is preserved by its steps holds after each step.
LEMMA Induction ==
  ASSUME NEW n \in Nat, NEW S, 0 \in S, \A i \in 1..n : i - 1 \in S => i \in S
  PROVE  0..n \subseteq S
<1> SUFFICES ASSUME (0..n) \ S # {}
             PROVE  FALSE
  OBVIOUS
<1>1. PICK m \in (0..n) \ S : \A i \in (0..n) \ S : m <= i
  <2>1. (0..n) \ S \subseteq Nat
    OBVIOUS
  <2> QED
    BY <2>1, LeastNatural
<1>2. m \in 1..n /\ m - 1 \in 0..n
  BY <1>1
<1>3. m - 1 \in S
  BY <1>1, <1>2
<1> QED
  BY <1>1, <1>2, <1>3

\* The states of a loop of n steps from e, the i-th step being the function F[i].
Steps(n, S) == [1..n -> [S -> S]]
IsLoop(g, n, S, e, F) ==
  /\ g \in [0..n -> S]
  /\ g[0] = e
  /\ \A i \in 1..n : g[i] = F[i][g[i - 1]]

\* A loop is defined.
LEMMA Iterates ==
  ASSUME NEW S, NEW e \in S, NEW n \in Nat, NEW F \in Steps(n, S)
  PROVE  \E g : IsLoop(g, n, S, e, F)
<1> USE DEF Steps
<1> DEFINE Loop(m) == \E g \in [0..m -> S] :
                        g = [i \in 0..m |-> IF i = 0 THEN e ELSE F[i][g[i - 1]]]
           Done    == {m \in 0..n : Loop(m)}
<1>1. 0 \in Done
  <2> DEFINE g == [i \in 0..0 |-> e]
  <2>1. g \in [0..0 -> S]
    OBVIOUS
  <2>2. g = [i \in 0..0 |-> IF i = 0 THEN e ELSE F[i][g[i - 1]]]
    OBVIOUS
  <2> HIDE DEF g
  <2>3. Loop(0)
    BY <2>1, <2>2
  <2> QED
    BY <2>3
<1>2. ASSUME NEW m \in 1..n, m - 1 \in Done
      PROVE  m \in Done
  <2>1. PICK g \in [0..(m - 1) -> S] :
          g = [i \in 0..(m - 1) |-> IF i = 0 THEN e ELSE F[i][g[i - 1]]]
    BY <1>2
  <2> DEFINE h == [i \in 0..m |-> IF i = m THEN F[m][g[m - 1]] ELSE g[i]]
  <2>2. g[m - 1] \in S /\ F[m][g[m - 1]] \in S
    <3>1. m - 1 \in 0..(m - 1) /\ F[m] \in [S -> S]
      OBVIOUS
    <3> QED
      BY <2>1, <3>1
  <2>3. \A i \in 0..m : h[i] \in S
    BY <2>1, <2>2
  <2>4. \A i \in 0..m : h[i] = IF i = 0 THEN e ELSE F[i][h[i - 1]]
    <3> TAKE i \in 0..m
    <3>1. CASE i = m
      BY <3>1
    <3>2. CASE i # m
      <4>1. i \in 0..(m - 1) /\ (i # 0 => i - 1 \in 0..(m - 1) /\ i - 1 # m)
        BY <3>2
      <4>2. g[i] = IF i = 0 THEN e ELSE F[i][g[i - 1]]
        BY <2>1, <4>1
      <4> QED
        BY <3>2, <4>1, <4>2
    <3> QED
      BY <3>1, <3>2
  <2>5. h \in [0..m -> S]
    BY <2>3
  <2>6. h = [i \in 0..m |-> IF i = 0 THEN e ELSE F[i][h[i - 1]]]
    BY <2>4
  <2> HIDE DEF h
  <2>7. \E x \in [0..m -> S] :
          x = [i \in 0..m |-> IF i = 0 THEN e ELSE F[i][x[i - 1]]]
    <3> WITNESS h \in [0..m -> S]
    <3> QED
      BY <2>6
  <2>8. Loop(m)
    BY <2>7
  <2>9. m \in 0..n
    OBVIOUS
  <2> HIDE DEF Loop
  <2> QED
    BY <2>8, <2>9
<1> HIDE DEF Done
<1>3. 0..n \subseteq Done
  BY <1>1, <1>2, Induction
<1>4. Loop(n)
  BY <1>3 DEF Done
<1>5. PICK g \in [0..n -> S] :
        g = [i \in 0..n |-> IF i = 0 THEN e ELSE F[i][g[i - 1]]]
  BY <1>4
<1>6. IsLoop(g, n, S, e, F)
  BY <1>5 DEF IsLoop
<1> QED
  BY <1>6

-----------------------------------------------------------------------------
(* The answer to one batch.                                                *)

\* The marks are not numbers, names nor standings.
LEMMA Constants ==
  /\ Absent \notin Nat /\ Absent \notin Clients /\ Absent \notin Standings
  /\ Refused \notin Nat /\ Asking \notin Nat /\ Asking # Refused
  /\ Users \subseteq Nat \ {0} /\ 0 \notin Users
  /\ Ids \subseteq Nat \ {0} /\ 0 \notin Ids
  /\ SoundTokens \subseteq Tokens
  /\ Refused \notin Ids \cup {0} /\ Asking \notin Ids \cup {0}
BY SessionsConstants DEF Users, Credentials, Ids, SoundTokens

\* The end of the session of a user who logs in again keeps the batch right.
LEMMA WithoutSessionIsRight ==
  ASSUME NEW b, BatchIsRight(b), NEW old \in Ids \cup {0}
  PROVE  LET c == WithoutSession(b, old) IN
           /\ BatchIsRight(c)
           /\ old # 0 => c.clients[old] = Absent
           /\ \A s \in Ids : c.clients[s] # Absent => c.clients[s] = b.clients[s]
           /\ \A t \in Tokens :
                c.sessionOf[t] # b.sessionOf[t] =>
                  old # 0 /\ b.sessionOf[t] = old
           /\ c.userSession = b.userSession
<1> DEFINE c == WithoutSession(b, old)
<1>1. CASE old = 0
  BY <1>1 DEF WithoutSession
<1>2. CASE old # 0
  <2>1. old \in Ids /\ b \in Batches
    BY <1>2 DEF BatchIsRight
  <2>2. /\ c.alive = b.alive
        /\ c.userSession = b.userSession
        /\ c.clients = [b.clients EXCEPT ![old] = Absent]
        /\ c.result = RejectedWith(b.result, old)
        /\ c.sessionOf = IF b.clients[old] = Absent THEN b.sessionOf
                         ELSE [b.sessionOf EXCEPT ![b.clients[old].token] = 0]
        /\ c = [sessionOf |-> c.sessionOf, clients |-> c.clients,
                userSession |-> c.userSession, alive |-> c.alive,
                result |-> c.result]
    BY <1>2, <2>1 DEF WithoutSession, Batches
  <2> HIDE DEF c
  <2>3. \A s \in Ids : c.clients[s] = IF s = old THEN Absent ELSE b.clients[s]
    BY <2>1, <2>2 DEF Batches
  <2>4. \A t \in Tokens :
          c.result[t] = IF b.result[t] = old THEN Refused ELSE b.result[t]
    BY <2>2 DEF RejectedWith
  <2>5. \A t \in Tokens :
          c.sessionOf[t] = IF b.clients[old] # Absent /\ b.clients[old].token = t
                           THEN 0 ELSE b.sessionOf[t]
    BY <2>1, <2>2 DEF Batches
  <2>6. c \in Batches
    <3>1. c.result \in [Tokens -> Ids \cup {0, Refused}]
      BY <2>1, <2>2 DEF RejectedWith, Batches
    <3>2. c.clients \in [Ids -> Clients \cup {Absent}]
      BY <2>1, <2>2 DEF Batches
    <3>3. c.sessionOf \in [Tokens -> Ids \cup {0}]
      BY <2>1, <2>2, ZenonT(60) DEF Batches
    <3>4. c.userSession \in [Users -> Ids \cup {0}] /\ c.alive \in BOOLEAN
      BY <2>1, <2>2 DEF Batches
    <3> QED
      BY <2>2, <3>1, <3>2, <3>3, <3>4 DEF Batches
  <2>7. /\ \A s \in Ids : b.clients[s] # Absent =>
             b.clients[s] \in Clients /\ b.sessionOf[b.clients[s].token] = s
        /\ \A t \in SoundTokens :
             b.sessionOf[t] # 0 =>
               /\ b.clients[b.sessionOf[t]] # Absent
               /\ b.clients[b.sessionOf[t]].token = t
        /\ \A u \in Users \ Ids, s \in Ids :
             b.clients[s] # Absent /\ b.clients[s].user = u =>
               b.userSession[u] = s
    BY <2>1 DEF BatchIsRight, MapsAgree, Batches
  <2>8. \A s \in Ids : b.clients[s] # Absent => b.clients[s].token \in Tokens
    BY <2>7 DEF Clients
  <2>9. MapsAgree(c.sessionOf, c.clients, c.userSession)
    <3>1. \A s \in Ids :
            c.clients[s] # Absent => c.sessionOf[c.clients[s].token] = s
      BY <2>1, <2>3, <2>5, <2>7, <2>8
    <3>2. \A t \in SoundTokens :
            c.sessionOf[t] # 0 => /\ c.clients[c.sessionOf[t]] # Absent
                                  /\ c.clients[c.sessionOf[t]].token = t
      <4> TAKE t \in SoundTokens
      <4> HAVE c.sessionOf[t] # 0
      <4>1. c.sessionOf[t] = b.sessionOf[t] /\ b.sessionOf[t] \in Ids
        BY <2>1, <2>5, Constants DEF Batches
      <4>2. b.clients[b.sessionOf[t]] # Absent /\ b.clients[b.sessionOf[t]].token = t
        BY <2>7, <4>1, Constants
      <4>3. b.sessionOf[t] # old
        BY <2>1, <2>5, <4>1, <4>2, Constants
      <4> QED
        BY <2>3, <4>1, <4>2, <4>3
    <3>3. \A u \in Users \ Ids, s \in Ids :
            c.clients[s] # Absent /\ c.clients[s].user = u =>
              c.userSession[u] = s
      BY <2>2, <2>3, <2>7
    <3> QED
      BY <3>1, <3>2, <3>3 DEF MapsAgree
  <2>10. ClientsAreSound(c.clients)
    BY <2>3 DEF BatchIsRight, ClientsAreSound
  <2>11. ResultsAreAlive(c)
    <3> SUFFICES ASSUME NEW t \in Tokens, c.result[t] \in Ids
                 PROVE  /\ c.sessionOf[t] = c.result[t]
                        /\ c.clients[c.result[t]] # Absent
                        /\ c.clients[c.result[t]].user # 0
                        /\ TokensAreDrawn => t \in SoundTokens
      BY DEF ResultsAreAlive
    <3>1. c.result[t] = b.result[t] /\ b.result[t] # old /\ b.result[t] \in Ids
      BY <2>4, Constants
    <3>2. /\ b.sessionOf[t] = b.result[t]
          /\ b.clients[b.result[t]] # Absent
          /\ b.clients[b.result[t]].user # 0
          /\ TokensAreDrawn => t \in SoundTokens
      BY <3>1 DEF BatchIsRight, ResultsAreAlive
    <3>3. c.sessionOf[t] = b.sessionOf[t]
      BY <2>1, <2>5, <2>7, <3>1, <3>2
    <3> QED
      BY <2>3, <3>1, <3>2, <3>3
  <2>12. BatchIsRight(c)
    BY <2>6, <2>9, <2>10, <2>11 DEF BatchIsRight
  <2>13. \A t \in Tokens :
           c.sessionOf[t] # b.sessionOf[t] => old # 0 /\ b.sessionOf[t] = old
    BY <1>2, <2>1, <2>5, <2>7
  <2> QED
    BY <2>2, <2>3, <2>12, <2>13 DEF c
<1> QED
  BY <1>1, <1>2

\* A user who logs in keeps the batch right, if the program goes on.
LEMMA LoggedInIsRight ==
  ASSUME NEW b, BatchIsRight(b), NEW t \in Tokens, NEW u \in Users,
         TokensAreDrawn => t \in SoundTokens
  PROVE  BatchIsRight(LoggedIn(b, t, u))
<1> DEFINE s   == b.sessionOf[t]
           old == b.userSession[u]
           c   == WithoutSession(b, old)
           d   == LoggedIn(b, t, u)
<1>1. b \in Batches /\ s \in Ids \cup {0} /\ old \in Ids \cup {0}
  BY DEF BatchIsRight, Batches
<1>2. /\ BatchIsRight(c)
      /\ old # 0 => c.clients[old] = Absent
      /\ \A i \in Ids : c.clients[i] # Absent => c.clients[i] = b.clients[i]
      /\ \A i \in Tokens :
           c.sessionOf[i] # b.sessionOf[i] => old # 0 /\ b.sessionOf[i] = old
      /\ c.userSession = b.userSession
  BY <1>1, WithoutSessionIsRight
<1>3. CASE s = 0
  BY <1>3 DEF LoggedIn
<1>4. CASE s # 0 /\ c.clients[s] = Absent
  <2>1. d = [b EXCEPT !.alive = FALSE]
    BY <1>4 DEF LoggedIn
  <2>2. /\ d \in Batches
        /\ d.sessionOf = b.sessionOf /\ d.clients = b.clients
        /\ d.userSession = b.userSession /\ d.result = b.result
    BY <1>1, <2>1 DEF Batches
  <2> HIDE DEF d
  <2>3. BatchIsRight(d)
    BY <2>2 DEF BatchIsRight, ResultsAreAlive
  <2> QED
    BY <2>3 DEF d
<1>5. CASE s # 0 /\ c.clients[s] # Absent
  <2>1. s \in Ids /\ c \in Batches
    BY <1>1, <1>2, <1>5 DEF BatchIsRight
  <2>2. d = [c EXCEPT !.clients[s].user = u,
                      !.userSession[u] = s,
                      !.result[t] = IF @ = 0 THEN s ELSE @]
    BY <1>5 DEF LoggedIn
  <2> HIDE DEF c, d, s, old
  <2>3. /\ d.sessionOf = c.sessionOf
        /\ d.clients = [c.clients EXCEPT ![s].user = u]
        /\ d.userSession = [c.userSession EXCEPT ![u] = s]
        /\ d.result = [c.result EXCEPT ![t] = IF @ = 0 THEN s ELSE @]
        /\ d.alive = c.alive
        /\ d = [sessionOf |-> d.sessionOf, clients |-> d.clients,
                userSession |-> d.userSession, alive |-> d.alive,
                result |-> d.result]
    BY <2>1, <2>2 DEF Batches
  <2>4. /\ \A i \in Ids : d.clients[i] = IF i = s THEN [c.clients[s] EXCEPT !.user = u]
                                         ELSE c.clients[i]
        /\ \A v \in Users : d.userSession[v] = IF v = u THEN s ELSE c.userSession[v]
        /\ \A i \in Tokens :
             d.result[i] = IF i = t /\ c.result[i] = 0 THEN s ELSE c.result[i]
    BY <2>1, <2>3 DEF Batches
  <2>5. c.clients[s] \in Clients
    BY <1>5, <2>1 DEF Batches
  <2>6. /\ d.clients[s] \in Clients
        /\ d.clients[s].token = c.clients[s].token
        /\ d.clients[s].credential = c.clients[s].credential
        /\ d.clients[s].user = u
        /\ d.clients[s] # Absent
    BY <2>1, <2>4, <2>5, Constants DEF Clients
  <2>7. d \in Batches
    <3>1. d.clients \in [Ids -> Clients \cup {Absent}]
      BY <2>1, <2>3, <2>4, <2>6 DEF Batches
    <3>2. d.userSession \in [Users -> Ids \cup {0}]
      BY <2>1, <2>3 DEF Batches
    <3>3. d.result \in [Tokens -> Ids \cup {0, Refused}]
      BY <2>1, <2>3 DEF Batches
    <3>4. d.sessionOf \in [Tokens -> Ids \cup {0}] /\ d.alive \in BOOLEAN
      BY <2>1, <2>3 DEF Batches
    <3> QED
      BY <2>3, <3>1, <3>2, <3>3, <3>4 DEF Batches
  <2>8. MapsAgree(c.sessionOf, c.clients, c.userSession)
    BY <1>2 DEF BatchIsRight
  <2>9. MapsAgree(d.sessionOf, d.clients, d.userSession)
    <3>1. \A i \in Ids :
            d.clients[i] # Absent => d.sessionOf[d.clients[i].token] = i
      BY <1>5, <2>1, <2>3, <2>4, <2>6, <2>8 DEF MapsAgree
    <3>2. \A i \in SoundTokens :
            d.sessionOf[i] # 0 => /\ d.clients[d.sessionOf[i]] # Absent
                                  /\ d.clients[d.sessionOf[i]].token = i
      <4> TAKE i \in SoundTokens
      <4> HAVE d.sessionOf[i] # 0
      <4>1. d.sessionOf[i] \in Ids
        BY <2>7, Constants DEF Batches
      <4>2. /\ c.clients[d.sessionOf[i]] # Absent
            /\ c.clients[d.sessionOf[i]].token = i
        BY <2>3, <2>8 DEF MapsAgree
      <4> QED
        BY <2>4, <2>6, <4>1, <4>2
    <3>3. ASSUME NEW v \in Users \ Ids, NEW i \in Ids,
                 d.clients[i] # Absent, d.clients[i].user = v
          PROVE  d.userSession[v] = i
      <4>1. CASE i = s
        BY <2>4, <2>6, <3>3, <4>1
      <4>2. CASE i # s
        <5>1. c.clients[i] # Absent /\ c.userSession[v] = i
          BY <2>4, <2>8, <3>3, <4>2 DEF MapsAgree
        <5>2. v # u
          BY <1>2, <5>1, Constants DEF old
        <5> QED
          BY <2>4, <5>1, <5>2
      <4> QED
        BY <4>1, <4>2
    <3> QED
      BY <3>1, <3>2, <3>3 DEF MapsAgree
  <2>10. ClientsAreSound(d.clients)
    BY <1>2, <1>5, <2>1, <2>4, <2>6 DEF BatchIsRight, ClientsAreSound
  <2>11. c.sessionOf[t] = s
    BY <1>2, <1>5, <2>1 DEF s
  <2>12. ResultsAreAlive(d)
    <3> SUFFICES ASSUME NEW i \in Tokens, d.result[i] \in Ids
                 PROVE  /\ d.sessionOf[i] = d.result[i]
                        /\ d.clients[d.result[i]] # Absent
                        /\ d.clients[d.result[i]].user # 0
                        /\ TokensAreDrawn => i \in SoundTokens
      BY DEF ResultsAreAlive
    <3>1. CASE i = t /\ c.result[i] = 0
      BY <2>3, <2>4, <2>6, <2>11, <3>1, Constants
    <3>2. CASE ~(i = t /\ c.result[i] = 0)
      <4>1. d.result[i] = c.result[i]
        BY <2>4, <3>2
      <4>2. /\ c.sessionOf[i] = d.result[i]
            /\ c.clients[d.result[i]] # Absent
            /\ c.clients[d.result[i]].user # 0
            /\ TokensAreDrawn => i \in SoundTokens
        BY <1>2, <4>1 DEF BatchIsRight, ResultsAreAlive
      <4> QED
        BY <2>3, <2>4, <2>6, <4>2, Constants
    <3> QED
      BY <3>1, <3>2
  <2>13. BatchIsRight(d)
    BY <2>7, <2>9, <2>10, <2>12 DEF BatchIsRight
  <2> QED
    BY <2>13 DEF d
<1> QED
  BY <1>3, <1>4, <1>5

\* The answer to a batch, in whatever order, keeps the maps right and announces
\* sessions which are alive.
LEMMA ResponseIsRight ==
  ASSUME SessionsInv, NEW good \in SUBSET DOMAIN inFlight, NEW order \in Orders(good)
  PROVE  BatchIsRight(AfterResponse(order))
<1> DEFINE n == Len(order)
           bad == {inFlight[i].token :
                     i \in (DOMAIN inFlight) \ {order[i] : i \in DOMAIN order}}
           e == [sessionOf |-> sessionOf, clients |-> clients,
                 userSession |-> userSession, alive |-> TRUE,
                 result |-> [t \in Tokens |-> IF t \in bad THEN Refused ELSE 0]]
           q(i) == inFlight[order[i]]
           Handled(i, b) == IF b.alive
                            THEN LoggedIn(b, q(i).token, UserOf[q(i).credential])
                            ELSE b
           Right == {b \in Batches : BatchIsRight(b)}
           F == [i \in 1..n |-> [b \in Right |-> Handled(i, b)]]
           Runs(g) == g = [i \in 0..n |-> IF i = 0 THEN e ELSE Handled(i, g[i - 1])]
           after == CHOOSE g : Runs(g)
<1>1. /\ inFlight \in Seq([token : Tokens, credential : Credentials])
      /\ \A i \in DOMAIN inFlight :
           inFlight[i] \in [token : Tokens, credential : Credentials]
  <2> DEFINE Q == [token : Tokens, credential : Credentials]
  <2>1. inFlight \in Seq(Q)
    BY DEF SessionsInv, TypeOK
  <2> HIDE DEF Q
  <2>2. \A i \in 1..Len(inFlight) : inFlight[i] \in Q
    BY <2>1, ElementOfSeq
  <2> QED
    BY <2>1, <2>2 DEF Q
<1>2. n \in Nat /\ DOMAIN order = 1..n /\ \A i \in 1..n : order[i] \in DOMAIN inFlight
  <2>1. IsFiniteSet(DOMAIN inFlight)
    BY <1>1, FS_Interval
  <2>2. IsFiniteSet(good)
    BY <2>1, FS_Subset
  <2>3. Cardinality(good) \in Nat
    BY <2>2, FS_CardinalityType
  <2>4. order \in [1..Cardinality(good) -> good]
    BY DEF Orders
  <2>5. order \in Seq(good)
    BY <2>3, <2>4
  <2> QED
    BY <2>3, <2>4, <2>5
<1>3. e \in Right
  <2>1. e \in Batches
    BY DEF SessionsInv, TypeOK, Batches
  <2>2. ResultsAreAlive(e)
    BY Constants DEF ResultsAreAlive
  <2> QED
    BY <2>1, <2>2 DEF SessionsInv, BatchIsRight
<1>4. ASSUME NEW i \in 1..n, NEW b \in Right
      PROVE  Handled(i, b) \in Right
  <2>1. /\ q(i).token \in Tokens /\ q(i).credential \in Credentials
        /\ UserOf[q(i).credential] \in Users
        /\ TokensAreDrawn => q(i).token \in SoundTokens
    <3>1. order[i] \in DOMAIN inFlight /\ QueuesAreSound
      BY <1>2 DEF SessionsInv
    <3>2. q(i) \in [token : Tokens, credential : Credentials]
      BY <1>1, <3>1
    <3>3. UserOf[q(i).credential] \in Users
      <4>1. q(i).credential \in DOMAIN UserOf
        BY <3>2 DEF Credentials
      <4> QED
        BY <4>1 DEF Users, Credentials
    <3>4. TokensAreDrawn => q(i).token \in SoundTokens
      BY <3>1 DEF QueuesAreSound
    <3> QED
      BY <3>2, <3>3, <3>4
  <2>2. BatchIsRight(Handled(i, b))
    BY <2>1, LoggedInIsRight
  <2> QED
    BY <2>2 DEF BatchIsRight
<1> HIDE DEF n, e, Handled, Right
<1>5. PICK g : IsLoop(g, n, Right, e, F)
  <2>1. F \in Steps(n, Right)
    BY <1>4 DEF Steps
  <2> HIDE DEF F
  <2> QED
    BY <1>2, <1>3, <2>1, Iterates
<1>6. Runs(g)
  <2>1. \A i \in 0..n : i # 0 => F[i][g[i - 1]] = Handled(i, g[i - 1])
    <3> TAKE i \in 0..n
    <3> HAVE i # 0
    <3>1. i \in 1..n /\ i - 1 \in 0..n
      BY <1>2
    <3>2. g[i - 1] \in Right
      BY <1>5, <3>1 DEF IsLoop
    <3> QED
      BY <3>1, <3>2
  <2> HIDE DEF F
  <2> DEFINE Body(i) == IF i = 0 THEN e ELSE Handled(i, g[i - 1])
  <2>2. \A i \in 0..n : g[i] = Body(i)
    BY <1>2, <1>5, <2>1 DEF IsLoop
  <2>3. DOMAIN g = 0..n /\ g = [i \in 0..n |-> g[i]]
    BY <1>5 DEF IsLoop
  <2> HIDE DEF Body
  <2>4. g = [i \in 0..n |-> Body(i)]
    BY <2>2, <2>3
  <2> QED
    BY <2>4 DEF Body
<1> HIDE DEF Runs
<1>7. Runs(after)
  BY <1>6
<1> USE DEF Runs
<1> HIDE DEF after
<1>8. after[0] = e /\ \A i \in 1..n : after[i] = Handled(i, after[i - 1])
  BY <1>2, <1>7
<1>9. n \in {i \in 0..n : after[i] \in Right}
  <2> DEFINE S == {i \in 0..n : after[i] \in Right}
  <2>1. 0 \in S
    BY <1>2, <1>3, <1>8
  <2>2. \A i \in 1..n : i - 1 \in S => i \in S
    BY <1>2, <1>4, <1>8
  <2> HIDE DEF S
  <2>3. 0..n \subseteq S
    BY <1>2, <2>1, <2>2, Induction
  <2>4. n \in S
    BY <1>2, <2>3
  <2> QED
    BY <2>4 DEF S
<1>10. AfterResponse(order) = after[n]
  BY DEF AfterResponse, after, Runs, n, e, Handled
<1> QED
  BY <1>9, <1>10 DEF Right

-----------------------------------------------------------------------------
(* The steps.                                                              *)

\* What AnswersAreAlive says of a step.
Announced ==
  \A t \in Tokens :
    told'[t] \in Ids /\ told'[t] # told[t]
      => /\ clients'[told'[t]] # Absent
         /\ clients'[told'[t]].token = t
         /\ clients'[told'[t]].user # 0

\* There is no session at first.
LEMMA InitIsRight == Init => SessionsInv
<1> SUFFICES ASSUME Init
             PROVE  SessionsInv
  OBVIOUS
<1>1. TypeOK
  <2>1. nextSession \in 1..MaxSession + 1
    BY SessionsConstants DEF Init
  <2>2. <<>> \in Seq([token : Tokens, credential : Credentials])
    OBVIOUS
  <2>3. [t \in Tokens |-> 0] \in [Tokens -> 0..MaxSession \cup {Asking, Refused}]
    BY SessionsConstants
  <2> QED
    BY <2>1, <2>2, <2>3 DEF Init, TypeOK
<1>2. MapsAgree(sessionOf, clients, userSession) /\ ClientsAreSound(clients)
  BY Constants DEF Init, MapsAgree, ClientsAreSound
<1>3. QueuesAreSound
  BY DEF Init, QueuesAreSound
<1> QED
  BY <1>1, <1>2, <1>3 DEF SessionsInv

\* The fields of the type invariant which a new answer, or none, may change.
LEMMA AskIsTyped ==
  ASSUME SessionsInv, NEW t \in Tokens, NEW what \in Ids \cup {Asking, Refused},
         Answer(t, what)
  PROVE  /\ told' \in [Tokens -> 0..MaxSession \cup {Asking, Refused}]
         /\ \A i \in Tokens : told'[i] # told[i] => i = t /\ told'[i] = what
<1>1. told \in [Tokens -> 0..MaxSession \cup {Asking, Refused}]
  BY DEF SessionsInv, TypeOK
<1>2. what \in 0..MaxSession \cup {Asking, Refused}
  BY SessionsConstants DEF Ids
<1> QED
  BY <1>1, <1>2 DEF Answer

\* A request keeps the sessions right.
LEMMA AskIsRight ==
  ASSUME SessionsInv, NEW r \in Requests, Ask(r)
  PROVE  SessionsInv' /\ (TokensAreDrawn => Announced)
<1> USE DEF accounts, business
<1>1. /\ r.token \in Tokens /\ r.address \in Addresses /\ r.credential \in Credentials
      /\ TypeOK
  BY SessionsConstants DEF Credentials, SessionsInv
<1>2. CASE Refuse(r)
  <2>1. /\ told' \in [Tokens -> 0..MaxSession \cup {Asking, Refused}]
        /\ \A i \in Tokens : told'[i] # told[i] => told'[i] = Refused
    BY <1>1, <1>2, AskIsTyped DEF Refuse
  <2>2. SessionsInv'
    BY <1>2, <2>1 DEF Refuse, SessionsInv, TypeOK, MapsAgree, ClientsAreSound,
                      QueuesAreSound
  <2> QED
    BY <2>1, <2>2, Constants DEF Announced
<1>3. CASE AskAgain(r)
  <2> DEFINE s == sessionOf[r.token]
  <2>1. s \in Ids /\ clients[s] # Absent
    BY <1>3 DEF AskAgain, Live
  <2>2. \E what \in {s, Asking, Refused} : Answer(r.token, what)
    BY <1>3 DEF AskAgain, Wait
  <2>3. PICK what \in {s, Asking, Refused} : Answer(r.token, what)
    BY <2>2
  <2>4. /\ told' \in [Tokens -> 0..MaxSession \cup {Asking, Refused}]
        /\ \A i \in Tokens : told'[i] # told[i] => i = r.token /\ told'[i] = what
    BY <1>1, <2>1, <2>3, AskIsTyped
  <2>5. pending' \in [Tokens -> 0..PendingDelay \cup {Absent}]
    BY <1>1, <1>3, SessionsConstants DEF AskAgain, Wait, TypeOK
  <2>6. UNCHANGED <<accounts, business, karma>>
    BY <1>3 DEF AskAgain
  <2>7. SessionsInv'
    BY <2>4, <2>5, <2>6 DEF SessionsInv, TypeOK, MapsAgree, ClientsAreSound,
                            QueuesAreSound
  <2>8. ASSUME TokensAreDrawn, NEW t \in Tokens, told'[t] \in Ids, told'[t] # told[t]
        PROVE  /\ clients'[told'[t]] # Absent
               /\ clients'[told'[t]].token = t
               /\ clients'[told'[t]].user # 0
    <3>1. t = r.token /\ told'[t] = s
      BY <2>4, <2>8, Constants
    <3>2. told \in [Tokens -> 0..MaxSession \cup {Asking, Refused}]
      BY <1>1 DEF TypeOK
    <3>3. ~Answer(r.token, Refused) /\ ~Answer(r.token, Asking)
      BY <3>1, <3>2, <2>1, Constants DEF Answer
    <3>4. clients[s].credential = r.credential /\ clients[s].user # 0
      BY <1>3, <3>3 DEF AskAgain, Wait
    <3>5. r.credential \in WellFormed
      BY <2>1, <3>4 DEF SessionsInv, ClientsAreSound
    <3>6. r.token \in SoundTokens
      BY <1>1, <2>8, <3>5 DEF TokensAreDrawn, SoundTokens
    <3>7. clients[s].token = r.token
      BY <2>1, <3>6, Constants DEF SessionsInv, MapsAgree
    <3> QED
      BY <2>1, <2>6, <3>1, <3>4, <3>7
  <2> QED
    BY <2>7, <2>8 DEF Announced
<1>4. CASE RefuseMalformed(r)
  <2>1. /\ told' \in [Tokens -> 0..MaxSession \cup {Asking, Refused}]
        /\ \A i \in Tokens : told'[i] # told[i] => told'[i] = Refused
    BY <1>1, <1>4, AskIsTyped DEF RefuseMalformed
  <2>2. r.token \notin SoundTokens
    BY <1>4 DEF RefuseMalformed, SoundTokens
  <2>3. sessionOf' \in [Tokens -> Ids \cup {0}]
    <3>1. nextSession \in Ids
      BY <1>1, <1>4, SessionsConstants DEF RefuseMalformed, TypeOK, Ids
    <3> QED
      BY <1>1, <1>4, <3>1 DEF RefuseMalformed, TypeOK
  <2>4. TypeOK'
    BY <1>1, <1>4, <2>1, <2>3 DEF RefuseMalformed, TypeOK
  <2>5. MapsAgree(sessionOf', clients', userSession')
    <3>1. \A t \in Tokens :
            sessionOf'[t] = IF t = r.token THEN nextSession ELSE sessionOf[t]
      BY <1>1, <1>4 DEF RefuseMalformed, TypeOK
    <3>2. \A s \in Ids : clients[s] # Absent => clients[s].token \in Tokens
      BY <1>1 DEF TypeOK, Clients
    <3>3. clients' = clients /\ userSession' = userSession /\ sessionOf[r.token] = 0
      BY <1>4 DEF RefuseMalformed
    <3>4. MapsAgree(sessionOf, clients, userSession)
      BY DEF SessionsInv
    <3>5. \A s \in Ids : clients[s] # Absent => clients[s].token # r.token
      BY <3>3, <3>4, Constants DEF MapsAgree
    <3>6. \A s \in Ids : clients[s] # Absent => sessionOf'[clients[s].token] = s
      BY <3>1, <3>2, <3>4, <3>5 DEF MapsAgree
    <3>7. \A t \in SoundTokens : sessionOf'[t] = sessionOf[t]
      BY <2>2, <3>1, Constants
    <3> QED
      BY <3>3, <3>4, <3>6, <3>7 DEF MapsAgree
  <2>6. SessionsInv'
    BY <1>4, <2>4, <2>5 DEF RefuseMalformed, SessionsInv, ClientsAreSound,
                            QueuesAreSound
  <2> QED
    BY <2>1, <2>6, Constants DEF Announced
<1>5. CASE NewSession(r)
  <2> DEFINE c == [address |-> r.address, token |-> r.token, left |-> SessionDelay,
                   user |-> 0, credential |-> r.credential]
             q == [token |-> r.token, credential |-> r.credential]
  <2>1. /\ told' \in [Tokens -> 0..MaxSession \cup {Asking, Refused}]
        /\ \A i \in Tokens : told'[i] # told[i] => told'[i] = Asking
    BY <1>1, <1>5, AskIsTyped DEF NewSession, Wait
  <2>2. nextSession \in Ids /\ nextSession' = nextSession + 1
        /\ nextSession' \in 1..MaxSession + 1
    BY <1>1, <1>5, SessionsConstants DEF NewSession, TypeOK, Ids
  <2>3. c \in Clients /\ c # Absent
    <3>1. c \in Clients
      BY <1>1, SessionsConstants DEF Clients
    <3> QED
      BY <3>1, Constants
  <2>4. /\ \A s \in Ids : clients'[s] = IF s = nextSession THEN c ELSE clients[s]
        /\ clients' \in [Ids -> Clients \cup {Absent}]
    <3>1. clients' = [clients EXCEPT ![nextSession] = c]
      BY <1>5 DEF NewSession
    <3> HIDE DEF c
    <3> QED
      BY <1>1, <2>2, <2>3, <3>1 DEF TypeOK
  <2>5. /\ \A t \in Tokens :
             sessionOf'[t] = IF t = r.token THEN nextSession ELSE sessionOf[t]
        /\ sessionOf' \in [Tokens -> Ids \cup {0}]
    BY <1>1, <1>5, <2>2 DEF NewSession, TypeOK
  <2>6. queue' = Append(queue, q) /\ q \in [token : Tokens, credential : Credentials]
    BY <1>1, <1>5 DEF NewSession
  <2>7. queue' \in Seq([token : Tokens, credential : Credentials])
    BY <1>1, <2>6 DEF TypeOK
  <2>8. karma' \in [Addresses -> Standings \cup {Absent}]
    <3>1. ASSUME NEW k \in Standings \cup {Absent}
          PROVE  OneMore(k) \in Standings
      BY <3>1, SessionsConstants DEF OneMore, Standings
    <3> QED
      BY <1>1, <1>5, <3>1 DEF NewSession, TypeOK
  <2>9. pending' \in [Tokens -> 0..PendingDelay \cup {Absent}]
    BY <1>1, <1>5, SessionsConstants DEF NewSession, Wait, TypeOK
  <2>10. scheduled' \in BOOLEAN /\ UNCHANGED <<userSession, inFlight>>
    BY <1>1, <1>5 DEF NewSession, Schedule, TypeOK
  <2>11. TypeOK'
    BY <1>1, <2>1, <2>2, <2>4, <2>5, <2>7, <2>8, <2>9, <2>10 DEF TypeOK
  <2> HIDE DEF c
  <2>12. /\ MapsAgree(sessionOf, clients, userSession) /\ ClientsAreSound(clients)
         /\ clients[nextSession] = Absent
         /\ sessionOf[r.token] = 0
         /\ r.credential \in WellFormed
    <3>1. ~(nextSession < nextSession)
      BY <1>1, SessionsConstants DEF TypeOK
    <3> QED
      BY <1>5, <2>2, <3>1 DEF NewSession, SessionsInv, ClientsAreSound
  <2>13. MapsAgree(sessionOf', clients', userSession')
    <3>1. \A s \in Ids : clients[s] # Absent => clients[s].token # r.token
      BY <2>12, Constants DEF MapsAgree
    <3>2. \A s \in Ids : clients[s] # Absent => clients[s].token \in Tokens
      BY <1>1 DEF TypeOK, Clients
    <3>3. c.token = r.token /\ c.user = 0
      BY DEF c
    <3>4. \A s \in Ids : clients'[s] # Absent => sessionOf'[clients'[s].token] = s
      BY <1>1, <2>4, <2>5, <2>12, <3>1, <3>2, <3>3 DEF MapsAgree
    <3>5. \A t \in SoundTokens :
            sessionOf'[t] # 0 => /\ clients'[sessionOf'[t]] # Absent
                                 /\ clients'[sessionOf'[t]].token = t
      <4> TAKE t \in SoundTokens
      <4> HAVE sessionOf'[t] # 0
      <4>1. CASE t = r.token
        BY <1>1, <2>2, <2>3, <2>4, <2>5, <3>3, <4>1
      <4>2. CASE t # r.token
        <5>1. sessionOf'[t] = sessionOf[t] /\ sessionOf[t] \in Ids
          BY <1>1, <2>5, <4>2, Constants DEF TypeOK
        <5>2. /\ clients[sessionOf[t]] # Absent
              /\ clients[sessionOf[t]].token = t
          BY <2>12, <5>1, Constants DEF MapsAgree
        <5> QED
          BY <2>4, <2>12, <5>1, <5>2
      <4> QED
        BY <4>1, <4>2
    <3>6. \A u \in Users \ Ids, s \in Ids :
            clients'[s] # Absent /\ clients'[s].user = u => userSession'[u] = s
      BY <2>4, <2>10, <2>12, <3>3, Constants DEF MapsAgree
    <3> QED
      BY <3>4, <3>5, <3>6 DEF MapsAgree
  <2>14. ClientsAreSound(clients)'
    <3>1. c.credential = r.credential
      BY DEF c
    <3>2. \A s \in Ids : s < nextSession => s < nextSession'
      BY <1>1, <2>2 DEF TypeOK, Ids
    <3>3. nextSession < nextSession'
      BY <1>1, <2>2 DEF TypeOK, Ids
    <3> QED
      BY <2>4, <2>12, <3>1, <3>2, <3>3 DEF ClientsAreSound
  <2>15. QueuesAreSound'
    <3> SUFFICES ASSUME TokensAreDrawn
                 PROVE  /\ \A i \in DOMAIN queue' : queue'[i].token \in SoundTokens
                        /\ \A i \in DOMAIN inFlight' :
                             inFlight'[i].token \in SoundTokens
      BY DEF QueuesAreSound, TokensAreDrawn
    <3>1. r.token \in SoundTokens
      BY <1>1, <2>12 DEF TokensAreDrawn, SoundTokens
    <3>2. /\ \A i \in DOMAIN queue : queue[i].token \in SoundTokens
          /\ \A i \in DOMAIN inFlight : inFlight[i].token \in SoundTokens
      BY DEF SessionsInv, QueuesAreSound
    <3>3. queue \in Seq([token : Tokens, credential : Credentials])
      BY <1>1 DEF TypeOK
    <3>4. q.token = r.token
      OBVIOUS
    <3> HIDE DEF q
    <3>5. \A i \in DOMAIN queue' : queue'[i] = q \/ (i \in DOMAIN queue /\ queue'[i] = queue[i])
      BY <2>6, <3>3
    <3> QED
      BY <2>10, <3>1, <3>2, <3>4, <3>5
  <2>16. SessionsInv'
    BY <2>11, <2>13, <2>14, <2>15 DEF SessionsInv
  <2> QED
    BY <2>1, <2>16, Constants DEF Announced
<1> QED
  BY <1>2, <1>3, <1>4, <1>5 DEF Ask

\* fetch_user_ids and user_id_error.
LEMMA FetchIsRight ==
  ASSUME SessionsInv, Fetch \/ Fail
  PROVE  SessionsInv' /\ told' = told
<1> USE DEF accounts, business
<1>1. /\ UNCHANGED <<sessionOf, clients, nextSession, userSession, pending, karma, told>>
      /\ TypeOK /\ QueuesAreSound
  BY DEF Fetch, Fail, SessionsInv
<1>2. /\ queue' \in {queue, <<>>} /\ inFlight' \in {queue, <<>>}
      /\ scheduled' \in BOOLEAN
  BY <1>1 DEF Fetch, Fail, Schedule, TypeOK
<1>3. TypeOK'
  <2>1. <<>> \in Seq([token : Tokens, credential : Credentials])
    OBVIOUS
  <2> QED
    BY <1>1, <1>2, <2>1 DEF TypeOK
<1>4. QueuesAreSound'
  <2>1. DOMAIN <<>> = {}
    OBVIOUS
  <2> QED
    BY <1>1, <1>2, <2>1 DEF QueuesAreSound, TokensAreDrawn, SoundTokens
<1> QED
  BY <1>1, <1>3, <1>4 DEF SessionsInv, MapsAgree, ClientsAreSound, SoundTokens

\* So does the answer of the authentication.
LEMMA RespondIsRight ==
  ASSUME SessionsInv, Respond
  PROVE  SessionsInv' /\ (TokensAreDrawn => Announced)
<1> DEFINE
     Applied(b) ==
       /\ sessionOf' = b.sessionOf
       /\ clients' = b.clients
       /\ userSession' = b.userSession
       /\ pending' = [t \in Tokens |-> IF b.result[t] = 0 THEN pending[t] ELSE Absent]
       /\ told' = [t \in Tokens |->
                     IF b.result[t] = 0 \/ pending[t] = Absent THEN told[t]
                     ELSE b.result[t]]
<1>1. PICK good \in SUBSET DOMAIN inFlight :
        \E order \in Orders(good) : Applied(AfterResponse(order))
  BY DEF Respond
<1>2. PICK order \in Orders(good) : Applied(AfterResponse(order))
  BY <1>1
<1> DEFINE b == AfterResponse(order)
<1>3. BatchIsRight(b)
  BY ResponseIsRight
<1>4. /\ inFlight' = <<>> /\ scheduled' \in BOOLEAN
      /\ UNCHANGED <<nextSession, queue, karma>>
      /\ TypeOK
  BY DEF Respond, Schedule, SessionsInv, TypeOK
<1> HIDE DEF b
<1>5. Applied(b)
  BY <1>2 DEF b
<1>6. b \in Batches
  BY <1>3 DEF BatchIsRight
<1>7. TypeOK'
  <2>1. <<>> \in Seq([token : Tokens, credential : Credentials])
    OBVIOUS
  <2>2. /\ sessionOf' \in [Tokens -> Ids \cup {0}]
        /\ clients' \in [Ids -> Clients \cup {Absent}]
        /\ userSession' \in [Users -> Ids \cup {0}]
    BY <1>5, <1>6 DEF Batches
  <2>3. pending' \in [Tokens -> 0..PendingDelay \cup {Absent}]
    BY <1>4, <1>5 DEF TypeOK
  <2>4. told' \in [Tokens -> 0..MaxSession \cup {Asking, Refused}]
    <3>1. \A t \in Tokens : b.result[t] \in 0..MaxSession \cup {Asking, Refused}
      BY <1>6, SessionsConstants DEF Batches, Ids
    <3> QED
      BY <1>4, <1>5, <3>1 DEF TypeOK
  <2> QED
    BY <1>4, <2>1, <2>2, <2>3, <2>4 DEF TypeOK
<1>8. MapsAgree(sessionOf, clients, userSession)' /\ ClientsAreSound(clients)'
  BY <1>3, <1>4, <1>5 DEF BatchIsRight, MapsAgree, ClientsAreSound, SoundTokens
<1>9. QueuesAreSound'
  <2>1. DOMAIN <<>> = {}
    OBVIOUS
  <2> QED
    BY <1>4, <2>1 DEF SessionsInv, QueuesAreSound, TokensAreDrawn, SoundTokens
<1>10. ASSUME TokensAreDrawn, NEW t \in Tokens, told'[t] \in Ids, told'[t] # told[t]
      PROVE  /\ clients'[told'[t]] # Absent
             /\ clients'[told'[t]].token = t
             /\ clients'[told'[t]].user # 0
  <2>1. told'[t] = b.result[t]
    BY <1>5, <1>10
  <2>2. /\ b.sessionOf[t] = told'[t]
        /\ b.clients[told'[t]] # Absent
        /\ b.clients[told'[t]].user # 0
        /\ t \in SoundTokens
    BY <1>3, <1>10, <2>1 DEF BatchIsRight, ResultsAreAlive
  <2>3. b.clients[told'[t]].token = t
    BY <1>3, <1>10, <2>2, Constants DEF BatchIsRight, MapsAgree
  <2> QED
    BY <1>5, <2>2, <2>3
<1> QED
  BY <1>7, <1>8, <1>9, <1>10 DEF SessionsInv, Announced

\* The end of some sessions.
LEMMA DropIsRight ==
  ASSUME SessionsInv, NEW gone \in SUBSET Ids, \A s \in gone : Live(s), Drop(gone),
         karma' \in [Addresses -> Standings \cup {Absent}]
  PROVE  SessionsInv' /\ told' = told
<1> USE DEF business
<1>1. /\ UNCHANGED <<nextSession, queue, scheduled, inFlight, pending, told>>
      /\ userSession' = WithoutEntries(gone)
      /\ TypeOK /\ MapsAgree(sessionOf, clients, userSession)
      /\ ClientsAreSound(clients) /\ QueuesAreSound
  BY DEF Drop, SessionsInv
<1>2. /\ \A s \in Ids : clients'[s] = IF s \in gone THEN Absent ELSE clients[s]
      /\ \A t \in Tokens :
           sessionOf'[t] = IF \E s \in gone : clients[s].token = t THEN 0
                           ELSE sessionOf[t]
      /\ \A u \in Users \ Ids : userSession'[u] = userSession[u]
  BY <1>1 DEF Drop, WithoutEntries
<1>3. TypeOK'
  <2>1. /\ sessionOf' \in [Tokens -> Ids \cup {0}]
        /\ clients' \in [Ids -> Clients \cup {Absent}]
        /\ userSession' \in [Users -> Ids \cup {0}]
    BY <1>1 DEF Drop, WithoutEntries, TypeOK
  <2> QED
    BY <1>1, <2>1 DEF TypeOK
<1>4. \A s \in Ids : clients[s] # Absent => clients[s].token \in Tokens
  BY <1>1 DEF TypeOK, Clients
<1>5. \A s \in gone : clients[s] # Absent /\ s # 0
  BY Constants DEF Live
<1>6. MapsAgree(sessionOf', clients', userSession')
  <2>1. \A s \in Ids : clients'[s] # Absent => sessionOf'[clients'[s].token] = s
    BY <1>1, <1>2, <1>4, <1>5 DEF MapsAgree
  <2>2. \A t \in SoundTokens :
          sessionOf'[t] # 0 => /\ clients'[sessionOf'[t]] # Absent
                               /\ clients'[sessionOf'[t]].token = t
    <3> TAKE t \in SoundTokens
    <3> HAVE sessionOf'[t] # 0
    <3>1. sessionOf'[t] = sessionOf[t] /\ sessionOf[t] \in Ids
      BY <1>1, <1>2, Constants DEF TypeOK
    <3>2. clients[sessionOf[t]] # Absent /\ clients[sessionOf[t]].token = t
      BY <1>1, <3>1, Constants DEF MapsAgree
    <3>3. sessionOf[t] \notin gone
      BY <1>2, <3>1, <3>2, Constants
    <3> QED
      BY <1>2, <3>1, <3>2, <3>3
  <2>3. \A u \in Users \ Ids, s \in Ids :
          clients'[s] # Absent /\ clients'[s].user = u => userSession'[u] = s
    BY <1>1, <1>2 DEF MapsAgree
  <2> QED
    BY <2>1, <2>2, <2>3 DEF MapsAgree
<1>7. ClientsAreSound(clients)'
  BY <1>1, <1>2 DEF ClientsAreSound
<1>8. QueuesAreSound'
  BY <1>1 DEF QueuesAreSound, TokensAreDrawn, SoundTokens
<1> QED
  BY <1>1, <1>3, <1>6, <1>7, <1>8 DEF SessionsInv

\* A change of karma keeps it within the bounds of its type.
LEMMA AdjustIsTyped ==
  ASSUME TypeOK, NEW s \in Ids, NEW adjustment \in Int, Adjust(s, adjustment)
  PROVE  karma' \in [Addresses -> Standings \cup {Absent}]
<1> DEFINE a == clients[s].address
<1>1. a \in Addresses /\ karma[a] \in Standings
  BY DEF Adjust, Live, TypeOK, Clients
<1>2. Adjusted(karma[a], adjustment) \in Standings
  <2>1. Clamped(karma[a].value + adjustment) \in MinKarma..MaxKarma
    BY <1>1, SessionsConstants DEF Clamped, Standings
  <2> DEFINE v == Clamped(karma[a].value + adjustment)
             k == [karma[a] EXCEPT !.value = v,
                                   !.left = IF v < 0 THEN BlacklistDelay ELSE @]
  <2>2. Adjusted(karma[a], adjustment) = k
    BY DEF Adjusted
  <2> HIDE DEF v
  <2>3. k \in Standings
    <3>1. /\ karma[a] \in [count : Int, value : MinKarma..MaxKarma,
                          left : 0..BlacklistDelay]
          /\ v \in MinKarma..MaxKarma
          /\ BlacklistDelay \in 0..BlacklistDelay
      BY <1>1, <2>1, SessionsConstants DEF Standings, v
    <3> HIDE DEF a
    <3>2. k \in [count : Int, value : MinKarma..MaxKarma, left : 0..BlacklistDelay]
      BY <3>1
    <3> QED
      BY <3>2 DEF Standings
  <2> QED
    BY <2>2, <2>3
<1> QED
  BY <1>1, <1>2 DEF Adjust, TypeOK

\* The events of the games.
LEMMA GameEventIsRight ==
  ASSUME SessionsInv, NEW s \in Ids,
         Disconnection(s) \/ ShortGame(s) \/ GoodBehavior(s)
  PROVE  SessionsInv' /\ told' = told
<1>1. Live(s) /\ karma' \in [Addresses -> Standings \cup {Absent}]
  <2>1. PICK adjustment \in Int : Adjust(s, adjustment)
    BY SessionsConstants DEF Disconnection, ShortGame, GoodBehavior
  <2> QED
    BY <2>1, AdjustIsTyped DEF Adjust, SessionsInv
<1>2. PICK gone \in {{s}, {}} : Drop(gone)
  BY DEF Disconnection, ShortGame, GoodBehavior
<1>3. gone \in SUBSET Ids /\ \A i \in gone : Live(i)
  BY <1>1, <1>2
<1> QED
  BY <1>1, <1>2, <1>3, DropIsRight

\* So does the clean-up, which tells nobody anything.
LEMMA CleanUpIsRight ==
  ASSUME SessionsInv, CleanUpSessions
  PROVE  SessionsInv' /\ told' = told
<1>1. Expired \in SUBSET Ids /\ \A s \in Expired : Live(s)
  BY DEF Expired
<1>2. karma' \in [Addresses -> Standings \cup {Absent}]
  <2>1. ASSUME NEW k \in Standings \cup {Absent}, NEW n \in Int
        PROVE  Fewer(k, n) \in Standings \cup {Absent}
    BY <2>1 DEF Fewer, Standings
  <2>2. ASSUME NEW a \in Addresses
        PROVE  Cardinality({s \in Expired : clients[s].address = a}) \in Int
    <3>1. IsFiniteSet(Ids)
      BY SessionsConstants, FS_Interval DEF Ids
    <3>2. IsFiniteSet({s \in Expired : clients[s].address = a})
      BY <1>1, <3>1, FS_Subset
    <3> QED
      BY <3>2, FS_CardinalityType
  <2>3. karma \in [Addresses -> Standings \cup {Absent}]
    BY DEF SessionsInv, TypeOK
  <2> QED
    BY <2>1, <2>2, <2>3 DEF CleanUpSessions
<1> QED
  BY <1>1, <1>2, DropIsRight DEF CleanUpSessions

\* The dates, the karma, and what awaits an answer are not in the maps.
LEMMA TimeIsRight ==
  ASSUME SessionsInv,
         \/ \E s \in Ids : Refresh(s)
         \/ Review \/ CleanUpAuthentications \/ Tick \/ UNCHANGED vars
  PROVE  SessionsInv' /\ told' = told
<1> USE DEF accounts, business
<1>1. /\ UNCHANGED <<sessionOf, nextSession, userSession, queue, scheduled,
                     inFlight, told>>
      /\ TypeOK
  BY DEF Refresh, Review, CleanUpAuthentications, Tick, vars, SessionsInv
<1>2. ASSUME NEW d \in Nat, NEW left \in 0..d
      PROVE  Before(left) \in 0..d
  BY <1>2 DEF Before
<1>3. /\ clients' \in [Ids -> Clients \cup {Absent}]
      /\ \A s \in Ids :
           clients'[s] # Absent =>
             /\ clients[s] # Absent
             /\ clients'[s].token = clients[s].token
             /\ clients'[s].user = clients[s].user
             /\ clients'[s].credential = clients[s].credential
      /\ \A s \in Ids : clients[s] # Absent => clients'[s] # Absent
  <2> DEFINE At(c, left) == [c EXCEPT !.left = left]
  <2>1. ASSUME NEW c \in Clients, NEW left \in 0..SessionDelay
        PROVE  /\ At(c, left) \in Clients
               /\ At(c, left) # Absent
               /\ At(c, left).token = c.token
               /\ At(c, left).user = c.user
               /\ At(c, left).credential = c.credential
    <3>1. At(c, left) \in Clients
      BY <2>1 DEF Clients
    <3> QED
      BY <2>1, <3>1, Constants DEF Clients
  <2>2. CASE \E s \in Ids : Refresh(s)
    <3>1. PICK s \in Ids : Refresh(s)
      BY <2>2
    <3>2. clients' = [clients EXCEPT ![s] = [clients[s] EXCEPT !.left = SessionDelay]]
          /\ clients[s] \in Clients
      BY <1>1, <3>1 DEF Refresh, Live, TypeOK
    <3>3. SessionDelay \in 0..SessionDelay
      BY SessionsConstants
    <3>4. clients' = [clients EXCEPT ![s] = At(clients[s], SessionDelay)]
      BY <3>2
    <3> HIDE DEF At
    <3>5. clients[s] # Absent /\ clients \in [Ids -> Clients \cup {Absent}]
      BY <1>1, <3>1 DEF Refresh, Live, TypeOK
    <3>6. \A i \in Ids : clients'[i] = IF i = s THEN At(clients[s], SessionDelay)
                                       ELSE clients[i]
      BY <3>4, <3>5
    <3>7. At(clients[s], SessionDelay) \in Clients
      BY <2>1, <3>2, <3>3
    <3>8. clients' \in [Ids -> Clients \cup {Absent}]
      BY <3>4, <3>5, <3>7
    <3> QED
      BY <2>1, <3>2, <3>3, <3>5, <3>6, <3>8
  <2>3. CASE Tick
    <3>1. ASSUME NEW s \in Ids, clients[s] # Absent
          PROVE  Before(clients[s].left) \in 0..SessionDelay /\ clients[s] \in Clients
      BY <1>1, <1>2, <3>1, SessionsConstants DEF TypeOK, Clients
    <3>2. \A s \in Ids :
            clients'[s] = IF clients[s] # Absent
                          THEN At(clients[s], Before(clients[s].left))
                          ELSE Absent
      BY <2>3 DEF Tick, Live
    <3>3. clients' = [s \in Ids |-> clients'[s]]
      BY <2>3 DEF Tick
    <3> HIDE DEF At
    <3> QED
      BY <2>1, <3>1, <3>2, <3>3
  <2>4. CASE Review \/ CleanUpAuthentications \/ UNCHANGED vars
    BY <1>1, <2>4 DEF Review, CleanUpAuthentications, vars, TypeOK
  <2> QED
    BY <2>2, <2>3, <2>4
<1>4. pending' \in [Tokens -> 0..PendingDelay \cup {Absent}]
  <2>1. CASE Tick
    <3>1. \A t \in Tokens :
            pending[t] # Absent => Before(pending[t]) \in 0..PendingDelay
      BY <1>1, <1>2, SessionsConstants DEF TypeOK
    <3> QED
      BY <2>1, <3>1 DEF Tick
  <2>2. CASE CleanUpAuthentications
    BY <1>1, <2>2 DEF CleanUpAuthentications, TypeOK
  <2>3. CASE (\E s \in Ids : Refresh(s)) \/ Review \/ UNCHANGED vars
    BY <1>1, <2>3 DEF Refresh, Review, vars, TypeOK
  <2> QED
    BY <2>1, <2>2, <2>3
<1>5. karma' \in [Addresses -> Standings \cup {Absent}]
  <2>1. CASE Tick
    <3>1. \A a \in Addresses :
            karma[a] # Absent =>
              [karma[a] EXCEPT !.left = Before(@)] \in Standings
      BY <1>1, <1>2, SessionsConstants DEF TypeOK, Standings
    <3> QED
      BY <2>1, <3>1 DEF Tick
  <2>2. CASE Review
    BY <1>1, <2>2 DEF Review, TypeOK
  <2>3. CASE (\E s \in Ids : Refresh(s)) \/ CleanUpAuthentications \/ UNCHANGED vars
    BY <1>1, <2>3 DEF Refresh, CleanUpAuthentications, vars, TypeOK
  <2> QED
    BY <2>1, <2>2, <2>3
<1>6. TypeOK'
  BY <1>1, <1>3, <1>4, <1>5 DEF TypeOK
<1>7. MapsAgree(sessionOf', clients', userSession')
  <2>1. MapsAgree(sessionOf, clients, userSession)
    BY DEF SessionsInv
  <2>2. \A t \in SoundTokens : sessionOf[t] # 0 => sessionOf[t] \in Ids
    BY <1>1, Constants DEF TypeOK
  <2>3. \A s \in Ids : clients'[s] # Absent => sessionOf'[clients'[s].token] = s
    BY <1>1, <1>3, <2>1 DEF MapsAgree
  <2>4. \A t \in SoundTokens :
          sessionOf'[t] # 0 => /\ clients'[sessionOf'[t]] # Absent
                               /\ clients'[sessionOf'[t]].token = t
    BY <1>1, <1>3, <2>1, <2>2 DEF MapsAgree
  <2>5. \A u \in Users \ Ids, s \in Ids :
          clients'[s] # Absent /\ clients'[s].user = u => userSession'[u] = s
    BY <1>1, <1>3, <2>1 DEF MapsAgree
  <2> QED
    BY <2>3, <2>4, <2>5 DEF MapsAgree
<1>8. ClientsAreSound(clients)'
  BY <1>1, <1>3 DEF SessionsInv, ClientsAreSound
<1>9. QueuesAreSound'
  BY <1>1 DEF SessionsInv, QueuesAreSound, TokensAreDrawn, SoundTokens
<1> QED
  BY <1>1, <1>6, <1>7, <1>8, <1>9 DEF SessionsInv

\* So does any step.
LEMMA NextIsRight ==
  ASSUME SessionsInv, [Next]_vars
  PROVE  SessionsInv' /\ (TokensAreDrawn => Announced)
<1>1. CASE \E r \in Requests : Ask(r)
  BY <1>1, AskIsRight
<1>2. CASE Respond
  BY <1>2, RespondIsRight
<1>3. ASSUME told' = told
      PROVE  Announced
  BY <1>3 DEF Announced
<1>4. CASE Fetch \/ Fail
  BY <1>3, <1>4, FetchIsRight
<1>5. CASE \E s \in Ids : Disconnection(s) \/ ShortGame(s) \/ GoodBehavior(s)
  BY <1>3, <1>5, GameEventIsRight
<1>6. CASE CleanUpSessions
  BY <1>3, <1>6, CleanUpIsRight
<1>7. CASE \/ \E s \in Ids : Refresh(s)
           \/ Review \/ CleanUpAuthentications \/ Tick \/ UNCHANGED vars
  BY <1>3, <1>7, TimeIsRight
<1> QED
  BY <1>1, <1>2, <1>4, <1>5, <1>6, <1>7 DEF Next

-----------------------------------------------------------------------------
(* The theorems.                                                           *)

\* The state of the services is always right.
THEOREM SessionsAreRight == Spec => []SessionsInv
<1>1. SessionsInv /\ [Next]_vars => SessionsInv'
  BY NextIsRight
<1> QED
  BY <1>1, InitIsRight, PTL DEF Spec

\* The session of a token has a client, whose token it is, and a user has one
\* session, whatever is lost, answered late, out of time or logged in twice: each
\* request finds in the maps what create_or_refresh_session and user_id_response
\* dereference.
THEOREM SessionsAlwaysAgree == Spec => []SessionsAgree
<1>1. SessionsInv => SessionsAgree
  <2> SUFFICES ASSUME SessionsInv
               PROVE  SessionsAgree
    OBVIOUS
  <2>1. MapsAgree(sessionOf, clients, userSession) /\ TypeOK
    BY DEF SessionsInv
  <2>2. TokensAgree
    BY <2>1, Constants DEF MapsAgree, TokensAgree, Live, TypeOK
  <2>3. OneSessionPerUser
    BY <2>1 DEF MapsAgree, OneSessionPerUser, OneSession, Live
  <2> QED
    BY <2>2, <2>3 DEF SessionsAgree
<1> QED
  BY <1>1, SessionsAreRight, PTL

\* When a token is used for one credential, as authentication_exchange does, a
\* session announced to a client is alive, its own, and has a user, even if other
\* answers of the batch drop sessions.
THEOREM AnswersAreAlwaysAlive ==
  ASSUME TokensAreDrawn
  PROVE  Spec => AnswersAreAlive
<1>1. SessionsInv /\ [Next]_vars =>
        [\A t \in Tokens :
           told'[t] \in Ids /\ told'[t] # told[t]
             => /\ clients'[told'[t]] # Absent
                /\ clients'[told'[t]].token = t
                /\ clients'[told'[t]].user # 0]_vars
  BY NextIsRight DEF Announced
<1> QED
  BY <1>1, SessionsAreRight, PTL DEF Spec, AnswersAreAlive

=============================================================================
