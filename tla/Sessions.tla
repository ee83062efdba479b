------------------------------ MODULE Sessions ------------------------------
(***************************************************************************)
(* The sessions of the server: bim::server::authentication_service         *)
(* receives the requests of the clients, session_service gives them a      *)
(* session, asks the business server (an external service, over HTTP) for  *)
(* the id of their user, and karma_service keeps the misbehaving addresses *)
(* out.  The server is configured with a business server and with the      *)
(* karma enabled.                                                          *)
(*                                                                         *)
(* The requests are repeated by the clients until they are answered, and   *)
(* may be delayed: any request may come at any time.                       *)
(*                                                                         *)
(* A date is the time left before it.  An assert that fails, or the use of *)
(* an iterator to nothing, ends the program: there is no such step.        *)
(*                                                                         *)
(* An operator which nothing uses is a variant of the definition that      *)
(* follows it, with a defect the properties must detect.                   *)
(***************************************************************************)
EXTENDS Integers, Sequences, FiniteSets

CONSTANTS Addresses, Tokens,
          Requests,       \* the requests sent: an address, a token drawn by the
                          \* client, and what the business server gave to it
          UserOf,         \* the user of each credential
          WellFormed,     \* the credentials encoded as expected
          MaxSession,     \* g_bot_min_session - 1
          SessionDelay,   \* session_removal_delay
          PendingDelay,   \* pending_authentication_removal_delay
          BlacklistDelay, \* karma_blacklisting_duration
          MinKarma, MaxKarma, \* the bounds of the type of the karma
          InitialKarma, DisconnectionKarma, ShortGameKarma, GoodKarma,
          Absent,         \* no element has this key
          Asking, Refused \* what a client has been told, besides a session

Ids == 1..MaxSession
Credentials == DOMAIN UserOf
Users == {UserOf[c] : c \in Credentials}

\* The values of m_clients, in session_service and in karma_service.
Clients == [address : Addresses, token : Tokens, left : 0..SessionDelay,
            user : Users \cup {0}, credential : Credentials]
Standings == [count : Int, value : MinKarma..MaxKarma, left : 0..BlacklistDelay]

ASSUME SessionsConstants ==
  /\ IsFiniteSet(Tokens)
  /\ \A r \in Requests : /\ r.address \in Addresses
                         /\ r.token \in Tokens
                         /\ r.credential \in DOMAIN UserOf
  /\ \A c \in DOMAIN UserOf : UserOf[c] \in Nat \ {0}
  /\ MaxSession \in Nat
  /\ SessionDelay \in Nat \ {0}
  /\ PendingDelay \in Nat \ {0}
  /\ BlacklistDelay \in Nat \ {0}
  /\ MinKarma \in Int /\ MaxKarma \in Int
  /\ InitialKarma \in MinKarma..MaxKarma
  /\ DisconnectionKarma \in Int /\ ShortGameKarma \in Int /\ GoodKarma \in Int
  /\ Absent \notin Nat /\ Absent \notin Clients /\ Absent \notin Standings
  /\ Asking \notin Nat /\ Refused \notin Nat
  /\ Asking # Refused

VARIABLES
  sessionOf,   \* m_sessions: the session of a token, zero when there is none
  clients,     \* m_clients
  nextSession, \* m_next_real_session_id
  userSession, \* m_id_to_session, zero when there is none
  queue,       \* m_user_id_business_request
  scheduled,   \* m_schedule_user_id_connection is connected
  inFlight,    \* the request sent to the business server, empty when none is
  pending,     \* m_pending_authentication
  karma,       \* m_client of karma_service
  told         \* the last answer to each token, Asking since a request to
               \* which there is none yet, zero before any request

vars == <<sessionOf, clients, nextSession, userSession, queue, scheduled,
          inFlight, pending, karma, told>>
accounts == <<sessionOf, clients, nextSession, userSession>>
business == <<queue, scheduled, inFlight>>

Init ==
  /\ sessionOf = [t \in Tokens |-> 0]
  /\ clients = [s \in Ids |-> Absent]
  /\ nextSession = 1
  /\ userSession = [u \in Users |-> 0]
  /\ queue = <<>>
  /\ scheduled = FALSE
  /\ inFlight = <<>>
  /\ pending = [t \in Tokens |-> Absent]
  /\ karma = [a \in Addresses |-> Absent]
  /\ told = [t \in Tokens |-> 0]

Live(s) == s \in Ids /\ clients[s] # Absent

-----------------------------------------------------------------------------
(* karma_service                                                           *)

Allowed(a) == karma[a] # Absent => karma[a].value >= 0

\* add: one more session.
OneMore(k) ==
  IF k = Absent THEN [count |-> 1, value |-> InitialKarma, left |-> 0]
  ELSE [k EXCEPT !.count = @ + 1]

\* remove for n sessions.  The count is unsigned: a count below zero stands for
\* the same number modulo 2^64, which is as different from zero.
Fewer(k, n) == IF k = Absent THEN Absent ELSE [k EXCEPT !.count = @ - n]

Clamped(k) == IF k < MinKarma THEN MinKarma ELSE IF k > MaxKarma THEN MaxKarma
              ELSE k

\* add_karma, of a known address.
Adjusted(k, adjustment) ==
  LET value == Clamped(k.value + adjustment)
  IN [k EXCEPT !.value = value,
               !.left = IF value < 0 THEN BlacklistDelay ELSE @]

Forgettable(k) ==
  k # Absent /\ IF k.value >= 0 THEN k.count = 0 ELSE k.left = 0

Review ==
  /\ karma' = [a \in Addresses |-> IF Forgettable(karma[a]) THEN Absent
                                   ELSE karma[a]]
  /\ UNCHANGED <<accounts, business, pending, told>>

-----------------------------------------------------------------------------
(* create_or_refresh_session, and the answer of check_authentication       *)

\* schedule_user_id_request, with the queue q and the request f in flight.
Schedule(q, f) == scheduled' = (scheduled \/ (f = <<>> /\ q # <<>>))

Answer(t, what) == told' = [told EXCEPT ![t] = what]

\* The answer will be given by sessions_ready.
Wait(t) ==
  /\ pending' = [pending EXCEPT ![t] = PendingDelay]
  /\ Answer(t, Asking)

Refuse(r) ==
  /\ ~Allowed(r.address) \/ nextSession > MaxSession
  /\ Answer(r.token, Refused)
  /\ UNCHANGED <<accounts, business, pending, karma>>

\* The token has a session already.
AskAgain(r) ==
  LET s == sessionOf[r.token] IN
  /\ Allowed(r.address)
  /\ nextSession <= MaxSession
  /\ Live(s)
  /\ \/ /\ clients[s].credential # r.credential
        /\ Answer(r.token, Refused)
        /\ UNCHANGED pending
     \/ /\ clients[s].credential = r.credential
        /\ clients[s].user = 0
        /\ Wait(r.token)
     \/ /\ clients[s].credential = r.credential
        /\ clients[s].user # 0
        /\ Answer(r.token, s)
        /\ UNCHANGED pending
  /\ UNCHANGED <<accounts, business, karma>>

\* The token stays attached to the next session.
RefuseMalformed(r) ==
  /\ Allowed(r.address)
  /\ nextSession <= MaxSession
  /\ sessionOf[r.token] = 0
  /\ r.credential \notin WellFormed
  /\ sessionOf' = [sessionOf EXCEPT ![r.token] = nextSession]
  /\ Answer(r.token, Refused)
  /\ UNCHANGED <<clients, nextSession, userSession, business, pending, karma>>

NewSession(r) ==
  /\ Allowed(r.address)
  /\ nextSession <= MaxSession
  /\ sessionOf[r.token] = 0
  /\ r.credential \in WellFormed
  /\ sessionOf' = [sessionOf EXCEPT ![r.token] = nextSession]
  /\ clients' = [clients EXCEPT ![nextSession] =
                   [address |-> r.address, token |-> r.token,
                    left |-> SessionDelay, user |-> 0,
                    credential |-> r.credential]]
  /\ nextSession' = nextSession + 1
  /\ karma' = [karma EXCEPT ![r.address] = OneMore(@)]
  /\ queue' = Append(queue, [token |-> r.token, credential |-> r.credential])
  /\ Schedule(queue', inFlight)
  /\ Wait(r.token)
  /\ UNCHANGED <<userSession, inFlight>>

Ask(r) == Refuse(r) \/ AskAgain(r) \/ RefuseMalformed(r) \/ NewSession(r)

-----------------------------------------------------------------------------
(* The requests to the business server                                     *)

\* fetch_user_ids
Fetch ==
  /\ scheduled
  /\ scheduled' = FALSE
  /\ inFlight' = queue
  /\ queue' = <<>>
  /\ UNCHANGED <<accounts, pending, karma, told>>

\* In the records below, result is the answer to each token, zero when there is
\* none; alive tells that no assert has failed.
NoneRejected(results, old) == results

\* The requests of the same batch for the session which is dropped.
RejectedWith(results, old) ==
  [t \in Tokens |-> IF results[t] = old THEN Refused ELSE results[t]]

StillThere(b, old) == b

\* The user of the session old has another one: it is dropped.
WithoutSession(b, old) ==
  IF old = 0 THEN b
  ELSE [b EXCEPT !.sessionOf = IF b.clients[old] = Absent THEN @
                               ELSE [@ EXCEPT ![b.clients[old].token] = 0],
                 !.clients[old] = Absent,
                 !.result = RejectedWith(@, old)]

\* An accepted token, of user u, by the loop of user_id_response.
LoggedIn(b, t, u) ==
  LET s == b.sessionOf[t]
      c == WithoutSession(b, b.userSession[u])
  IN IF s = 0 THEN b
     ELSE IF c.clients[s] = Absent THEN [b EXCEPT !.alive = FALSE]
     ELSE [c EXCEPT !.clients[s].user = u,
                    !.userSession[u] = s,
                    !.result[t] = IF @ = 0 THEN s ELSE @]

\* The orders in which the elements of a finite set of numbers can be answered.
Orders(set) ==
  {f \in [1..Cardinality(set) -> set] :
     \A i, j \in DOMAIN f : i # j => f[i] # f[j]}

\* user_id_response, when the requests in flight of these indices are accepted,
\* in this order, and the others rejected.
AfterResponse(order) ==
  LET good == {order[i] : i \in DOMAIN order}
      bad  == {inFlight[i].token : i \in (DOMAIN inFlight) \ good}
      after[i \in 0..Len(order)] ==
        IF i = 0
        THEN [sessionOf |-> sessionOf, clients |-> clients,
              userSession |-> userSession, alive |-> TRUE,
              result |-> [t \in Tokens |-> IF t \in bad THEN Refused ELSE 0]]
        ELSE LET q == inFlight[order[i]]
             IN IF after[i - 1].alive
                THEN LoggedIn(after[i - 1], q.token, UserOf[q.credential])
                ELSE after[i - 1]
  IN after[Len(order)]

\* user_id_response, then sessions_ready: an answer which nobody awaits is not
\* sent.
Respond ==
  /\ inFlight # <<>>
  /\ \E good \in SUBSET DOMAIN inFlight : \E order \in Orders(good) :
       LET b == AfterResponse(order) IN
       /\ b.alive
       /\ sessionOf' = b.sessionOf
       /\ clients' = b.clients
       /\ userSession' = b.userSession
       /\ pending' = [t \in Tokens |-> IF b.result[t] = 0 THEN pending[t]
                                       ELSE Absent]
       /\ told' = [t \in Tokens |->
                     IF b.result[t] = 0 \/ pending[t] = Absent THEN told[t]
                     ELSE b.result[t]]
  /\ inFlight' = <<>>
  /\ Schedule(queue, <<>>)
  /\ UNCHANGED <<nextSession, queue, karma>>

\* user_id_error: the tokens which were in flight are forgotten.
Fail ==
  /\ inFlight # <<>>
  /\ inFlight' = <<>>
  /\ Schedule(queue, <<>>)
  /\ UNCHANGED <<accounts, queue, pending, karma, told>>

-----------------------------------------------------------------------------
(* Messages, events of the games, and timers                               *)

\* refresh_session, by any message of a client that knows its session.
Refresh(s) ==
  /\ Live(s)
  /\ clients[s].user # 0
  /\ clients' = [clients EXCEPT ![s].left = SessionDelay]
  /\ UNCHANGED <<sessionOf, nextSession, userSession, business, pending, karma,
                 told>>

\* The entries of m_id_to_session erased with these sessions: their numbers are
\* used as ids of users.
WithoutEntries(gone) ==
  [u \in Users |-> IF u \in gone THEN 0 ELSE userSession[u]]

DropClientsOnly(gone) ==
  /\ userSession' = WithoutEntries(gone)
  /\ clients' = [s \in Ids |-> IF s \in gone THEN Absent ELSE clients[s]]
  /\ UNCHANGED <<sessionOf, nextSession, business, pending, told>>

\* disconnect, and the loop of clean_up.
Drop(gone) ==
  /\ userSession' = WithoutEntries(gone)
  /\ sessionOf' = [t \in Tokens |->
                     IF \E s \in gone : clients[s].token = t THEN 0
                     ELSE sessionOf[t]]
  /\ clients' = [s \in Ids |-> IF s \in gone THEN Absent ELSE clients[s]]
  /\ UNCHANGED <<nextSession, business, pending, told>>

\* The karma of the address of s changes, by the adjustment for an event of its
\* game.  The address must be known.
Adjust(s, adjustment) ==
  /\ Live(s)
  /\ clients[s].user # 0
  /\ karma[clients[s].address] # Absent
  /\ karma' = [karma EXCEPT ![clients[s].address] = Adjusted(@, adjustment)]

Disconnection(s) == Adjust(s, DisconnectionKarma) /\ Drop({s})

ShortGameStays(s) == Adjust(s, ShortGameKarma) /\ Drop({})

ShortGame(s) ==
  /\ Adjust(s, ShortGameKarma)
  /\ Drop(IF Adjusted(karma[clients[s].address], ShortGameKarma).value < 0
          THEN {s} ELSE {})

GoodBehavior(s) == Adjust(s, GoodKarma) /\ Drop({})

LoggedInExpired ==
  {s \in Ids : Live(s) /\ clients[s].left = 0 /\ clients[s].user # 0}

\* The clients clean_up removes.
Expired == {s \in Ids : Live(s) /\ clients[s].left = 0}

CleanUpSessions ==
  /\ Drop(Expired)
  /\ karma' = [a \in Addresses |->
                 Fewer(karma[a], Cardinality({s \in Expired :
                                                clients[s].address = a}))]

CleanUpAuthentications ==
  /\ pending' = [t \in Tokens |-> IF pending[t] = 0 THEN Absent ELSE pending[t]]
  /\ UNCHANGED <<accounts, business, karma, told>>

Before(left) == IF left = 0 THEN 0 ELSE left - 1

Tick ==
  /\ clients' = [s \in Ids |-> IF Live(s)
                               THEN [clients[s] EXCEPT !.left = Before(@)]
                               ELSE Absent]
  /\ pending' = [t \in Tokens |-> IF pending[t] = Absent THEN Absent
                                  ELSE Before(pending[t])]
  /\ karma' = [a \in Addresses |-> IF karma[a] = Absent THEN Absent
                                   ELSE [karma[a] EXCEPT !.left = Before(@)]]
  /\ UNCHANGED <<sessionOf, nextSession, userSession, business, told>>

Next ==
  \/ \E r \in Requests : Ask(r)
  \/ \E s \in Ids : \/ Refresh(s)
                    \/ Disconnection(s)
                    \/ ShortGame(s)
                    \/ GoodBehavior(s)
  \/ Fetch \/ Respond \/ Fail
  \/ Review \/ CleanUpSessions \/ CleanUpAuthentications
  \/ Tick

Spec == Init /\ [][Next]_vars

\* The timers expire, the HTTP requests end (nothing says that they succeed), and
\* a request repeated until it is answered is received.
Fairness ==
  /\ \A r \in Requests : WF_vars(told[r.token] = Asking /\ Ask(r))
  /\ WF_vars(Fetch) /\ WF_vars(Respond \/ Fail)
  /\ WF_vars(Review) /\ WF_vars(CleanUpSessions) /\ WF_vars(Tick)

FairSpec == Spec /\ Fairness

-----------------------------------------------------------------------------
(* Properties                                                              *)

TypeOK ==
  /\ sessionOf \in [Tokens -> Ids \cup {0}]
  /\ clients \in [Ids -> Clients \cup {Absent}]
  /\ nextSession \in 1..MaxSession + 1
  /\ userSession \in [Users -> Ids \cup {0}]
  /\ queue \in Seq([token : Tokens, credential : Credentials])
  /\ scheduled \in BOOLEAN
  /\ inFlight \in Seq([token : Tokens, credential : Credentials])
  /\ pending \in [Tokens -> 0..PendingDelay \cup {Absent}]
  /\ karma \in [Addresses -> Standings \cup {Absent}]
  /\ told \in [Tokens -> 0..MaxSession \cup {Asking, Refused}]

\* The tokens of the requests which are all well formed.
SoundTokens ==
  {t \in Tokens : \A r \in Requests : r.token = t => r.credential \in WellFormed}

\* The maps of the service agree whatever is removed on a time-out, a double
\* log-in or a penalty: the session of a token has a client, and it is the one of
\* this token.  create_or_refresh_session dereferences the client without a test.
TokensAgree ==
  /\ \A s \in Ids : Live(s) => sessionOf[clients[s].token] = s
  /\ \A t \in SoundTokens :
       sessionOf[t] # 0 => Live(sessionOf[t])

OneSession(u) ==
  \A s1, s2 \in Ids :
    /\ Live(s1) /\ Live(s2)
    /\ clients[s1].user = u /\ clients[s2].user = u
    => s1 = s2

\* A user has one session, the last one which has logged in, whatever is lost or
\* answered late, as long as its id is not the number of a session: the end of this
\* session would let the user log in twice.
OneSessionPerUser == \A u \in Users \ Ids : OneSession(u)

\* The maps of the sessions, of the tokens and of the users agree.
SessionsAgree == TokensAgree /\ OneSessionPerUser

\* A session announced to a client is alive and its own, even if another answer
\* of the same batch drops sessions (the comment in user_id_response: "Make sure
\* to reject" the requests "from the same batch too").
AnswersAreAlive ==
  [][\A t \in Tokens :
       told'[t] \in Ids /\ told'[t] # told[t]
         => /\ clients'[told'[t]] # Absent
            /\ clients'[told'[t]].token = t
            /\ clients'[told'[t]].user # 0]_vars

\* A client who repeats its request is eventually answered, although requests to
\* the business server fail and lose it, and sessions expire meanwhile.  A loss is
\* recovered when the session has expired, at the price of another one: those who
\* only meet failures are refused once the MaxSession sessions are used up.
EventuallyAnswered ==
  \A t \in SoundTokens : told[t] = Asking ~> told[t] # Asking

\* An address is not kept out forever: the sessions it has left cannot extend the
\* delay endlessly.
BlacklistEnds ==
  \A a \in Addresses : ~Allowed(a) ~> Allowed(a)

=============================================================================
