----------------------------- MODULE OnlineGame -----------------------------
(***************************************************************************)
(* A game, from the launch to the result: the server (GameService), the    *)
(* clients (GameClient), and the datagrams between them.  A datagram is    *)
(* delivered any number of times, in any order, or never.                  *)
(***************************************************************************)
EXTENDS Contest

CONSTANTS Bots, LatenessThreshold, EarlinessThreshold, InactivityDelay,
          ChecksumValidation, RewardAvailable, ShortGame, MaxTicksPerMessage,
          TimePasses, MaxTicksInUpdate, MaxTicksPerRun, MaxLocalTick,
          Deserters, \* the players who may leave the game
          Duplicates, \* datagrams may be delivered several times
          Capacity   \* bound on the datagrams in flight, by way

VARIABLES
  ready, active, simulationTick, completedAll, completed, actions, checksums,
  contest, result, gameOverTick, reward, karma, patience,
  phase, update, queue, outgoing, looping,
  serverActions, serverChecksum, confirmed, localTick, unconfirmed, outcome,
  toServer, \* the datagrams sent by each client and not lost yet
  toClient  \* the datagrams sent to each client and not lost yet

Server == INSTANCE GameService WITH Updates <- {}
Clients == Players \ Bots
Client == INSTANCE GameClient WITH Clients <- Clients

serverVars == <<ready, active, simulationTick, completedAll, completed, actions,
                checksums, contest, result, gameOverTick, reward, karma,
                patience>>
clientVars == <<phase, update, queue, outgoing, looping, serverActions,
                serverChecksum, confirmed, localTick, unconfirmed, outcome>>
network == <<toServer, toClient>>
vars == <<serverVars, clientVars, network>>

ASSUME NetworkConstants ==
  /\ Deserters \subseteq Clients
  /\ Duplicates \in BOOLEAN
  /\ Capacity \in Nat \ {0}

ASSUME ServerAssumption == Server!ServiceConstants

ASSUME ClientAssumption == Client!ClientConstants

Init ==
  /\ Server!Init
  /\ Client!Init
  /\ toServer = [p \in Clients |-> {}]
  /\ toClient = [p \in Clients |-> {}]

\* The datagrams of a way once m is sent; it is lost when there are too many.
Carrying(way, m) ==
  IF Cardinality(way) < Capacity THEN way \cup {m} ELSE way

\* The datagrams of a way once m is delivered.
Delivered(way, m) == {way \ {m}} \cup (IF Duplicates THEN {way} ELSE {})

-----------------------------------------------------------------------------

StartExchange(p) ==
  /\ Client!StartExchange(p)
  /\ toServer' = [toServer EXCEPT ![p] = Carrying(@, outgoing'[p])]
  /\ UNCHANGED <<serverVars, toClient>>

\* internal_send, 15 ms after the previous one.
Resend(p) ==
  /\ looping[p]
  /\ toServer' = [toServer EXCEPT ![p] = Carrying(@, outgoing[p])]
  /\ UNCHANGED <<serverVars, clientVars, toClient>>

\* The message is sent by run() only when the loop has been interrupted.
Run(p, n) ==
  /\ Client!Run(p, n)
  /\ toServer' = IF looping[p] THEN toServer
                 ELSE [toServer EXCEPT ![p] = Carrying(@, outgoing'[p])]
  /\ UNCHANGED <<serverVars, toClient>>

Leave(p) ==
  /\ p \in Deserters \/ outcome[p] # Running
  /\ Client!Leave(p)
  /\ toClient' = [toClient EXCEPT ![p] = {}]
  /\ UNCHANGED <<serverVars, toServer>>

ClientReceives(p, m) ==
  /\ Client!Receive(p, m)
  /\ \E way \in Delivered(toClient[p], m) :
       toClient' = [toClient EXCEPT ![p] = way]
  /\ UNCHANGED <<serverVars, toServer>>

\* The answer of the server to a message of p, if any.
Answers(p, m) == toClient' = [toClient EXCEPT ![p] = Carrying(@, m)]

ServerHandles(p, m) ==
  \/ /\ m.type = "ready"
     /\ \/ Server!IgnoreReady(p) /\ UNCHANGED toClient
        \/ /\ Server!MarkAsReady(p)
           /\ IF Server!SendsStart' THEN Answers(p, [type |-> "start"])
              ELSE UNCHANGED toClient
  \/ /\ m.type = "game_update"
     /\ \/ /\ Server!IgnoreUpdate(p, m) \/ Server!KickForChecksum(p, m)
           /\ UNCHANGED toClient
        \/ Server!AcceptUpdate(p, m) /\ Answers(p, Server!Reply(p)')

ServerReceives(p, m) ==
  /\ ServerHandles(p, m)
  /\ \E way \in Delivered(toServer[p], m) :
       toServer' = [toServer EXCEPT ![p] = way]
  /\ UNCHANGED clientVars

Lose(p) ==
  /\ \/ /\ \E m \in toServer[p] :
             toServer' = [toServer EXCEPT ![p] = @ \ {m}]
        /\ UNCHANGED toClient
     \/ /\ \E m \in toClient[p] :
             toClient' = [toClient EXCEPT ![p] = @ \ {m}]
        /\ UNCHANGED toServer
  /\ UNCHANGED <<serverVars, clientVars>>

Tick == Server!Tick /\ UNCHANGED <<clientVars, network>>

Next ==
  \/ Tick
  \/ \E p \in Clients :
       \/ StartExchange(p)
       \/ Resend(p)
       \/ \E n \in 0..MaxTicksPerRun : Run(p, n)
       \/ Leave(p)
       \/ \E m \in toClient[p] : ClientReceives(p, m)
       \/ \E m \in toServer[p] : ServerReceives(p, m)
       \/ Lose(p)

Spec == Init /\ [][Next]_vars

-----------------------------------------------------------------------------
(* Fairness: the loops of the client are scheduled forever, and a datagram *)
(* sent again and again ends up being delivered.                           *)

Fairness ==
  /\ WF_vars(Tick)
  /\ \A p \in Clients :
       /\ WF_vars(StartExchange(p))
       /\ WF_vars(Resend(p))
       /\ WF_vars(Run(p, 0))
       /\ WF_vars(Run(p, 1))
       /\ SF_vars(\E m \in toServer[p] : ServerReceives(p, m))
       /\ SF_vars(\E m \in toClient[p] : ClientReceives(p, m))

FairSpec == Spec /\ Fairness

-----------------------------------------------------------------------------
(* Properties                                                              *)

TypeOK ==
  /\ Server!TypeOK
  /\ Client!TypeOK
  /\ \A p \in Clients : \A m \in toServer[p] :
       m \in Client!GameUpdate \cup {Client!Ready}
  /\ \A p \in Clients : \A m \in toClient[p] :
       m.type \in {"start", "game_update", "game_over"}

\* See GameClient: in an actual game, with datagrams lost, repeated and out of
\* order.
QueuesMatch == Client!QueuesMatch
ServerChecksumMatches == Client!ServerChecksumMatches

\* Until a player is kicked out, every state confirmed by a client has been
\* the state of the server at the same tick.
AgreeUntilKick ==
  \A p \in Clients :
    /\ Len(confirmed[p]) <= simulationTick
    /\ \A t \in 1..Len(confirmed[p]) :
         (\A u \in 1..t, q \in Players : contest[u][q] # Kicked)
           => confirmed[p][t] = contest[t]

\* As long as nobody is late, early or silent, nobody is kicked out: whatever
\* the network does, the checksums sent by the clients are the ones of the
\* server.
NobodyKicked == active = Players

\* Every client is told the result of the server, once it has confirmed every
\* tick before the one where the contest was over.
ResultIsFinal ==
  \A p \in Clients :
    outcome[p] # Running =>
      /\ outcome[p] = result
      /\ gameOverTick <= update[p].from

\* What a client has been told, states and result, is what the server has done.
ClientsFollow == AgreeUntilKick /\ ResultIsFinal

\* The comment on the test "start" in game_update.cpp: "The game should begin
\* with a bim::net::start message.", for each player who does not leave.
GameBegins ==
  \A p \in Clients \ Deserters :
    phase[p] = "start" ~> phase[p] = "play" \/ p \notin active

\* As long as nobody is kicked out, the server and the clients implement one
\* sealed log of ticks, replayed by all: see SealedLog.
Promise == INSTANCE SealedLog
             WITH Members <- Clients, Undecided <- Running,
                  log <- contest, copy <- confirmed, played <- localTick,
                  verdict <- result, told <- outcome

SealedLogImplemented == Promise!Spec

\* Every player who stays in the game is told its result.
GameEnds == \A p \in Clients \ Deserters : <>(outcome[p] # Running)

=============================================================================
