---------------------------- MODULE OnlineLobby ----------------------------
(***************************************************************************)
(* The clients who look for a random game, the lobby of the server, and    *)
(* the network between them: messages are lost, late, repeated and come in *)
(* any order.  A client has a screen, bim::axmol::app::matchmaking, and     *)
(* its new_game_exchange: the screen shows the players of the last         *)
(* proposal, the user accepts it, and the exchange repeats its message     *)
(* each second until the game is launched.                                 *)
(*                                                                         *)
(* An operator which nothing uses is a variant of the definition that      *)
(* follows it, with a defect the properties must detect.                   *)
(***************************************************************************)
EXTENDS Lobby

CONSTANTS MaxToken, \* bound on the searches of a client
          Capacity  \* bound on the messages of a client in each direction

ASSUME OnlineLobbyConstants == MaxToken \in Nat /\ Capacity \in Nat

-----------------------------------------------------------------------------
(* The client.                                                             *)

Screens == {"lobby", "matchmaking", "game"}

\* The tokens are random: each is new, and here they are numbered.
Searchers == [screen    : Screens,
              exchange  : {"idle", "start", "accept"}, \* m_monitor
              token     : Nat,
              encounter : Nat,     \* m_encounter_id, zero when there is none
              message   : Nat,     \* the encounter in m_client_message, or zero
              launching : BOOLEAN, \* m_launch_monitor
              shown     : Nat,     \* m_player_count_monitor, zero is off
              channel   : Nat]     \* the game of the screen online_game

InTheLobby == [screen |-> "lobby", exchange |-> "idle", token |-> 0,
               encounter |-> 0, message |-> 0, launching |-> FALSE,
               shown |-> 0, channel |-> 0]

Waiting(c) == c.exchange # "idle"

\* new_game_exchange::start
Started(c) == [c EXCEPT !.exchange = "start", !.token = @ + 1, !.message = 0]

\* new_game_exchange::stop
Stopped(c) == [c EXCEPT !.exchange = "idle", !.encounter = 0]

\* new_game_exchange::accept
Accepting(c) == [c EXCEPT !.exchange = "accept", !.message = c.encounter]

\* matchmaking::displaying and displayed
Displayed(c) == Started([c EXCEPT !.screen = "matchmaking", !.shown = 1])

\* matchmaking::closing
Closed(c) == [Stopped(c) EXCEPT !.launching = FALSE, !.shown = 0]

\* The ready button is displayed when there are two players, and enabled until
\* it is clicked.
CanAccept(c) == c.screen = "matchmaking" /\ c.shown >= 2 /\ ~c.launching

\* accept_game
GameAccepted(c) == Accepting([c EXCEPT !.launching = TRUE])

\* The back button does something only if there is nobody else.
CanLeave(c) == c.screen = "matchmaking" /\ c.shown = 1

\* update_display_with_game_proposal: alone again after an acceptance, the
\* request has failed and another one is started.
Proposed(c, count) ==
  [(IF count = 1 /\ c.launching
    THEN Started(Stopped([c EXCEPT !.launching = FALSE]))
    ELSE c)
   EXCEPT !.shown = count]

\* check_on_hold
OnHold(c, m) ==
  IF Waiting(c) /\ m.token = c.token
  THEN Proposed([c EXCEPT !.encounter = m.encounter], m.count)
  ELSE c

AnyLaunched(c, m) ==
  IF c.exchange = "accept"
  THEN [Closed(c) EXCEPT !.screen = "game", !.channel = m.channel]
  ELSE c

\* check_launch_game, and the screen of the game instead of this one.
Launched(c, m) ==
  IF c.exchange = "accept" /\ m.token = c.token
  THEN [Closed(c) EXCEPT !.screen = "game", !.channel = m.channel]
  ELSE c

\* The screen of the game is left for the lobby.
BackFromGame(c) == [c EXCEPT !.screen = "lobby", !.channel = 0]

-----------------------------------------------------------------------------
(* The clients, the server and the network.                                *)

VARIABLES clients,  \* the client of each session
          requests, \* the messages on their way to the server
          replies   \* the messages on their way to the clients

service == <<encounters, nextEncounter, garbage, encounterOf, autoStart,
             encounterNamed, registry>>
allVars == <<service, clients, requests, replies>>

OnlineInit ==
  /\ Init
  /\ clients = [s \in Sessions |-> InTheLobby]
  /\ requests = {}
  /\ replies = {}

-----------------------------------------------------------------------------
(* The clients.                                                            *)

Update(s, c) ==
  /\ clients' = [clients EXCEPT ![s] = c]
  /\ UNCHANGED service

\* new_game_exchange::tick, immediately and then each second: new_random_game
\* when message is zero, accept_random_game otherwise.
Resend(s) ==
  /\ Waiting(clients[s])
  /\ requests' = requests \cup {[from    |-> s,
                                 token   |-> clients[s].token,
                                 message |-> clients[s].message]}
  /\ Cardinality({m \in requests' : m.from = s}) <= Capacity
  /\ UNCHANGED <<service, clients, replies>>

\* The button "play" of the lobby.
Search(s) ==
  /\ clients[s].screen = "lobby"
  /\ clients[s].token < MaxToken
  /\ Update(s, Displayed(clients[s]))
  /\ UNCHANGED <<requests, replies>>

AcceptGame(s) ==
  /\ CanAccept(clients[s])
  /\ Update(s, GameAccepted(clients[s]))
  /\ UNCHANGED <<requests, replies>>

Back(s) ==
  /\ CanLeave(clients[s])
  /\ Update(s, [Closed(clients[s]) EXCEPT !.screen = "lobby"])
  /\ UNCHANGED <<requests, replies>>

LeaveGame(s) ==
  /\ clients[s].screen = "game"
  /\ Update(s, BackFromGame(clients[s]))
  /\ UNCHANGED <<requests, replies>>

Answer(s, m) ==
  IF m.channel = 0 THEN OnHold(clients[s], m) ELSE Launched(clients[s], m)

ReceiveReply(m) ==
  LET c == Answer(m.to, m) IN
  /\ m \in replies
  /\ c.token <= MaxToken
  /\ replies' = replies \ {m}
  /\ Update(m.to, c)
  /\ UNCHANGED requests

-----------------------------------------------------------------------------
(* The server.                                                             *)

Hold(m, id, count) ==
  {[to |-> m.from, token |-> m.token, encounter |-> id, count |-> count,
    channel |-> 0]}

Launch(m, id, count, channel) ==
  {[to |-> m.from, token |-> m.token, encounter |-> id, count |-> count,
    channel |-> channel]}

Consume(m, answer) ==
  /\ requests' = requests \ {m}
  /\ replies' \in {replies, replies \cup answer}
  /\ Cardinality({r \in replies' : r.to = m.from}) <= Capacity
  /\ UNCHANGED clients

\* The players of the answer to a request: a player who has waited alone for
\* long is said to have an opponent, who will be a bot.
PlayersShown(e, f, s) ==
  IF f.count = 1 /\ EnableBots /\ BotIsDue(e, f, s) THEN 2 ELSE f.count

\* There is no answer when the encounter was full.
OnHoldIn(m, id) ==
  LET e == encounters["random"][id]
      f == encounters'["random"][id]
  IN IF m.from \in Members(f)
     THEN Hold(m, id, PlayersShown(e, f, m.from))
     ELSE {}

ReceiveRequest(m) ==
  LET s == m.from IN
  /\ m \in requests
  /\ m.message = 0
  /\ \/ InActiveGame(s) /\ UNCHANGED service /\ Consume(m, {})
     \/ KeepWaiting(s) /\ Consume(m, OnHoldIn(m, encounterOf[s]))
     \/ \E id \in Ids : JoinRandomIn(s, id) /\ Consume(m, OnHoldIn(m, id))
     \/ /\ CreateRandom(s)
        /\ Consume(m, Hold(m, nextEncounter["random"], 1))

\* The answer of mark_as_ready to m, which leaves f of the encounter e.  The
\* game of an encounter is not launched again once it is gone.
ReadyAnswer(m, e, f) ==
  LET s     == m.from
      bot   == EnableBots /\ BotIsDue(e, f, s)
      count == IF bot THEN f.count + 1 ELSE f.count
  IN IF e = Absent \/ s \notin Members(e) THEN {}
     ELSE IF ~Startable(f, bot) THEN Hold(m, m.message, count)
     ELSE IF games'[f.channel].status = "gone" THEN {}
     ELSE Launch(m, m.message, f.count, f.channel)

ReceiveAccept(m) ==
  LET id == m.message IN
  /\ m \in requests
  /\ id # 0
  /\ AcceptRandom(m.from, id)
  /\ Consume(m, ReadyAnswer(m, encounters["random"][id],
                            encounters'["random"][id]))

Server ==
  /\ \/ CleanUpMatchmaking("random")
     \/ \E c \in DOMAIN games : FinishGame(c) \/ CleanUpGame(c)
     \/ Tick
  /\ UNCHANGED <<clients, requests, replies>>

OnlineNext ==
  \/ \E s \in Sessions : \/ Resend(s) \/ Search(s) \/ AcceptGame(s)
                         \/ Back(s) \/ LeaveGame(s)
  \/ \E m \in replies : ReceiveReply(m)
  \/ \E m \in requests : ReceiveRequest(m) \/ ReceiveAccept(m)
  \/ Server

OnlineSpec == OnlineInit /\ [][OnlineNext]_allVars

\* The clients repeat their messages, and each message is handled some day.
Fairness ==
  /\ \A s \in Sessions : WF_allVars(Resend(s))
  /\ WF_allVars(\E m \in replies : ReceiveReply(m))
  /\ WF_allVars(\E m \in requests : ReceiveRequest(m) \/ ReceiveAccept(m))

-----------------------------------------------------------------------------
(* Properties                                                              *)

OnlineTypeOK ==
  /\ TypeOK
  /\ clients \in [Sessions -> Searchers]
  /\ \A m \in requests : m.from \in Sessions /\ m.message \in Ids \cup {0}
  /\ \A m \in replies : m.to \in Sessions /\ m.encounter \in Ids

\* The assert of accept(): when the user can accept a game, the exchange knows
\* which one.
AcceptHasEncounter ==
  \A s \in Sessions : CanAccept(clients[s]) => clients[s].encounter # 0

\* However late and repeated the messages of former requests are, a player who
\* plays is in a game of which it is a player for the server, and it is the game
\* of the encounter which the player has accepted, although the message which
\* launches it does not tell which one it is.
PlaysAcceptedGame ==
  \A s \in Sessions :
    clients[s].screen = "game" =>
      LET id == clients[s].message IN
      /\ s \in games[clients[s].channel].players
      /\ Exists("random", id)
           => encounters["random"][id].channel = clients[s].channel

\* The server and the players agree on the game each player is in, and on the
\* encounter it accepts.
GamesAreKnown == LastGameIsKnown /\ PlaysAcceptedGame /\ AcceptHasEncounter

\* The player has accepted an encounter in which the server does not have it.
Forgotten(s) ==
  /\ clients[s].exchange = "accept"
  /\ LET e == encounters["random"][clients[s].message]
     IN e = Absent \/ s \notin Members(e)

\* The comment of matchmaking.cpp on an acceptance which fails: "If we tried to
\* launch the game but we are back to a single player (i.e. the local player),
\* then the request has failed. Let's start a new request."
FailedRequestEnds == \A s \in Sessions : Forgotten(s) ~> ~Forgotten(s)

=============================================================================
