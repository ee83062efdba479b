----------------------------- MODULE GameClient -----------------------------
(***************************************************************************)
(* The clients of a game: bim::net::game_update_exchange, which repeats    *)
(* the actions of the local player until the server confirms them, and     *)
(* bim::net::contest_runner, which applies them at once on top of the last *)
(* state confirmed by the server.                                          *)
(*                                                                         *)
(* The predicted state, from the last confirmed one to the local tick, is  *)
(* computed again from the confirmed one in each run and feeds nothing: it *)
(* is left out.  The action done at a local tick is named by this tick.    *)
(*                                                                         *)
(* An operator which nothing uses is a variant of the definition that      *)
(* follows it, with a defect the properties must detect.                   *)
(***************************************************************************)
EXTENDS Contest

CONSTANTS Clients,          \* the players who are not bots
          MaxTicksInUpdate, \* max_ticks_in_update_message
          MaxTicksPerRun,   \* bound on the ticks elapsed between two runs
          MaxLocalTick      \* bound on the ticks played locally

\* What the constants must be; OnlineGame assumes it.
ClientConstants ==
  /\ Clients \subseteq Players
  /\ MaxTicksInUpdate \in Nat \ {0}
  /\ MaxTicksPerRun \in Nat
  /\ MaxLocalTick \in Nat

VARIABLES
  phase,          \* the state of the exchange
  update,         \* m_current_update
  queue,          \* m_action_queue
  outgoing,       \* m_client_out_message
  looping,        \* the message is sent repeatedly
  serverActions,  \* m_server_actions, not applied yet
  serverChecksum, \* m_server_checksum
  confirmed,      \* m_last_confirmed_archive
  localTick,      \* m_completed_tick_count
  unconfirmed,    \* m_unconfirmed_actions of the local player
  outcome         \* m_contest_result

exchange == <<phase, update, queue, outgoing, looping>>
runner == <<serverActions, serverChecksum, confirmed, localTick, unconfirmed,
            outcome>>
vars == <<exchange, runner>>

Ready == [type |-> "ready"]

GameUpdate == [type         : {"game_update"},
               from         : Nat,
               actions      : Seq(Action),
               checksumTick : Nat,
               checksum     : History]

NoUpdate == [type |-> "game_update", from |-> 0, actions |-> <<>>,
             checksumTick |-> 0, checksum |-> <<>>]

NoActions == [q \in Players |-> <<>>]

Init ==
  /\ phase = [p \in Clients |-> "idle"]
  /\ update = [p \in Clients |-> NoUpdate]
  /\ queue = [p \in Clients |-> <<>>]
  /\ outgoing = [p \in Clients |-> Ready]
  /\ looping = [p \in Clients |-> FALSE]
  /\ serverActions = [p \in Clients |-> NoActions]
  /\ serverChecksum = [p \in Clients |-> Checksum(<<>>)]
  /\ confirmed = [p \in Clients |-> <<>>]
  /\ localTick = [p \in Clients |-> 0]
  /\ unconfirmed = [p \in Clients |-> <<>>]
  /\ outcome = [p \in Clients |-> Running]

\* The largest number of ticks for which there is an action.
TickCount(acts) ==
  CHOOSE n \in {Len(acts[q]) : q \in Players} :
    \A q \in Players : Len(acts[q]) <= n

Erased(s, n) == SubSeq(s, n + 1, Len(s))
FirstOf(s, n) == SubSeq(s, 1, IF n <= Len(s) THEN n ELSE Len(s))

-----------------------------------------------------------------------------
(* game_update_exchange                                                    *)

StartOnce(p) ==
  /\ phase[p] = "idle"
  /\ phase' = [phase EXCEPT ![p] = "start"]
  /\ outgoing' = [outgoing EXCEPT ![p] = Ready]
  /\ UNCHANGED <<update, queue, looping, runner>>

\* start()
StartExchange(p) ==
  /\ phase[p] = "idle"
  /\ phase' = [phase EXCEPT ![p] = "start"]
  /\ outgoing' = [outgoing EXCEPT ![p] = Ready]
  /\ looping' = [looping EXCEPT ![p] = TRUE]
  /\ UNCHANGED <<update, queue, runner>>

\* dispatch_start
ReceiveStart(p) ==
  /\ phase[p] = "start"
  /\ phase' = [phase EXCEPT ![p] = "play"]
  /\ update' = [update EXCEPT ![p] = NoUpdate]
  /\ looping' = [looping EXCEPT ![p] = FALSE]
  /\ UNCHANGED <<queue, outgoing, runner>>

AcceptAnyTick(p, m) == \E q \in Players : m.actions[q] # <<>>

\* validate_message: the update continues what is known, with something new.
Continues(p, m) ==
  /\ m.from = update[p].from
  /\ \E q \in Players : m.actions[q] # <<>>

\* confirm_game_tick, and queue_updates which it triggers in the runner.
ReceiveUpdate(p, m) ==
  /\ phase[p] = "play"
  /\ Continues(p, m)
  /\ LET left == Erased(queue[p], TickCount(m.actions))
         next == [update[p] EXCEPT !.from = @ + TickCount(m.actions),
                                   !.actions = FirstOf(left, MaxTicksInUpdate)]
     IN /\ queue' = [queue EXCEPT ![p] = left]
        /\ update' = [update EXCEPT ![p] = next]
        /\ outgoing' = IF left = <<>> THEN outgoing
                       ELSE [outgoing EXCEPT ![p] = next]
  /\ serverActions' = [serverActions EXCEPT ![p] =
                         [q \in Players |-> @[q] \o m.actions[q]]]
  /\ serverChecksum' = [serverChecksum EXCEPT ![p] = m.finalChecksum]
  /\ UNCHANGED <<phase, looping, confirmed, localTick, unconfirmed, outcome>>

\* dispatch_game_over
ReceiveGameOver(p, m) ==
  /\ phase[p] = "play"
  /\ outcome' = [outcome EXCEPT ![p] = m.winner]
  /\ UNCHANGED <<exchange, serverActions, serverChecksum, confirmed,
                 localTick, unconfirmed>>

\* Messages which are not for the current state of the exchange.
Ignores(p, m) ==
  \/ phase[p] \in {"idle", "left"}
  \/ m.type = "start" /\ phase[p] # "start"
  \/ m.type # "start" /\ phase[p] # "play"
  \/ m.type = "game_update" /\ ~Continues(p, m)

Receive(p, m) ==
  \/ Ignores(p, m) /\ UNCHANGED vars
  \/ m.type = "start" /\ ReceiveStart(p)
  \/ m.type = "game_update" /\ ReceiveUpdate(p, m)
  \/ m.type = "game_over" /\ ReceiveGameOver(p, m)

-----------------------------------------------------------------------------
(* contest_runner                                                          *)

\* sync_with_server: the state after the actions received from the server.
Synchronized(p) ==
  Advance(confirmed[p], TickCount(serverActions[p]), serverActions[p])

Room(p) == MaxTicksInUpdate - Len(update[p].actions)

\* push: the update with the new ticks, as many as it can have, and the
\* checksum of the confirmed state.
Pushed(p, mine, synced) ==
  [update[p] EXCEPT !.actions = @ \o FirstOf(mine, Room(p)),
                    !.checksumTick = Len(synced),
                    !.checksum = Checksum(synced)]

\* run(), n ticks after the previous one.  The ticks are pushed in the
\* exchange, which keeps in the queue those which are too many for a message.
Run(p, n) ==
  LET synced == Synchronized(p)
      mine   == [i \in 1..n |-> localTick[p] + i - 1]
      kept   == Erased(unconfirmed[p], Len(unconfirmed[p])
                                         - (localTick[p] - Len(synced)))
      next   == Pushed(p, mine, synced)
  IN /\ phase[p] = "play"
     /\ outcome[p] = Running
     /\ localTick[p] + n <= MaxLocalTick
     /\ confirmed' = [confirmed EXCEPT ![p] = synced]
     /\ serverActions' = [serverActions EXCEPT ![p] = NoActions]
     /\ unconfirmed' = [unconfirmed EXCEPT ![p] = kept \o mine]
     /\ localTick' = [localTick EXCEPT ![p] = @ + n]
     /\ queue' = [queue EXCEPT ![p] = @ \o mine]
     /\ update' = IF n = 0 THEN update ELSE [update EXCEPT ![p] = next]
     /\ outgoing' = IF n = 0 \/ Room(p) = 0 THEN outgoing
                    ELSE [outgoing EXCEPT ![p] = next]
     /\ looping' = [looping EXCEPT ![p] = TRUE]
     /\ UNCHANGED <<phase, serverChecksum, outcome>>

\* The player quits, or the client crashes, or it is told the result of the
\* game: the exchange is destroyed.
Leave(p) ==
  /\ phase[p] # "left"
  /\ phase' = [phase EXCEPT ![p] = "left"]
  /\ looping' = [looping EXCEPT ![p] = FALSE]
  /\ UNCHANGED <<update, queue, outgoing, runner>>

-----------------------------------------------------------------------------
(* Properties                                                              *)

TypeOK ==
  /\ phase \in [Clients -> {"idle", "start", "play", "left"}]
  /\ update \in [Clients -> GameUpdate]
  /\ queue \in [Clients -> Seq(Action)]
  /\ outgoing \in [Clients -> GameUpdate \cup {Ready}]
  /\ looping \in [Clients -> BOOLEAN]
  /\ serverActions \in [Clients -> [Players -> Seq(Action)]]
  /\ serverChecksum \in [Clients -> History]
  /\ confirmed \in [Clients -> History]
  /\ localTick \in [Clients -> Nat]
  /\ unconfirmed \in [Clients -> Seq(Action)]
  /\ outcome \in [Clients -> Players \cup {Running, Draw}]

\* The actions of the ticks from "from" to the local one.
ActionsFrom(p, from) == [i \in 1..localTick[p] - from |-> from + i - 1]

\* However the answers of the server are interleaved with the runs, the
\* exchange and the runner agree on what is confirmed, no action is forgotten
\* and none is kept twice: the actions waiting for a confirmation are the ones
\* of the ticks from the confirmed one to the local one (the asserts on
\* from_tick and on the confirmed and completed counts in contest_runner.cpp,
\* the assumptions on the sizes of the queues).
QueuesMatch ==
  \A p \in Clients :
    LET received == Len(confirmed[p]) + TickCount(serverActions[p]) IN
      /\ received <= localTick[p]
      /\ update[p].from = received
      /\ queue[p] = ActionsFrom(p, received)
      /\ unconfirmed[p] = ActionsFrom(p, Len(confirmed[p]))
      /\ update[p].actions = FirstOf(queue[p], MaxTicksInUpdate)

\* The assert of sync_with_server: after the actions of the server have been
\* applied, the state is the one of the server.
ServerChecksumMatches ==
  \A p \in Clients :
    serverActions[p] = NoActions
      => serverChecksum[p] = Checksum(confirmed[p])

=============================================================================
