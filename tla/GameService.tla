---------------------------- MODULE GameService ----------------------------
(***************************************************************************)
(* One game of the server (bim::server::game_service::game) and the        *)
(* handlers of game_service which act on it: the players declare           *)
(* themselves ready, then send the actions they have applied locally; the  *)
(* server plays a tick of its own contest when it has the actions of every *)
(* active player for this tick, and tells each client the actions of the   *)
(* others.  Ticks are numbered from zero; actions[p][i] is the action of p *)
(* at tick completedAll + i - 1.                                           *)
(*                                                                         *)
(* An operator which nothing uses is a variant of the definition that      *)
(* follows it, with a defect the properties must detect.                   *)
(*                                                                         *)
(* The messages come from anywhere: any update of Updates may be handled   *)
(* at any time, on behalf of any player who is not a bot.  The module      *)
(* OnlineGame restricts them to what the clients and the network do.       *)
(***************************************************************************)
EXTENDS Contest

CONSTANTS Bots,               \* the players computed by the server, if any
          LatenessThreshold,  \* ..._disconnection_lateness_threshold_in_ticks
          EarlinessThreshold, \* ..._disconnection_earliness_threshold_in_ticks
          InactivityDelay,    \* ..._disconnection_inactivity_delay
          ChecksumValidation, \* game_service_enable_checksum_validation
          RewardAvailable,    \* this game gives coins
          ShortGame,          \* games over before this tick are short
          MaxTicksPerMessage, \* 255: the count of ticks fits a byte
          Updates,            \* the updates that may come from the clients
          TimePasses          \* whether the inactivity delay may elapse

ClientUpdate == [type         : {"game_update"},
                 from         : Nat,
                 actions      : Seq(Action),
                 checksumTick : Nat,
                 checksum     : History]

\* What the constants must be; OnlineGame assumes it too.
ServiceConstants ==
  /\ Bots \subseteq Players
  /\ Bots # {} => Cardinality(Bots) = 1 /\ Cardinality(Players) = 2
  /\ LatenessThreshold \in Nat \ {0}
  /\ EarlinessThreshold \in Nat \ {0}
  /\ InactivityDelay \in Nat \ {0}
  /\ ChecksumValidation \in BOOLEAN
  /\ RewardAvailable \in BOOLEAN
  /\ ShortGame \in Nat
  /\ MaxTicksPerMessage \in Nat
  /\ Updates \subseteq ClientUpdate
  /\ TimePasses \in BOOLEAN

ASSUME ServiceAssumption == ServiceConstants

Humans == Players \ Bots

VARIABLES
  ready,           \* the players who declared themselves ready
  active,          \* the players who have not been kicked out
  simulationTick,  \* the next tick of the contest of the server
  completedAll,    \* the tick confirmed by every active client
  completed,       \* the tick confirmed by each client
  actions,         \* the actions of each player, from completedAll
  checksums,       \* the checksums of the contest, from completedAll
  contest,         \* the contest of the server
  result,          \* its result
  gameOverTick,    \* the tick where it was over
  reward,          \* the coins for each player
  karma,           \* what has been reported of each player
  patience         \* the time left before release_player_at_this_date

simulation == <<simulationTick, completedAll, completed, actions, checksums,
                contest, result, gameOverTick>>
vars == <<ready, active, simulation, reward, karma, patience>>

-----------------------------------------------------------------------------

Init ==
  /\ ready = {}
  /\ active = Players
  /\ simulationTick = 0
  /\ completedAll = 0
  /\ completed = [p \in Players |-> 0]
  /\ actions = [p \in Players |-> <<>>]
  /\ checksums = <<Checksum(<<>>)>>
  /\ contest = <<>>
  /\ result = Running
  /\ gameOverTick = 0
  /\ reward = [p \in Players |-> "unset"]
  /\ karma = [p \in Players |-> [disconnection |-> 0, shortGame |-> 0,
                                 goodBehavior |-> 0]]
  /\ patience = [p \in Humans |-> InactivityDelay]

Smaller(a, b) == IF a <= b THEN a ELSE b

EraseOneMore(s, n) == SubSeq(s, n + 2, Len(s))

\* What remains of a sequence when its first n elements are erased.
Without(s, n) == SubSeq(s, n + 1, Len(s))

\* The tick reached by a player, as far as the server knows.
PlayerTick(p) == completedAll + Len(actions[p])

Report(ledger, players, event) ==
  [p \in Players |-> IF p \in players THEN [ledger[p] EXCEPT ![event] = @ + 1]
                     ELSE ledger[p]]

-----------------------------------------------------------------------------
(* check_drop_desynchronized_player                                        *)

\* The active players of whom there is no news since too long.  Bots have
\* no release date.
Silent(left) == {p \in active \cap Humans : left[p] = 0}

\* Among the players still in the game, the one too far behind the second
\* slowest, or else the one too far ahead of the second fastest.
OutOfPace(playing, tick) ==
  LET late  == {p \in playing : \A q \in playing \ {p} :
                                   tick[q] - tick[p] >= LatenessThreshold}
      early == {p \in playing : \A q \in playing \ {p} :
                                   tick[p] - tick[q] >= EarlinessThreshold}
  IN IF Cardinality(playing) < 2 THEN {}
     ELSE IF late # {} THEN late ELSE early

Desynchronized(left, tick) ==
  LET silent == Silent(left)
  IN silent \cup OutOfPace((active \ silent) \cap Humans, tick)

KickOut(players) ==
  /\ active' = active \ players
  /\ karma' = Report(karma, players, "disconnection")

-----------------------------------------------------------------------------
(* mark_as_ready                                                           *)

IgnoreReady(p) == p \notin active /\ UNCHANGED vars

MarkAsReady(p) ==
  /\ p \in active
  /\ ready' = ready \cup {p}
  /\ patience' = [patience EXCEPT ![p] = InactivityDelay]
  /\ KickOut(Desynchronized(patience', [q \in Players |-> PlayerTick(q)]))
  /\ UNCHANGED <<simulation, reward>>

\* The answer of mark_as_ready, given the state after it: the start message
\* is sent to the player who declares itself ready last.
SendsStart == Cardinality(ready) = Cardinality(active \ Bots)

-----------------------------------------------------------------------------
(* push_update                                                             *)

\* The first ticks of the update up to the tick reached by the player are
\* already known: is there anything beyond?
BringsActions(p, m) ==
  /\ m.from + Len(m.actions) > PlayerTick(p)
  /\ m.from <= PlayerTick(p)

AnswerOnlyNews(p, m) ==
  \/ p \notin active
  \/ m.from < completed[p]
  \/ ~BringsActions(p, m)

\* validate_message
Discarded(p, m) ==
  \/ p \notin active
  \/ m.from < completed[p]
  \/ m.from > simulationTick
  \/ BringsActions(p, m) /\ Len(m.actions) > MaxTicksPerMessage

IgnoreUpdate(p, m) == Discarded(p, m) /\ UNCHANGED vars

CompareWithLast(m) ==
  /\ m.checksumTick >= completedAll
  /\ m.checksum # checksums[Len(checksums)]

ChecksumMismatch(m) ==
  /\ m.checksumTick >= completedAll
  /\ m.checksum # checksums[m.checksumTick - completedAll + 1]

KickForChecksum(p, m) ==
  /\ ~Discarded(p, m)
  /\ ChecksumMismatch(m) /\ ChecksumValidation /\ result = Running
  /\ KickOut({p})
  /\ UNCHANGED <<ready, simulation, reward, patience>>

\* queue_actions
QueuedActions(p, m) ==
  IF BringsActions(p, m)
  THEN [actions EXCEPT ![p] =
          @ \o SubSeq(m.actions, PlayerTick(p) - m.from + 1, Len(m.actions))]
  ELSE actions

ConfirmedTicks(p, m) ==
  IF BringsActions(p, m) THEN [completed EXCEPT ![p] = m.from] ELSE completed

\* The ticks each active player is ahead of the simulation.
ToSimulation(queued) ==
  {completedAll + Len(queued[q]) - simulationTick : q \in active \cap Humans}

AwaitReadyPlayers(confirmed) ==
  {confirmed[q] - completedAll : q \in active \cap ready}

\* The ticks each active player has confirmed since completedAll.
ToAll(confirmed) == {confirmed[q] - completedAll : q \in active}

\* The actions of the bot in the next n ticks; it does not think any more
\* when it is dead.  Its actions are named by their tick.
Thoughts(q, n) ==
  SubSeq([i \in 1..n |-> simulationTick + i - 1],
         1, Smaller(n, DeathTick[q] + 1 - simulationTick))

ForgetBase(n, queued) ==
  [q \in Players |->
     IF q \notin active THEN <<>>
     ELSE IF q \in Bots THEN Thoughts(q, n)
     ELSE SubSeq(queued[q], 1, n)]

\* seal_player_actions: what is applied in the n ticks played.  Nothing is
\* applied for a player who has been kicked out, whatever has been queued.
SealedActions(n, queued) ==
  [q \in Players |->
     IF q \notin active THEN <<>>
     ELSE IF q \in Bots THEN Thoughts(q, n)
     ELSE SubSeq(queued[q], simulationTick - completedAll + 1,
                            simulationTick - completedAll + n)]

\* The thoughts of the bot are stored with the actions of the players.
WithThoughts(n, queued) ==
  [q \in Players |-> IF q \in active \cap Bots THEN queued[q] \o Thoughts(q, n)
                     ELSE queued[q]]

\* game_over_tick and contest_result after the ticks up to Len(played).
ConcludeContest(played) ==
  LET over == {t \in simulationTick..Len(played) - 1 :
                 Result(SubSeq(played, 1, t + 1)) # Running}
  IN IF result # Running \/ over = {}
     THEN UNCHANGED <<result, gameOverTick>>
     ELSE \E t \in over :
            /\ \A u \in over : t <= u
            /\ gameOverTick' = t
            /\ result' = Result(SubSeq(played, 1, t + 1))

\* game::update: play the n ticks for which every active player has sent its
\* actions (align_simulation_tick), then forget the d ticks that every active
\* player has confirmed (drop_old_actions).
Update(queued, confirmed, n, d) ==
  LET played == Advance(contest, n, SealedActions(n, queued))
      kept   == WithThoughts(n, queued)
      pushed == [i \in 1..n |->
                   Checksum(SubSeq(played, 1, simulationTick + i))]
  IN /\ contest' = played
     /\ simulationTick' = simulationTick + n
     /\ ConcludeContest(played)
     /\ completed' = confirmed
     /\ completedAll' = completedAll + d
     /\ actions' = [q \in Players |-> Without(kept[q], d)]
     /\ checksums' = Without(checksums \o pushed, d)

\* record_game_over, given the result it records.
Rewards(winner) ==
  [q \in Players |->
     IF ~RewardAvailable THEN "none"
     ELSE IF winner = Draw THEN "draw"
     ELSE IF q \notin active THEN "none"
     ELSE IF q = winner THEN "victory"
     ELSE "defeat"]

\* Short games adjust the karma of the losers, active or not.
Verdicts(winner, tick) ==
  IF tick < ShortGame THEN Report(karma, Humans \ {winner}, "shortGame")
  ELSE Report(karma, active \cap Humans, "goodBehavior")

ConcludeAgain(n) ==
  \/ /\ result' = Running
     /\ IF n = 0
        THEN KickOut(Desynchronized(patience',
                       [q \in Players |-> completedAll' + Len(actions'[q])]))
        ELSE UNCHANGED <<active, karma>>
     /\ UNCHANGED reward
  \/ /\ result' # Running
     /\ reward' = Rewards(result')
     /\ karma' = Verdicts(result', gameOverTick')
     /\ UNCHANGED active

\* What follows game::update: a frozen game is one where no tick could be
\* played and which is not over.
Conclude(n) ==
  \/ /\ result = Running /\ n = 0
     /\ KickOut(Desynchronized(patience',
                  [q \in Players |-> completedAll' + Len(actions'[q])]))
     /\ UNCHANGED reward
  \/ /\ result = Running /\ result' # Running
     /\ reward' = Rewards(result')
     /\ karma' = Verdicts(result', gameOverTick')
     /\ UNCHANGED active
  \/ /\ result # Running \/ (n > 0 /\ result' = Running)
     /\ UNCHANGED <<active, karma, reward>>

AcceptUpdate(p, m) ==
  LET queued    == QueuedActions(p, m)
      confirmed == ConfirmedTicks(p, m)
  IN /\ ~Discarded(p, m)
     /\ ~(ChecksumMismatch(m) /\ ChecksumValidation /\ result = Running)
     /\ patience' = [patience EXCEPT ![p] = InactivityDelay]
     /\ \E n \in ToSimulation(queued), d \in ToAll(confirmed) :
          /\ \A k \in ToSimulation(queued) : n <= k
          /\ \A k \in ToAll(confirmed) : d <= k
          /\ Update(queued, confirmed, n, d)
          /\ Conclude(n)
     /\ UNCHANGED ready

PushUpdate(p, m) ==
  IgnoreUpdate(p, m) \/ KickForChecksum(p, m) \/ AcceptUpdate(p, m)

\* send_game_over
GameOverMessage(p) ==
  [type |-> "game_over", winner |-> result, reward |-> reward[p]]

ChecksumBefore(p) ==
  LET start == completed[p] - completedAll
      count == Smaller(MaxTicksPerMessage, simulationTick - completed[p])
  IN [type |-> "game_update",
      from |-> completed[p],
      finalChecksum |-> checksums[start + 1],
      actions |-> [q \in Players |->
                     SubSeq(actions[q], start + 1,
                            Smaller(start + count, Len(actions[q])))]]

\* send_actions: the ticks played by the server and not confirmed by p.  A
\* player who has been kicked out may have fewer actions than the others.
ActionsMessage(p) ==
  LET start == completed[p] - completedAll
      count == Smaller(MaxTicksPerMessage, simulationTick - completed[p])
  IN [type |-> "game_update",
      from |-> completed[p],
      finalChecksum |-> checksums[start + count + 1],
      actions |-> [q \in Players |->
                     SubSeq(actions[q], start + 1,
                            Smaller(start + count, Len(actions[q])))]]

TellAtOnce(p) ==
  IF result # Running THEN GameOverMessage(p) ELSE ActionsMessage(p)

\* The answer to an update of p which has been accepted, given the state
\* after it.
Reply(p) ==
  IF result # Running /\ gameOverTick <= completed[p]
  THEN GameOverMessage(p)
  ELSE ActionsMessage(p)

-----------------------------------------------------------------------------

Tick ==
  /\ TimePasses
  /\ \E p \in active \cap Humans : patience[p] > 0
  /\ patience' = [p \in Humans |-> IF patience[p] = 0 THEN 0
                                  ELSE patience[p] - 1]
  /\ UNCHANGED <<ready, active, simulation, reward, karma>>

Next ==
  \/ Tick
  \/ \E p \in Humans :
       \/ IgnoreReady(p)
       \/ MarkAsReady(p)
       \/ \E m \in Updates : PushUpdate(p, m)

Spec == Init /\ [][Next]_vars

-----------------------------------------------------------------------------
(* Properties                                                              *)

TypeOK ==
  /\ ready \subseteq Humans
  /\ active \subseteq Players
  /\ simulationTick \in Nat
  /\ completedAll \in Nat
  /\ completed \in [Players -> Nat]
  /\ actions \in [Players -> Seq(Action)]
  /\ checksums \in Seq(History)
  /\ contest \in History
  /\ result \in Players \cup {Running, Draw}
  /\ gameOverTick \in Nat
  /\ reward \in [Players -> {"unset", "none", "draw", "victory", "defeat"}]
  /\ karma \in [Players -> [disconnection : Nat, shortGame : Nat,
                            goodBehavior : Nat]]
  /\ patience \in [Humans -> Nat]

\* The counters of the game are ordered for every player still in it, which
\* is what makes the unsigned subtractions of the service exact: the tick
\* confirmed by all is confirmed by each, the server has played what a client
\* has confirmed, and it has the actions for what it has played (the asserts
\* of drop_old_actions, align_simulation_tick and seal_player_actions, the
\* assumptions of send_actions).
TicksOrdered ==
  \A p \in active :
    /\ completedAll <= completed[p]
    /\ completed[p] <= simulationTick
    /\ p \in Humans => simulationTick <= PlayerTick(p)

\* Whatever has been dropped, the checksum found at the index computed by
\* push_update and send_actions is the one of the contest at that tick, so
\* that the state of a client is compared with the same state of the server.
ChecksumsAligned ==
  /\ Len(contest) = simulationTick
  /\ Len(checksums) = simulationTick - completedAll + 1
  /\ \A i \in DOMAIN checksums :
       checksums[i] = Checksum(SubSeq(contest, 1, completedAll + i - 1))

\* What send_actions takes from the vectors of actions is what has been applied
\* in the contest at the same tick, for humans and bots, whatever has been
\* dropped and whoever has been kicked out: the clients can replay the ticks.
ActionsMatchContest ==
  \A p \in Players : \A t \in completedAll + 1..simulationTick :
    contest[t][p] \in Action =>
      /\ t - completedAll \in DOMAIN actions[p]
      /\ actions[p][t - completedAll] = contest[t][p]

\* There are three ways to be kicked out, in two handlers: however they are
\* interleaved, the karma is adjusted once per player, and only for those who
\* are out of the game.
DisconnectionReportedOnce ==
  \A p \in Humans :
    karma[p].disconnection = IF p \in active THEN 0 ELSE 1

\* A player who has been kicked out dies in the tick it is removed from, and
\* never wins: the winner gets the coins of a victory, although nothing in
\* record_game_over checks that it is still active.
WinnerIsRewarded ==
  result \in Players /\ RewardAvailable => reward[result] = "victory"

\* The game is judged once, when it is over: no player gets two verdicts, and
\* none before the end.
OneVerdict ==
  \A p \in Humans :
    karma[p].shortGame + karma[p].goodBehavior
      <= IF result = Running THEN 0 ELSE 1

\* What a player is told of its behaviour by the three paths to a kick-out and
\* by the end of the game is what it deserves, once: see the three parts.
KarmaIsDeserved ==
  DisconnectionReportedOnce /\ WinnerIsRewarded /\ OneVerdict

=============================================================================
