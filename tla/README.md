# Bim!: models and proofs of the game

Bim! is a bomb-laying game for one to four players. The clients play over
UDP with a server that runs its own copy of the game. This directory holds
TLA+ models of the code, the TLC configurations that check them on small
instances, and proofs checked by TLAPS of what holds for every instance.
`PROJECT.json` lists the runs, the mutants of the code each property detects,
the lines each definition stands for, the hazards, the findings and the
theorems.

Paths are relative to `src/modules/bim/` unless they start with `src/`;
`service/` stands for `server/main/src/bim/server/service/`, `game/` for
`game/main/src/bim/game/` and `app/` for `src/apps/axmol/main/src/bim/axmol/app/`.

## 1. The system

### How the parts interact

    client                                   server
    ------                                   ------
    application, screens, preferences
    store, wallet, input, display
      hello, authentication     <---UDP--->  authentication_service
                                               session_service -- karma_service
      new_game_exchange         <--------->  lobby_service
                                               matchmaking_service
                                                (random|named)_game_encounter_service
      game_update_exchange      <--------->  game_service
        contest_runner                         one contest per game
          contest                              contest_timeline_service
            fences, crates, players, bombs     statistics, geolocation
            flames, fog, bots                  http worker: business server, Discord

A client says hello, authenticates (the session id is on every later
message), asks for a game again and again until it is launched, then exchanges
the actions of the players with the server until it is told the result. The
server routes a message by its channel: zero is the lobby, anything else a
game. The contest is the same code on both sides: a function of the seed, of the
features and of the actions, applied tick after tick.

Handlers run to completion in an event loop (`iscool::schedule`) on both sides,
so that one action per handler is the right grain. Three things are concurrent:
the network, where a datagram may be lost, delivered twice or late, and every
exchange copes by repeating its message; the services answering when they want
(business server, store, remote configuration); and the thread of the HTTP
requests of the server. On the devices, callbacks come in orders that nobody
chose: a touch held across a popup, an animation that ends on another screen, a
purchase that completes during a game.

The server reads nothing back when it restarts: a restart ends the games, and
for it the crash of a client is a client that stops answering. What survives a
crash is on the files: the preferences of the player (`Account`, `Application`),
the copy of the configuration (`Config`), and the recordings of the games
(`Timeline`). A crash cuts the last two: a recording anywhere, and the copy of the
configuration because it takes its final name before its stream is closed.

### The components

| component | state | what is hard | what makes it correct | module |
|---|---|---|---|---|
| `service/game_service.cpp`, one game | who is ready, who is active, the contest, five tick counters and the vectors indexed from them, result, rewards | counters of players moving at different paces, kicks in the middle, stale or repeated updates | indices never wrap, one log of ticks, one verdict, one reward, penalties once | `GameService` |
| same file, registry of games | games by channel, `m_session_to_channel` | a session in two games, removal | a session is in the last game it was launched in | `Lobby` |
| `net/.../game_update_exchange.cpp` | the update sent in loop, the queue of actions | answers late, twice, out of order | no action lost, none confirmed twice | `GameClient` |
| `net/.../contest_runner.cpp` | last confirmed state, unconfirmed actions, server actions | predictions replayed over confirmed states | same state as the server at the same tick | `GameClient`, `Display` |
| `net/.../message/` | bytes | datagrams cut, extended or altered | what is accepted is what was sent, or another whole message | `Messages` |
| `service/matchmaking_service.cpp` and the encounter services | encounters with parallel arrays | indices kept across removals, time-outs, two services over one pool | each session once in an encounter, launched by its own acceptance | `Lobby` |
| `net/.../new_game_exchange.cpp`, `app/screen/matchmaking.cpp` | the last proposal, the message repeated | a late answer about an older request | only the current request counts, a failed one ends | `OnlineLobby` |
| `service/session_service.cpp`, `authentication_service.cpp`, `karma_service.cpp` | token to session, session to client, user to session, karma of addresses, pending authentications | asynchronous answers, double log-in, failures between insertions, entries erased while referenced | the maps agree, a user has one session, everyone is answered | `Sessions` |
| `game/` contest and systems | an entt registry, the entity map | the order of the systems, the order of the storages, what is stored twice | the map agrees with the entities, bombs are not lost, the result is the survivor | `Arena`, `Grid`, `Survival` |
| `game/system/move_player.cpp` | fixed-point positions | sliding around corners | players walk where bots think they can | `Grid`, `Level` |
| `game/level_generation.cpp` | fences, crates, power-ups | random draws that run out of candidates | no player is walled in, every power-up finds its crate | `Level`, `Crates` |
| `game/bot.cpp`, `navigation_check.cpp` | maps of dangers, goal, path | a plan made on a state that has changed since | no bomb without a way out | `Bot`, `Navigation` |
| `game/factory/fog_of_war.cpp`, `game/system/fog_of_war_updater.cpp` | opacity and edges per cell and per player | edges updated cell by cell, timers | the edges agree with the cells | `Arena` |
| `game/contest_timeline_writer.cpp`, `game/contest_timeline.cpp` | a file per game | buffering, kicks between ticks, a file cut | a replay acts as recorded and removes the first of those kicked out | `Timeline` |
| `service/statistics_service.cpp`, `geolocation_service.cpp` | rolling buckets, addresses | boundaries of windows, database replaced | no hole in the counts, a number is one address | `Statistics`, `Geolocation` |
| `src/apps/server/`, HTTP thread | two queues, a condition, the next registration | wake-ups, timeouts, late answers, quit | the registration never stops | `HttpWorker` |
| `app/` screens | which screen is displayed, its exchanges, the session | transitions, popups, reconnections in the middle | exchanges run for the screen that needs them, with the current session | `Screens` |
| shop, features, wallet | coins, features, slots, purchases; a label | asynchronous store, restarts between the steps, animations | what is received is what is had and spent, slots hold owned features, the label settles | `Account`, `Wallet` |
| inputs | a tree of observers, touches, keys | a touch or a key held while the tree changes | a touch belongs to what it began on | `Input`, `Keys` |
| application, settings, scripts | systems, preferences in memory and on disk, a script | reset, deferred saves, orders of the end | the preferences are obeyed, shown and saved | `Application`, `Script` |
| game display | pools of sprites, controls | pools partly cleared, never reset between games | what is visible is the contest | `Display` |
| configuration, waiting messages | remote, default and local documents; scripts of lines | documents partly valid, a copy that is cut; messages interrupted | one document, whole; all messages in turn | `Config`, `WaitMessage` |

## 2. The modules

`Contest`, `GameService`, `GameClient`, `Lobby`, `Sessions`, ... model one
component each; `OnlineGame` composes the server, the clients and the network of
a game, `OnlineLobby` those of the search of a game, and `Bot` composes the bot with
the contest where it plays. `SealedLog` and `Survival` are abstract
specifications, implemented by `OnlineGame` and by `Arena`. The modules `MC...` give
the constants of the runs; `MCParts` puts together the parts that interact with
nothing else here, of which each behaviour exercises one, named by its variable
`focus`. `GameServiceProofs`, `OnlineGameProofs`, `LobbyProofs`, `SessionsProofs`,
`ArenaProofs` and `RegistryProofs` hold the proofs about the modules they are named from;
`RegistryProofs` continues `ArenaProofs` with what the arena stores twice. `PartsProofs` is about
`Geolocation`, `HttpWorker` and `Account`, and `Folding` is the theory of the loops written
with a fold.

Definitions that nothing uses (`EraseOneMore`, `ForgetBase`...) are variants of
the definition that follows them, with a plausible defect: a run made with the
variant violates the property named in `PROJECT.json`.

### The game over the network

`Contest` has no variable: the state of a contest *is* its history, one entry
per tick, made of what was applied for each player. An entry is the action,
`Kicked` in the tick where `kick_player` removes the player, or `Gone` when the
player has no entity. Determinism is thus an assumption of these modules; `Arena`
supports it for the one place where an order is left to the storage, the order of
the explosions (`ExplosionsCommute`). The simulation is abstracted to what the
result depends on: when a player starts to die and when its entity disappears,
given by `DyingTick` and `DeathTick`, and the `TimeLimit`; `Survival` states the
same promise of the result, and `Arena` implements it. A checksum is the state
itself: collisions are left out.

`GameService` has one action per outcome of a handler:

| code | action |
|---|---|
| `mark_as_ready` 590-644 | `MarkAsReady`, `IgnoreReady`; the start message is sent when `SendsStart` holds after it |
| `validate_message` 733-813 | `Discarded`, `IgnoreUpdate` |
| `push_update` 671-691 | `KickForChecksum` |
| `push_update` 693-730 | `AcceptUpdate`: `QueuedActions`, then `Update`, then `Conclude`; `Reply` is the answer |
| `game::update` 184-344 | `Update`: `ToSimulation` and `ToAll` are the two minima over the active players, `SealedActions` what is applied, `ConcludeContest` the result |
| `check_drop_desynchronized_player` 981-1069 | `Desynchronized`, inside `MarkAsReady` and `Conclude` |
| `record_game_over` 907-964 | `Rewards`, `Verdicts` |
| the clock | `Tick`, a countdown per player |

`completedAll` is `completed_tick_count_all`, `completed[p]` is
`completed_tick_count_per_player`, `actions[p]` the vector of the actions of `p`
from `completedAll`, and `checksums` is `simulation_checksum`.

`GameClient` names the action done at local tick `t` by `t`, so that an
action shifted, lost or doubled anywhere shows. The predicted state, from the
last confirmed state to the local tick, is recomputed in every run of the loop
and read by the screen alone: `Display` has it, `GameClient` does not.

`OnlineGame` keeps a set of datagrams per client and per way. A delivery may
leave the datagram in the set (`Duplicates`), and when the set is full
(`Capacity`) a new datagram is lost, which is one more way to lose it.

`Messages` follows one datagram from the message to what the receiver makes of it. In
between the bytes may be cut, extended, or changed. Integers have the
widths of the code, lists the width of their length; the lengths are few.

`Timeline` follows one game from the calls of the server to the file, cut by a crash
or whole, then its replay by `contest_timeline` in the steps of `apps/player`.

### The lobby and the sessions

An encounter of `Lobby` keeps what the arrays of `encounter_info` hold beyond
`player_count`. `encounter_info::erase` moves the next elements by one and
leaves the last one where it is; the code then reads and writes with indices
computed before such a move, so that these leftovers, and the dates of other
players, are what decides. The arrays are one structure in memory: when an index
is one past the end, `Refreshed` says where the write goes with the layout of
`encounter_info` (the first date of the next array, then the flags `ready`,
which become anything). A date is the time left before it.

| code | operator or action |
|---|---|
| `encounter_info::erase`, `insert`, `session_index` | `Kept` (over the indices kept), `Inserted`, `IndexOf` |
| `matchmaking_service::refresh_encounter` 312-364 | `Refreshed` |
| `matchmaking_service::mark_as_ready` 186-292 | `Accepted` (the encounter), `Startable` (does the game start), `MarkAsReady` (with `NewGame`) |
| `random_game_encounter_service::process` | `KeepWaiting` (returns early, without the clean-up), `JoinRandom`, `CreateRandom` |
| `named_game_encounter_service::process` | `CreateNamed`, `JoinNamed` |
| `mark_as_ready` of both | `AcceptRandom`, `AcceptNamed` |
| `clean_up` of both, at the end of their handlers | `Mapping`, `CleanUpRandom`, `CleanUpNamed` |
| `matchmaking_service::clean_up`, by timer | `CleanUpMatchmaking` |
| `game_service::new_game`, `clean_up` | `NewGame`, `CleanUpGame` |

`Lobby` alone lets any session send any request, and accept any encounter that
has ever existed, at any time. `OnlineLobby` adds clients (the
screen, the exchange and its token) and the network, whose datagrams are
lost, repeated and reordered; the requests for named games, which no screen
sends, stay without a client. The game itself is one status here (`FinishGame`),
since `GameService` models it, and its removal may come at any time: the code
removes it after a time without messages, and the network decides how rare they
are.

`Sessions` puts three services together, because one handler goes through
all of them. Its requests may come at any time and are triples of an address, a
client token and a credential (the `session_token` given by the business
server), so that a token may come with another credential. The business server
answers the tokens of a batch in any order and accepts any of them, or fails.
`told[t]` is the last answer sent for the token `t`.

| code | operator or action |
|---|---|
| `create_or_refresh_session` 69-159, with the answers of `check_authentication` | `Refuse`, `AskAgain`, `RefuseMalformed`, `NewSession` |
| `schedule_user_id_request`, `fetch_user_ids` | `Schedule`, `Fetch` |
| `user_id_response` 324-409, then `sessions_ready` | `Respond`; one token is `LoggedIn`, the session it replaces goes by `WithoutSession`, and `RejectedWith` corrects the answers of the batch |
| `user_id_error` | `Fail` |
| `refresh_session`, by any other message | `Refresh` |
| `update_karma_*` | `Disconnection`, `ShortGame`, `GoodBehavior`, over `Adjusted` (`add_karma`) and `Drop` (`disconnect`) |
| `clean_up` of both services, `review` | `CleanUpSessions`, `CleanUpAuthentications`, `Review` |

Where the code asserts, or dereferences the end of a map, the behaviour of the
model ends: `AskAgain` and `Respond` need the client of the session, and the
penalties need a known address. For the liveness properties this means that they
are about a server that does not crash there.

`Statistics` is one of the rolling windows and the counters of the games.
`Geolocation` is the table of the addresses with its clean-up and the
replacement of the database. `HttpWorker` is the thread of the HTTP requests, with
its mutex held step by step, and the main loop with the registration and Discord.

### The contest

`Arena` keeps the registry and the entity map in one record, `world`, and each
system is an operator from a world to the next one. `Tick` composes them in the
order of `game/contest.cpp`, which is what most of its properties depend on:

    bomb inventory, timers                          BeforeBombs
    apply_player_action (Moved)
    reduction of the arena, falling blocks, crushed timers
    bombs                                           UpdateBombs, in any order
    flames, invincibility, shields                  AfterBombs
    crates, invisibility, power-ups, players
    fog of war, dead objects
    the result                                      CheckGameOver

Durations are in ticks. An entity is named by its kind and its cell, or by the
index of its player, so that an entity that stays in the map after its removal
shows. The choices of the environment are the actions of the players, within
`Abilities`, the crates and power-ups of `Crates`, and the kicks of `Kickable`.

`Moved` (in `Grid`) counts positions in steps (the displacement of a player in a tick); the
widths of the players and of the fences are those of the code, rounded to steps.
`Level` draws the fences, as `insert_random_fences` does, then somebody
walks in the arena among the walls, the fences and some obstacles. `Crates` is
`insert_random_crates` then `generate_power_up_spawners`, as a scan over the
shuffled crates in which each draw is a choice within its probability's zeros
and ones. `Grid` and `Navigation` are functions: the static arena and the moves, the searches.

`Bot` computes at each tick the maps of `bot.cpp` (what is in danger, and of which
bomb or block; what can be reached; what a bomb would burn), keeps its goal or
chooses one, and moves. Equal goals are chosen at random. The fog of war, which
the players drive away and see come back, is a part of `Arena` (`NewFog`, `UpdateFog`);
the cells excluded at the beginning are a parameter.

### The application

`Screens` has the launch (textures, sounds, remote configuration, hello), the
transitions between screens with their animations, the popups, the
authentication and the reconnection. The server is an input. The times that
matter are half seconds of a transition against seconds of the server: the end
of a game cannot come during the transition to its screen (the lateness
threshold is 75 ticks, a bomb needs three seconds, `server/main/src/bim/server/config.cpp:17-19`).

`Account` has the purchase of coins (the store, the consumption of the purchase,
the asynchronous answers), of features and of slots, their
selection, the rewards of the games, and the preferences, in memory and in their
file; the process may die at any step and starts again from the file. `Wallet` is
the label of the coins and its animations.

`Input` is the tree of the inputs with buttons, soft sticks and soft pads.
Touches go down, move, go up and are cancelled at the places of the display; groups
are plugged and unplugged, buttons enabled and disabled, at any time between two
events. `Keys` is the keyboard over the same tree: the back key, the sink of a popup and
the gamepad of the game.

`Application` has the creation and the reset of the systems in their order, the
preferences with their deferred save, and the popup of the settings; `Script` is the
director which drives the application from a file. `Display` is the screen of the
game: pools of sprites, the fog followed, the controls and the restoration
of the contest by the runner. `Config` and `WaitMessage` are the configuration and the
messages of the matchmaking. A save of the
configuration leaves the file as it was, holding the document, or cut (`Saved`); what is read of
a cut file is `Null`.

## 3. The properties and the runs

| run | question | bounds |
|---|---|---|
| `MCGameService` | Are the counters, vectors, penalties, verdicts and rewards of the server right whatever it receives? | three players, one of whom dies at the second tick; updates about two ticks; every checksum of a state with kicks, and a wrong one; thresholds of two ticks, silence of one unit |
| `MCOnlineGame` | Do two clients and the server agree on one log of ticks over a bad network, and is nobody kicked out by mistake? | two players, two datagrams in each way, repeated and reordered; two ticks; one tick per message, so that the queue of actions is in use; high thresholds |
| `MCOnlineGameKicks` | What is left when players leave or are kicked out in the middle? | two players who may leave, one datagram in each way, repeated, two ticks per message, low thresholds |
| `MCOnlineGameFair` | Does a game begin and end for all? | two players, fair specification, losses, one datagram in each way |
| `MCOnlineGameBegins` | finding 1 | one player leaves, time passes |
| `MCLobby` | Do removals, returns, launches and clean-ups, in any order, keep each player once in an encounter and in the game it was launched in, and does the client know which? | three sessions and one name for two places, two random encounters, two games, two tokens, two datagrams; when two sessions have clients, each searches once; delays of one unit; bots; automatic start at once |
| `MCLobbyFails` | finding 2 | one client, two random encounters, fair specification |
| `MCSessions` | Do the maps of the sessions agree, is an announced session alive, is everyone answered and let go, whatever fails, expires or is answered late? | two credentials of one user and a malformed one, three tokens behind one address, three sessions, delays of one unit, two short games or one disconnection to be black-listed; fair specification |
| `MCArena` | Are the entities, the map and the bombs consistent, do the promises to the players hold, whatever is done in whatever order? | a ring of eight cells around a pillar; two crates hiding anything; one player does everything and may be kicked out, the other one does little; bombs of 4 ticks, blocks from tick 12 |
| `MCBot` | Does a bot keep a way out of its own bombs, and is the fog drawn right? | 7x5 cells, any of some sets of crates, an idle opponent, fog everywhere |
| `MCParts` | Do the parts which work alone hold their promises? | see below |
| `MCDisplay` | finding 3 | two cells |

Why these bounds are enough. In a game, what tells the cases of `push_update` apart
is the order between the first tick of an update, its last tick, the tick
confirmed by the player, the tick confirmed by all, the tick of the simulation
and the limits on the ticks per message. Two or three ticks already give every
weak order of them. Three players are needed by the tests of lateness and
earliness, which compare a player with the second slowest or fastest; the other
rules compare a player with the minimum, for which two are enough. The theorems
of section 5 have no bound.

In the lobby, three sessions for two places give the three cases of a joiner
(room, full, room after a removal) with every index before and after a removal.
An automatic start with a delay of zero is due at the second acceptance, which
is the case where the players who have not accepted are removed; a longer one
only adds acceptances before. A second random encounter is what a late message
about the first one can be mistaken for.

For the sessions, two tokens of one user are what a double log-in needs, in one
batch, in two, or across an expiration; the third session is the one that comes
back. A malformed credential takes no session but keeps its token, so that its
token ends up attached to a session of someone else. Addresses do not interact:
the karma is a map of independent entries.

In the arena, the ring has a corner, a pillar and falling blocks; 4 ticks for a
bomb, with a queue of one action and players of two steps per cell, let a player drop
one, pick up a power-up, drop another and be caught by the first. The bot has
the durations of the code at a scale: a cell takes 16 ticks of 20 ms, so that two
steps per cell, 19 steps for a bomb of 3 s, 6 for a near explosion (1 s) and 5
for the flames (800 ms) are the code's. A smaller arena would leave no way out.

The parts of `MCParts` and their bounds: `Level` 11x7 cells, 6 steps per cell, one
obstacle, fences of the first quarter (the others mirror it); `Crates` five places
of which two are central; `Screens` two textures, two retries, tokens 1 and 2;
`Wallet` a balance of two at most, two animations; `Input` two touches, two buttons, a
stick or a pad, three arrangements of groups, five places; `Keys` up, down, space
and back; `Application` three settings and three languages; `Display` two cells,
pools of one or two sprites; `Script` three actions; `Account` one purchase worth
two coins, two features, two slots; `Geolocation` two addresses; `HttpWorker` three
requests; `Messages` one datagram, lists of at most five actions with sizes modulo 4;
`Timeline` three players and three ticks; `Statistics` a window of five units, buckets of
two, four games. Each is enough for two of the things that
may conflict (two touches, two animations, two requests in the queues), and for a
third event that comes late.

What the properties say (the proof of `QueuesMatch`, `ClientsFollow`,
`ServerChecksumMatches`, `NobodyKicked`, `SealedLogImplemented`, `OnceInEncounter`,
`RandomGamesWait`, `GamesAreKnown`, `SessionsAgree` and `AnswersAreAlive` for every value of the constants, among others, is in section 5):

- `TicksOrdered`, `ChecksumsAligned`, `ActionsMatchContest` (server): the
  unsigned subtractions of `drop_old_actions`, `align_simulation_tick` and
  `send_actions` are exact, and an index computed from
  `completed_tick_count_all` is about the tick it is meant for, in spite of what
  has been dropped or kicked out.
- `KarmaIsDeserved` (server): karma and coins, which are computed in several
  handlers, are given once and to the right players. Its parts are
  `DisconnectionReportedOnce`, `OneVerdict` and `WinnerIsRewarded`.
- `QueuesMatch` (composition): the queues of the client, of its runner and of the
  server describe the same ticks; an update reaches the server with the actions
  it misses.
- `ServerChecksumMatches`: the assert of `sync_with_server`. It holds as long as
  nobody is kicked out, and fails otherwise (section 4).
- `NobodyKicked`: the validation of checksums has no false positive.
- `ClientsFollow`: before the first kick, confirmed states are those of the
  server (`AgreeUntilKick`); a client is told the result of the server, and has
  confirmed every tick before the last (`ResultIsFinal`).
- `SealedLogImplemented`: with `log <- contest`, `copy <- confirmed`, `played <-
  localTick`, the composition implements `SealedLog`: one growing log, replayed
  by prefixes, never ahead of a player, with one verdict. It is checked in the
  run where nobody is kicked out.
- `GameBegins`, `GameEnds` (liveness).
- `OnceInEncounter` (lobby): the players of an encounter are distinct, whatever
  is removed and inserted; `new_game` asserts it of the players of a game.
- `GamesAreKnown`: `m_session_to_channel` says where a session is as long as its
  last game exists (`LastGameIsKnown`); a client who plays is a player of the game,
  which is the one of the encounter it has accepted (`PlaysAcceptedGame`), although the
  message that launches it does not tell which encounter it is about; and the exchange knows
  the encounter when the user can accept it (`AcceptHasEncounter`). That the game is the
  last in which the server has put the client is false (section 4).
- `RandomGamesWait` (action property): nobody becomes ready for a random game but
  by its own acceptance, wherever removals move it.
- `SessionsAgree` (sessions): the token of each client leads to its session and
  each session of a token has a client, except for the tokens used in a
  malformed request; a double log-in is seen, except for a user whose id is the
  number of a session (section 4).
- `AnswersAreAlive` (action property): a session announced to a client is alive,
  belongs to its token and has its user when the message is sent.
- `EventuallyAnswered`, `BlacklistEnds` (liveness): a request lost in a failed
  batch is recovered when its session expires, and the sessions left at a
  black-listed address cannot extend the delay for ever, since each penalty
  drops one.
- `RegistryAgrees` (arena): the entity map has each entity where it is and no
  other, and a player has as many bombs, in its hands and in the arena, as it may
  have: `bomb_available` does not wrap.
- `ExplosionsCommute`: in every state, the bombs which explode give the same
  flames and burn the same things in any order.
- `ShieldsProtect` (action property): a shield or the invincibility that follows
  it saves from the fire, in whatever order the systems of the tick run.
- `SurvivalImplemented`: nobody comes back, the dying die, and the result is the
  last one standing, once and for ever.
- `ContestEnds` (liveness): with the blocks falling, every contest ends.
- `WayOut` (action property): when a bomb of the bot appears, a tick after its
  decision, the bot can still reach a cell that no bomb of the arena burns.
- `FogEdgesAgree`: the edges of the fog, updated cell after cell while it is
  driven away and comes back, are those of the cells where it is.
- `ArenaCanBeWalked` (level): whatever the fences, the arena is connected, the
  searches of the bots find its cells and their distances, and somebody who walks
  passes where they say, nowhere else, in spite of the widths of the player and of
  the fences.
- `DrawsSucceed` (crates): the crates available are enough for the power-ups whatever is
  drawn, and the level has all those of the kinds drawn.
- `ScreensAgree`: one screen replaces another one at a time, nobody presses the buttons
  of a screen that leaves, the exchanges of a screen end with it, and the session of a
  game is never replaced, even when the connection was about to be declared lost.
- `AccountIsRight`, `SlotsAreOwned`: what the player has received is what it has and what it
  has paid, in memory and in the file, and a purchase that the store forgets was
  credited unless the application was killed in between; what is in the slots is
  owned, in slots that are owned, wherever the application was killed.
- `WidgetsSettle`: once its animations are over the label of the wallet shows the amount
  after the last transaction; the messages of the matchmaking are displayed in turn, none
  before all the others.
- `InputIsFollowed`: a click is a touch that began and ended on a button that was not
  covered in between; the stick and the pad are held by a finger that is there; the
  gamepad follows the last event of each key heard by the game; a key has one effect.
- `SettingsAreApplied`: the systems follow the preferences, the toggles show them,
  and they are in the file before the process may be killed.
- `SpritesShowTheContest`: what is visible is what is in the contest, in spite of
  pools which are cleared up to their first hidden sprite.
- `ScriptIsFollowed`: the steps of a script are done in their order, each once; the director
  says that all is well at the end only, and until then waits for exactly one thing.
- `ConfigIsWhole`: the configuration in use is the default one or all of a single valid
  document; the file holds such a document, or nothing that can be read when its save
  was cut, and is then ignored.
- `NothingIsMisread`: a complete datagram is read as it was written, whatever follows it
  and even from a later version, one that lost its end is refused unless nothing it needs
  is lost, and a movement is one of the game whatever the bytes became.
- `ReplayActsAsRecorded`: a replay, of a file cut or not, applies for every player who
  acted in a tick the action it did. One who is kicked out leaves in the next tick of the
  replay when its kick is the first written of its tick; otherwise its entity stays and
  does nothing. Nobody else leaves. That is what the code does of the kicks, not what it should do
  (section 4).
- `TablesAgree`: the count of the games of the last window has no hole; a number is
  never given to two addresses.
- `RegistrationGoesOn`: exactly one registration is scheduled, queued, processed or
  answered as long as the server runs, and the thread does not sleep while it has
  something to do.

**Fairness.** `OnlineGame!Fairness`: weak fairness on the actions of the client
loop (`StartExchange`, `Resend`, `Run`), since `schedule::delayed_call` reschedules
them as long as the exchange lives; `Run(p, 1)` says that the frames of a client
go on. Strong fairness on the *delivery of some datagram* of each way: a message
sent again and again ends up being delivered, but no particular datagram is
promised, and each may be lost or delivered twice. Nothing is assumed of `Leave`
nor `Lose`. Weak fairness of `Tick`: the clock goes on. In `OnlineLobby`
the clients repeat their messages and some message is handled some day, each way.

`Sessions!Fairness` is weak fairness on what the timers and the HTTP client run
(`Fetch`, the end of a request by an answer *or* an error, `Review`,
`CleanUpSessions`, `Tick`) and on the requests of a client that has no answer
yet (`authentication_exchange` repeats them every second). Nothing says that a
business request ever succeeds: a client that only meets failures is refused in
the end, because each failure costs a session and these are finite
(`MaxSession`, half the range of a session id in the code, `Refuse`).
`CleanUpAuthentications` needs no fairness.

In `Arena` the runner ticks until the contest is over: `FairSpec` states it as
a change of state again and again, since a tick is possible as long as there is no result.

`CHECK_DEADLOCK FALSE` is used where the system really stops: a game whose result
is known and where everyone may leave, a contest that is over, and the instances
whose encounters, games, sessions or purchases are bounded.

## 4. Findings

1. `mark_as_ready` (`service/game_service.cpp:624`) compares the count of
   *ready* players, kicked out or not, with the count of *active* ones. When a
   player was ready and has been kicked out before the others, the counts are
   never equal and the start message is never sent. (`MCOnlineGameBegins`; the
   test says "The game should begin with a bim::net::start message.")
2. `mark_as_ready` (`service/matchmaking_service.cpp:193-208`) does not answer an
   acceptance when the encounter has been cleaned up, or has lost the session. The
   client waits for a `game_on_hold` with one player to start a new request
   (`app/screen/matchmaking.cpp:191`): it repeats its acceptance for ever.
   (`MCLobbyFails`)
3. `contest_runner::run` keeps a copy of the actions of the local player because
   the restoration of the state overwrites them (`net/.../contest_runner.cpp:87`),
   but only the ticks of the same call use the copy. A frame shorter than a tick,
   which receives an update, loses the bomb asked by the button. (`MCDisplay`)

The models show, or had to exclude, other behaviours that have no run of their own.
On the server:

- A player kicked out is removed from the contest of the server in the next
  tick played (`service/game_service.cpp:310`), even if actions for later ticks
  are queued. `send_actions` sends these queued actions to the others all the
  same, who remove the player after the last of them: the states differ, and the
  assert of `net/.../contest_runner.cpp:162` fails. That is why `SealedLog` is
  implemented as long as nobody is kicked out.
- `random_game_encounter_service::process` returns without the clean-up when
  the player is in its encounter already
  (`service/random_game_encounter_service.cpp:52`). If a player removed by this
  refresh comes back before the next clean-up, that clean-up erases its entry,
  and its next request adds it to the encounter where it is (the assert of
  `service/matchmaking_service.cpp:176`) or to another one. In two encounters, it
  can be launched in two games; that takes three sessions and two random encounters,
  more than the run of `MCLobby` has. What remains true is that a game the client plays is one
  it has accepted (`PlaysAcceptedGame`), which is what is checked and proved.
- The dates of a new player are written at the index computed before the
  inactive players are removed (`service/matchmaking_service.cpp:341-343`).
  When a named encounter was full this index is beyond the arrays, and the second
  write lands on the flags `ready`: `RandomGamesWait` is about random games only.
  Within the arrays, the newcomer may get the date of a player who was just
  removed; it is saved by repeating its request.
- `session_service` erases the entry of a user in `m_id_to_session` with the
  number of the session as key (`service/session_service.cpp:242` and 274): the
  end of session `n` makes the service forget the session of the user `n`.
- `review` forgets a black-listed address whose delay is over even if sessions are
  left there (`service/karma_service.cpp:150-157`): the assert of line 105.
- The kick of a player whose death ends in the same tick adds `dead` twice
  (`game/system/update_players.cpp:25`); `Arena` excludes it.
- `service/geolocation_service.cpp:69-70`: the lookup that follows the replacement of the
  database is made with an empty address, so that the country becomes unknown. A first
  `MMDB_open` that fails leaves a null handle to the lookups.
- The thread of the HTTP requests never answers when it has no CURL handle.
- `net/.../message/`: a client update of 256 actions or more wraps its size, so that the last ones
  are dropped, then sent again; the fields of `hello_ok` are not initialised when the
  datagram is cut at the border of a record; the size of a known record is ignored.
- `game/contest_timeline.cpp:184` records a kick with the tick incremented by the actions
  of this very tick, and `load_tick` (245-254) applies only the first kick of a tick: a
  replay removes the player a tick later than the game did, does not remove the others, and
  a game that ends by a kick is not over when it is replayed, since the server closes the file
  with the tick of the end. The test (`tests/.../contest_timeline.cpp`, around 358), which
  expects "the same state", pushes ticks after the kick.
  `ReplayActsAsRecorded` says what remains exactly; the deaths of `Contest` do not depend on
  the bombs, whereas a player who stands a tick longer may change them.
- `game/contest_timeline_writer.cpp:173-176` says "at most g_max_player_count
  bytes"; a kick takes a byte of its own.

In the contest:

- `find_safety_goal` (`game/bot.cpp:587-600`) replaces a cell by another one as far
  with *more* danger, whereas `update_safety_goal` keeps the least. A bot may be
  trapped by what it has not seen and burn: `WayOut` is about the time of the bomb.
- `game/system/move_player.cpp:126` uses the edge of the other axis (`EdgeAside`).
- A second invisibility power-up orphans the timer of the first; a crate that ends
  burning in the tick its cell is sealed leaves its power-up in the wall; the
  shuffle of `insert_random_crates` wraps with no crate (`game/level_generation.cpp:152`).

On the devices:

- The pools of the game display have 108 sprites, for 113 free cells; `display_walls` has
  no test of its bounds, and flames may exceed theirs. The fog of a shorter list leaves ghosts.
- Account: a purchase refreshed before the end of its consumption is credited twice; a crash after
  the consumption and before the save loses the coins; an unknown product waits for
  the shop to be shown again; a purchase that completes on another screen leaves the wallet
  stale until the next one. `src/modules/bim/app/main/src/bim/app/config.cpp:203` and 258 read an index and a price
  that a document may not have: `Config` takes documents that have them.
- Input: `tap_observer` keeps the number of a touch released while the button is disabled or cooling;
  the mask of a node is not cleared when it is unplugged; `soft_pad::do_moved` lets another
  finger take the pad. `keyboard_gamepad` keeps its pressed keys from a game to the next.
  `Input` takes buttons that are disabled only when clicked or not plugged, and fingers that
  take more than 100 ms to be put again.
- Screens: `reconnect` with a socket that fails tells nobody; a silent reconnection
  during the matchmaking leaves `new_game_exchange` with the old session; an invalid
  remote configuration prevents the local one from being loaded, and a good one may replace a
  good copy by an empty or cut file (`app/task/main_task.cpp:199-208` renames the file
  while its stream is open, and does not know whether the close succeeds); pressing "play" while the
  connection is established again fails the assert of `app/screen/matchmaking.cpp:169`
  (`SearchIsConnected` excludes it).
- Script: a swipe that fails ends the director inside its own tick
  (`app/application.cpp:713-718`); an event dispatched by a click itself is missed;
  a file that is not an object fails before the launch is complete, as the reset key does, and the
  preferences are used before they exist.
- Comments: `service/game_service.cpp:361-366` says that `simulation_tick` is the
  minimum over every player of the tick reached, while 255-268 take the active
  players who are not bots; `game_update_from_server.hpp:30` says
  "Checksum of the game state at tick from_tick.", while `send_actions` (865-867)
  sends the checksum after the last tick of the message.

## 5. The proofs

`GameServiceProofs` proves `Spec => []Inv` for every safety invariant of
`MCGameService`, for any finite set of players, any
thresholds, any set of updates and any ticks of death, from the assumptions
`ContestConstants` and `ServiceConstants` alone.

The inductive invariant is

    IInv == TypeOK /\ TicksOrdered /\ ChecksumsAligned
              /\ DisconnectionReportedOnce /\ OneVerdict /\ WinnerIsRewarded
              /\ ActionsMatchContest /\ BotsFollow
              /\ WellFormed(contest) /\ KickedAreOut

None of the parts is inductive alone. `TypeOK` says that the counters and the lengths
are natural numbers: the lengths are differences, so it needs `TicksOrdered`.
`TicksOrdered` is preserved by `Update` because `n` and `d` are below the distance of
each active player. `ChecksumsAligned` needs the two, to know that what is dropped
exists. `WinnerIsRewarded` holds because a player kicked out before the
tick has no action sealed: `Kicked` is in the history from that tick on, so that it
is not `Present`, hence not the `Result` (`KickedIsNotPresent`, `WinnerIsPresent`).
`ActionsMatchContest` needs to know where the thoughts of a bot are put:
`BotsFollow` says that they end at the tick of the simulation as long as the bot
thinks, so that the next ones are at the index of their tick (`SealedType`); of a
dead bot nothing is known nor needed, since nothing is applied for it. `WellFormed`
says when a player is gone from a contest and `KickedAreOut` that a player removed from the
contest is not active any more; the invariant does not need them, the clients do.

The layout is: lemmas on sequences (`SubSeqType`, `WithoutType`, `FunctionIsSeq`), on
the contest (`AdvanceExtends`, ...), on `game::update` (`ThoughtsType`, `SealedType`,
`UpdateInvariant`, `UpdateKeepsActions`, `UpdateEntries`), on the queue
(`QueueActions`), on what follows (`ConcludeInvariant`), then one lemma per action and
`NextInvariant`. The theorems are `Invariance` and its consequences
`TypeCorrect`, `TicksAreOrdered`, `ChecksumsAreAligned`, `ActionsAlwaysMatch`,
`DisconnectionIsReportedOnce`,
`VerdictIsUnique`, `WinnerGetsReward`, `KarmaIsAlwaysDeserved`. Three lemmas are for the
module that follows: `UpdateForClients` (what `push_update` does to the ticks of each
client), `UpdateInTheirTick` (an action named by its tick is applied in this tick) and
`ActionsMessageTells` (what `send_actions` says is a part of the contest).

`OnlineGameProofs` is about the game over the network. It instantiates
`GameServiceProofs` (`ServerProofs`): the server of the composition is the one that has been proved
(`SameHandlers`), so that its invariant is reused and not proved again. The
assumptions are those of the server, and that the messages hold at least one tick
(`ClientConstants`). Nothing is assumed of the network: a datagram is lost, repeated, delayed
and reordered at will, and bots, kicks and desertions are included. The inductive invariant is

    IInv == ServerProofs!IInv /\ InTheirTick /\ Client!TypeOK /\ NetworkTypeOK
              /\ \A p \in Clients : QueuesInv(p) /\ SentInv(p) /\ KnownInv(p)
                                     /\ ToldInv(p) /\ FollowInv(p)

- `QueuesInv`: the queue of the exchange is the ticks from the one received to the local
  one, `m_unconfirmed_actions` those from the state of the runner (`QueuesMatch`).
- `SentInv`: every update in flight, however old, names its actions by their ticks, starts
  before what is confirmed now, and has the checksum of a prefix of the confirmed state.
- `KnownInv`: the actions the server has of an active player are named by their
  ticks and have been played by this player; `InTheirTick` says it of the contest.
- `ToldInv`: every answer in flight, however old, is a part of the contest of the server
  (`Sealed`) with its checksum, or its result.
- `FollowInv`: what a client has received and not applied yet is the part of the contest
  that follows its state, and its state is the one of the server until somebody is kicked out.

None is inductive alone: a client applies what it has been told, the server tells what
it has applied, and it applies what the clients have sent. They are preserved because the contest
only grows (`ExtendsKeeps`), so that an old message remains true, and because an update
that overlaps what is known is cut at the tick reached (`QueuedActions`).
`ClientStays` says what another actor may do without disturbing a client; the steps that
disturb it have two lemmas each, the effect and the invariant (`ReceiveUpdateEffect` and
`ReceiveUpdateStep`, `RunEffect` and `RunStep`, `AcceptUpdateKnows` and `ReplyTells`).

The theorems `TypeCorrect`, `QueuesAlwaysMatch`, `ClientsAlwaysFollow` and
`ActionsAreInTheirTick` hold of every game, with kicks. `NobodyIsKickedForItsChecksumFirst`
and `ServerChecksumMatchesFirst` are about the games where everybody is active: the checksums of both
sides are always those of the same states. Hence `NobodyIsKicked`: under `[]InPace`, which says that
`check_drop_desynchronized_player` finds nobody late, early or silent, nobody is
kicked out; and then `SealedLogIsImplemented`, step by step: a run of a client is a
`Turn`, an accepted update that plays ticks is a `Seal`, a `game_over` received is an
`Announce`, every other step changes nothing of the log. `SlackIsEnough` shows that
`[]InPace` holds of every game whose clock is stopped and whose thresholds exceed the ticks
played, which are the constants of the run `MCOnlineGame`: with them the two results hold without
condition (`NobodyIsKickedWithSlack`, `SealedLogIsImplementedWithSlack`).

`LobbyProofs` is about the matchmaking, for any number of sessions, slots, encounters, games,
searches and messages, from `EncounterConstants`, `LobbyConstants` and
`OnlineLobbyConstants`. The inductive invariant of the lobby of the server is

    LobbyInv == EncountersInv /\ MappingInv /\ GamesInv /\ LaunchesInv /\ CleanUpInv

- `EncountersInv`: the encounters are `Filled`: the slots in use hold distinct sessions.
  The lemmas on the arrays of an encounter carry it: what a sequence of erasures keeps (`NthIsInKeep`,
  `CompactedElements`, `KeptIsFilled`), and what `refresh_encounter` and `mark_as_ready`
  do, the writes at an index read before the erasures included (`RefreshedIsFilled`,
  `AcceptedIsFilled`).
- `MappingInv`: a session that `m_session_to_encounter` puts in an encounter is in
  it, or its removal waits in `m_done_sessions`; and the encounter has a place for all those
  that may come back so (`PlaceIsKept`). It is what makes the overwrite of the flags
  `ready`, when the encounter is full and the session is not in it, unreachable for the random
  games, hence what makes `RandomGamesWait` inductive. It counts the sessions by a
  cardinality, as an encounter has as many members as slots in use (`CountOfMembers`).
- `GamesInv`: the channel of a session is the last of its games, unless this one is gone
  (`NewGameIsLast`, `StatusChanges`).
- `LaunchesInv`: the players of a launched encounter are players of its game.

There is one lemma per action (`KeepWaitingIsRight`, ...), which also says who becomes
ready, and `LobbyStep`. The theorems are `LobbyIsRight`, `LobbyIsTyped`,
`SessionsAreDistinct` (`OnceInEncounter`), `LastGamesAreKnown` and `PlayersAreAwaited`
(`RandomGamesWait`).

With the clients and the network, `OnlineInv` adds three parts: `RightClient`, that the
screen has accepted a game exactly when the exchange repeats an acceptance; `RightRequest`,
that an acceptance in flight which belongs to the current search is about the encounter the
client has accepted; and `RightReply`, that a launch in flight is about a game of its player,
the one of its encounter as long as it is there. They are preserved because a token is used for one
search, in which a client accepts at most once (`ClientChanges`), and because an id
is given once and the channel of an encounter never changes (`Followed`): an old message remains
true. The theorems are `OnlineLobbyIsRight`; `OnlineLobbyImplementsLobby`, the refinement of
`Lobby` by the composition, step by step; `GamesAreAgreed` (`GamesAreKnown`); and
`OnlineLobbyKeepsPromises`, which transfers by this refinement what is proved of the lobby.

`SessionsProofs` is about the sessions, for any number of addresses, tokens, requests and
users, any delays and any karma, from `SessionsConstants`. The inductive invariant is

    SessionsInv == TypeOK /\ MapsAgree(sessionOf, clients, userSession)
                     /\ ClientsAreSound(clients) /\ QueuesAreSound

- `MapsAgree` says that the token of each client leads to its session, that the session of
  a `SoundTokens` is the one of this token, and that a user whose id is no session number is
  in the session of `m_id_to_session`, if in any. It is stricter than `SessionsAgree`, which
  does not say whose session the one of a token is, nor what `m_id_to_session` knows.
- `ClientsAreSound`: the next number is not given yet, so that a malformed request, which
  attaches it to its token, harms nobody; and the credentials of the clients can be decoded.
- `QueuesAreSound`: the tokens sent to the business server belong to such credentials.

The answers to a batch are handled by a loop, whose turns see what the previous ones have
dropped: that is `AfterResponse`, a recursive function. What it computes is proved by an
induction: `LeastNatural` is taken from the well-foundedness of the naturals, it gives
`Induction`, about sets of numbers, and `Iterates`, which says that a loop is defined. The invariant
of the loop is `BatchIsRight`: the maps agree at each turn, and a session to announce
is the one of its token, has a client and its user (`ResultsAreAlive`). One turn preserves it
(`LoggedInIsRight`), as does the end of the session of a user who logs in twice
(`WithoutSessionIsRight`), which rejects the answers already prepared for it.

The theorems are `SessionsAreRight`, `SessionsAlwaysAgree` and `AnswersAreAlwaysAlive`. The
last one assumes `TokensAreDrawn`, that a token is used for one credential:
`authentication_exchange::start` draws one when it is given a credential. Without it a
token which a malformed request has attached to the next number could be answered with the
session of the client that gets this number.

`ArenaProofs` and `RegistryProofs` are about the game itself, for any size of the arena,
level, durations and number of players up to four. They assume what the constants of
the modules do: `ArenaConstants`, `GridConstants`, `BotConstants` and `FogConstants`; that
a byte counts the bombs of a player (`BytesAreEnough`); that the level leaves
the corners to the players and puts crates in free cells only (`StartsAreFree`, what
`insert_random_crates` does with the forbidden cells); and that a fence is thinner than
half a cell (`FencesAreThin`), so that who goes around a fence stays in the cell or
enters one of its neighbours. TLC evaluates them on the constants of `MCArena` and `MCBot`.

A tick is a chain of some twenty systems. `Stages` names the world after each of them
(`StagesExist`), and each system has an `...Effect` lemma, which says what it changes and
that the other fields are the `Same`; `Frames` puts them together (`StagesHaveFrames`).
Five systems are loops. `Folding` proves once, by induction, that `FoldLeft` goes through the
states that its operator makes (`FoldSteps`); it is instantiated with the action of a player, the
explosion of a bomb, the pick-up of a power-up and a turn of the spiral of the falling blocks.

The first invariant is `Sound`: the bombs of a player in the arena and those of its inventory are at
most its capacity, which is what `BombsCounted` says, and the invincibilities are natural
numbers. A dropped bomb leaves the inventory before the next refresh counts it
(`ActionCounts`), and a power-up of capacity adds to both sides (`PickUpCounts`).
`ShieldsAlwaysProtect` needs only the second part, and the order of the systems:
what the flames and the explosions put in `burning` is taken back by the invincibility, then
by the shield, before the players are updated. `ArenaImplementsSurvival` is the refinement of `Survival`,
step by step (`TickFates`, `GameOverIsVerdict`), and `FogEdgesAlwaysAgree` is proved by an
invariant of its own, `FogSound`, which knows the cells that come and go.

`RegistryAgrees` says, between two ticks, that the entity map and the registry tell the same.
The invariant that makes it inductive is

    Sound(world) /\ Resting(world)

where `Resting` adds to it why no system can break it: the falling blocks are distinct free cells, in
the order of the spiral (`FallOrderIsOrder`), and none falls where a wall is; a queued bomb waits for a free
cell without crate or power-up (`Able`), and so does a player, so that what is drawn from the queue
is put in a cell where it fits; a bomb is not with a crate or a power-up; nothing dead or crushed is left; what
burns is still there. During the tick this is false, since a system may kill what another one
removes at the end. So the proof goes through weaker predicates: `Acting` while the
players act, then `Standing`, in which a thing may be missing from the map when it is dead, crushed or a
player who dies under a wall, and a crate may be with its power-up when the crate is dead.
There is one lemma per system: most only remove dead things from the map (`Thins`), or
leave it alone (`Quiet`). `MovedEnters` proves of `Moved` that it only enters cells that are
free or where the player was. `RestingInvariant` follows (`InitRests`, `TickRests`), then `RegistryAlwaysAgrees` and
`TypesAreCorrect`.

`ExplosionsAlwaysCommute` is about two orders of the bombs which explode in a tick, hence about two
runs of `UpdateBombs`. It is proved by giving the outcome, in which the order does not appear: the flames are
those that each bomb would light alone in the world before them, and the same for what they
burn (`ExplosionsAdd`). An explosion replaces its bomb by a blocker, which is
not what another ray saw; but it remains an obstacle, and it does not last (`Lasting`), so the next bombs
light the same cells (`ExplodeAlike`, `AlikeRays`). Two cases need `Standing`: a
bomb and something else in its cell, and a bomb which a falling block has just buried, which is not in the
map any more and explodes from inside the wall (`BuriedBomb`).

`PartsProofs` is about three parts which work alone. It proves that `AccountSpec` keeps `SlotsAreOwned`, `AccountIsRight` and
`AccountTypeOK`, for any features, slots, prices and purchases, from `AccountConstants` and
`OldFeaturesAreOwned`. The inductive invariant of the slots and the purchases adds what
makes them inductive:

    AccountInv == WellFormed(account) /\ WellFormed(saved)
                    /\ OwnedSlots(account) /\ OwnedSlots(saved)
                    /\ SelectionIsOwned /\ ConsumedIsCredited

    CoinsInv   == AccountInv /\ Balanced(account) /\ Balanced(saved)

The file has to satisfy what the memory does, since a restart reads it; the feature
that was selected by an earlier touch has to be owned still when a slot is touched
(`SelectionIsOwned`); and what the application asks the store to consume has to be
credited already, or credited then lost in a crash, when the store obeys
(`ConsumedIsCredited`). The migration of the old preferences takes the least of the
enabled features, which exists by the well-foundedness of the naturals.

`Balanced` says that the coins and what `Spent` sums make what was received. The sum is a
fold of the community modules over a set, so the proof begins with a theory of it: a function
that sums the subsets of a finite set exists (`SumExists`) and is unique (`SumIsUnique`), it
is the fold (`SumOverIsSum`), and adding an element adds what the element is worth, whatever
the order in which the fold takes them (`SumAdds`); all by induction over the cardinality.
Then a feature or a slot which is not owned costs its price (`SpentAdds`), which is what
`purchase_feature` and `purchase_slot` take from the coins; the rest of the screen changes
only the content of the slots, and what is received is added to both sides.

It also proves that `GeolocationSpec` keeps `NumbersIdentify`, the part of
`TablesAgree` that says that a number is never given to two addresses or countries.
`GeolocationInv` says that the cached addresses, the hash and the numbers of the
countries match (`TablesMatch`) and that what has been answered of a number is what the
tables say of it or of a number that is not given again (`AnswersStand`). There is one
lemma per case of the look-up: a hit, a miss, a return after the expiration with the
same country, or with another.

And it proves that `HttpSpec` keeps `RegistrationGoesOn`, without any
assumption. The proof follows the one registration from hand to hand: the scheduler, the
queue of the requests, the thread, the queue of the responses, the scheduler again
(`OneRegistration`); it rests on lemmas on the count of the registrations in a queue
when it is appended to or its head taken (`CountAppend`, `CountTail`), the latter by a
bijection. The wake-up (`NoLostNotification`) is inductive because the predicate of the
condition variable is evaluated under the mutex.

Only model-checked: the levels, the crates, the screens, the inputs, the display, the
settings, the scripts, the messages and the recordings (`MCParts`, `MCDisplay`); what the bot
computes (`MCBot`); of the game over the network, the lobby, the sessions and the arena,
only what is about fairness. Out of the prover's reach: what is about fairness
(`GameBegins`, `GameEnds`, `EventuallyAnswered`, `BlacklistEnds`, `ContestEnds`,
`FailedRequestEnds`), and what recursive definitions compute for every input (the searches of
`Navigation` and the walks of `Level`).

## 6. Not modelled

Left out of the modelled components, on purpose: logs, analytics, and the wording, styles,
positions and animations of the widgets; the fields that only they read. A session
that is dropped by `session_service` stops being able to send messages: for
`OnlineGame` it is a client that leaves. The server without a business server, where
each request is accepted at once, and without karma, is not modelled; nor are the
hello message on the server, which changes no state, and the sessions of the bots, which are a counter. The
validity of the session of each message is not composed with `Lobby` and `OnlineGame`.

Partly modelled: the statistics (one window, no dump), the observers of scroll views and rich texts, the
graphic toolkit. Not modelled at all: the styles, the factories of the
widgets and the resources, which are declarative; the glue of the platforms and the
command lines, which are input and output; the layout of the archive of a contest, which
belongs to entt; the code of iscool, of which the directory is empty, modelled as what
its users expect (schedule, network, preferences).

What each hazard without a property needs is in its note in `PROJECT.json`.

## Running

    tlc -config MCGameService.cfg MCGameService
    tlc -config MCOnlineGame.cfg MCOnlineGame        # and the other .cfg files
    tlapm GameServiceProofs.tla                      # about two minutes
    tlapm OnlineGameProofs.tla                       # about six minutes
    tlapm LobbyProofs.tla                            # about three minutes
    tlapm SessionsProofs.tla
    tlapm PartsProofs.tla
    tlapm Folding.tla
    tlapm ArenaProofs.tla                            # about ten minutes
    tlapm RegistryProofs.tla                         # about twelve minutes

The runs take from a few seconds to three minutes with two workers; the largest are
`MCParts` and `MCLobby`, with several hundred thousand states each.
