------------------------------- MODULE Lobby -------------------------------
(***************************************************************************)
(* The lobby of the server: the players ask for an opponent, wait in an    *)
(* encounter, accept it, and are launched in a game.  There are two        *)
(* services over the same code, for the random games and for the named     *)
(* ones (bim::server::random_game_encounter_service and                    *)
(* named_game_encounter_service); each has its own matchmaking_service,    *)
(* and both create games in the same game_service, of which this module    *)
(* models the registry of games.                                           *)
(*                                                                         *)
(* A request may be repeated or late: any session may send any of them at  *)
(* any time, and accept any encounter which has been proposed.             *)
(*                                                                         *)
(* An operator which nothing uses is a variant of the definition that      *)
(* follows it, with a defect the properties must detect.                   *)
(***************************************************************************)
EXTENDS Naturals, FiniteSets, Sequences

-----------------------------------------------------------------------------
(* An encounter of bim::server::matchmaking_service: the sessions waiting  *)
(* for a same game, in parallel arrays of which the first count elements   *)
(* are in use.  The others keep what was there before: a read or a write   *)
(* with the index of a player who has moved finds these leftovers.         *)
(*                                                                         *)
(* A date is the time left before it.                                      *)

CONSTANTS Sessions,
          NoSession,    \* what is in sessions where none has ever been
          MaxPlayers,   \* g_max_player_count
          ReleaseDelay, \* matchmaking_delay_for_release
          BotDelay      \* matchmaking_delay_for_bot

ASSUME EncounterConstants ==
  /\ IsFiniteSet(Sessions)
  /\ NoSession \notin Sessions
  /\ MaxPlayers \in Nat \ {0, 1}
  /\ ReleaseDelay \in Nat \ {0}
  /\ BotDelay \in Nat

Slots == 1..MaxPlayers

Encounters == [count    : 0..MaxPlayers,
               sessions : [Slots -> Sessions \cup {NoSession}],
               release  : [Slots -> 0..ReleaseDelay],
               botDate  : [Slots -> Nat],
               ready    : [Slots -> BOOLEAN],
               channel  : Nat] \* zero when the game is not launched

Members(e) == {e.sessions[i] : i \in 1..e.count}

\* session_index: one more than the last index when s is not there.
IndexOf(e, s) ==
  CHOOSE i \in 1..e.count + 1 :
    /\ i <= e.count => e.sessions[i] = s
    /\ \A j \in 1..i - 1 : e.sessions[j] # s

\* What new_encounter puts in the map.
NewEncounter(s) ==
  [count    |-> 1,
   sessions |-> [i \in Slots |-> IF i = 1 THEN s ELSE NoSession],
   release  |-> [i \in Slots |-> IF i = 1 THEN ReleaseDelay ELSE 0],
   botDate  |-> [i \in Slots |-> IF i = 1 THEN BotDelay ELSE 0],
   ready    |-> [i \in Slots |-> FALSE],
   channel  |-> 0]

\* The k-th index of keep.
Nth(keep, k) ==
  CHOOSE i \in keep : Cardinality({j \in keep : j <= i}) = k

\* An array of which n elements are in use, once those out of keep have been
\* erased one after the other: each erasure moves the next ones by one and
\* leaves the last one where it is.
Compacted(a, keep, n) ==
  [i \in Slots |-> IF i <= Cardinality(keep) THEN a[Nth(keep, i)]
                   ELSE IF i <= n THEN a[n]
                   ELSE a[i]]

ForgetReady(e, keep) ==
  [e EXCEPT !.count    = Cardinality(keep),
            !.sessions = Compacted(@, keep, e.count),
            !.release  = Compacted(@, keep, e.count),
            !.botDate  = Compacted(@, keep, e.count)]

\* The calls of erase for the indices which are not in keep.
Kept(e, keep) ==
  [e EXCEPT !.count    = Cardinality(keep),
            !.sessions = Compacted(@, keep, e.count),
            !.release  = Compacted(@, keep, e.count),
            !.botDate  = Compacted(@, keep, e.count),
            !.ready    = Compacted(@, keep, e.count)]

\* remove_inactive_sessions and remove_non_ready_players.
WithoutInactive(e) == Kept(e, {i \in 1..e.count : e.release[i] > 0})
WithoutNonReady(e) == Kept(e, {i \in 1..e.count : e.ready[i]})

Inserted(e, s) ==
  [e EXCEPT !.count             = @ + 1,
            !.sessions[e.count + 1] = s,
            !.ready[e.count + 1]    = FALSE,
            !.channel           = 0]

AlwaysInserted(e, s) ==
  LET p == WithoutInactive(e)
      q == Inserted(p, s)
  IN IF p.count = MaxPlayers THEN {p}
     ELSE {[q EXCEPT !.release[q.count] = ReleaseDelay,
                     !.botDate[q.count] = BotDelay]}

\* refresh_encounter.  The dates of a new player are written at the index it
\* would have had before the inactive ones were removed.  If the encounter was
\* full it is out of the arrays: the release date is written at the first
\* date_for_bot, and the date_for_bot over the flags ready, which become
\* anything (the next bytes are those of the id of a channel which is not set).
Refreshed(e, s) ==
  LET index == IndexOf(e, s)
      p     == WithoutInactive(e)
      q     == Inserted(p, s)
  IN IF index <= e.count
     THEN {WithoutInactive([e EXCEPT !.release[index] = ReleaseDelay])}
     ELSE IF p.count = MaxPlayers THEN {p}
     ELSE IF index <= MaxPlayers
     THEN {[q EXCEPT !.release[index] = ReleaseDelay,
                     !.botDate[index] = BotDelay]}
     ELSE {[q EXCEPT !.botDate[1] = ReleaseDelay, !.ready = flags]
             : flags \in [Slots -> BOOLEAN]}

\* The encounter when s has accepted it; now, when the players who have not are
\* not awaited.
Accepted(e, s, now) ==
  LET i == IndexOf(e, s)
      f == [e EXCEPT !.release[i] = ReleaseDelay, !.ready[i] = TRUE]
  IN IF e.channel # 0 THEN f
     ELSE IF now THEN WithoutNonReady(WithoutInactive(f))
     ELSE WithoutInactive(f)

\* Can s, alone in f, be given a bot?  The date is read at the index s had
\* in the encounter e, before the inactive players were removed.
BotIsDue(e, f, s) == f.count < 2 /\ f.botDate[IndexOf(e, s)] = 0

ReadyCount(f) == Cardinality({i \in 1..f.count : f.ready[i]})

\* The game starts when all are ready, and they are two or there is a bot.
Startable(f, bot) ==
  ReadyCount(f) = IF f.count >= 2 THEN f.count ELSE IF bot THEN 1 ELSE 2

\* One unit of time later.
Elapsed(e) ==
  LET Less(d) == [i \in Slots |-> IF d[i] = 0 THEN 0 ELSE d[i] - 1]
  IN [e EXCEPT !.release = Less(@), !.botDate = Less(@)]

-----------------------------------------------------------------------------
(* The two services and the registry of games.                             *)

CONSTANTS Names,          \* the names of the named games
          EnableBots,     \* enable_bots
          AutoStartDelay, \* random_game_auto_start_delay
          MaxEncounters,  \* bound on the encounters created by each service
          MaxGames        \* bound on the games created

ASSUME LobbyConstants ==
  /\ EnableBots \in BOOLEAN
  /\ AutoStartDelay \in Nat
  /\ MaxEncounters \in [{"random", "named"} -> Nat]
  /\ MaxGames \in Nat

Kinds == {"random", "named"}
Ids == UNION {1..MaxEncounters[k] : k \in Kinds}
Channels == 1..MaxGames

Absent == [count |-> 0] \* no encounter has this id
Unset == [left |-> 0, set |-> FALSE] \* no automatic start is planned

VARIABLES
  encounters,     \* m_encounters of each matchmaking_service
  nextEncounter,  \* m_next_encounter_id
  doneSessions,   \* m_done_sessions of the random games; nobody reads the
                  \* one of the named games
  doneEncounters, \* m_done_encounters
  encounterOf,    \* m_session_to_encounter of the random games
  autoStart,      \* m_auto_start_date of the random games
  encounterNamed, \* m_encounter_ids of the named games
  games,          \* the games created: those gone are no longer in m_games
  channelOf       \* m_session_to_channel, zero when there is none

garbage == <<doneSessions, doneEncounters>>
registry == <<games, channelOf>>
vars == <<encounters, nextEncounter, garbage, encounterOf, autoStart,
          encounterNamed, registry>>

Init ==
  /\ encounters = [k \in Kinds |-> [id \in Ids |-> Absent]]
  /\ nextEncounter = [k \in Kinds |-> 1]
  /\ doneSessions = {}
  /\ doneEncounters = [k \in Kinds |-> {}]
  /\ encounterOf = [s \in Sessions |-> 0]
  /\ autoStart = [id \in Ids |-> Unset]
  /\ encounterNamed = [n \in Names |-> 0]
  /\ games = <<>>
  /\ channelOf = [s \in Sessions |-> 0]

Exists(k, id) == id \in Ids /\ encounters[k][id] # Absent

\* is_in_active_game
InActiveGame(s) ==
  channelOf[s] # 0 /\ games[channelOf[s]].status = "running"

\* What a change of the encounter id leaves for the clean-up of the service.
Kicks(id, e, f) == {<<s, id>> : s \in Members(e) \ Members(f)}

-----------------------------------------------------------------------------
(* The clean-ups of the services, at the end of the handlers.              *)

\* m_session_to_encounter after the sessions kicked out are removed.
Mapping(map, kicked) ==
  [s \in Sessions |-> IF <<s, map[s]>> \in kicked THEN 0 ELSE map[s]]

CleanUpRandom(dates) ==
  /\ autoStart' = [id \in Ids |-> IF id \in doneEncounters["random"]
                                  THEN Unset ELSE dates[id]]
  /\ doneSessions' = {}
  /\ doneEncounters' = [doneEncounters EXCEPT !["random"] = {}]

CleanUpNamed(map) ==
  /\ encounterNamed' = [n \in Names |-> IF map[n] \in doneEncounters["named"]
                                        THEN 0 ELSE map[n]]
  /\ doneEncounters' = [doneEncounters EXCEPT !["named"] = {}]

-----------------------------------------------------------------------------
(* random_game_encounter_service                                           *)

\* refresh_encounter returns true.
Refreshable(id) == Exists("random", id) /\ encounters["random"][id].channel = 0

\* The encounters add_in_any_encounter may choose, whose order is the one of a
\* hash table.
Joinable(id) ==
  /\ Exists("random", id)
  /\ encounters["random"][id].channel = 0
  /\ encounters["random"][id].count < MaxPlayers

\* The request of a player on hold: the service returns without a clean-up.
KeepWaiting(s) ==
  LET id == encounterOf[s] IN
  /\ ~InActiveGame(s)
  /\ Refreshable(id)
  /\ \E f \in Refreshed(encounters["random"][id], s) :
       /\ encounters' = [encounters EXCEPT !["random"][id] = f]
       /\ doneSessions' =
            doneSessions \cup Kicks(id, encounters["random"][id], f)
  /\ UNCHANGED <<nextEncounter, doneEncounters, encounterOf, autoStart,
                 encounterNamed, registry>>

JoinRandomIn(s, id) ==
  /\ ~InActiveGame(s)
  /\ ~Refreshable(encounterOf[s])
  /\ Joinable(id)
  /\ \E f \in Refreshed(encounters["random"][id], s) :
       LET kicked == doneSessions \cup Kicks(id, encounters["random"][id], f)
       IN /\ encounters' = [encounters EXCEPT !["random"][id] = f]
          /\ encounterOf' = Mapping([encounterOf EXCEPT ![s] = id], kicked)
          /\ CleanUpRandom(autoStart)
  /\ UNCHANGED <<nextEncounter, encounterNamed, registry>>

JoinRandom(s) == \E id \in Ids : JoinRandomIn(s, id)

CreateRandom(s) ==
  LET id == nextEncounter["random"] IN
  /\ ~InActiveGame(s)
  /\ ~Refreshable(encounterOf[s])
  /\ \A other \in Ids : ~Joinable(other)
  /\ id <= MaxEncounters["random"]
  /\ encounters' = [encounters EXCEPT !["random"][id] = NewEncounter(s)]
  /\ nextEncounter' = [nextEncounter EXCEPT !["random"] = id + 1]
  /\ encounterOf' = Mapping([encounterOf EXCEPT ![s] = id],
                            doneSessions)
  /\ CleanUpRandom(autoStart)
  /\ UNCHANGED <<encounterNamed, registry>>

-----------------------------------------------------------------------------
(* named_game_encounter_service                                            *)

CreateNamed(s, n) ==
  LET id == nextEncounter["named"] IN
  /\ ~InActiveGame(s)
  /\ encounterNamed[n] = 0
  /\ id <= MaxEncounters["named"]
  /\ encounters' = [encounters EXCEPT !["named"][id] = NewEncounter(s)]
  /\ nextEncounter' = [nextEncounter EXCEPT !["named"] = id + 1]
  /\ CleanUpNamed([encounterNamed EXCEPT ![n] = id])
  /\ UNCHANGED <<doneSessions, encounterOf, autoStart, registry>>

\* The request is not answered when the encounter is launched, full or gone.
JoinNamed(s, n) ==
  LET id == encounterNamed[n] IN
  /\ ~InActiveGame(s)
  /\ id # 0
  /\ IF Exists("named", id) /\ encounters["named"][id].channel = 0
     THEN \E f \in Refreshed(encounters["named"][id], s) :
            encounters' = [encounters EXCEPT !["named"][id] = f]
     ELSE UNCHANGED encounters
  /\ CleanUpNamed(encounterNamed)
  /\ UNCHANGED <<nextEncounter, doneSessions, encounterOf, autoStart, registry>>

-----------------------------------------------------------------------------
(* mark_as_ready of matchmaking_service, and new_game                      *)

\* The game of the players of f, on the next channel.
NewGame(f, bot) ==
  /\ Len(games) < MaxGames
  /\ games' = Append(games, [players |-> Members(f), bot |-> bot,
                             status |-> "running"])
  /\ channelOf' = [s \in Sessions |-> IF s \in Members(f) THEN Len(games) + 1
                                      ELSE channelOf[s]]

\* The encounter id when it has been accepted by s, if s is one of its members.
WhenReady(k, s, id, now) ==
  LET e == encounters[k][id]
  IN IF s \in Members(e) THEN Accepted(e, s, now) ELSE e

\* The game can be created only if it has not been.
MarkAsReady(k, s, id, now) ==
  LET e    == encounters[k][id]
      f    == WhenReady(k, s, id, now)
      bot  == k = "random" /\ EnableBots /\ BotIsDue(e, f, s)
      full == s \in Members(e) /\ f.channel = 0 /\ Startable(f, bot)
  IN \/ /\ full
        /\ NewGame(f, bot)
        /\ encounters' = [encounters EXCEPT
                            ![k][id] = [f EXCEPT !.channel = Len(games) + 1]]
     \/ /\ ~full
        /\ encounters' = [encounters EXCEPT ![k][id] = f]
        /\ UNCHANGED registry

\* A date of automatic start is set by the first acceptance, even if the
\* encounter does not exist.
AcceptRandom(s, id) ==
  LET now   == autoStart[id].set /\ autoStart[id].left = 0
      dates == [autoStart EXCEPT ![id] =
                  IF now THEN Unset
                  ELSE IF @.set THEN @
                  ELSE [left |-> AutoStartDelay, set |-> TRUE]]
  IN /\ MarkAsReady("random", s, id, now)
     /\ encounterOf' =
          Mapping(encounterOf,
                  doneSessions
                    \cup Kicks(id, encounters["random"][id],
                               WhenReady("random", s, id, now)))
     /\ CleanUpRandom(dates)
     /\ UNCHANGED <<nextEncounter, encounterNamed>>

AcceptNamed(s, id) ==
  /\ MarkAsReady("named", s, id, FALSE)
  /\ CleanUpNamed(encounterNamed)
  /\ UNCHANGED <<nextEncounter, doneSessions, encounterOf, autoStart>>

-----------------------------------------------------------------------------
(* The timers of matchmaking_service and game_service, and the games.      *)

CleanUpMatchmaking(k) ==
  LET Left(id) == IF Exists(k, id) THEN WithoutInactive(encounters[k][id])
                  ELSE Absent
  IN /\ encounters' = [encounters EXCEPT ![k] =
                         [id \in Ids |-> IF Left(id).count = 0 THEN Absent
                                         ELSE Left(id)]]
     /\ doneSessions' =
          IF k = "named" THEN doneSessions
          ELSE doneSessions \cup UNION {Kicks(id, encounters[k][id], Left(id))
                                         : id \in Ids}
     /\ doneEncounters' = [doneEncounters EXCEPT ![k] =
                             @ \cup {id \in Ids : /\ Exists(k, id)
                                                  /\ Left(id).count = 0}]
  /\ UNCHANGED <<nextEncounter, encounterOf, autoStart, encounterNamed,
                 registry>>

\* The contest of a game ends.
FinishGame(c) ==
  /\ games[c].status = "running"
  /\ games' = [games EXCEPT ![c].status = "over"]
  /\ UNCHANGED <<encounters, nextEncounter, garbage, encounterOf, autoStart,
                 encounterNamed, channelOf>>

ChannelsErased(c) ==
  [s \in Sessions |-> IF s \in games[c].players THEN 0 ELSE channelOf[s]]

\* The entries of the players of c are erased, if they are still in this game.
ChannelsLeft(c) ==
  [s \in Sessions |-> IF s \in games[c].players /\ channelOf[s] = c THEN 0
                      ELSE channelOf[s]]

\* The clean-up of a game without a message since game_service_clean_up_interval,
\* running or not: messages are as rare as the network wants.
CleanUpGame(c) ==
  /\ games[c].status # "gone"
  /\ games' = [games EXCEPT ![c].status = "gone"]
  /\ channelOf' = ChannelsLeft(c)
  /\ UNCHANGED <<encounters, nextEncounter, garbage, encounterOf, autoStart,
                 encounterNamed>>

Tick ==
  /\ encounters' = [k \in Kinds |->
                      [id \in Ids |-> IF Exists(k, id)
                                      THEN Elapsed(encounters[k][id])
                                      ELSE Absent]]
  /\ autoStart' = [id \in Ids |-> IF autoStart[id].left = 0 THEN autoStart[id]
                                  ELSE [autoStart[id] EXCEPT !.left = @ - 1]]
  /\ UNCHANGED <<nextEncounter, garbage, encounterOf, encounterNamed, registry>>

Next ==
  \/ \E s \in Sessions :
       \/ KeepWaiting(s)
       \/ JoinRandom(s)
       \/ CreateRandom(s)
       \/ \E n \in Names : CreateNamed(s, n) \/ JoinNamed(s, n)
       \/ \E id \in Ids :
            \/ id < nextEncounter["random"] /\ AcceptRandom(s, id)
            \/ id < nextEncounter["named"] /\ AcceptNamed(s, id)
  \/ \E k \in Kinds : CleanUpMatchmaking(k)
  \/ \E c \in DOMAIN games : FinishGame(c) \/ CleanUpGame(c)
  \/ Tick

Spec == Init /\ [][Next]_vars

-----------------------------------------------------------------------------
(* Properties                                                              *)

TypeOK ==
  /\ encounters \in [Kinds -> [Ids -> Encounters \cup {Absent}]]
  /\ \A k \in Kinds : nextEncounter[k] \in 1..MaxEncounters[k] + 1
  /\ doneSessions \in SUBSET (Sessions \X Ids)
  /\ doneEncounters \in [Kinds -> SUBSET Ids]
  /\ encounterOf \in [Sessions -> Ids \cup {0}]
  /\ autoStart \in [Ids -> [left : 0..AutoStartDelay, set : BOOLEAN]]
  /\ encounterNamed \in [Names -> Ids \cup {0}]
  /\ games \in Seq([players : SUBSET Sessions, bot : BOOLEAN,
                     status : {"running", "over", "gone"}])
  /\ channelOf \in [Sessions -> Channels \cup {0}]

\* Whatever is removed and inserted in an encounter, in any order, no session
\* is twice in it: the players of a game are distinct (the assert of new_game).
OnceInEncounter ==
  \A k \in Kinds, id \in Ids :
    \A i, j \in 1..encounters[k][id].count :
      i # j => encounters[k][id].sessions[i] # encounters[k][id].sessions[j]

\* The games in which s has been launched, and the last of them.
GamesOf(s) == {c \in DOMAIN games : s \in games[c].players}
LastGame(s) == CHOOSE c \in GamesOf(s) : \A d \in GamesOf(s) : d <= c

\* However launches and clean-ups of games are interleaved, the service knows
\* that a player is in a game as long as the last game the player has been
\* launched in exists, and then it forgets it.
LastGameIsKnown ==
  \A s \in Sessions :
    channelOf[s] = IF GamesOf(s) = {} \/ games[LastGame(s)].status = "gone"
                   THEN 0 ELSE LastGame(s)

ReadyIn(k, id, s) ==
  LET e == encounters[k][id]
  IN \E i \in 1..e.count : e.sessions[i] = s /\ e.ready[i]

\* Nobody becomes ready but by accepting the encounter, wherever the arrays
\* move it.
ReadyByAccepting(k) ==
  \A id \in Ids, s \in Sessions :
    ReadyIn(k, id, s)' /\ ~ReadyIn(k, id, s)
      => IF k = "random" THEN AcceptRandom(s, id) ELSE AcceptNamed(s, id)

\* A random game is not launched with a player who has not accepted it.
RandomGamesWait == [][ReadyByAccepting("random")]_vars

=============================================================================
