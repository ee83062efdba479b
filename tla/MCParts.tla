------------------------------ MODULE MCParts ------------------------------
(***************************************************************************)
(* The parts of the game which work alone, on small instances.  Each       *)
(* behaviour exercises one of them, which focus names; the variables of    *)
(* the other ones are Off.  A property of a part says nothing of the       *)
(* behaviours of the others.                                               *)
(***************************************************************************)
EXTENDS Account, TLC

CONSTANTS p1, p2, p3,                 \* players
          t1,                         \* the token of a purchase
          KickedOut, NoEntity, NotOver, NoWinner \* marks of Contest

VARIABLES
  focus,
  \* Level
  fences, todo, needed, available, walker, solid,
  \* Crates
  crates, crateCount, spawner, kinds, cratesNeeded, cratesAvailable, scanned,
  \* Screens
  textures, steps, http, view, moves, inputs, leaveShop, overlays, okAction,
  session, authenticating, retries, silently, playable, hello, search,
  waiting, game, ticking,
  \* Wallet
  balance, displayed, label, animations,
  \* Input
  known, plugged, mask, held, cooling, dragging, aimed, enabled, clicks, began,
  \* Keys
  keysDown, keysPopup, keysView, keysPlugged, pad, padKeys, effects, heard,
  \* Application
  systems, launching, active, memory, disk, applied, stage, language, popup,
  toggles, asked, scripted,
  \* Display
  contest, shown, widgets, fogSprites, localIndex, requested, action, pressed,
  \* Script
  script, scriptSteps, targets, nextStep, pending, scriptTicking, timeout,
  failing, outcome, played,
  \* WaitMessage
  state, scripts, current, line, nextScript, loops, announced, lineTicking,
  lineDisplayed, turn,
  \* Config
  config, configFile, fetched,
  \* Messages
  sent, wire, fate, received,
  \* Timeline
  recorded, file, writing, timeline, replica,
  \* Statistics
  now, buckets, total, games, tickAt, pushedAt, started,
  \* Geolocation
  date, version, ipToId, addressInfo, releaseDate, nextId, cleanUpAt, answers,
  \* HttpWorker
  requestQueue, resultQueue, quit, worker, signal, registration, wait, main

levelVars == <<fences, todo, needed, available, walker, solid>>
cratesVars == <<crates, crateCount, spawner, kinds, cratesNeeded,
                cratesAvailable, scanned>>
screensVars == <<textures, steps, http, view, moves, inputs, leaveShop,
                 overlays, okAction, session, authenticating, retries, silently,
                 playable, hello, search, waiting, game, ticking>>
walletVars == <<balance, displayed, label, animations>>
inputVars == <<known, plugged, mask, held, cooling, dragging, aimed, enabled,
               clicks, began>>
keysVars == <<keysDown, keysPopup, keysView, keysPlugged, pad, padKeys, effects,
              heard>>
applicationVars == <<systems, launching, active, memory, disk, applied, stage,
                     language, popup, toggles, asked, scripted>>
displayVars == <<contest, shown, widgets, fogSprites, localIndex, requested,
                 action, pressed>>
scriptVars == <<script, scriptSteps, targets, nextStep, pending, scriptTicking,
                timeout, failing, outcome, played>>
waitMessageVars == <<state, scripts, current, line, nextScript, loops,
                     announced, lineTicking, lineDisplayed, turn>>
configVars == <<config, configFile, fetched>>
messagesVars == <<sent, wire, fate, received>>
timelineVars == <<recorded, file, writing, timeline, replica>>
statisticsVars == <<now, buckets, total, games, tickAt, pushedAt, started>>
geolocationVars == <<date, version, ipToId, addressInfo, releaseDate, nextId,
                     cleanUpAt, answers>>
httpVars == <<requestQueue, resultQueue, quit, worker, signal, registration,
              wait, main>>

-----------------------------------------------------------------------------
(* The instances.                                                          *)

\* Two features and two slots; installations of all the former versions.
FeaturePrices == <<1, 2>>
SlotPrices == <<0, 1>>

Old(v, coins, victories, features) ==
  [version |-> v, coins |-> coins, victories |-> victories, defeats |-> 1,
   features |-> features, enabled |-> features]

OldInstallations == {Old(0, 0, 0, {}), Old(0, 0, 1, {2}), Old(1, 1, 0, {1, 2})}

\* The walk stays in the first quarter of an arena of 11 x 7 cells; the other
\* quarters are its mirror images.
Quarter == {<<x, y>> : x \in 0..5, y \in 0..3}

L == INSTANCE Level WITH Width <- 11, Height <- 7, PlayerCount <- 2,
       StepsPerCell <- 6, MaxObstacles <- 1, WalkArea <- Quarter

\* A level with one power-up of each kind but two bombs.
PowerUps == <<"invisibility", "shield", "bomb">>
PowerUpCount == [k \in {"invisibility", "shield", "bomb"} |->
                   IF k = "bomb" THEN 2 ELSE 1]

C == INSTANCE Crates WITH Places <- 1..5, Central <- {2, 3}, Kinds <- PowerUps,
       CountOf <- PowerUpCount, Invisibility <- "invisibility",
       needed <- cratesNeeded, available <- cratesAvailable

S == INSTANCE Screens WITH Textures <- 2, MaxRetry <- 2, Numbers <- {1, 2}

W == INSTANCE Wallet WITH MaxBalance <- 2, MaxAnimations <- 2,
       PaymentFrames <- 2, ReceiptFrames <- 2, Flights <- {0, 1, 3}

\* A popup above a screen with a button, a stick and a pad.
Observed == [g \in {"popup", "screen"} |->
               IF g = "popup" THEN <<"yes">> ELSE <<"play", "stick", "pad">>]

I == INSTANCE Input WITH Touches <- {1, 2}, Buttons <- {"yes", "play"},
       Sticks <- {"stick"}, Pads <- {"pad"},
       Groups <- {"popup", "screen"}, Sinks <- {"popup"},
       ObserversOf <- Observed,
       Arrangements <- {<<"screen">>, <<"popup", "screen">>, <<>>},
       Places <- {{}, {"play"}, {"yes", "play"}, {"stick", "pad"},
                  {"yes", "stick", "pad"}}

Y == INSTANCE Keys WITH Keys <- {"up", "down", "space", "back"},
       Positive <- [a \in {"vertical"} |-> "up"],
       Negative <- [a \in {"vertical"} |-> "down"],
       SpaceKey <- "space", BackKey <- "back", down <- keysDown,
       popup <- keysPopup, view <- keysView, plugged <- keysPlugged,
       pressed <- padKeys

A == INSTANCE Application WITH
       Settings <- {"music", "haptic_feedback", "direction_pad_kind_is_stick"},
       Languages <- {"en", "br", "it"}, SystemLanguage <- "br",
       Translated <- {"en", "br"}, English <- "en", enabled <- applied

\* Pools of one or two sprites, fewer than some walls and animations need.
PoolSizes == [bomb |-> 2, static_wall |-> 1, fence |-> 1, animation |-> 1]
FogOf == (0 :> {1}) @@ (1 :> {2})
SomeLooks == {[cell |-> 1, shield |-> FALSE, invisible |-> i] : i \in BOOLEAN}
SomeWalls == {<<>>, <<[cell |-> 1], [cell |-> 2]>>}
NoDrag == << <<0, 0>>, <<0, 0>> >>

D == INSTANCE Display WITH CellCount <- 2, Moving <- {"bomb"},
       Fixed <- {"static_wall", "fence"}, Capacity <- PoolSizes,
       PlayerCount <- 2, Foggy <- FogOf, FullOpacity <- 1, Looks <- SomeLooks,
       Walls <- SomeWalls, Places <- {1}, Drags <- {NoDrag}

\* Up to three actions, among which two are ignored.
ScriptActions ==
  {[kind |-> "wait", event |-> "e"], [kind |-> "click", node |-> "n"],
   [kind |-> "click", node |-> "m", event |-> "f"],
   [kind |-> "swipe", from |-> "a", to |-> "b"],
   [kind |-> "swipe", from |-> "c", to |-> "d"],
   [kind |-> "capture", file |-> "x"], [kind |-> "dance"], [kind |-> "wait"]}

Z == INSTANCE Script WITH
       Scripts <- UNION {[1..n -> ScriptActions] : n \in 0..3},
       Events <- {"e", "f"}, IndexModulus <- 256, steps <- scriptSteps,
       ticking <- scriptTicking, waiting <- timeout

M == INSTANCE WaitMessage WITH
       Files <- {<<>>, <<2>>, <<0, 2, 1>>, <<2, 1, 3>>}, DefaultLines <- 4,
       DefaultLoops <- 3, ticking <- lineTicking, displayed <- lineDisplayed

-----------------------------------------------------------------------------
(* The documents of the configuration.                                     *)

Absent == -1
WrongType == -2

Entry(i, c) == [id |-> i, coins |-> c]
List(l) == [type |-> "array", list |-> l]
Wrong == [type |-> "wrong", list |-> <<>>]

ProgramConfig ==
  [version |-> 1, interval |-> 24, server |-> "home",
   features |-> [f \in {1} |-> 5], slots |-> [i \in {1} |-> 0], shop |-> <<>>]

SomeDocuments ==
  [misc : {[type |-> "object", version |-> v, interval |-> i] :
             v \in {Absent, 2}, i \in {3, WrongType}}
          \cup {[type |-> "absent", version |-> Absent, interval |-> Absent]},
   servers : {List(<<>>), List(<<"away">>)},
   features : {Wrong, List(<<Entry(1, 7)>>),
               List(<<Entry(9, WrongType), Entry(1, 8), Entry(1, 6)>>),
               List(<<Entry(1, 4), Entry(1, WrongType)>>),
               List(<<Entry(1, Absent)>>)},
   slots : {List(<<>>), List(<<Entry(1, 3), Entry(9, 3)>>),
            List(<<Entry(1, 3), Entry(WrongType, 3)>>)},
   shop : {Wrong, List(<<Entry(1, 3), Entry(2, 5)>>),
           List(<<Entry(1, 3), Entry(2, WrongType)>>)}]

K == INSTANCE Config WITH Default <- ProgramConfig, Documents <- SomeDocuments,
       file <- configFile

-----------------------------------------------------------------------------
(* The datagrams: one of each type with fixed fields, and some others.     *)

Message(type, values, text, lists) ==
  [type |-> type, values |-> values, text |-> text, lists |-> lists]

Widths == INSTANCE Messages WITH SizeModulus <- 4, Sendable <- {},
            Altered <- {}, Garbage <- {}

SomeMessages ==
  {Message(t, [i \in 1..Len(Widths!Raw[t]) |-> i + 1], <<>>, <<>>) :
     t \in DOMAIN Widths!Raw \ {"authentication"}}
  \cup {Message("authentication", <<14, 3>>, <<7, 9>>, <<>>),
        Message("hello_ok", <<2, 14, 3, 4, 5, 6, 7, 8, 9, 10>>, <<11, 12>>,
                <<>>)}
  \cup {Message("launch_game", <<2, 3, 4, 5, n, n - 1, 80, 13, 15>>, <<>>,
                <<>>) : n \in {1, 4}}
  \cup {Message("game_update_from_client", <<5, 6, 7>>, <<>>, <<l>>) :
          l \in UNION {[1..n -> {0, 9}] : n \in 0..3} \cup {<<1, 2, 3, 4, 8>>}}
  \cup {Message("game_update_from_server", <<5, 6>>, <<>>, <<a, b>>) :
          a \in {<<>>, <<1>>, <<2, 12>>}, b \in {<<>>, <<0, 8, 1>>}}

B == INSTANCE Messages WITH SizeModulus <- 4, Sendable <- SomeMessages,
       Altered <- {95}, Garbage <- {0, 77}

-----------------------------------------------------------------------------
(* The services of the server.                                             *)

\* A game of three players: p1 is burnt by the first tick and disappears in the
\* next one.
Burns == [p \in {p1, p2, p3} |-> IF p = p1 THEN 0 ELSE 100]
Dies  == [p \in {p1, p2, p3} |-> IF p = p1 THEN 1 ELSE 100]

T == INSTANCE Timeline WITH Players <- {p1, p2, p3}, Order <- <<p1, p2, p3>>,
       Kicked <- KickedOut, Gone <- NoEntity, Running <- NotOver,
       Draw <- NoWinner,
       DyingTick <- Burns, DeathTick <- Dies, TimeLimit <- 3, Played <- {0, 3},
       FileNames <- {0}, MaxTicks <- 3, contest <- recorded

R == INSTANCE Statistics WITH Bucket <- 2, Window <- 5, TickDelay <- 2,
       MaxTime <- 12, MaxGames <- 4

Unknown == "unknown"
KnownCountry(v, ip) == IF ip = "a" THEN "home" ELSE Unknown

G == INSTANCE Geolocation WITH Addresses <- {"a", "b"},
       CountryOf <- KnownCountry, CleanUpDelay <- 2, MaxVersion <- 2,
       MaxId <- 5, MaxDate <- 6

H == INSTANCE HttpWorker WITH Interval <- 1, MaxRequests <- 3

-----------------------------------------------------------------------------

\* The value of the variables of the other parts.
Off == 0

LevelOff ==
  /\ fences = Off /\ todo = Off /\ needed = Off /\ available = Off
  /\ walker = Off /\ solid = Off

CratesOff ==
  /\ crates = Off /\ crateCount = Off /\ spawner = Off /\ kinds = Off
  /\ cratesNeeded = Off /\ cratesAvailable = Off /\ scanned = Off

ScreensOff ==
  /\ textures = Off /\ steps = Off /\ http = Off /\ view = Off /\ moves = Off
  /\ inputs = Off /\ leaveShop = Off /\ overlays = Off /\ okAction = Off
  /\ session = Off /\ authenticating = Off /\ retries = Off /\ silently = Off
  /\ playable = Off /\ hello = Off /\ search = Off /\ waiting = Off
  /\ game = Off /\ ticking = Off

WalletOff ==
  /\ balance = Off /\ displayed = Off /\ label = Off /\ animations = Off

InputOff ==
  /\ known = Off /\ plugged = Off /\ mask = Off /\ held = Off /\ cooling = Off
  /\ dragging = Off /\ aimed = Off /\ enabled = Off
  /\ clicks = Off /\ began = Off

KeysOff ==
  /\ keysDown = Off /\ keysPopup = Off /\ keysView = Off /\ keysPlugged = Off
  /\ pad = Off /\ padKeys = Off /\ effects = Off /\ heard = Off

ApplicationOff ==
  /\ systems = Off /\ launching = Off /\ active = Off /\ memory = Off
  /\ disk = Off /\ applied = Off /\ stage = Off /\ language = Off
  /\ popup = Off /\ toggles = Off /\ asked = Off /\ scripted = Off

DisplayOff ==
  /\ contest = Off /\ shown = Off /\ widgets = Off /\ fogSprites = Off
  /\ localIndex = Off /\ requested = Off /\ action = Off /\ pressed = Off

ScriptOff ==
  /\ script = Off /\ scriptSteps = Off /\ targets = Off /\ nextStep = Off
  /\ pending = Off /\ scriptTicking = Off /\ timeout = Off /\ failing = Off
  /\ outcome = Off /\ played = Off

WaitMessageOff ==
  /\ state = Off /\ scripts = Off /\ current = Off /\ line = Off
  /\ nextScript = Off /\ loops = Off /\ announced = Off /\ lineTicking = Off
  /\ lineDisplayed = Off /\ turn = Off

ConfigOff ==
  /\ config = Off /\ configFile = Off /\ fetched = Off

MessagesOff ==
  /\ sent = Off /\ wire = Off /\ fate = Off /\ received = Off

TimelineOff ==
  /\ recorded = Off /\ file = Off /\ writing = Off /\ timeline = Off
  /\ replica = Off

StatisticsOff ==
  /\ now = Off /\ buckets = Off /\ total = Off /\ games = Off /\ tickAt = Off
  /\ pushedAt = Off /\ started = Off

GeolocationOff ==
  /\ date = Off /\ version = Off /\ ipToId = Off /\ addressInfo = Off
  /\ releaseDate = Off /\ nextId = Off /\ cleanUpAt = Off /\ answers = Off

HttpOff ==
  /\ requestQueue = Off /\ resultQueue = Off /\ quit = Off /\ worker = Off
  /\ signal = Off /\ registration = Off /\ wait = Off /\ main = Off

Parts == {"account", "level", "crates", "screens", "wallet", "input",
          "keys", "application", "display", "script", "waiting messages",
          "config", "datagrams", "timeline", "statistics", "geolocation",
          "http"}

\* Account has an initial state when it is off.
PartsInit ==
  /\ focus \in Parts
  /\ AccountInit
  /\ focus # "account" => account = Updated(Old(0, 0, 0, {}))
  /\ IF focus = "level" THEN L!Init ELSE LevelOff
  /\ IF focus = "crates" THEN C!CratesInit ELSE CratesOff
  /\ IF focus = "screens" THEN S!ScreensInit ELSE ScreensOff
  /\ IF focus = "wallet" THEN W!WalletInit ELSE WalletOff
  /\ IF focus = "input" THEN I!InputInit ELSE InputOff
  /\ IF focus = "keys" THEN Y!KeysInit ELSE KeysOff
  /\ IF focus = "application" THEN A!ApplicationInit ELSE ApplicationOff
  /\ IF focus = "display" THEN D!DisplayInit ELSE DisplayOff
  /\ IF focus = "script" THEN Z!ScriptInit ELSE ScriptOff
  /\ IF focus = "waiting messages" THEN M!WaitMessageInit ELSE WaitMessageOff
  /\ IF focus = "config" THEN K!ConfigInit ELSE ConfigOff
  /\ IF focus = "datagrams" THEN B!MessagesInit ELSE MessagesOff
  /\ IF focus = "timeline" THEN T!TimelineInit ELSE TimelineOff
  /\ IF focus = "statistics" THEN R!StatisticsInit ELSE StatisticsOff
  /\ IF focus = "geolocation" THEN G!GeolocationInit ELSE GeolocationOff
  /\ IF focus = "http" THEN H!HttpInit ELSE HttpOff

PartsNext ==
  \/ /\ focus = "account"
     /\ AccountNext
     /\ UNCHANGED <<focus, levelVars, cratesVars, screensVars, walletVars,
                    inputVars, keysVars, applicationVars, displayVars,
                    scriptVars, waitMessageVars, configVars, messagesVars,
                    timelineVars, statisticsVars, geolocationVars, httpVars>>
  \/ /\ focus = "level"
     /\ L!Next
     /\ UNCHANGED <<focus, accountVars, cratesVars, screensVars, walletVars,
                    inputVars, keysVars, applicationVars, displayVars,
                    scriptVars, waitMessageVars, configVars, messagesVars,
                    timelineVars, statisticsVars, geolocationVars, httpVars>>
  \/ /\ focus = "crates"
     /\ C!CratesNext
     /\ UNCHANGED <<focus, accountVars, levelVars, screensVars, walletVars,
                    inputVars, keysVars, applicationVars, displayVars,
                    scriptVars, waitMessageVars, configVars, messagesVars,
                    timelineVars, statisticsVars, geolocationVars, httpVars>>
  \/ /\ focus = "screens"
     /\ S!ScreensNext
     /\ UNCHANGED <<focus, accountVars, levelVars, cratesVars, walletVars,
                    inputVars, keysVars, applicationVars, displayVars,
                    scriptVars, waitMessageVars, configVars, messagesVars,
                    timelineVars, statisticsVars, geolocationVars, httpVars>>
  \/ /\ focus = "wallet"
     /\ W!WalletNext
     /\ UNCHANGED <<focus, accountVars, levelVars, cratesVars, screensVars,
                    inputVars, keysVars, applicationVars, displayVars,
                    scriptVars, waitMessageVars, configVars, messagesVars,
                    timelineVars, statisticsVars, geolocationVars, httpVars>>
  \/ /\ focus = "input"
     /\ I!InputNext
     /\ UNCHANGED <<focus, accountVars, levelVars, cratesVars, screensVars,
                    walletVars, keysVars, applicationVars, displayVars,
                    scriptVars, waitMessageVars, configVars, messagesVars,
                    timelineVars, statisticsVars, geolocationVars, httpVars>>
  \/ /\ focus = "keys"
     /\ Y!KeysNext
     /\ UNCHANGED <<focus, accountVars, levelVars, cratesVars, screensVars,
                    walletVars, inputVars, applicationVars, displayVars,
                    scriptVars, waitMessageVars, configVars, messagesVars,
                    timelineVars, statisticsVars, geolocationVars, httpVars>>
  \/ /\ focus = "application"
     /\ A!ApplicationNext
     /\ UNCHANGED <<focus, accountVars, levelVars, cratesVars, screensVars,
                    walletVars, inputVars, keysVars, displayVars, scriptVars,
                    waitMessageVars, configVars, messagesVars, timelineVars,
                    statisticsVars, geolocationVars, httpVars>>
  \/ /\ focus = "display"
     /\ D!DisplayNext
     /\ UNCHANGED <<focus, accountVars, levelVars, cratesVars, screensVars,
                    walletVars, inputVars, keysVars, applicationVars,
                    scriptVars, waitMessageVars, configVars, messagesVars,
                    timelineVars, statisticsVars, geolocationVars, httpVars>>
  \/ /\ focus = "script"
     /\ Z!ScriptNext
     /\ UNCHANGED <<focus, accountVars, levelVars, cratesVars, screensVars,
                    walletVars, inputVars, keysVars, applicationVars,
                    displayVars, waitMessageVars, configVars, messagesVars,
                    timelineVars, statisticsVars, geolocationVars, httpVars>>
  \/ /\ focus = "waiting messages"
     /\ M!WaitMessageNext
     /\ UNCHANGED <<focus, accountVars, levelVars, cratesVars, screensVars,
                    walletVars, inputVars, keysVars, applicationVars,
                    displayVars, scriptVars, configVars, messagesVars,
                    timelineVars, statisticsVars, geolocationVars, httpVars>>
  \/ /\ focus = "config"
     /\ K!ConfigNext
     /\ UNCHANGED <<focus, accountVars, levelVars, cratesVars, screensVars,
                    walletVars, inputVars, keysVars, applicationVars,
                    displayVars, scriptVars, waitMessageVars, messagesVars,
                    timelineVars, statisticsVars, geolocationVars, httpVars>>
  \/ /\ focus = "datagrams"
     /\ B!MessagesNext
     /\ UNCHANGED <<focus, accountVars, levelVars, cratesVars, screensVars,
                    walletVars, inputVars, keysVars, applicationVars,
                    displayVars, scriptVars, waitMessageVars, configVars,
                    timelineVars, statisticsVars, geolocationVars, httpVars>>
  \/ /\ focus = "timeline"
     /\ T!TimelineNext
     /\ UNCHANGED <<focus, accountVars, levelVars, cratesVars, screensVars,
                    walletVars, inputVars, keysVars, applicationVars,
                    displayVars, scriptVars, waitMessageVars, configVars,
                    messagesVars, statisticsVars, geolocationVars, httpVars>>
  \/ /\ focus = "statistics"
     /\ R!StatisticsNext
     /\ UNCHANGED <<focus, accountVars, levelVars, cratesVars, screensVars,
                    walletVars, inputVars, keysVars, applicationVars,
                    displayVars, scriptVars, waitMessageVars, configVars,
                    messagesVars, timelineVars, geolocationVars, httpVars>>
  \/ /\ focus = "geolocation"
     /\ G!GeolocationNext
     /\ UNCHANGED <<focus, accountVars, levelVars, cratesVars, screensVars,
                    walletVars, inputVars, keysVars, applicationVars,
                    displayVars, scriptVars, waitMessageVars, configVars,
                    messagesVars, timelineVars, statisticsVars, httpVars>>
  \/ /\ focus = "http"
     /\ H!HttpNext
     /\ UNCHANGED <<focus, accountVars, levelVars, cratesVars, screensVars,
                    walletVars, inputVars, keysVars, applicationVars,
                    displayVars, scriptVars, waitMessageVars, configVars,
                    messagesVars, timelineVars, statisticsVars,
                    geolocationVars>>

PartsSpec ==
  PartsInit /\ [][PartsNext]_<<focus, accountVars, levelVars, cratesVars,
                  screensVars, walletVars, inputVars, keysVars,
                  applicationVars, displayVars, scriptVars, waitMessageVars,
                  configVars, messagesVars, timelineVars, statisticsVars,
                  geolocationVars, httpVars>>

-----------------------------------------------------------------------------
(* The properties of the parts.                                            *)

\* The bots find their way in the arena, and the players walk in it where
\* the bots think they can (Level).
ArenaCanBeWalked == focus = "level" => L!ArenaCanBeWalked

\* The draws of the crates never fail for lack of crates (Crates).
DrawsSucceed == focus = "crates" => C!DrawsSucceed

\* The exchanges run for the screen which needs them, with the session of
\* the game (Screens).
ScreensAgree == focus = "screens" => S!ScreensAgree

\* A touch belongs to what it began on until it ends (Input), and a key to what
\* is above the other screens and popups when it is pressed or released (Keys).
InputIsFollowed ==
  /\ focus = "input" => I!TouchesAreFollowed
  /\ focus = "keys" => Y!KeysAreFollowed

\* The preferences are obeyed, shown, and in their file before the process
\* may be killed (Application).
SettingsAreApplied == focus = "application" => A!SettingsAreApplied

\* What is visible is what is in the contest (Display).
SpritesShowTheContest == focus = "display" => D!SpritesShowTheContest

\* The director does what the script tells (Script).
ScriptIsFollowed == focus = "script" => Z!ScriptIsFollowed

\* The configuration, and what is kept of it, come from a single document
\* (Config).
ConfigIsWhole == focus = "config" => K!ConfigIsWhole

\* A datagram is read as it was written, or refused (Messages).
NothingIsMisread == focus = "datagrams" => B!NothingIsMisread

\* A replay gives the actions of the game, and removes in the next tick the first
\* player kicked out in one (Timeline).
ReplayActsAsRecorded == focus = "timeline" => T!ReplayActsAsRecorded

\* The registration to the business server never stops (HttpWorker).
RegistrationGoesOn == focus = "http" => H!RegistrationGoesOn

\* The widgets which follow values at their own pace end with the right ones: the
\* label of the wallet has the balance of the player (Wallet), and all the
\* messages of the matchmaking are displayed, in turn (WaitMessage).
WidgetsSettle ==
  /\ focus = "wallet" => W!LabelSettles
  /\ focus = "waiting messages" => M!ScriptsTakeTurns

\* The tables of the services forget what is old, no more: the count of the last
\* games has no hole (Statistics), and a number is never given to two addresses
\* (Geolocation).
TablesAgree ==
  /\ focus = "statistics" => R!RecentGamesCounted
  /\ focus = "geolocation" => G!NumbersIdentify
=============================================================================
