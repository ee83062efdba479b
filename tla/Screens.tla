------------------------------ MODULE Screens ------------------------------
(***************************************************************************)
(* The application, from its launch: the loading of its resources, the     *)
(* connection to the servers, and the screens, which follow each other     *)
(* through animations.  Only one of them is displayed, and each exchange   *)
(* with the server belongs to a screen.                                    *)
(*                                                                         *)
(* An operator which nothing uses is a variant of the definition that      *)
(* follows it, with a defect the properties must detect.                   *)
(***************************************************************************)
EXTENDS Integers, Sequences, SequencesExt

CONSTANTS Textures,  \* how many textures there are to load
          MaxRetry,  \* g_max_retry_count of the keep-alive exchange
          Numbers    \* the numbers the server gives to the sessions

Views == {"lobby", "shop", "game_features", "matchmaking", "online_game",
          "end_game"}
Popups == {"launch", "disconnected", "no_shop"}
Nobody == "none" \* the screens are not created yet
NoSession == 0
Off == -1

VARIABLES
  textures, steps, http, \* what is left to load, m_done_steps, the requests
  view, moves, inputs,   \* m_active_view, the animations, the input nodes
  leaveShop,             \* m_leave_shop
  overlays, okAction,    \* the popups, the first one above the others
  session, authenticating, \* of the session handler
  retries, silently,     \* of the keep-alive exchange, m_silently_reconnect
  playable, hello,       \* the button "play" and the exchange of the lobby
  search, waiting,       \* the exchange and the state of the matchmaking
  game, ticking          \* the channel and the ticks of the game

launching == <<textures, steps, http>>
screens == <<view, moves, inputs, leaveShop>>
popups == <<overlays, okAction>>
connection == <<session, authenticating, retries, silently>>
lobby == <<playable, hello>>
matchmaking == <<search, waiting>>
playing == <<game, ticking>>
screensVars == <<launching, screens, popups, connection, lobby, matchmaking,
                 playing>>

\* load_resources: all of them are asked for at once.
LoadResources(count) == count = Textures

\* main_task::start
ScreensInit ==
  /\ LoadResources(textures) /\ steps = {} /\ http = {"config"}
  /\ view = Nobody /\ moves = <<>> /\ inputs = {} /\ leaveShop = "lobby"
  /\ overlays = <<>> /\ okAction = "nothing"
  /\ session = NoSession /\ authenticating = FALSE
  /\ retries = Off /\ silently = FALSE
  /\ playable = FALSE /\ hello = FALSE
  /\ search = NoSession /\ waiting = TRUE
  /\ game = NoSession /\ ticking = FALSE

-----------------------------------------------------------------------------
(* The popups.                                                             *)

Shown(p) == \E i \in DOMAIN overlays : overlays[i].popup = p

\* popup::show; the buttons react once the popup has appeared.
Show(p) ==
  overlays' = IF Shown(p) THEN overlays
              ELSE <<[popup |-> p, ready |-> FALSE]>> \o overlays

PopupAppears ==
  /\ \E i \in DOMAIN overlays :
       /\ ~overlays[i].ready
       /\ overlays' = [overlays EXCEPT ![i].ready = TRUE]
  /\ UNCHANGED <<launching, screens, okAction, connection, lobby, matchmaking,
                 playing>>

\* Only the popup above the others receives the touches.
Pressable(p) ==
  /\ overlays # <<>>
  /\ Head(overlays) = [popup |-> p, ready |-> TRUE]

RemoveFromOverlays == overlays' = Tail(overlays)

\* "yes" when the update is proposed or an error is told, at launch.
AcknowledgeLaunch ==
  /\ Pressable("launch")
  /\ RemoveFromOverlays
  /\ okAction' = "nothing"
  /\ http' = IF okAction = "connect" THEN http \cup {"business"} ELSE http
  /\ UNCHANGED <<textures, steps, screens, connection, lobby, matchmaking,
                 playing>>

\* "yes" or "no" when donations are proposed instead of a shop.
CloseNoShop ==
  /\ Pressable("no_shop")
  /\ RemoveFromOverlays
  /\ UNCHANGED <<launching, screens, okAction, connection, lobby, matchmaking,
                 playing>>

\* application::reset, when a disconnection is acknowledged: everything is
\* destroyed, and created again.
Reset ==
  /\ Pressable("disconnected")
  /\ LoadResources(textures') /\ steps' = {} /\ http' = {"config"}
  /\ view' = Nobody /\ moves' = <<>> /\ inputs' = {} /\ leaveShop' = "lobby"
  /\ overlays' = <<>> /\ okAction' = "nothing"
  /\ session' = NoSession /\ authenticating' = FALSE
  /\ retries' = Off /\ silently' = FALSE
  /\ playable' = FALSE /\ hello' = FALSE
  /\ search' = NoSession /\ waiting' = TRUE
  /\ game' = NoSession /\ ticking' = FALSE

-----------------------------------------------------------------------------
(* The launch.                                                             *)

\* try_create_ui, with the given steps: the lobby is displayed at once, and
\* then an update is proposed, or the business server is asked for a token.
TryCreateUi(done) ==
  IF done # {"resources", "config"}
  THEN UNCHANGED <<view, inputs, popups>> /\ http' = http \ {"config"}
  ELSE /\ view' = "lobby"
       /\ inputs' = {"lobby"}
       /\ \/ /\ Show("launch")
             /\ okAction' = "connect"
             /\ http' = {}
          \/ http' = {"business"} /\ UNCHANGED popups

\* one_loaded_texture, one_loaded_resource, resources_loaded
TextureLoaded ==
  /\ textures > 0
  /\ textures' = textures - 1
  /\ steps' = IF textures = 1 THEN steps \cup {"resources"} ELSE steps
  /\ IF textures = 1 /\ "config" \in steps
     THEN TryCreateUi(steps')
     ELSE UNCHANGED <<http, view, inputs, popups>>
  /\ UNCHANGED <<moves, leaveShop, connection, lobby, matchmaking, playing>>

\* The remote config, or an error and then the local one, or none.
ConfigReady ==
  /\ "config" \in http
  /\ steps' = steps \cup {"config"}
  /\ TryCreateUi(steps')
  /\ UNCHANGED <<textures, moves, leaveShop, connection, lobby, matchmaking,
                 playing>>

\* session_handler::reconnect: when there is no socket, nobody is told.
Reconnect ==
  /\ session' = NoSession
  /\ authenticating' \in BOOLEAN

BusinessAnswer ==
  /\ "business" \in http
  /\ http' = http \ {"business"}
  /\ \/ Reconnect /\ UNCHANGED popups
     \/ /\ Show("launch")
        /\ UNCHANGED <<session, authenticating, okAction>>
  /\ UNCHANGED <<textures, steps, screens, retries, silently, lobby,
                 matchmaking, playing>>

-----------------------------------------------------------------------------
(* The connection.                                                         *)

\* The screen which is or will be displayed.
Heading == IF moves = <<>> THEN view ELSE Last(moves).to

ApplyConnectedState == playable' = TRUE /\ hello' = TRUE

\* The first message is sent at once.
StartKeepAlive == retries' = MaxRetry - 1

\* check_ok; the lobby is told, and the keep-alive exchange sends its first
\* message.
Authenticated ==
  /\ authenticating
  /\ authenticating' = FALSE
  /\ session' \in Numbers
  /\ silently' = TRUE
  /\ StartKeepAlive
  /\ IF Heading = "lobby" THEN ApplyConnectedState
     ELSE UNCHANGED lobby
  /\ UNCHANGED <<launching, screens, popups, matchmaking, playing>>

AuthenticationRefused ==
  /\ authenticating
  /\ authenticating' = FALSE
  /\ session' = NoSession
  /\ Show("launch")
  /\ UNCHANGED <<launching, screens, okAction, retries, silently, lobby,
                 matchmaking, playing>>

StopGame == game' = NoSession /\ ticking' = FALSE

\* screen_wheel::disconnected
Disconnected ==
  IF view = "online_game" \/ ~silently
  THEN /\ StopGame
       /\ Show("disconnected")
       /\ UNCHANGED <<session, authenticating, silently>>
  ELSE /\ silently' = FALSE
       /\ Reconnect
       /\ UNCHANGED <<overlays, playing>>

\* Every second; an animation of half a second meets one tick at most.
KeepAliveTick ==
  /\ retries # Off
  /\ \A i \in DOMAIN moves : ~moves[i].ticked
  /\ moves' = [i \in DOMAIN moves |-> [moves[i] EXCEPT !.ticked = TRUE]]
  /\ IF retries = 0
     THEN retries' = Off /\ Disconnected
     ELSE /\ retries' = retries - 1
          /\ UNCHANGED <<overlays, session, authenticating, silently, playing>>
  /\ UNCHANGED <<launching, view, inputs, leaveShop, okAction, lobby,
                 matchmaking>>

\* Any message of the first channel of the session.
Alive == retries' = IF retries = Off THEN Off ELSE MaxRetry

KeepAliveAnswer ==
  /\ session # NoSession
  /\ Alive
  /\ UNCHANGED <<launching, screens, popups, session, authenticating, silently,
                 lobby, matchmaking, playing>>

-----------------------------------------------------------------------------
(* The screens.                                                            *)

Displayed(v) == v \in inputs

\* The user releases a button of the screen v, even below a popup: it was
\* pressed before the popup appeared.
Press(v) == Displayed(v)

\* switch_view; the inputs of the old view have been erased.
Switch(to) ==
  /\ moves' = Append(moves, [to |-> to, ticked |-> FALSE])
  /\ inputs' = inputs \ {view}
  /\ UNCHANGED view

\* lobby::displaying
EnterLobby ==
  /\ playable' = (session # NoSession)
  /\ hello' = (session # NoSession)

CloseLobby == hello' = FALSE /\ UNCHANGED playable

\* The screen the shop and the features go back to.
ReturnFromShopTo(v) == leaveShop' = v

Stay == UNCHANGED <<launching, popups, connection>>

LobbyTo(v) ==
  /\ Press("lobby")
  /\ v = "matchmaking" => playable
  /\ IF v = "matchmaking" THEN UNCHANGED leaveShop ELSE ReturnFromShopTo("lobby")
  /\ waiting' = IF v = "matchmaking" THEN TRUE ELSE waiting
  /\ Switch(v)
  /\ CloseLobby
  /\ Stay /\ UNCHANGED <<search, playing>>

\* can_open_shop
NoShop ==
  /\ \E v \in {"lobby", "game_features"} : Press(v)
  /\ Show("no_shop")
  /\ UNCHANGED <<launching, screens, okAction, connection, lobby, matchmaking,
                 playing>>

FeaturesTo(v) ==
  /\ Press("game_features")
  /\ Switch(v)
  /\ IF v = "lobby"
     THEN EnterLobby /\ UNCHANGED leaveShop
     ELSE ReturnFromShopTo("game_features") /\ UNCHANGED lobby
  /\ Stay /\ UNCHANGED <<matchmaking, playing>>

LeaveShop ==
  /\ Press("shop")
  /\ Switch(leaveShop)
  /\ IF leaveShop = "lobby" THEN EnterLobby ELSE UNCHANGED lobby
  /\ Stay /\ UNCHANGED <<leaveShop, matchmaking, playing>>

EndGameTo(v) ==
  /\ Press("end_game")
  /\ Switch(v)
  /\ IF v = "lobby" THEN EnterLobby ELSE UNCHANGED lobby
  /\ waiting' = IF v = "matchmaking" THEN TRUE ELSE waiting
  /\ Stay /\ UNCHANGED <<leaveShop, search, playing>>

\* update_display_with_game_proposal: alone or not.
Proposal ==
  /\ search = session /\ session # NoSession
  /\ Alive
  /\ waiting' \in BOOLEAN
  /\ UNCHANGED <<launching, screens, popups, session, authenticating, silently,
                 lobby, search, playing>>

StillSearching == UNCHANGED search

\* matchmaking::closing stops the exchange.
CloseMatchmaking == search' = NoSession

BackToLobby ==
  /\ Press("matchmaking")
  /\ waiting
  /\ CloseMatchmaking
  /\ Switch("lobby")
  /\ EnterLobby
  /\ Stay /\ UNCHANGED <<leaveShop, waiting, playing>>

\* launch_game, then online_game::displaying.  A session that was replaced is
\* unknown to the server: its messages are not late by MaxRetry seconds.
LaunchGame ==
  /\ search = session /\ session # NoSession
  /\ Alive
  /\ CloseMatchmaking
  /\ game' = session
  /\ ticking' = FALSE
  /\ Switch("online_game")
  /\ UNCHANGED <<launching, popups, leaveShop, session, authenticating,
                 silently, lobby, waiting>>

ScheduleTick == ticking' = TRUE

GameStarted ==
  /\ game # NoSession
  /\ ScheduleTick
  /\ UNCHANGED <<launching, screens, popups, connection, lobby, matchmaking,
                 game>>

\* tick, when the contest is over: it lasts more than an animation.
GameOver ==
  /\ ticking
  /\ Displayed("online_game")
  /\ StopGame
  /\ Switch("end_game")
  /\ UNCHANGED <<launching, leaveShop, popups, connection, lobby, matchmaking>>

\* The end of the animation of switch_view, and *_displayed.
ViewDisplayed ==
  /\ moves # <<>>
  /\ moves' = Tail(moves)
  /\ view' = Head(moves).to
  /\ inputs' = inputs \cup {view'}
  /\ search' = IF view' = "matchmaking" THEN session ELSE search
  /\ Stay /\ UNCHANGED <<leaveShop, lobby, waiting, playing>>

\* The assertion of matchmaking::displayed.
SearchIsConnected ==
  view = "matchmaking" /\ moves = <<>> => search # NoSession

\* Nothing is known of the program once the assertion has failed.
ScreensNext ==
  /\ SearchIsConnected
  /\ \/ TextureLoaded \/ ConfigReady \/ BusinessAnswer
     \/ PopupAppears \/ AcknowledgeLaunch \/ CloseNoShop \/ Reset
     \/ Authenticated \/ AuthenticationRefused
     \/ KeepAliveTick \/ KeepAliveAnswer
     \/ \E v \in {"matchmaking", "shop", "game_features"} : LobbyTo(v)
     \/ \E v \in {"lobby", "shop"} : FeaturesTo(v)
     \/ \E v \in {"lobby", "matchmaking"} : EndGameTo(v)
     \/ NoShop \/ LeaveShop
     \/ Proposal \/ BackToLobby \/ LaunchGame
     \/ GameStarted \/ GameOver
     \/ ViewDisplayed

ScreensSpec == ScreensInit /\ [][ScreensNext]_screensVars

-----------------------------------------------------------------------------
(* Properties                                                              *)

ScreensTypeOK ==
  /\ view \in Views \cup {Nobody} /\ inputs \subseteq Views
  /\ \A i \in DOMAIN moves : moves[i].to \in Views /\ moves[i].ticked \in BOOLEAN
  /\ \A i \in DOMAIN overlays : overlays[i].popup \in Popups
  /\ {session, search, game} \subseteq Numbers \cup {NoSession}
  /\ retries \in {Off} \cup 0..MaxRetry

\* A message of the server, the loss of the connection or a press of a button
\* come at any time, and during the animations too: one screen replaces another
\* one at a time, nobody can press the buttons of a screen which leaves, and
\* the exchanges of a screen end with it.
ScreenOwnsExchanges ==
  /\ Len(moves) <= 1
  /\ inputs = IF moves = <<>> THEN {view} \ {Nobody} ELSE {}
  /\ \A i \in DOMAIN moves : moves[i].to # view
  /\ hello => Heading = "lobby"
  /\ search # NoSession => view = "matchmaking" /\ moves = <<>>
  /\ game # NoSession => Heading = "online_game"

\* The connection is silently established again, with another session, as long
\* as the user is not in a game: the session with which a game is played is
\* never replaced, even when the connection was about to be declared lost when
\* the game was launched.
GameKeepsSession == game # NoSession => game = session

\* Who talks to the server is the screen which is displayed, with the session of
\* its game, whatever interrupts the animations and the connection.
ScreensAgree == ScreenOwnsExchanges /\ GameKeepsSession

=============================================================================
