-------------------------------- MODULE Keys --------------------------------
(***************************************************************************)
(* The keys of the keyboard, from the device to the observers in the tree  *)
(* of the inputs: the back key of a popup, which takes all the other keys, *)
(* then the back key of the shop or the gamepad of the game.  The pressed  *)
(* keys of the gamepad remain from one game to the next one, and a key may *)
(* be held while a popup comes or goes, while a screen replaces another.   *)
(***************************************************************************)
EXTENDS Integers, FiniteSets, Sequences, SequencesExt

CONSTANTS Keys,      \* the keys of the keyboard, among which those below
          Positive,  \* the keys of the gamepad for the direction +1, by axis
          Negative,  \* for the direction -1
          SpaceKey,  \* the key of the gamepad to drop a bomb
          BackKey    \* KEY_BACK

Axes == DOMAIN Positive
PadKeys == {Positive[a] : a \in Axes} \cup {Negative[a] : a \in Axes}
           \cup {SpaceKey}

VARIABLES down,    \* the keys held on the keyboard
          popup,   \* "none", "animated" until its inputs are plugged, "shown"
          view,    \* the screen displayed, or about to be: "game", "shop", ...
          plugged, \* whether the inputs of this screen are in the tree
          pad,     \* m_enabled of the gamepad
          pressed, \* the keys pressed for the gamepad
          effects, \* what the last event did: "bomb", "hide" or "leave"
          heard    \* not in the code: the last event of each key that was
                   \* the game's to hear

keysVars == <<down, popup, view, plugged, pad, pressed, effects, heard>>

KeysInit ==
  /\ down = {} /\ popup = "none" /\ view = "other" /\ plugged = FALSE
  /\ pad = TRUE /\ pressed = {} /\ effects = {}
  /\ heard = [k \in PadKeys |-> "released"]

\* The observers of the keys, in the order of the scan.
KeyObservers ==
  (IF popup = "shown" THEN <<"popup">> ELSE <<>>)
  \o (IF popup # "none" THEN <<"sink">> ELSE <<>>)
  \o (IF plugged THEN <<view>> ELSE <<>>)

\* What the gamepad gives to the contest.
Direction(axis) == (IF Positive[axis] \in pressed THEN 1 ELSE 0)
                   - (IF Negative[axis] \in pressed THEN 1 ELSE 0)

-----------------------------------------------------------------------------
(* The screens and the popups.                                             *)

Display(v) ==
  /\ v # view
  /\ view' = v /\ plugged' = FALSE /\ effects' = {}
  /\ pad' = (pad /\ v # "game")
  /\ UNCHANGED <<down, popup, pressed, heard>>

Displayed ==
  /\ ~plugged
  /\ plugged' = TRUE /\ effects' = {}
  /\ UNCHANGED <<down, popup, view, pad, pressed, heard>>

GameStarted ==
  /\ view = "game" /\ ~pad
  /\ pad' = TRUE /\ effects' = {}
  /\ UNCHANGED <<down, popup, view, plugged, pressed, heard>>

ShowPopup ==
  /\ \/ popup = "none" /\ popup' = "animated"
     \/ popup = "animated" /\ popup' = "shown"
  /\ effects' = {}
  /\ UNCHANGED <<down, view, plugged, pad, pressed, heard>>

HidePopup ==
  /\ popup = "shown" /\ popup' = "none" /\ effects' = {}
  /\ UNCHANGED <<down, view, plugged, pad, pressed, heard>>

-----------------------------------------------------------------------------
(* The events: the observer which consumes a key hides it to the next ones. *)

Sunk(r) == [r EXCEPT !.free = FALSE]

CheckPressed(r, k) ==
  IF k \in PadKeys
  THEN [r EXCEPT !.free = FALSE, !.pressed = @ \cup {k},
                 !.effects = @ \cup {e \in {"bomb"} : k = SpaceKey}]
  ELSE r

CheckReleased(r, k) ==
  IF k \in r.pressed THEN [r EXCEPT !.free = FALSE, !.pressed = @ \ {k}]
  ELSE r

\* single_key_observer: the program acts when the key is released.
Consumed(r, k, effect) ==
  IF k = BackKey THEN [r EXCEPT !.free = FALSE, !.effects = @ \cup effect]
  ELSE r

\* The scan of the observers by the event of the key k.
Scanned(k, isPress) ==
  LET ignored == IF isPress THEN {"hide", "leave"} ELSE {}
      visit(r, n) ==
        IF ~r.free THEN r
        ELSE CASE n = "sink" -> Sunk(r)
               [] n = "popup" -> Consumed(r, k, {"hide"} \ ignored)
               [] n = "shop" -> Consumed(r, k, {"leave"} \ ignored)
               [] n = "game" /\ pad ->
                    IF isPress THEN CheckPressed(r, k) ELSE CheckReleased(r, k)
               [] OTHER -> r
  IN FoldLeft(visit, [free |-> TRUE, pressed |-> pressed, effects |-> {}],
              KeyObservers)

Hears(k) == popup = "none" /\ plugged /\ view = "game" /\ pad /\ k \in PadKeys

KeyEvent(k, isPress) ==
  LET r == Scanned(k, isPress) IN
    /\ pressed' = r.pressed
    /\ effects' = r.effects
    /\ popup' = IF "hide" \in r.effects THEN "none" ELSE popup
    /\ view' = IF "leave" \in r.effects THEN "other" ELSE view
    /\ plugged' = (plugged /\ "leave" \notin r.effects)
    /\ heard' = [h \in PadKeys |->
                   IF h # k \/ ~Hears(k) THEN heard[h]
                   ELSE IF isPress THEN "pressed" ELSE "released"]
    /\ UNCHANGED pad

KeyPressed(k) ==
  /\ k \notin down
  /\ down' = down \cup {k}
  /\ KeyEvent(k, TRUE)

KeyReleased(k) ==
  /\ k \in down
  /\ down' = down \ {k}
  /\ KeyEvent(k, FALSE)

KeysNext ==
  \/ \E v \in {"game", "shop", "other"} : Display(v)
  \/ Displayed \/ GameStarted \/ ShowPopup \/ HidePopup
  \/ \E k \in Keys : KeyPressed(k) \/ KeyReleased(k)

KeysSpec == KeysInit /\ [][KeysNext]_keysVars

-----------------------------------------------------------------------------
(* Properties                                                              *)

Heard(k) == IF heard[k] = "pressed" THEN 1 ELSE 0

\* The contest receives the direction of the keys whose last event came when
\* the game was played and nothing was above: whatever is pressed or released
\* under a popup, in another screen or before the beginning of the game changes
\* nothing, even for the keys held at this time.
PadFollowsTheGame ==
  \A a \in Axes : Direction(a) = Heard(Positive[a]) - Heard(Negative[a])

\* An event does one thing at most: the release of the back key which hides a
\* popup does not leave the screen below, nor does a key held since before the
\* popup.
OneEffect ==
  /\ Cardinality(effects) <= 1
  /\ effects \cap {"leave", "bomb"} # {} => popup = "none"

KeysAreFollowed == PadFollowsTheGame /\ OneEffect

=============================================================================
