------------------------------- MODULE Input -------------------------------
(***************************************************************************)
(* The touches, from the screen of the device to the observers in the tree *)
(* of the inputs. The root of the tree has groups: the buttons and the     *)
(* stick or the pad of a screen, the buttons of a popup, which takes all   *)
(* the touches that none of its buttons wants. A button which is clicked   *)
(* may plug and unplug groups, and the program may do it at any time.      *)
(*                                                                         *)
(* An operator which nothing uses is a variant of the definition that      *)
(* follows it, with a defect the properties must detect.                   *)
(***************************************************************************)
EXTENDS Integers, Sequences, FiniteSets, SequencesExt

CONSTANTS Touches,      \* the identifiers of the touches
          Buttons,      \* the tap observers
          Sticks,       \* the soft sticks
          Pads,         \* the soft pads
          Groups,       \* the children of the root
          ObserversOf,  \* the observers in each group, in order
          Sinks,        \* the groups with a touch_sink at their root
          Arrangements, \* the groups plugged in the root, in order
          Places        \* the observers at each place of the display

Observers == Buttons \cup Sticks \cup Pads
NoTouch == 0

VARIABLES known,   \* m_pressed_ids
          plugged, \* m_children of the root
          mask,    \* m_touch_pressed_mask of the observers and of the sinks
          held,    \* the touches of m_touch_id_pressed_position
          cooling, \* the buttons temporarily disabled
          dragging, \* m_touch_id of the sticks and of the pads
          aimed,    \* the pads whose direction is not null
          enabled, \* the observers enabled and displayed
          clicks,  \* the clicks of the last step
          began    \* not in the code: where each touch began

inputVars == <<known, plugged, mask, held, cooling, dragging, aimed, enabled,
               clicks, began>>

InputInit ==
  /\ known = {}
  /\ plugged \in Arrangements
  /\ mask = [n \in Observers \cup Sinks |-> {}]
  /\ held = [b \in Buttons |-> {}]
  /\ cooling = {}
  /\ dragging = [s \in Sticks \cup Pads |-> NoTouch]
  /\ aimed = {}
  /\ \E controls \in {Sticks, Pads} : enabled = Buttons \cup controls
  /\ clicks = {}
  /\ began = [t \in Touches |-> {}]

ToObservers(groups) == UNION {ToSet(ObserversOf[g]) : g \in groups}

\* The observers which are below no popup.
Uncovered ==
  ToObservers({plugged[i] : i \in {j \in DOMAIN plugged :
                 \A k \in 1 .. j - 1 : plugged[k] \notin Sinks}})

\* depth_first_select with the nodes which are entered, in the order of the
\* visit: children first.
Visited(entered) ==
  LET among(s) == SelectSeq(s, LAMBDA n : n \in entered) IN
  FlattenSeq([i \in DOMAIN plugged |->
    LET g == plugged[i] IN
      among(IF g \in Sinks THEN Append(ObserversOf[g], g) ELSE ObserversOf[g])])

Ignores(n) == n \notin enabled \/ n \in cooling

\* What a scan changes; the touch is free until an observer consumes it.
Scan == [free |-> TRUE, held |-> held, cooling |-> cooling,
         dragging |-> dragging, aimed |-> aimed, plugged |-> plugged,
         mask |-> mask, clicks |-> {}, began |-> began]

Scanned(r) ==
  /\ held' = r.held /\ cooling' = r.cooling /\ dragging' = r.dragging
  /\ aimed' = r.aimed /\ plugged' = r.plugged /\ mask' = r.mask
  /\ clicks' = r.clicks /\ began' = r.began
  /\ UNCHANGED enabled

\* In a scan: r after the visit of a sink.
Sunk(r) == [r EXCEPT !.free = FALSE]

-----------------------------------------------------------------------------
(* The groups are plugged and unplugged.                                   *)

StillPressed(r, n) == r

\* do_unplugged; the mask of the node remains.
Unplugged(r, n) ==
  IF n \in Buttons
  THEN [r EXCEPT !.held[n] = {}, !.cooling = @ \ {n}]
  ELSE [r EXCEPT !.dragging[n] = NoTouch, !.aimed = @ \ {n}]

\* The groups are replaced by those of arrangement.
Rearranged(r, arrangement) ==
  LET gone == ToObservers(ToSet(r.plugged) \ ToSet(arrangement))
      all  == FoldLeft(Unplugged, r, SetToSeq(gone))
  IN [all EXCEPT !.plugged = arrangement,
                 !.began = [t \in Touches |-> @[t] \ gone]]

Rearrange ==
  /\ \E a \in Arrangements \ {plugged} : Scanned(Rearranged(Scan, a))
  /\ UNCHANGED known

Enable(b) ==
  /\ b \notin enabled
  /\ enabled' = enabled \cup {b}
  /\ clicks' = {}
  /\ UNCHANGED <<known, plugged, mask, held, cooling, dragging, aimed, began>>

\* tap_observer::enable forgets nothing, and the program disables a button when
\* it is clicked or not plugged.
Disable(b) ==
  /\ b \in enabled
  /\ held[b] = {}
  /\ enabled' = enabled \ {b}
  /\ clicks' = {}
  /\ UNCHANGED <<known, plugged, mask, held, cooling, dragging, aimed, began>>

\* configure_direction_pad: between two games one of the stick and the pad is
\* displayed.
ConfigureDirectionPad(controls) ==
  /\ ToObservers(ToSet(plugged)) \subseteq Buttons
  /\ enabled' = (enabled \cap Buttons) \cup controls
  /\ enabled' # enabled
  /\ clicks' = {}
  /\ UNCHANGED <<known, plugged, mask, held, cooling, dragging, aimed, began>>

\* The 100 milliseconds of disable_temporarily are over.
CooledDown(b) ==
  /\ b \in cooling
  /\ cooling' = cooling \ {b}
  /\ clicks' = {}
  /\ UNCHANGED <<known, plugged, mask, held, dragging, aimed, enabled, began>>

-----------------------------------------------------------------------------
(* The events.                                                             *)

\* tap_observer::do_pressed, of the touch t over the observers of over
TapPressed(r, b, t, over) ==
  IF Ignores(b) THEN r
  ELSE IF r.free /\ b \in over
       THEN [r EXCEPT !.free = FALSE, !.held[b] = @ \cup {t}]
       ELSE [r EXCEPT !.held[b] = @ \ {t}]

StickPressed(r, s, t, over) ==
  IF s \in enabled /\ r.dragging[s] = NoTouch /\ r.free /\ s \in over
  THEN [r EXCEPT !.free = FALSE, !.dragging[s] = t]
  ELSE r

\* soft_pad: away from its center, whatever the finger which held the pad.
CheckTouch(r, p, t, over) ==
  IF r.free /\ p \in over
  THEN [r EXCEPT !.free = FALSE, !.dragging[p] = t, !.aimed = @ \cup {p}]
  ELSE r

PadPressed(r, p, t, over) ==
  IF p \notin enabled \/ r.dragging[p] # NoTouch THEN r
  ELSE CheckTouch(r, p, t, over)

PadMoved(r, p, t, over) ==
  IF p \notin enabled THEN r ELSE CheckTouch(r, p, t, over)

NewPressedTouch(t) ==
  /\ t \notin known
  /\ known' = known \cup {t}

\* node::touch_pressed: the nodes visited remember the touch.
Pressed(scan, t, visited) ==
  [scan EXCEPT !.mask = [n \in DOMAIN @ |-> IF n \in ToSet(visited)
                                           THEN @[n] \cup {t} ELSE @[n]]]

\* A finger which left a button takes more than 100 milliseconds to be back.
TouchBegan(t, over) ==
  LET visited == Visited(over \cup Sinks)
      visit(r, n) == IF n \in Sinks THEN Sunk(r)
                     ELSE IF n \in Buttons THEN TapPressed(r, n, t, over)
                     ELSE IF n \in Sticks THEN StickPressed(r, n, t, over)
                     ELSE PadPressed(r, n, t, over)
      scan == [Scan EXCEPT !.began[t] = over \cap Uncovered]
  IN /\ \A b \in cooling : t \notin held[b]
     /\ NewPressedTouch(t)
     /\ Scanned(FoldLeft(visit, Pressed(scan, t, visited), visited))

\* The touches of t reach the nodes where it has been pressed.
Tracking(t) == Visited({n \in Observers \cup Sinks : t \in mask[n]})

\* do_moved: a touch which goes away from where it was pressed is not a tap.
TouchMoved(t, over) ==
  LET visit(r, n) ==
        IF n \in Sinks THEN Sunk(r)
        ELSE IF n \in Buttons /\ ~Ignores(n)
             THEN [r EXCEPT !.held[n] = @ \ {t}]
        ELSE IF n \in Sticks /\ r.dragging[n] = t
             THEN Sunk(r)
        ELSE IF n \in Pads THEN PadMoved(r, n, t, over)
        ELSE r
  IN /\ t \in known
     /\ Scanned(FoldLeft(visit, Scan, Tracking(t)))
     /\ UNCHANGED known

\* Each observer visited forgets the touch in its mask.
Forget(r, n, t) == [r EXCEPT !.mask[n] = @ \ {t}]

Clicked(r, b, t, arrangement) ==
  Rearranged([r EXCEPT !.clicks = @ \cup {[button |-> b,
                                           whole  |-> b \in began[t]]}],
             arrangement)

\* do_released: the button is clicked once no touch is on it, if the last one
\* was not consumed, and then the program does what it wants.
TapReleased(r, b, t, arrangement) ==
  LET consumed == t \in r.held[b] /\ r.free
      after == [r EXCEPT !.held[b] = @ \ {t},
                         !.free = @ /\ ~consumed,
                         !.cooling = IF r.held[b] \subseteq {t}
                                     THEN @ \cup {b} ELSE @]
  IN IF r.held[b] = {} \/ Ignores(b) THEN r
     ELSE IF consumed /\ after.held[b] = {}
          THEN Clicked(after, b, t, arrangement)
          ELSE after

PadReleased(r, p, t) ==
  IF p \in enabled /\ r.dragging[p] = t
  THEN [r EXCEPT !.free = FALSE, !.dragging[p] = NoTouch, !.aimed = @ \ {p}]
  ELSE r

StickReleased(r, s, t) ==
  IF s \in enabled /\ r.dragging[s] = t
  THEN [r EXCEPT !.free = FALSE, !.dragging[s] = NoTouch]
  ELSE r

Ended(t) == known' = known \ {t}

TouchEnded(t) ==
  /\ t \in known
  /\ Ended(t)
  /\ \E arrangement \in Arrangements :
       LET visit(r, n) ==
             LET f == Forget(r, n, t) IN
               IF n \in Sinks THEN Sunk(f)
               ELSE IF n \in Buttons THEN TapReleased(f, n, t, arrangement)
               ELSE IF n \in Sticks THEN StickReleased(f, n, t)
               ELSE PadReleased(f, n, t)
           scan == FoldLeft(visit, Scan, Tracking(t))
       IN /\ scan.clicks = {} => arrangement = plugged
          /\ Scanned([scan EXCEPT !.began[t] = {}])

TapCancelled(r, b, t) ==
  IF r.held[b] = {} \/ Ignores(b) THEN r
  ELSE [r EXCEPT !.free = @ /\ t \notin r.held[b],
                 !.held[b] = @ \ {t},
                 !.cooling = @ \cup {b}]

TouchCancelled(t) ==
  LET visit(r, n) ==
        LET f == Forget(r, n, t) IN
          IF n \in Sinks THEN Sunk(f)
          ELSE IF n \in Buttons THEN TapCancelled(f, n, t)
          ELSE IF n \in Sticks THEN StickReleased(f, n, t)
          ELSE PadReleased(f, n, t)
  IN /\ t \in known
     /\ Ended(t)
     /\ Scanned([FoldLeft(visit, Scan, Tracking(t)) EXCEPT !.began[t] = {}])

InputNext ==
  \/ Rearrange
  \/ \E b \in Buttons : Enable(b) \/ Disable(b) \/ CooledDown(b)
  \/ \E controls \in {Sticks, Pads} : ConfigureDirectionPad(controls)
  \/ \E t \in Touches :
       \/ \E over \in Places : TouchBegan(t, over)
       \/ \E over \in Places : TouchMoved(t, over)
       \/ TouchEnded(t) \/ TouchCancelled(t)

InputSpec == InputInit /\ [][InputNext]_inputVars

-----------------------------------------------------------------------------
(* Properties                                                              *)

InputTypeOK ==
  /\ known \subseteq Touches /\ enabled \subseteq Observers
  /\ plugged \in Arrangements
  /\ mask \in [Observers \cup Sinks -> SUBSET Touches]
  /\ held \in [Buttons -> SUBSET Touches]
  /\ dragging \in [Sticks \cup Pads -> Touches \cup {NoTouch}]
  /\ aimed \subseteq Pads

\* Screens and popups come and go between the press of a button and its
\* release, or while the release is handled, and other fingers play with them.
\* One button at most is clicked by the end of a touch, and this touch began on
\* it, when no popup was above, and since then the button has not been removed.
ClickIsWhole ==
  /\ Cardinality(clicks) <= 1
  /\ \A c \in clicks : c.whole

\* The stick or the pad is never left in a direction by a finger which is gone,
\* whichever of the fingers which went over it holds it.
StickIsHeld ==
  /\ \A s \in Sticks : dragging[s] \in known \cup {NoTouch}
  /\ \A p \in aimed : dragging[p] \in known

\* A touch acts on what it began on, and until it ends.
TouchesAreFollowed == ClickIsWhole /\ StickIsHeld

=============================================================================
