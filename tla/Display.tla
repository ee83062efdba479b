------------------------------ MODULE Display ------------------------------
(***************************************************************************)
(* What the screen of the game shows (online_game.cpp, fog_display.cpp).   *)
(* The sprites are allocated once, in a pool for each kind of entity, and  *)
(* serve in all games.  At each frame the first ones of a pool take the    *)
(* places of the entities of the contest and the next ones are hidden,     *)
(* until one that is hidden already.  A sprite is the cell it is in and    *)
(* its look, or Hidden.                                                    *)
(*                                                                         *)
(* An operator which nothing uses is a variant of the definition that      *)
(* follows it, with a defect the properties must detect.                   *)
(***************************************************************************)
EXTENDS Integers, Sequences, SequencesExt

CONSTANTS CellCount,    \* the cells are numbered line by line
          Moving,       \* kinds of entities which come and go
          Fixed,        \* static walls, fences: they last as long as the game
          Capacity,     \* of the pool of each kind, and of the animations
          PlayerCount,
          Foggy,        \* for each player the cells which can have some fog
          FullOpacity,  \* of the fog
          Looks,        \* bound: where a player is and how it is seen
          Walls,        \* bound: where the fixed entities can be
          Places,       \* bound: where the moving ones can be
          Drags         \* bound: the directions of the three controls

Cells == 1 .. CellCount
Players == 0 .. PlayerCount - 1
Kinds == Moving \cup Fixed

VARIABLES contest,    \* what is displayed of the contest, or NoContest
          shown,      \* the sprites of each kind
          widgets,    \* m_players
          fogSprites,
          localIndex, \* m_local_player_index
          requested,  \* m_bomb_drop_requested
          action,     \* the player_action of the local player
          pressed     \* history: the button, since the contest got a bomb

displayVars == <<contest, shown, widgets, fogSprites, localIndex, requested,
                 action, pressed>>

NoContest == [running |-> FALSE]
Hidden == [cell |-> 0]
Gone == [cell |-> 0]     \* a player who is not in the arena any more
NoAction == [movement |-> "idle", bomb |-> FALSE]

Pools == Kinds \cup {"animation"}
HiddenPool(count) == [i \in 1 .. count |-> Hidden]
HiddenPools == [k \in Pools |-> HiddenPool(Capacity[k])]

HiddenFog == HiddenPool(CellCount)

DisplayInit ==
  /\ contest = NoContest
  /\ shown = HiddenPools
  /\ widgets = [p \in Players |-> Hidden]
  /\ fogSprites = HiddenFog
  /\ localIndex = 0
  /\ requested = FALSE
  /\ action = NoAction
  /\ pressed = FALSE

-----------------------------------------------------------------------------
(* The pools.                                                              *)

\* hide_while_visible
HideNextOne(sprites, start) ==
  [i \in DOMAIN sprites |-> IF i = start THEN Hidden ELSE sprites[i]]

HideWhileVisible(sprites, start) ==
  LET isEnd(i) == i = Len(sprites) + 1 \/ sprites[i] = Hidden
      end == CHOOSE i \in start .. Len(sprites) + 1 :
               isEnd(i) /\ \A j \in start .. i - 1 : ~isEnd(j)
  IN [i \in DOMAIN sprites |->
        IF i \in start .. end - 1 THEN Hidden ELSE sprites[i]]

\* The first sprites show the entities, in the order of the registry.
Placed(sprites, entities) ==
  [i \in DOMAIN sprites |->
     IF i \in DOMAIN entities THEN entities[i] ELSE sprites[i]]

WithEntities(sprites, entities) ==
  HideWhileVisible(Placed(sprites, entities),
                   Min({Len(sprites), Len(entities)}) + 1)

Present(c) == {p \in Players : c.players[p] # Gone}

\* An invisible player is only seen by itself, and by those who are dead.
PlayerSprite(c, p, local) ==
  LET look == c.players[p] IN
    [cell |-> look.cell, shield |-> look.shield,
     opacity |-> IF ~look.invisible THEN 255
                 ELSE IF p = local \/ local \notin Present(c) THEN 127 ELSE 0]

PlayerSprites(c, local) ==
  [p \in Players |->
     IF p \in Present(c) THEN PlayerSprite(c, p, local) ELSE Hidden]

\* The player whose fog is displayed: another one if the local one is dead.
Followed(c, local) ==
  IF local \in Present(c) THEN local
  ELSE CHOOSE p \in Present(c) \cup {0} :
         \A q \in Present(c) : q <= p

FogSprite(fog, cell, translucent) ==
  IF fog[cell] = 0 THEN Hidden
  ELSE [cell |-> cell, look |-> fog[cell], translucent |-> translucent]

FogSprites(sprites, c, local) ==
  LET followed == Followed(c, local)
      fog == c.fog[followed]
      cells == SetToSortSeq(DOMAIN fog, <)
  IN HideWhileVisible(
       Placed(sprites, [i \in DOMAIN cells |->
                          FogSprite(fog, cells[i], followed # local)]),
       Len(cells) + 1)

\* Two layers of animations share a pool, the players are between them.
Animations(c) == c.layerZero \o c.layerFront

-----------------------------------------------------------------------------

\* A contest at its beginning; the maps of the fog are empty until its first
\* tick.
NewContest(fixed) ==
  [running |-> TRUE,
   entities |-> [k \in Kinds |-> IF k \in Fixed THEN fixed[k] ELSE <<>>],
   layerZero |-> <<>>, layerFront |-> <<>>,
   players |-> [p \in Players |-> CHOOSE look \in Looks : TRUE],
   fog |-> [p \in Players |-> [c \in {} |-> 0]]]

StaticWalls(sprites, c) == WithEntities(sprites, c.entities["static_wall"])

\* All the sprites are hidden but those of the static walls, which are displayed
\* at once.
Displaying(c, local) ==
  /\ contest = NoContest
  /\ contest' = c
  /\ localIndex' = local
  /\ requested' = FALSE
  /\ pressed' = FALSE
  /\ action' = NoAction
  /\ widgets' = PlayerSprites(c, local)
  /\ shown' = [k \in Pools |->
                 CASE k = "static_wall" -> StaticWalls(shown[k], c)
                   [] k = "animation" -> Placed(HiddenPools[k], c.layerZero)
                   [] OTHER -> HiddenPools[k]]
  /\ fogSprites' = FogSprites(HiddenFog, c, local)

Press ==
  /\ contest.running
  /\ requested' = TRUE
  /\ pressed' = TRUE
  /\ UNCHANGED <<contest, shown, widgets, fogSprites, localIndex, action>>

Size(n) == IF n < 0 THEN -n ELSE n

\* One direction, from the first control which is used.
Movement(drags) ==
  LET used == SelectSeq(drags, LAMBDA d : d # <<0, 0>>)
      drag == IF used = <<>> THEN <<0, 0>> ELSE used[1]
      dx == drag[1]
      dy == drag[2]
  IN CASE dx # 0 /\ Size(dx) >= Size(dy) -> IF dx > 0 THEN "right" ELSE "left"
       [] dy # 0 /\ Size(dx) < Size(dy) -> IF dy > 0 THEN "up" ELSE "down"
       [] OTHER -> "idle"

\* The action of the player has been overwritten when the contest was restored.
ApplyInputs(c, drags) ==
  IF localIndex \notin Present(c)
  THEN action' = NoAction /\ UNCHANGED requested
  ELSE /\ action' = [movement |-> Movement(drags), bomb |-> requested]
       /\ requested' = FALSE

RefreshDisplay(c) ==
  /\ shown' = [k \in Pools |->
                 WithEntities(shown[k], IF k = "animation" THEN Animations(c)
                                        ELSE c.entities[k])]
  /\ widgets' = PlayerSprites(c, localIndex)
  /\ fogSprites' = FogSprites(fogSprites, c, localIndex)

\* A frame: the contest takes what the server has sent, then runs for the ticks
\* of the time elapsed, maybe none.  They take the action of the player.
Frame(c, drags, ticks) ==
  /\ contest' = c
  /\ ApplyInputs(c, drags)
  /\ RefreshDisplay(c)
  /\ pressed' = (pressed /\ (ticks = 0 \/ ~action.bomb))
  /\ UNCHANGED localIndex

\* The result is known; the sprites of the last frame remain.
Stop ==
  /\ contest.running
  /\ contest' = NoContest
  /\ UNCHANGED <<shown, widgets, fogSprites, localIndex, requested, action,
                 pressed>>

-----------------------------------------------------------------------------
(* What may have changed in the contest: one kind of entities, or the      *)
(* animations, or a player, or the fog in a cell.  There are not more      *)
(* entities than sprites, but those which do not move.                     *)

Lists(capacity) ==
  UNION {{[i \in 1 .. n |-> [cell |-> l[i]]] : l \in [1 .. n -> Places]} :
           n \in 0 .. capacity}

WithFogMaps(c) ==
  IF DOMAIN c.fog[0] = Foggy[0] THEN c
  ELSE [c EXCEPT !.fog = [p \in Players |-> [d \in Foggy[p] |-> 0]]]

Changes(c) ==
  {c}
  \cup UNION {{[c EXCEPT !.entities[k] = l] : l \in Lists(Capacity[k])} :
                k \in Moving}
  \cup UNION {{[c EXCEPT !.layerZero = l, !.layerFront = m] :
                 m \in Lists(Capacity["animation"] - Len(l))} :
                l \in Lists(Capacity["animation"])}
  \cup {[c EXCEPT !.players[p] = look] :
          p \in Present(c), look \in Looks \cup {Gone}}
  \cup UNION {{[c EXCEPT !.fog[p][d] = o] :
                 d \in DOMAIN c.fog[p], o \in 0 .. FullOpacity} : p \in Players}

DisplayNext ==
  \/ \E fixed \in [Fixed -> Walls], local \in Players :
       Displaying(NewContest(fixed), local)
  \/ Press
  \/ /\ contest.running
     /\ \E c \in Changes(WithFogMaps(contest)), drags \in Drags,
           ticks \in 0 .. 1 : Frame(c, drags, ticks)
  \/ Stop

DisplaySpec == DisplayInit /\ [][DisplayNext]_displayVars

-----------------------------------------------------------------------------

Visible(sprites) == SelectSeq(sprites, LAMBDA s : s # Hidden)

\* The sprites are never reset between two frames, nor the walls between two
\* games, and a pool is only cleared up to its first hidden sprite: nevertheless
\* after each frame exactly the entities of the contest are visible, and the fog
\* of the player who is followed, whatever the previous frames and games have
\* left in the pools.
SpritesShowTheContest ==
  contest.running /\ DOMAIN contest.fog[0] = Foggy[0] =>
    /\ \A k \in Moving : Visible(shown[k]) = contest.entities[k]
    /\ \A k \in Fixed :
         Visible(shown[k]) =
           SubSeq(contest.entities[k], 1,
                  Min({Capacity[k], Len(contest.entities[k])}))
    /\ Visible(shown["animation"]) = Animations(contest)
    /\ {p \in Players : widgets[p] # Hidden} = Present(contest)
    /\ LET fog == contest.fog[Followed(contest, localIndex)] IN
         {s.cell : s \in ToSet(Visible(fogSprites))}
           = {d \in DOMAIN fog : fog[d] > 0}

\* The player has pressed the button of the bombs: the contest gets a bomb at
\* its next tick, it is not forgotten when the contest is restored in between.
BombIsDropped ==
  contest.running /\ localIndex \in Present(contest) /\ pressed =>
    requested \/ action.bomb

=============================================================================
