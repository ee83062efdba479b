---------------------------- MODULE ArenaProofs ----------------------------
(***************************************************************************)
(* What holds of Arena and of Bot for any arena, level, durations and      *)
(* number of players: the promise of Survival, the shields, the bombs that *)
(* are counted and the edges of the fog; then the lists, the moves and the *)
(* order of the falls, on which RegistryProofs rests.                      *)
(***************************************************************************)
EXTENDS Bot, FiniteSetTheorems, SequenceTheorems, TLAPS

Actions == INSTANCE Folding WITH Op <- ApplyAction
Explosions == INSTANCE Folding WITH Op <- Explode
Pickings == INSTANCE Folding WITH Op <- PickUp
Falls == INSTANCE Folding WITH Op <- FallTurn

-----------------------------------------------------------------------------
(* What each system leaves alone.  A world is a record, of which v differs  *)
(* from w in the fields of fs only; so are the players.                    *)

Fields ==
  {"players", "crates", "bombs", "powerUps", "walls", "blocks", "flames",
   "timer", "map", "burning", "crushed", "dead", "shields", "invincible",
   "invisible", "clock", "nextFall", "date", "fog"}

PlayerFields ==
  {"position", "state", "elapsed", "capacity", "available", "strength",
   "queue"}

Shaped(w) ==
  /\ DOMAIN w = Fields
  /\ \A p \in DOMAIN w.players : DOMAIN w.players[p] = PlayerFields

Same(w, v, fs) == \A f \in Fields \ fs : v[f] = w[f]

SamePlayers(w, v, fs) ==
  /\ DOMAIN v.players = DOMAIN w.players
  /\ \A p \in DOMAIN w.players, f \in PlayerFields \ fs :
       v.players[p][f] = w.players[p][f]

\* RefreshBombInventory only counts the bombs.
LEMMA RefreshBombInventoryEffect ==
  ASSUME NEW w, Shaped(w)
  PROVE  LET v == RefreshBombInventory(w) IN
           /\ Shaped(v) /\ Same(w, v, {"players"})
           /\ SamePlayers(w, v, {"available"})
           /\ \A p \in DOMAIN w.players :
                v.players[p].available =
                  (w.players[p].capacity - ActiveBombs(w, p)) % 256
BY DEF RefreshBombInventory, Shaped, Same, SamePlayers, Fields, PlayerFields

\* UpdateClocks only changes the date.
LEMMA UpdateClocksEffect ==
  ASSUME NEW w, Shaped(w)
  PROVE  Shaped(UpdateClocks(w)) /\ Same(w, UpdateClocks(w), {"date"})
BY DEF UpdateClocks, Shaped, Same, Fields

\* UpdateTimers only decreases the timers.
LEMMA UpdateTimersEffect ==
  ASSUME NEW w, Shaped(w)
  PROVE  LET v == UpdateTimers(w) IN
           /\ Shaped(v)
           /\ Same(w, v, {"timer", "blocks", "invincible", "invisible",
                          "clock", "fog"})
           /\ v.timer = Decreased(w.timer) /\ v.blocks = Decreased(w.blocks)
           /\ v.invincible = Decreased(w.invincible)
           /\ v.invisible = Decreased(w.invisible)
           /\ v.fog = [p \in Players |-> FogTimers(w.fog[p])]
BY DEF UpdateTimers, Shaped, Same, Fields

\* Animator only makes the animations older, and ends some of them.
LEMMA AnimatorEffect ==
  ASSUME NEW w, Shaped(w)
  PROVE  LET v == Animator(w) IN
           /\ Shaped(v)
           /\ Same(w, v, {"players", "crates", "flames", "dead"})
           /\ SamePlayers(w, v, {"elapsed"})
           /\ DOMAIN v.crates = DOMAIN w.crates
           /\ v.flames = {[f EXCEPT !.age = @ + 1] : f \in w.flames}
           /\ w.dead \subseteq v.dead
           /\ v.dead \subseteq
                w.dead \cup {Player(p) : p \in DOMAIN w.players}
                       \cup {<<"crate", c>> : c \in DOMAIN w.crates}
<1> DEFINE grown ==
        [w EXCEPT
           !.players = [p \in DOMAIN @ |->
                          IF Alive(w, p) THEN @[p] ELSE Older(@[p])],
           !.crates = [c \in DOMAIN @ |->
                         IF @[c].state = "idle" THEN @[c] ELSE Older(@[c])],
           !.flames = {[f EXCEPT !.age = @ + 1] : f \in @}]
<1>1. /\ Shaped(grown) /\ Same(w, grown, {"players", "crates", "flames"})
      /\ SamePlayers(w, grown, {"elapsed"})
      /\ DOMAIN grown.crates = DOMAIN w.crates
      /\ grown.flames = {[f EXCEPT !.age = @ + 1] : f \in w.flames}
      /\ grown.dead = w.dead
  BY DEF Shaped, Same, SamePlayers, Fields, PlayerFields, Older
<1>2. PICK es : /\ Animator(w) = Killed(grown, es)
                /\ es \subseteq {Player(p) : p \in DOMAIN w.players}
                                \cup {<<"crate", c>> : c \in DOMAIN w.crates}
  BY DEF Animator
<1> HIDE DEF grown
<1> QED BY <1>1, <1>2 DEF Killed, Shaped, Same, SamePlayers, Fields, PlayerFields

\* A move.
LEMMA MovePlayerEffect ==
  ASSUME NEW w, Shaped(w), NEW p \in DOMAIN w.players, NEW d,
         LET from == w.players[p].position
             to == Moved(from, d, fences, SolidCells(w))
         IN d # "idle" /\ to # from
  PROVE  LET from == w.players[p].position
             to == Moved(from, d, fences, SolidCells(w))
             v == MovePlayer(w, p, d)
         IN /\ Shaped(v) /\ Same(w, v, {"players", "map"})
            /\ SamePlayers(w, v, {"position"})
            /\ v.players[p].position = to
            /\ \A q \in DOMAIN w.players \ {p} : v.players[q] = w.players[q]
            /\ v.map = Put(Erased(w.map, Player(p), CellOf(from)),
                           Player(p), CellOf(to))
<1> DEFINE from == w.players[p].position
           to == Moved(from, d, fences, SolidCells(w))
           map == Put(Erased(w.map, Player(p), CellOf(from)), Player(p),
                      CellOf(to))
           v == [w EXCEPT !.players[p].position = to, !.map = map]
<1>1. MovePlayer(w, p, d) = v
  BY DEF MovePlayer
<1> HIDE DEF to, map
<1>2. /\ Shaped(v) /\ Same(w, v, {"players", "map"})
      /\ SamePlayers(w, v, {"position"})
      /\ v.players[p].position = to
      /\ \A q \in DOMAIN w.players \ {p} : v.players[q] = w.players[q]
      /\ v.map = map
  BY DEF Shaped, Same, SamePlayers, Fields, PlayerFields
<1> QED BY <1>1, <1>2 DEF to, map

\* A bomb.
LEMMA DropBombEffect ==
  ASSUME NEW w, Shaped(w), NEW p \in DOMAIN w.players, NEW c,
         w.players[p].available # 0, c \notin SolidCells(w)
  PROVE  LET v == DropBomb(w, p, c) IN
           /\ Shaped(v) /\ Same(w, v, {"players", "bombs", "timer", "map"})
           /\ SamePlayers(w, v, {"available"})
           /\ v.players[p].available = w.players[p].available - 1
           /\ \A q \in DOMAIN w.players \ {p} : v.players[q] = w.players[q]
           /\ v.bombs = Over(Only(c, [owner |-> p,
                                      strength |-> w.players[p].strength]),
                             w.bombs)
           /\ v.timer = Over(Only(<<"bomb", c>>, BombDelay), w.timer)
           /\ v.map = Put(w.map, <<"bomb", c>>, c)
<1> DEFINE paid == [w EXCEPT !.players[p].available = @ - 1]
<1>1. DropBomb(w, p, c) = NewBomb(paid, p, c)
  BY DEF DropBomb
<1>2. /\ Shaped(paid) /\ Same(w, paid, {"players"})
      /\ SamePlayers(w, paid, {"available"})
      /\ paid.players[p].available = w.players[p].available - 1
      /\ \A q \in DOMAIN w.players \ {p} : paid.players[q] = w.players[q]
  BY DEF Shaped, Same, SamePlayers, Fields, PlayerFields
<1>3. paid.players[p].strength = w.players[p].strength
  BY <1>2 DEF SamePlayers, PlayerFields
<1> HIDE DEF paid
<1>4. LET v == NewBomb(paid, p, c) IN
        /\ Shaped(v) /\ Same(paid, v, {"bombs", "timer", "map"})
        /\ v.bombs = Over(Only(c, [owner |-> p,
                                   strength |-> w.players[p].strength]),
                          paid.bombs)
        /\ v.timer = Over(Only(<<"bomb", c>>, BombDelay), paid.timer)
        /\ v.map = Put(paid.map, <<"bomb", c>>, c)
  BY <1>2, <1>3 DEF NewBomb, Shaped, Same, Fields
<1> QED BY <1>1, <1>2, <1>4 DEF Same, SamePlayers, Fields

\* What a player does in its turn: it asks for something, it moves, and it drops
\* a bomb.
Waits(w, p, action, v) ==
  /\ Shaped(v) /\ Same(w, v, {"players"}) /\ SamePlayers(w, v, {"queue"})
  /\ v.players[p].queue = Append(Tail(w.players[p].queue),
                                [action |-> action, cell |-> PlayerCell(w, p)])
  /\ \A q \in DOMAIN w.players \ {p} : v.players[q] = w.players[q]

Moves(w, p, d, v) ==
  LET from == w.players[p].position
      to == Moved(from, d, fences, SolidCells(w))
  IN /\ d # "idle"
     /\ Shaped(v) /\ Same(w, v, {"players", "map"})
     /\ SamePlayers(w, v, {"position"}) /\ v.players[p].position = to
     /\ \A q \in DOMAIN w.players \ {p} : v.players[q] = w.players[q]
     /\ v.map = Put(Erased(w.map, Player(p), CellOf(from)),
                    Player(p), CellOf(to))

Drops(w, p, c, v) ==
  /\ w.players[p].available # 0 /\ c \notin SolidCells(w)
  /\ Shaped(v) /\ Same(w, v, {"players", "bombs", "timer", "map"})
  /\ SamePlayers(w, v, {"available"})
  /\ v.players[p].available = w.players[p].available - 1
  /\ \A q \in DOMAIN w.players \ {p} : v.players[q] = w.players[q]
  /\ v.bombs = Over(Only(c, [owner |-> p, strength |-> w.players[p].strength]),
                    w.bombs)
  /\ v.timer = Over(Only(<<"bomb", c>>, BombDelay), w.timer)
  /\ v.map = Put(w.map, <<"bomb", c>>, c)

\* A turn that changes the arena is a wait, maybe a move, maybe a bomb.
LEMMA ApplyActionParts ==
  ASSUME NEW w, Shaped(w), NEW asked, ApplyAction(w, asked) # w
  PROVE  LET p == asked.player
             next == Head(w.players[p].queue)
             v == ApplyAction(w, asked)
         IN /\ p \in DOMAIN w.players /\ Alive(w, p)
            /\ \E u, m : /\ Waits(w, p, asked.action, u)
                         /\ m = u \/ Moves(u, p, next.action.movement, m)
                         /\ \/ v = m
                            \/ next.action.drop /\ Drops(m, p, next.cell, v)
<1> DEFINE p == asked.player
           next == Head(w.players[p].queue)
           queued == [action |-> asked.action, cell |-> PlayerCell(w, p)]
           waiting == [w EXCEPT !.players[p].queue = Append(Tail(@), queued)]
           d == next.action.movement
           moved == MovePlayer(waiting, p, d)
<1>1. p \in DOMAIN w.players /\ Alive(w, p)
  BY DEF ApplyAction
<1>2. ApplyAction(w, asked) =
        IF next.action.drop THEN DropBomb(moved, p, next.cell) ELSE moved
  BY <1>1 DEF ApplyAction
<1> HIDE DEF next, d
<1>3. Waits(w, p, asked.action, waiting)
  <2> DEFINE item == Append(Tail(w.players[p].queue), queued)
             u == [w EXCEPT !.players[p].queue = item]
  <2>1. waiting = u
    OBVIOUS
  <2> HIDE DEF item
  <2>2. /\ Shaped(u) /\ Same(w, u, {"players"}) /\ SamePlayers(w, u, {"queue"})
        /\ u.players[p].queue = item
        /\ \A q \in DOMAIN w.players \ {p} : u.players[q] = w.players[q]
    BY <1>1 DEF Shaped, Same, SamePlayers, Fields, PlayerFields
  <2> QED BY <2>1, <2>2 DEF Waits, item
<1> HIDE DEF queued, waiting
<1>4. p \in DOMAIN waiting.players /\ Shaped(waiting)
  BY <1>1, <1>3 DEF Waits, SamePlayers
<1>5. moved = waiting \/ Moves(waiting, p, d, moved)
  <2>1. CASE d = "idle" \/ Moved(waiting.players[p].position, d, fences,
                                 SolidCells(waiting))
                             = waiting.players[p].position
    BY <2>1 DEF MovePlayer
  <2>2. CASE ~(d = "idle" \/ Moved(waiting.players[p].position, d, fences,
                                   SolidCells(waiting))
                               = waiting.players[p].position)
    BY <1>4, <2>2, MovePlayerEffect DEF Moves
  <2> QED BY <2>1, <2>2
<1>6. p \in DOMAIN moved.players /\ Shaped(moved)
  BY <1>4, <1>5 DEF Moves, SamePlayers
<1> HIDE DEF moved
<1>7. \/ DropBomb(moved, p, next.cell) = moved
      \/ Drops(moved, p, next.cell, DropBomb(moved, p, next.cell))
  <2>1. CASE moved.players[p].available = 0 \/ next.cell \in SolidCells(moved)
    BY <2>1 DEF DropBomb
  <2>2. CASE ~(\/ moved.players[p].available = 0
               \/ next.cell \in SolidCells(moved))
    BY <1>6, <2>2, DropBombEffect DEF Drops
  <2> QED BY <2>1, <2>2
<1>8. \/ ApplyAction(w, asked) = moved
      \/ /\ next.action.drop
         /\ Drops(moved, p, next.cell, ApplyAction(w, asked))
  BY <1>2, <1>7
<1> QED BY <1>1, <1>3, <1>5, <1>8 DEF next, d

\* A player who acts only changes itself, the bombs and the map.
Acted(w, v) ==
  /\ Shaped(v) /\ Same(w, v, {"players", "bombs", "timer", "map"})
  /\ SamePlayers(w, v, {"position", "available", "queue"})

\* A turn only changes what the actions may.
LEMMA ApplyActionEffect ==
  ASSUME NEW w, Shaped(w), NEW asked
  PROVE  Acted(w, ApplyAction(w, asked))
<1> DEFINE v == ApplyAction(w, asked)
<1>1. CASE v = w
  BY <1>1 DEF Acted, Same, SamePlayers
<1>2. CASE v # w
  <2> DEFINE p == asked.player
             next == Head(w.players[p].queue)
  <2>1. PICK u, m : /\ Waits(w, p, asked.action, u)
                    /\ m = u \/ Moves(u, p, next.action.movement, m)
                    /\ \/ v = m
                       \/ next.action.drop /\ Drops(m, p, next.cell, v)
    BY <1>2, ApplyActionParts
  <2> HIDE DEF v, p, next
  <2>2. Acted(w, u)
    BY <2>1 DEF Waits, Acted, Same, SamePlayers
  <2>3. Acted(u, m)
    BY <2>1, <2>2 DEF Moves, Acted, Same, SamePlayers
  <2>4. Acted(m, v)
    BY <2>1, <2>3 DEF Drops, Acted, Same, SamePlayers
  <2>5. Acted(w, v)
    BY <2>2, <2>3, <2>4 DEF Acted, Same, SamePlayers
  <2> QED BY <2>5 DEF v
<1> QED BY <1>1, <1>2

\* So do all of them in turn.
LEMMA ActionSteps ==
  ASSUME NEW w, NEW n \in Nat, NEW asked, DOMAIN asked = 1..n
  PROVE  \E h : /\ h[0] = w
                /\ \A i \in 1..n : h[i] = ApplyAction(h[i - 1], asked[i])
                /\ Actions!Fold(w, asked) = h[n]
BY Actions!FoldSteps

\* So do the turns of all the players.
LEMMA ActionsEffect ==
  ASSUME NEW w, Shaped(w), NEW n \in Nat, NEW asked, DOMAIN asked = 1..n
  PROVE  Acted(w, Actions!Fold(w, asked))
<1>1. PICK h : /\ h[0] = w
               /\ \A i \in 1..n : h[i] = ApplyAction(h[i - 1], asked[i])
               /\ Actions!Fold(w, asked) = h[n]
  BY ActionSteps
<1> DEFINE S == {i \in 0..n : Acted(w, h[i])}
<1>2. 0 \in S
  BY <1>1 DEF Acted, Same, SamePlayers
<1>3. ASSUME NEW i \in 1..n, i - 1 \in S
      PROVE  i \in S
  <2>1. Acted(w, h[i - 1])
    BY <1>3
  <2>2. Acted(h[i - 1], h[i])
    BY <1>1, <2>1, ApplyActionEffect DEF Acted
  <2>3. Acted(w, h[i])
    BY <2>1, <2>2 DEF Acted, Same, SamePlayers
  <2> QED BY <2>3
<1> HIDE DEF S
<1>4. 0..n \subseteq S
  BY <1>2, <1>3, Actions!Induction
<1> QED BY <1>1, <1>4 DEF S

\* What the players ask for, in their turn.
Asked(actions) ==
  Turns(LAMBDA p : [player |-> p,
                    action |-> IF p \in DOMAIN actions THEN actions[p]
                               ELSE Idle])

\* The loop on the players is a fold over what they asked.
LEMMA ApplyPlayerActionIsFold ==
  ASSUME NEW w, NEW actions
  PROVE  /\ ApplyPlayerAction(w, actions) = Actions!Fold(w, Asked(actions))
         /\ PlayerCount \in Nat /\ DOMAIN Asked(actions) = 1..PlayerCount
<1>1. PlayerCount \in Nat /\ DOMAIN Asked(actions) = 1..PlayerCount
  BY GridConstants DEF Asked, Turns
<1>2. ApplyPlayerAction(w, actions) = Actions!Fold(w, Asked(actions))
  BY DEF ApplyPlayerAction, Asked, Actions!Fold, FoldLeft, Actions!FoldLeft,
         MapThenFoldSet, Actions!MapThenFoldSet, Max, Actions!Max
<1> QED BY <1>1, <1>2

\* So the actions of a tick only change what they may.
LEMMA ApplyPlayerActionEffect ==
  ASSUME NEW w, Shaped(w), NEW actions
  PROVE  Acted(w, ApplyPlayerAction(w, actions))
BY ActionsEffect, ApplyPlayerActionIsFold

\* ArenaReduction only makes the next block fall.
LEMMA ArenaReductionEffect ==
  ASSUME NEW w, Shaped(w)
  PROVE  LET v == ArenaReduction(w) IN
           /\ Shaped(v) /\ Same(w, v, {"clock", "nextFall", "blocks"})
           /\ \/ v.nextFall = w.nextFall /\ v.blocks = w.blocks
              \/ /\ ~(w.nextFall > Len(FallOrder))
                 /\ v.nextFall = w.nextFall + 1
                 /\ v.blocks = Over(Only(FallOrder[w.nextFall],
                                         FallingBlockDuration), w.blocks)
BY DEF ArenaReduction, NewFallingBlock, Shaped, Same, Fields

\* UpdateFallingBlocks crushes what is in some cells.
LEMMA UpdateFallingBlocksEffect ==
  ASSUME NEW w, Shaped(w)
  PROVE  LET v == UpdateFallingBlocks(w)
             cells == {c \in DOMAIN w.blocks : w.blocks[c] = 0}
         IN /\ Shaped(v) /\ Same(w, v, {"blocks", "crushed", "map", "walls"})
            /\ v.blocks = Restrict(w.blocks, DOMAIN w.blocks \ cells)
            /\ v.crushed = w.crushed \cup UNION {Here(w, c) : c \in cells}
            /\ v.map = Updated(w.map, cells, LAMBDA c : << <<"wall", c>> >>)
            /\ v.walls = w.walls \cup cells
BY DEF UpdateFallingBlocks, SealFallingBlocks, Shaped, Same, Fields

\* TriggerCrushedTimers only changes timers.
LEMMA TriggerCrushedTimersEffect ==
  ASSUME NEW w, Shaped(w)
  PROVE  LET v == TriggerCrushedTimers(w) IN
           /\ Shaped(v) /\ Same(w, v, {"timer"})
           /\ DOMAIN v.timer = DOMAIN w.timer
BY DEF TriggerCrushedTimers, Updated, Shaped, Same, Fields

\* Triggered only lights the burning bombs and removes some blockers.
LEMMA TriggeredEffect ==
  ASSUME NEW w, Shaped(w)
  PROVE  LET v == Triggered(w)
             gone == ExpiredBlockers(w)
         IN /\ Shaped(v) /\ Same(w, v, {"timer", "map", "dead"})
            /\ DOMAIN v.timer = DOMAIN w.timer
            /\ v.map = [c \in DOMAIN w.map |-> Without(w.map[c], gone)]
            /\ v.dead = w.dead \cup gone
<1>1. DOMAIN Triggered(w).timer = DOMAIN w.timer
  BY DEF Triggered, Updated, Shaped, Fields
<1>2. /\ DOMAIN Triggered(w) = DOMAIN w
      /\ Same(w, Triggered(w), {"timer", "map", "dead"})
      /\ Triggered(w).map =
           [c \in DOMAIN w.map |-> Without(w.map[c], ExpiredBlockers(w))]
      /\ Triggered(w).dead = w.dead \cup ExpiredBlockers(w)
  BY DEF Triggered, Shaped, Same, Fields
<1> QED BY <1>1, <1>2 DEF Shaped, Same, Fields

\* The flames only burn things.
LEMMA RayEffect ==
  ASSUME NEW w, Shaped(w), NEW c, NEW d
  PROVE  /\ Shaped(Ray(w, c, d))
         /\ Same(w, Ray(w, c, d), {"flames", "burning"})
BY DEF Ray, Shaped, Same, Fields

\* So do the four rays of a bomb.
LEMMA RaysEffect ==
  ASSUME NEW w, Shaped(w), NEW c
  PROVE  Shaped(Rays(w, c)) /\ Same(w, Rays(w, c), {"flames", "burning"})
<1> DEFINE u == Ray(w, c, "left")
           v == Ray(u, c, "right")
           x == Ray(v, c, "up")
<1>1. Shaped(u) /\ Same(w, u, {"flames", "burning"})
  BY RayEffect
<1>2. Rays(w, c) = Ray(x, c, "down")
  BY DEF Rays
<1> HIDE DEF u
<1>3. Shaped(v) /\ Same(u, v, {"flames", "burning"})
  BY <1>1, RayEffect
<1> HIDE DEF v
<1>4. Shaped(x) /\ Same(v, x, {"flames", "burning"})
  BY <1>3, RayEffect
<1> HIDE DEF x
<1>5. /\ Shaped(Ray(x, c, "down"))
      /\ Same(x, Ray(x, c, "down"), {"flames", "burning"})
  BY <1>4, RayEffect
<1> QED BY <1>1, <1>2, <1>3, <1>4, <1>5 DEF Same

\* What an explosion changes.
LEMMA ExplodeEffect ==
  ASSUME NEW w, Shaped(w), NEW c
  PROVE  LET v == Explode(w, c)
             blocker == NewBlocker(w, c)
         IN /\ Shaped(v)
            /\ Same(w, v, {"flames", "burning", "timer", "map", "dead"})
            /\ v.flames = Rays(w, c).flames \cup {NewFlame(c, TRUE)}
            /\ v.burning = Rays(w, c).burning
            /\ v.timer = Over(Only(blocker, FlameDuration), w.timer)
            /\ v.map = Erased(Put(w.map, blocker, c), <<"bomb", c>>, c)
            /\ v.dead = w.dead \cup {<<"bomb", c>>}
<1> DEFINE u == Rays(w, c)
<1>1. Shaped(u) /\ Same(w, u, {"flames", "burning"})
  BY RaysEffect
<1> HIDE DEF u
<1>2. /\ u.timer = w.timer /\ u.map = w.map /\ u.dead = w.dead
  BY <1>1 DEF Same, Fields
<1> DEFINE blocker == NewBlocker(w, c)
           v == Killed([u EXCEPT
                         !.flames = @ \cup {NewFlame(c, TRUE)},
                         !.timer = Over(Only(blocker, FlameDuration), @),
                         !.map = Erased(Put(@, blocker, c), <<"bomb", c>>, c)],
                       {<<"bomb", c>>})
<1>3. Explode(w, c) = v
  BY DEF Explode, u
<1> HIDE DEF blocker
<1>4. /\ Shaped(v) /\ Same(u, v, {"flames", "timer", "map", "dead"})
      /\ v.flames = u.flames \cup {NewFlame(c, TRUE)}
      /\ v.timer = Over(Only(blocker, FlameDuration), u.timer)
      /\ v.map = Erased(Put(u.map, blocker, c), <<"bomb", c>>, c)
      /\ v.dead = u.dead \cup {<<"bomb", c>>}
  BY <1>1 DEF Killed, Shaped, Same, Fields
<1>5. v.burning = u.burning
  BY <1>4 DEF Same, Fields
<1> HIDE DEF v
<1>6. Same(w, v, {"flames", "burning", "timer", "map", "dead"})
  BY <1>1, <1>4 DEF Same
<1> QED BY <1>2, <1>3, <1>4, <1>5, <1>6 DEF u, blocker

\* The worlds of the explosions of the n bombs of order, in the world w.
Explodes(w, order, n, h) ==
  /\ h[0] = w
  /\ \A i \in 1..n : h[i] = Explode(h[i - 1], order[i])
  /\ Explosions!Fold(w, order) = h[n]

\* The bombs explode one after the other.
LEMMA ExplosionSteps ==
  ASSUME NEW w, NEW n \in Nat, NEW order, DOMAIN order = 1..n
  PROVE  \E h : Explodes(w, order, n, h)
BY Explosions!FoldSteps DEF Explodes

\* The explosions only change what one of them may.
LEMMA ExplosionsEffect ==
  ASSUME NEW w, Shaped(w), NEW n \in Nat, NEW order, DOMAIN order = 1..n
  PROVE  LET v == Explosions!Fold(w, order) IN
           /\ Shaped(v)
           /\ Same(w, v, {"flames", "burning", "timer", "map", "dead"})
<1>0. PICK h : Explodes(w, order, n, h)
  BY ExplosionSteps
<1>1. /\ h[0] = w
      /\ \A i \in 1..n : h[i] = Explode(h[i - 1], order[i])
      /\ Explosions!Fold(w, order) = h[n]
  BY <1>0 DEF Explodes
<1> DEFINE Done(v) ==
             /\ Shaped(v)
             /\ Same(w, v, {"flames", "burning", "timer", "map", "dead"})
           S == {i \in 0..n : Done(h[i])}
<1>2. 0 \in S
  BY <1>1 DEF Same
<1>3. ASSUME NEW i \in 1..n, i - 1 \in S
      PROVE  i \in S
  <2>1. Done(h[i - 1])
    BY <1>3
  <2>2. /\ Shaped(Explode(h[i - 1], order[i]))
        /\ Same(h[i - 1], Explode(h[i - 1], order[i]),
                {"flames", "burning", "timer", "map", "dead"})
    BY <2>1, ExplodeEffect
  <2>3. h[i] = Explode(h[i - 1], order[i])
    BY <1>1
  <2>4. Done(h[i])
    BY <2>1, <2>2, <2>3 DEF Same
  <2> QED BY <2>4
<1> HIDE DEF S
<1>4. 0..n \subseteq S
  BY <1>2, <1>3, Explosions!Induction
<1> QED BY <1>1, <1>4 DEF S

\* The loop on the bombs is a fold.
LEMMA UpdateBombsIsFold ==
  ASSUME NEW w, NEW order
  PROVE  UpdateBombs(w, order) = Explosions!Fold(Triggered(w), order)
BY DEF UpdateBombs, Explosions!Fold, FoldLeft, Explosions!FoldLeft,
       MapThenFoldSet, Explosions!MapThenFoldSet, Max, Explosions!Max

\* So the explosions only change the flames, what burns and the map.
LEMMA UpdateBombsEffect ==
  ASSUME NEW w, Shaped(w), NEW n \in Nat, NEW order, DOMAIN order = 1..n
  PROVE  LET v == UpdateBombs(w, order) IN
           /\ Shaped(v)
           /\ Same(w, v, {"flames", "burning", "timer", "map", "dead"})
<1>1. Shaped(Triggered(w)) /\ Same(w, Triggered(w), {"timer", "map", "dead"})
  BY TriggeredEffect
<1>2. LET v == UpdateBombs(w, order) IN
        /\ Shaped(v)
        /\ Same(Triggered(w), v, {"flames", "burning", "timer", "map", "dead"})
  BY <1>1, UpdateBombsIsFold, ExplosionsEffect
<1> QED BY <1>1, <1>2 DEF Same

-----------------------------------------------------------------------------

\* UpdateFlames burns what is in some cells.
LEMMA UpdateFlamesEffect ==
  ASSUME NEW w, Shaped(w)
  PROVE  LET v == UpdateFlames(w) IN
           /\ Shaped(v) /\ Same(w, v, {"burning"})
           /\ \E hot \in SUBSET {f.cell : f \in w.flames} :
                v.burning = w.burning \cup UNION {Here(w, c) : c \in hot}
<1> DEFINE hot == {f \in w.flames : f.age >= FlameWarmUp /\ f.age < FlameCoolDown}
           cells == {f.cell : f \in hot}
           lit == UNION {Here(w, f.cell) : f \in hot}
<1>1. lit = UNION {Here(w, c) : c \in cells}
  OBVIOUS
<1>2. cells \in SUBSET {f.cell : f \in w.flames}
  OBVIOUS
<1>3. UpdateFlames(w) = [w EXCEPT !.burning = @ \cup lit]
  BY DEF UpdateFlames
<1> HIDE DEF lit, cells
<1> QED BY <1>1, <1>2, <1>3 DEF Shaped, Same, Fields

\* UpdateInvincibilityState saves the players who are invincible for more than
\* a tick.
LEMMA UpdateInvincibilityStateEffect ==
  ASSUME NEW w, Shaped(w)
  PROVE  LET v == UpdateInvincibilityState(w)
             safe == {p \in DOMAIN w.invincible : w.invincible[p] # 0}
         IN /\ Shaped(v) /\ Same(w, v, {"invincible", "burning"})
            /\ v.invincible = Restrict(w.invincible, safe)
            /\ v.burning = w.burning \ {Player(p) : p \in safe}
<1> DEFINE over == {p \in DOMAIN w.invincible : w.invincible[p] = 0}
           safe == {p \in DOMAIN w.invincible : w.invincible[p] # 0}
<1>1. DOMAIN w.invincible \ over = safe
  OBVIOUS
<1>2. UpdateInvincibilityState(w) =
        [w EXCEPT !.invincible = Restrict(@, safe),
                  !.burning = @ \ {Player(p) : p \in safe}]
  BY <1>1 DEF UpdateInvincibilityState
<1> HIDE DEF safe
<1>3. LET v == UpdateInvincibilityState(w) IN
        /\ Shaped(v) /\ Same(w, v, {"invincible", "burning"})
        /\ v.invincible = Restrict(w.invincible, safe)
        /\ v.burning = w.burning \ {Player(p) : p \in safe}
  BY <1>2 DEF Shaped, Same, Fields
<1> QED BY <1>3 DEF safe

\* UpdateShields saves the players who have one.
LEMMA UpdateShieldsEffect ==
  ASSUME NEW w, Shaped(w)
  PROVE  LET v == UpdateShields(w)
             hit == {p \in w.shields : Player(p) \in w.burning}
         IN /\ Shaped(v) /\ Same(w, v, {"invincible", "burning", "shields"})
            /\ v.invincible = Over([p \in hit |-> InvincibleDuration],
                                   w.invincible)
            /\ v.burning = w.burning \ {Player(p) : p \in hit}
            /\ v.shields = w.shields \ hit
BY DEF UpdateShields, NewInvincibility, Shaped, Same, Fields

\* UpdateCrates makes some crates burn.
LEMMA UpdateCratesEffect ==
  ASSUME NEW w, Shaped(w)
  PROVE  LET v == UpdateCrates(w) IN
           /\ Shaped(v) /\ Same(w, v, {"crates"})
           /\ DOMAIN v.crates = DOMAIN w.crates
BY DEF UpdateCrates, Shaped, Same, Fields

\* UpdateInvisibilityState ends some of the invisibility.
LEMMA UpdateInvisibilityStateEffect ==
  ASSUME NEW w, Shaped(w)
  PROVE  LET v == UpdateInvisibilityState(w) IN
           Shaped(v) /\ Same(w, v, {"invisible"})
BY DEF UpdateInvisibilityState, Shaped, Same, Fields

\* UpdatePowerUpSpawners leaves a power-up in the cell of some dead crates.
LEMMA UpdatePowerUpSpawnersEffect ==
  ASSUME NEW w, Shaped(w)
  PROVE  LET v == UpdatePowerUpSpawners(w)
             open == {c \in DOMAIN w.crates : /\ <<"crate", c>> \in w.dead
                                              /\ w.crates[c].spawner \in Kinds}
         IN /\ Shaped(v) /\ Same(w, v, {"powerUps", "map"})
            /\ v.powerUps = Over([c \in open |-> w.crates[c].spawner],
                                 w.powerUps)
            /\ v.map = [c \in DOMAIN w.map |->
                          IF c \in open
                          THEN Append(w.map[c], <<"power_up", c>>)
                          ELSE w.map[c]]
BY DEF UpdatePowerUpSpawners, Updated, Shaped, Same, Fields

\* UpdatePowerUps removes the power-ups that burn.
LEMMA UpdatePowerUpsEffect ==
  ASSUME NEW w, Shaped(w)
  PROVE  LET v == UpdatePowerUps(w)
             burnt == {c \in DOMAIN w.powerUps : <<"power_up", c>> \in w.burning}
         IN /\ Shaped(v) /\ Same(w, v, {"map", "dead"})
            /\ v.map = [c \in DOMAIN w.map |->
                          IF c \in burnt
                          THEN Without(w.map[c], {<<"power_up", c>>})
                          ELSE w.map[c]]
            /\ v.dead = w.dead \cup {<<"power_up", c>> : c \in burnt}
<1> DEFINE burnt == {c \in DOMAIN w.powerUps : <<"power_up", c>> \in w.burning}
           map == [c \in DOMAIN w.map |->
                     IF c \in burnt THEN Without(w.map[c], {<<"power_up", c>>})
                     ELSE w.map[c]]
           es == {<<"power_up", c>> : c \in burnt}
<1>1. UpdatePowerUps(w) = Killed([w EXCEPT !.map = map], es)
  BY DEF UpdatePowerUps, Updated
<1> HIDE DEF map, es
<1>2. LET v == UpdatePowerUps(w) IN
        /\ Shaped(v) /\ Same(w, v, {"map", "dead"})
        /\ v.map = map /\ v.dead = w.dead \cup es
  BY <1>1 DEF Killed, Shaped, Same, Fields
<1> QED BY <1>2 DEF map, es

\* The effect of a power-up is for the player who has picked it up.
LEMMA EffectEffect ==
  ASSUME NEW w, Shaped(w), NEW p \in DOMAIN w.players, NEW kind \in Kinds
  PROVE  LET v == Effect(w, p, kind) IN
           /\ Shaped(v) /\ Same(w, v, {"players", "invisible", "shields"})
           /\ SamePlayers(w, v, {"capacity", "available", "strength"})
           /\ \A q \in DOMAIN w.players :
                \/ /\ v.players[q].capacity = w.players[q].capacity
                   /\ v.players[q].available = w.players[q].available
                \/ /\ w.players[q].capacity # MaxCapacity
                   /\ v.players[q].capacity = w.players[q].capacity + 1
                   /\ v.players[q].available = w.players[q].available + 1
           /\ \A q \in DOMAIN w.players :
                v.players[q].strength
                  \in {w.players[q].strength,
                       Min2(w.players[q].strength + 1, MaxStrength)}
           /\ \/ v.invisible = w.invisible
              \/ v.invisible = Over(Only(p, InvisibleDuration), w.invisible)
           /\ w.shields \subseteq v.shields
           /\ v.shields \subseteq w.shields \cup {p}
<1>1. CASE kind = "bomb"
  <2>1. Effect(w, p, kind) = BombPowerUp(w, p)
    BY <1>1 DEF Effect
  <2>2. CASE w.players[p].capacity = MaxCapacity
    <3>1. Effect(w, p, kind) = w
      BY <2>1, <2>2 DEF BombPowerUp
    <3> QED BY <3>1 DEF Shaped, Same, SamePlayers
  <2>3. CASE w.players[p].capacity # MaxCapacity
    <3> DEFINE u == [w EXCEPT !.players[p].capacity = @ + 1]
    <3>1. /\ Shaped(u) /\ Same(w, u, {"players"})
          /\ SamePlayers(w, u, {"capacity"})
          /\ u.players[p].capacity = w.players[p].capacity + 1
          /\ \A q \in DOMAIN w.players \ {p} : u.players[q] = w.players[q]
      BY DEF Shaped, Same, SamePlayers, Fields, PlayerFields
    <3>2. Effect(w, p, kind) = [u EXCEPT !.players[p].available = @ + 1]
      BY <2>1, <2>3 DEF BombPowerUp, Shaped, Fields, PlayerFields
    <3> HIDE DEF u
    <3>3. LET v == [u EXCEPT !.players[p].available = @ + 1] IN
            /\ Shaped(v) /\ Same(u, v, {"players"})
            /\ SamePlayers(u, v, {"available"})
            /\ v.players[p].available = u.players[p].available + 1
            /\ \A q \in DOMAIN u.players \ {p} : v.players[q] = u.players[q]
      BY <3>1 DEF Shaped, Same, SamePlayers, Fields, PlayerFields
    <3> QED BY <2>3, <3>1, <3>2, <3>3 DEF Shaped, Same, SamePlayers, Fields, PlayerFields
  <2> QED BY <2>2, <2>3
<1>2. CASE kind = "flame"
  <2>1. Effect(w, p, kind) =
          [w EXCEPT !.players[p].strength = Min2(@ + 1, MaxStrength)]
    BY <1>2 DEF Effect, FlamePowerUp
  <2>2. LET v == Effect(w, p, kind) IN
          /\ Shaped(v) /\ Same(w, v, {"players"})
          /\ SamePlayers(w, v, {"strength"})
          /\ v.players[p].strength = Min2(w.players[p].strength + 1, MaxStrength)
          /\ \A q \in DOMAIN w.players \ {p} : v.players[q] = w.players[q]
    BY <2>1 DEF Shaped, Same, SamePlayers, Fields, PlayerFields
  <2> QED BY <2>2 DEF Same, SamePlayers, Fields, PlayerFields
<1>3. CASE kind = "invisibility"
  <2>1. Effect(w, p, kind) =
          [w EXCEPT !.invisible = Over(Only(p, InvisibleDuration), @)]
    BY <1>3 DEF Effect, InvisibilityPowerUp, NewInvisibility
  <2> QED BY <2>1 DEF Shaped, Same, SamePlayers, Fields, PlayerFields
<1>4. CASE kind = "shield"
  <2>1. Effect(w, p, kind) = [w EXCEPT !.shields = @ \cup {p}]
    BY <1>4 DEF Effect, ShieldPowerUp
  <2> QED BY <2>1 DEF Shaped, Same, SamePlayers, Fields, PlayerFields
<1> QED BY <1>1, <1>2, <1>3, <1>4 DEF Kinds

\* What a player does with a power-up.
Takes(w, p, kind, v) ==
  LET c == PlayerCell(w, p)
      e == <<"power_up", c>>
  IN /\ p \in DOMAIN w.players /\ e \in Here(w, c) \ w.dead
     /\ w.powerUps[c] = kind
     /\ Shaped(v)
     /\ Same(w, v, {"players", "invisible", "shields", "map", "dead"})
     /\ v.map = Erased(w.map, e, c) /\ v.dead = w.dead \cup {e}
     /\ SamePlayers(w, v, {"capacity", "available", "strength"})
     /\ \A q \in DOMAIN w.players :
          \/ /\ v.players[q].capacity = w.players[q].capacity
             /\ v.players[q].available = w.players[q].available
          \/ /\ w.players[q].capacity # MaxCapacity
             /\ v.players[q].capacity = w.players[q].capacity + 1
             /\ v.players[q].available = w.players[q].available + 1
     /\ \A q \in DOMAIN w.players :
          v.players[q].strength
            \in {w.players[q].strength,
                 Min2(w.players[q].strength + 1, MaxStrength)}
     /\ \/ v.invisible = w.invisible
        \/ v.invisible = Over(Only(p, InvisibleDuration), w.invisible)
     /\ w.shields \subseteq v.shields
     /\ v.shields \subseteq w.shields \cup {p}

\* A power-up that is picked up leaves the map.
LEMMA PickUpTakes ==
  ASSUME NEW w, Shaped(w), NEW picking, picking.kind \in Kinds,
         LET p == picking.player
             c == PlayerCell(w, p)
         IN /\ p \in DOMAIN w.players
            /\ <<"power_up", c>> \in Here(w, c) \ w.dead
            /\ w.powerUps[c] = picking.kind
  PROVE  Takes(w, picking.player, picking.kind, PickUp(w, picking))
<1> DEFINE p == picking.player
           c == PlayerCell(w, p)
           e == <<"power_up", c>>
           u == Effect(w, p, picking.kind)
           v == PickUp(w, picking)
<1>1. /\ p \in DOMAIN w.players /\ e \in Here(w, c) \ w.dead
      /\ w.powerUps[c] = picking.kind
      /\ v = Killed([u EXCEPT !.map = Erased(@, e, c)], {e})
  BY DEF PickUp
<1>2. /\ Shaped(u) /\ Same(w, u, {"players", "invisible", "shields"})
      /\ SamePlayers(w, u, {"capacity", "available", "strength"})
      /\ \A q \in DOMAIN w.players :
           \/ /\ u.players[q].capacity = w.players[q].capacity
              /\ u.players[q].available = w.players[q].available
           \/ /\ w.players[q].capacity # MaxCapacity
              /\ u.players[q].capacity = w.players[q].capacity + 1
              /\ u.players[q].available = w.players[q].available + 1
      /\ \A q \in DOMAIN w.players :
           u.players[q].strength
             \in {w.players[q].strength,
                  Min2(w.players[q].strength + 1, MaxStrength)}
      /\ \/ u.invisible = w.invisible
         \/ u.invisible = Over(Only(p, InvisibleDuration), w.invisible)
      /\ w.shields \subseteq u.shields
      /\ u.shields \subseteq w.shields \cup {p}
  BY <1>1, EffectEffect
<1> HIDE DEF u, p, c, e, v
<1>3. u.map = w.map /\ u.dead = w.dead
  BY <1>2 DEF Same, Fields
<1>4. /\ Shaped(v) /\ Same(u, v, {"map", "dead"})
      /\ v.map = Erased(u.map, e, c) /\ v.dead = u.dead \cup {e}
  BY <1>1, <1>2 DEF Killed, Shaped, Same, Fields
<1>5. Same(w, v, {"players", "invisible", "shields", "map", "dead"})
  BY <1>2, <1>4 DEF Same
<1>6. /\ v.players = u.players /\ v.invisible = u.invisible
      /\ v.shields = u.shields
  BY <1>4 DEF Same, Fields
<1> QED BY <1>1, <1>2, <1>3, <1>4, <1>5, <1>6, ZenonT(60)
       DEF p, c, e, v, SamePlayers, Takes

\* It is the only thing that a player does then.
LEMMA PickUpEffect ==
  ASSUME NEW w, Shaped(w), NEW picking, picking.kind \in Kinds
  PROVE  \/ PickUp(w, picking) = w
         \/ Takes(w, picking.player, picking.kind, PickUp(w, picking))
<1> DEFINE c == PlayerCell(w, picking.player)
<1>1. CASE /\ picking.player \in DOMAIN w.players
           /\ <<"power_up", c>> \in Here(w, c) \ w.dead
           /\ w.powerUps[c] = picking.kind
  BY <1>1, PickUpTakes
<1>2. CASE ~(/\ picking.player \in DOMAIN w.players
             /\ <<"power_up", c>> \in Here(w, c) \ w.dead
             /\ w.powerUps[c] = picking.kind)
  BY <1>2 DEF PickUp
<1> QED BY <1>1, <1>2

\* The players pick up the power-ups one after the other, kind after kind.
Picks(w, v) == \E picking : picking.kind \in Kinds /\ v = PickUp(w, picking)

PickingPath(w, v, n, h) ==
  /\ n \in Nat /\ h[0] = w /\ h[n] = v
  /\ \A i \in 1..n : Picks(h[i - 1], h[i])

\* The power-ups are picked up one after the other.
LEMMA PickingSteps ==
  ASSUME NEW w, NEW n \in Nat, NEW pickings, DOMAIN pickings = 1..n
  PROVE  \E h : /\ h[0] = w
                /\ \A i \in 1..n : h[i] = PickUp(h[i - 1], pickings[i])
                /\ Pickings!Fold(w, pickings) = h[n]
BY Pickings!FoldSteps

\* In the turn of the players, for a kind.
PickingTurns(kind) == Turns(LAMBDA p : [player |-> p, kind |-> kind])

\* Those of a kind go from a world to the next by single pick-ups.
LEMMA PickUpsOfSteps ==
  ASSUME NEW w, NEW kind \in Kinds
  PROVE  \E n, h : PickingPath(w, PickUpsOf(w, kind), n, h)
<1>1. PickUpsOf(w, kind) = Pickings!Fold(w, PickingTurns(kind))
  BY DEF PickUpsOf, PickingTurns, Pickings!Fold, FoldLeft, Pickings!FoldLeft,
         MapThenFoldSet, Pickings!MapThenFoldSet, Max, Pickings!Max
<1>2. /\ PlayerCount \in Nat /\ DOMAIN PickingTurns(kind) = 1..PlayerCount
      /\ \A i \in 1..PlayerCount : PickingTurns(kind)[i].kind \in Kinds
  BY GridConstants DEF Turns, PickingTurns
<1>3. PICK h : /\ h[0] = w
               /\ \A i \in 1..PlayerCount :
                    h[i] = PickUp(h[i - 1], PickingTurns(kind)[i])
               /\ Pickings!Fold(w, PickingTurns(kind)) = h[PlayerCount]
  BY <1>2, PickingSteps
<1>4. PickingPath(w, PickUpsOf(w, kind), PlayerCount, h)
  BY <1>1, <1>2, <1>3 DEF PickingPath, Picks
<1> QED BY <1>2, <1>4

\* One path after another.
LEMMA PickingsFollow ==
  ASSUME NEW w, NEW u, NEW v, \E n, h : PickingPath(w, u, n, h),
         \E n, h : PickingPath(u, v, n, h)
  PROVE  \E n, h : PickingPath(w, v, n, h)
<1>1. PICK m, f : m \in Nat /\ PickingPath(w, u, m, f)
  BY DEF PickingPath
<1>2. PICK n, g : n \in Nat /\ PickingPath(u, v, n, g)
  BY DEF PickingPath
<1> m \in Nat /\ n \in Nat
  BY <1>1, <1>2
<1> DEFINE h == [i \in 0 .. m + n |-> IF i <= m THEN f[i] ELSE g[i - m]]
<1>3. h[0] = w /\ h[m + n] = v
  <2>1. f[0] = w /\ f[m] = u /\ g[0] = u /\ g[n] = v
    BY <1>1, <1>2 DEF PickingPath
  <2>2. CASE n = 0
    BY <2>1, <2>2
  <2>3. CASE n # 0
    <3>1. ~(m + n <= m) /\ m + n - m = n /\ m + n \in 0 .. m + n
      BY <2>3
    <3> QED BY <2>1, <3>1
  <2> QED BY <2>2, <2>3
<1>4. ASSUME NEW i \in 1 .. m + n
      PROVE  Picks(h[i - 1], h[i])
  <2>1. CASE i <= m
    <3>1. i \in 1..m /\ h[i] = f[i] /\ h[i - 1] = f[i - 1]
      BY <2>1
    <3> QED BY <1>1, <3>1 DEF PickingPath
  <2>2. CASE i > m
    <3>1. i - m \in 1..n /\ h[i] = g[i - m]
      BY <2>2
    <3>2. h[i - 1] = g[i - m - 1]
      <4>1. f[m] = u /\ g[0] = u
        BY <1>1, <1>2 DEF PickingPath
      <4>2. CASE i - 1 = m
        BY <4>1, <4>2
      <4>3. CASE i - 1 # m
        <5>1. ~(i - 1 <= m) /\ i - 1 - m = i - m - 1 /\ i - 1 \in 0 .. m + n
          BY <2>2, <4>3
        <5> QED BY <5>1
      <4> QED BY <4>2, <4>3
    <3> QED BY <1>2, <3>1, <3>2 DEF PickingPath
  <2> QED BY <2>1, <2>2
<1> HIDE DEF h
<1>5. PickingPath(w, v, m + n, h)
  BY <1>3, <1>4 DEF PickingPath
<1> QED BY <1>5

\* So do those of all the kinds.
LEMMA PickUpsSteps ==
  ASSUME NEW w
  PROVE  \E n, h : PickingPath(w, PickUps(w), n, h)
<1> DEFINE a == PickUpsOf(w, "bomb")
           b == PickUpsOf(a, "flame")
           c == PickUpsOf(b, "invisibility")
           d == PickUpsOf(c, "shield")
<1>1. \E n, h : PickingPath(w, a, n, h)
  BY PickUpsOfSteps DEF Kinds
<1>2. PickUps(w) = d
  BY DEF PickUps
<1> HIDE DEF a
<1>3. \E n, h : PickingPath(a, b, n, h)
  BY PickUpsOfSteps DEF Kinds
<1> HIDE DEF b
<1>4. \E n, h : PickingPath(b, c, n, h)
  BY PickUpsOfSteps DEF Kinds
<1> HIDE DEF c
<1>5. \E n, h : PickingPath(c, d, n, h)
  BY PickUpsOfSteps DEF Kinds
<1> HIDE DEF d
<1>6. \E n, h : PickingPath(w, b, n, h)
  BY <1>1, <1>3, PickingsFollow
<1>7. \E n, h : PickingPath(w, c, n, h)
  BY <1>4, <1>6, PickingsFollow
<1> QED BY <1>2, <1>5, <1>7, PickingsFollow

\* So they change themselves and the map, and nobody loses its shield.
PickedUp(w, v) ==
  /\ Shaped(v)
  /\ Same(w, v, {"players", "invisible", "shields", "map", "dead"})
  /\ SamePlayers(w, v, {"capacity", "available", "strength"})
  /\ w.shields \subseteq v.shields /\ w.dead \subseteq v.dead
  /\ \A e \in v.dead : e \in w.dead \/ e[1] = "power_up"

\* They only change what a pick-up may.
LEMMA PickUpsEffect ==
  ASSUME NEW w, Shaped(w)
  PROVE  PickedUp(w, PickUps(w))
<1>1. PICK n, h : n \in Nat /\ PickingPath(w, PickUps(w), n, h)
  BY PickUpsSteps DEF PickingPath
<1> n \in Nat
  BY <1>1
<1> DEFINE S == {i \in 0..n : PickedUp(w, h[i])}
<1>2. 0 \in S
  BY <1>1 DEF PickingPath, PickedUp, Same, SamePlayers
<1>3. ASSUME NEW i \in 1..n, i - 1 \in S
      PROVE  i \in S
  <2> DEFINE u == h[i - 1]
             v == h[i]
  <2>1. PickedUp(w, u)
    BY <1>3
  <2>2. PICK picking : picking.kind \in Kinds /\ v = PickUp(u, picking)
    BY <1>1 DEF PickingPath, Picks
  <2> HIDE DEF u, v
  <2>3. CASE v = u
    BY <2>1, <2>3 DEF u, v
  <2>4. CASE v # u
    <3>1. Takes(u, picking.player, picking.kind, v)
      BY <2>1, <2>2, <2>4, PickUpEffect DEF PickedUp
    <3>2. PickedUp(w, v)
      BY <2>1, <3>1 DEF PickedUp, Takes, Same, SamePlayers
    <3> QED BY <3>2 DEF v
  <2> QED BY <2>3, <2>4
<1> HIDE DEF S
<1>4. 0..n \subseteq S
  BY <1>2, <1>3, Pickings!Induction
<1>5. n \in S
  BY <1>4
<1> QED BY <1>1, <1>5 DEF S, PickingPath

\* UpdatePlayers makes some of the living players die.
LEMMA UpdatePlayersEffect ==
  ASSUME NEW w, Shaped(w), NEW kicked
  PROVE  LET v == UpdatePlayers(w, kicked) IN
           /\ Shaped(v) /\ Same(w, v, {"players", "dead", "crushed"})
           /\ v.dead = w.dead \cup {Player(p) : p \in kicked}
           /\ v.crushed = {e \in w.crushed : ~IsPlayer(e)}
           /\ SamePlayers(w, v, {"state", "elapsed"})
           /\ \A p \in DOMAIN w.players :
                v.players[p].state =
                  IF w.players[p].state # "alive" THEN w.players[p].state
                  ELSE IF Player(p) \in w.burning THEN "burn"
                  ELSE IF Player(p) \in w.crushed THEN "die"
                  ELSE "alive"
<1> DEFINE out == Killed(w, {Player(p) : p \in kicked})
           burnt == Transition(out, w.burning, "burn")
           died == Transition(burnt, w.crushed, "die")
<1>1. UpdatePlayers(w, kicked) =
        [died EXCEPT !.crushed = {e \in @ : ~IsPlayer(e)}]
  BY DEF UpdatePlayers
<1>2. /\ Shaped(out) /\ Same(w, out, {"dead"})
      /\ out.dead = w.dead \cup {Player(p) : p \in kicked}
  BY DEF Killed, Shaped, Same, Fields
<1>3. out.players = w.players /\ out.crushed = w.crushed
  BY <1>2 DEF Same, Fields
<1> HIDE DEF out
<1>4. /\ Shaped(burnt) /\ Same(out, burnt, {"players"})
      /\ SamePlayers(out, burnt, {"state", "elapsed"})
      /\ \A p \in DOMAIN out.players :
           burnt.players[p].state =
             IF Player(p) \in w.burning /\ out.players[p].state = "alive"
             THEN "burn" ELSE out.players[p].state
  BY <1>2 DEF Transition, Shaped, Same, SamePlayers, Fields, PlayerFields
<1> HIDE DEF burnt
<1>5. /\ Shaped(died) /\ Same(burnt, died, {"players"})
      /\ SamePlayers(burnt, died, {"state", "elapsed"})
      /\ \A p \in DOMAIN burnt.players :
           died.players[p].state =
             IF Player(p) \in w.crushed /\ burnt.players[p].state = "alive"
             THEN "die" ELSE burnt.players[p].state
  BY <1>4 DEF Transition, Shaped, Same, SamePlayers, Fields, PlayerFields
<1> HIDE DEF died
<1> DEFINE v == UpdatePlayers(w, kicked)
<1>6. /\ Shaped(v) /\ Same(died, v, {"crushed"})
      /\ v.crushed = {e \in died.crushed : ~IsPlayer(e)}
  BY <1>1, <1>5 DEF Shaped, Same, Fields
<1> HIDE DEF v
<1>7. Same(w, v, {"players", "dead", "crushed"})
  BY <1>2, <1>4, <1>5, <1>6 DEF Same
<1>8. v.players = died.players /\ v.dead = out.dead /\ died.crushed = w.crushed
  BY <1>3, <1>4, <1>5, <1>6 DEF Same, Fields
<1>9. SamePlayers(w, v, {"state", "elapsed"})
  BY <1>3, <1>4, <1>5, <1>8 DEF SamePlayers
<1>10. \A p \in DOMAIN w.players :
         v.players[p].state =
           IF w.players[p].state # "alive" THEN w.players[p].state
           ELSE IF Player(p) \in w.burning THEN "burn"
           ELSE IF Player(p) \in w.crushed THEN "die"
           ELSE "alive"
  BY <1>3, <1>4, <1>5, <1>8 DEF SamePlayers
<1> QED BY <1>2, <1>6, <1>7, <1>8, <1>9, <1>10 DEF v

\* UpdateFogOfWar only changes the fog.
LEMMA UpdateFogOfWarEffect ==
  ASSUME NEW w, Shaped(w)
  PROVE  LET v == UpdateFogOfWar(w)
             flames == {f.cell : f \in w.flames}
         IN /\ Shaped(v) /\ Same(w, v, {"fog"})
            /\ v.fog = [p \in Players |->
                          IF p \in DOMAIN w.players
                          THEN UpdateFog(w.fog[p], PlayerCell(w, p), flames)
                          ELSE w.fog[p]]
BY DEF UpdateFogOfWar, Shaped, Same, Fields

\* What is dead or crushed is removed from everywhere.
Remaining(S, kind, gone) == {c \in S : <<kind, c>> \notin gone}

Removes(w, v) ==
  LET gone == w.dead \cup w.crushed
      here == {p \in DOMAIN w.players : Player(p) \notin gone}
  IN /\ Shaped(v)
     /\ Same(w, v, Fields \ {"walls", "blocks", "clock", "nextFall", "date",
                             "fog"})
     /\ v.map = [c \in DOMAIN w.map |-> Without(w.map[c], gone)]
     /\ v.players = Restrict(w.players, here)
     /\ v.shields = w.shields \cap here
     /\ v.invincible = Restrict(w.invincible, DOMAIN w.invincible \cap here)
     /\ v.bombs = Restrict(w.bombs, Remaining(DOMAIN w.bombs, "bomb", gone))
     /\ v.crates = Restrict(w.crates, Remaining(DOMAIN w.crates, "crate", gone))
     /\ v.powerUps = Restrict(w.powerUps,
                              Remaining(DOMAIN w.powerUps, "power_up", gone))
     /\ v.timer = Restrict(w.timer, DOMAIN w.timer \ gone)
     /\ v.flames = {f \in w.flames : f.age < FlameDuration}
     /\ v.burning = w.burning \ gone
     /\ v.crushed = {} /\ v.dead = {}

\* The clean-up of a tick only removes.
LEMMA RemoveDeadObjectsEffect ==
  ASSUME NEW w, Shaped(w)
  PROVE  Removes(w, RemoveDeadObjects(w))
<1> DEFINE gone == w.dead \cup w.crushed
           here == {p \in DOMAIN w.players : Player(p) \notin gone}
           map == [c \in DOMAIN w.map |-> Without(w.map[c], gone)]
           flames == {f \in w.flames : f.age < FlameDuration}
           v == [w EXCEPT
                   !.map = map,
                   !.players = Restrict(@, here),
                   !.shields = @ \cap here,
                   !.invincible = Restrict(@, DOMAIN @ \cap here),
                   !.invisible = Restrict(@, DOMAIN @ \cap here),
                   !.bombs = Restrict(@, Remaining(DOMAIN @, "bomb", gone)),
                   !.crates = Restrict(@, Remaining(DOMAIN @, "crate", gone)),
                   !.powerUps = Restrict(@, Remaining(DOMAIN @, "power_up", gone)),
                   !.timer = Restrict(@, DOMAIN @ \ gone),
                   !.flames = flames,
                   !.burning = @ \ gone,
                   !.crushed = {}, !.dead = {}]
<1>1. RemoveDeadObjects(w) = v
  BY DEF RemoveDeadObjects, Remaining
<1> HIDE DEF gone, here, map, flames
<1>2. /\ DOMAIN v = Fields
      /\ Same(w, v, Fields \ {"walls", "blocks", "clock", "nextFall", "date",
                              "fog"})
      /\ v.map = map /\ v.players = Restrict(w.players, here)
      /\ v.shields = w.shields \cap here
      /\ v.invincible = Restrict(w.invincible, DOMAIN w.invincible \cap here)
      /\ v.bombs = Restrict(w.bombs, Remaining(DOMAIN w.bombs, "bomb", gone))
      /\ v.crates = Restrict(w.crates,
                             Remaining(DOMAIN w.crates, "crate", gone))
      /\ v.powerUps = Restrict(w.powerUps,
                               Remaining(DOMAIN w.powerUps, "power_up", gone))
      /\ v.timer = Restrict(w.timer, DOMAIN w.timer \ gone)
      /\ v.flames = flames /\ v.burning = w.burning \ gone
      /\ v.crushed = {} /\ v.dead = {}
  BY DEF Shaped, Same, Fields
<1> HIDE DEF v
<1>3. here \subseteq DOMAIN w.players
  BY DEF here
<1>4. Shaped(v)
  BY <1>2, <1>3 DEF Shaped, Restrict
<1> QED BY <1>1, <1>2, <1>4 DEF gone, here, map, flames, Removes

-----------------------------------------------------------------------------
(* A tick, system after system.                                            *)

\* The worlds of a tick, named after what each system does.
Stages(w, actions, order, kicked, s) ==
  /\ s.start = w
  /\ s.counted = RefreshBombInventory(s.start)
  /\ s.dated = UpdateClocks(s.counted)
  /\ s.timed = UpdateTimers(s.dated)
  /\ s.animated = Animator(s.timed)
  /\ s.acted = ApplyPlayerAction(s.animated, actions)
  /\ s.reduced = ArenaReduction(s.acted)
  /\ s.sealed = UpdateFallingBlocks(s.reduced)
  /\ s.before = TriggerCrushedTimers(s.sealed)
  /\ s.exploded = UpdateBombs(s.before, order)
  /\ s.lit = UpdateFlames(s.exploded)
  /\ s.saved = UpdateInvincibilityState(s.lit)
  /\ s.shielded = UpdateShields(s.saved)
  /\ s.burnt = UpdateCrates(s.shielded)
  /\ s.shown = UpdateInvisibilityState(s.burnt)
  /\ s.opened = UpdatePowerUpSpawners(s.shown)
  /\ s.cleared = UpdatePowerUps(s.opened)
  /\ s.picked = PickUps(s.cleared)
  /\ s.judged = UpdatePlayers(s.picked, kicked)
  /\ s.fogged = UpdateFogOfWar(s.judged)
  /\ s.done = RemoveDeadObjects(s.fogged)

\* The systems of a tick have their worlds.
LEMMA StagesExist ==
  ASSUME NEW w, NEW actions, NEW order, NEW kicked
  PROVE  LET before == BeforeBombs(w, actions) IN
           \E s : /\ Stages(w, actions, order, kicked, s)
                  /\ s.before = before
                  /\ s.done = AfterBombs(UpdateBombs(before, order), kicked)
<1> DEFINE before == BeforeBombs(w, actions)
           counted == RefreshBombInventory(w)
           dated == UpdateClocks(counted)
           timed == UpdateTimers(dated)
           animated == Animator(timed)
           acted == ApplyPlayerAction(animated, actions)
           reduced == ArenaReduction(acted)
           sealed == UpdateFallingBlocks(reduced)
           crushed == TriggerCrushedTimers(sealed)
           exploded == UpdateBombs(crushed, order)
           lit == UpdateFlames(exploded)
           saved == UpdateInvincibilityState(lit)
           shielded == UpdateShields(saved)
           burnt == UpdateCrates(shielded)
           shown == UpdateInvisibilityState(burnt)
           opened == UpdatePowerUpSpawners(shown)
           cleared == UpdatePowerUps(opened)
           picked == PickUps(cleared)
           judged == UpdatePlayers(picked, kicked)
           fogged == UpdateFogOfWar(judged)
           done == RemoveDeadObjects(fogged)
           s == [start |-> w, counted |-> counted, dated |-> dated,
                 timed |-> timed, animated |-> animated, acted |-> acted,
                 reduced |-> reduced, sealed |-> sealed, before |-> crushed,
                 exploded |-> exploded, lit |-> lit, saved |-> saved,
                 shielded |-> shielded, burnt |-> burnt, shown |-> shown,
                 opened |-> opened, cleared |-> cleared, picked |-> picked,
                 judged |-> judged, fogged |-> fogged, done |-> done]
<1>1. before = crushed
  BY DEF BeforeBombs
<1>2. AfterBombs(exploded, kicked) = done
  BY DEF AfterBombs
<1>3. Stages(w, actions, order, kicked, s)
  BY DEF Stages
<1>4. s.before = crushed /\ s.done = done
  OBVIOUS
<1> HIDE DEF before, s, done, crushed
<1>5. s.before = before /\ s.done = AfterBombs(UpdateBombs(before, order), kicked)
  BY <1>1, <1>2, <1>4 DEF exploded
<1>6. \E t : /\ Stages(w, actions, order, kicked, t) /\ t.before = before
             /\ t.done = AfterBombs(UpdateBombs(before, order), kicked)
  BY <1>3, <1>5
<1> QED BY <1>6 DEF before

\* They are those of a tick.
LEMMA TickHasStages ==
  ASSUME NEW actions, Ticked(actions)
  PROVE  \E order, kicked, s :
           /\ Stages(world, actions, order, kicked, s)
           /\ order \in SetToSeqs(Exploding(Triggered(s.before)))
           /\ kicked \subseteq DOMAIN world.players
           /\ kicked \subseteq Kickable
           /\ \A p \in kicked : Player(p) \notin s.before.dead
           /\ world' = s.done /\ result' = CheckGameOver(world')
<1> DEFINE before == BeforeBombs(world, actions)
<1>1. PICK order \in SetToSeqs(Exploding(Triggered(before))),
           kicked \in SUBSET {p \in Kickable \cap DOMAIN world.players :
                                Player(p) \notin before.dead} :
             /\ world' = AfterBombs(UpdateBombs(before, order), kicked)
             /\ result' = CheckGameOver(world')
  BY DEF Ticked
<1>2. \E s : /\ Stages(world, actions, order, kicked, s) /\ s.before = before
             /\ s.done = AfterBombs(UpdateBombs(before, order), kicked)
  BY StagesExist
<1> HIDE DEF before
<1> QED BY <1>1, <1>2

\* What each of them leaves alone.
Frames(s) ==
  /\ Shaped(s.start) /\ Shaped(s.counted) /\ Shaped(s.dated)
  /\ Shaped(s.timed) /\ Shaped(s.animated) /\ Shaped(s.acted)
  /\ Shaped(s.reduced) /\ Shaped(s.sealed) /\ Shaped(s.before)
  /\ Shaped(s.exploded) /\ Shaped(s.lit) /\ Shaped(s.saved)
  /\ Shaped(s.shielded) /\ Shaped(s.burnt) /\ Shaped(s.shown)
  /\ Shaped(s.opened) /\ Shaped(s.cleared) /\ Shaped(s.picked)
  /\ Shaped(s.judged) /\ Shaped(s.fogged) /\ Shaped(s.done)
  /\ Same(s.start, s.counted, {"players"})
  /\ SamePlayers(s.start, s.counted, {"available"})
  /\ Same(s.counted, s.dated, {"date"})
  /\ Same(s.dated, s.timed, {"timer", "blocks", "invincible", "invisible",
                             "clock", "fog"})
  /\ Same(s.timed, s.animated, {"players", "crates", "flames", "dead"})
  /\ SamePlayers(s.timed, s.animated, {"elapsed"})
  /\ Acted(s.animated, s.acted)
  /\ Same(s.acted, s.reduced, {"clock", "nextFall", "blocks"})
  /\ Same(s.reduced, s.sealed, {"blocks", "crushed", "map", "walls"})
  /\ Same(s.sealed, s.before, {"timer"})
  /\ Same(s.before, s.exploded, {"flames", "burning", "timer", "map", "dead"})
  /\ Same(s.exploded, s.lit, {"burning"})
  /\ Same(s.lit, s.saved, {"invincible", "burning"})
  /\ Same(s.saved, s.shielded, {"invincible", "burning", "shields"})
  /\ Same(s.shielded, s.burnt, {"crates"})
  /\ Same(s.burnt, s.shown, {"invisible"})
  /\ Same(s.shown, s.opened, {"powerUps", "map"})
  /\ Same(s.opened, s.cleared, {"map", "dead"})
  /\ PickedUp(s.cleared, s.picked)
  /\ Same(s.picked, s.judged, {"players", "dead", "crushed"})
  /\ SamePlayers(s.picked, s.judged, {"state", "elapsed"})
  /\ Same(s.judged, s.fogged, {"fog"})
  /\ Same(s.fogged, s.done, Fields \ {"walls", "blocks", "clock", "nextFall",
                                      "date", "fog"})

\* Each system of a tick only changes what it may.
LEMMA StagesHaveFrames ==
  ASSUME NEW w, NEW actions, NEW order, NEW kicked, NEW s,
         Stages(w, actions, order, kicked, s), Shaped(w),
         NEW n \in Nat, DOMAIN order = 1..n
  PROVE  Frames(s)
<1>1. Shaped(s.start)
  BY DEF Stages
<1>2. /\ Shaped(s.counted) /\ Same(s.start, s.counted, {"players"})
      /\ SamePlayers(s.start, s.counted, {"available"})
  BY <1>1, RefreshBombInventoryEffect DEF Stages
<1>3. Shaped(s.dated) /\ Same(s.counted, s.dated, {"date"})
  BY <1>2, UpdateClocksEffect DEF Stages
<1>4. /\ Shaped(s.timed)
      /\ Same(s.dated, s.timed, {"timer", "blocks", "invincible", "invisible",
                                 "clock", "fog"})
  BY <1>3, UpdateTimersEffect DEF Stages
<1>5. /\ Shaped(s.animated)
      /\ Same(s.timed, s.animated, {"players", "crates", "flames", "dead"})
      /\ SamePlayers(s.timed, s.animated, {"elapsed"})
  BY <1>4, AnimatorEffect DEF Stages
<1>6. Shaped(s.acted) /\ Acted(s.animated, s.acted)
  BY <1>5, ApplyPlayerActionEffect DEF Stages, Acted
<1>7. /\ Shaped(s.reduced)
      /\ Same(s.acted, s.reduced, {"clock", "nextFall", "blocks"})
  BY <1>6, ArenaReductionEffect DEF Stages
<1>8. /\ Shaped(s.sealed)
      /\ Same(s.reduced, s.sealed, {"blocks", "crushed", "map", "walls"})
  BY <1>7, UpdateFallingBlocksEffect DEF Stages
<1>9. Shaped(s.before) /\ Same(s.sealed, s.before, {"timer"})
  BY <1>8, TriggerCrushedTimersEffect DEF Stages
<1>10. /\ Shaped(s.exploded)
       /\ Same(s.before, s.exploded, {"flames", "burning", "timer", "map", "dead"})
  BY <1>9, UpdateBombsEffect DEF Stages
<1>11. Shaped(s.lit) /\ Same(s.exploded, s.lit, {"burning"})
  BY <1>10, UpdateFlamesEffect DEF Stages
<1>12. Shaped(s.saved) /\ Same(s.lit, s.saved, {"invincible", "burning"})
  BY <1>11, UpdateInvincibilityStateEffect DEF Stages
<1>13. /\ Shaped(s.shielded)
       /\ Same(s.saved, s.shielded, {"invincible", "burning", "shields"})
  <2>1. s.shielded = UpdateShields(s.saved)
    BY DEF Stages
  <2>2. LET v == UpdateShields(s.saved) IN
          Shaped(v) /\ Same(s.saved, v, {"invincible", "burning", "shields"})
    BY <1>12, UpdateShieldsEffect
  <2> QED BY <2>1, <2>2
<1>14. Shaped(s.burnt) /\ Same(s.shielded, s.burnt, {"crates"})
  BY <1>13, UpdateCratesEffect DEF Stages
<1>15. Shaped(s.shown) /\ Same(s.burnt, s.shown, {"invisible"})
  BY <1>14, UpdateInvisibilityStateEffect DEF Stages
<1>16. Shaped(s.opened) /\ Same(s.shown, s.opened, {"powerUps", "map"})
  <2>1. s.opened = UpdatePowerUpSpawners(s.shown)
    BY DEF Stages
  <2>2. LET v == UpdatePowerUpSpawners(s.shown) IN
          Shaped(v) /\ Same(s.shown, v, {"powerUps", "map"})
    BY <1>15, UpdatePowerUpSpawnersEffect
  <2> QED BY <2>1, <2>2
<1>17. Shaped(s.cleared) /\ Same(s.opened, s.cleared, {"map", "dead"})
  <2>1. s.cleared = UpdatePowerUps(s.opened)
    BY DEF Stages
  <2>2. LET v == UpdatePowerUps(s.opened) IN
          Shaped(v) /\ Same(s.opened, v, {"map", "dead"})
    BY <1>16, UpdatePowerUpsEffect
  <2> QED BY <2>1, <2>2
<1>18. Shaped(s.picked) /\ PickedUp(s.cleared, s.picked)
  BY <1>17, PickUpsEffect DEF Stages, PickedUp
<1>19. /\ Shaped(s.judged) /\ Same(s.picked, s.judged, {"players", "dead", "crushed"})
       /\ SamePlayers(s.picked, s.judged, {"state", "elapsed"})
  BY <1>18, UpdatePlayersEffect DEF Stages
<1>20. Shaped(s.fogged) /\ Same(s.judged, s.fogged, {"fog"})
  BY <1>19, UpdateFogOfWarEffect DEF Stages
<1>21. /\ Shaped(s.done)
       /\ Same(s.fogged, s.done, Fields \ {"walls", "blocks", "clock",
                                           "nextFall", "date", "fog"})
  <2>1. s.done = RemoveDeadObjects(s.fogged)
    BY DEF Stages
  <2>2. Removes(s.fogged, s.done)
    BY <1>20, <2>1, RemoveDeadObjectsEffect
  <2> QED BY <2>2 DEF Removes
<1> QED BY <1>1, <1>2, <1>3, <1>4, <1>5, <1>6, <1>7, <1>8, <1>9, <1>10, <1>11,
           <1>12, <1>13, <1>14, <1>15, <1>16, <1>17, <1>18, <1>19, <1>20, <1>21
        DEF Frames

-----------------------------------------------------------------------------
(* The bombs that are counted.                                             *)

\* A player never has more bombs than it may have, and the arena is finite.
Counted(w) ==
  /\ IsFiniteSet(DOMAIN w.bombs)
  /\ \A p \in DOMAIN w.players :
       /\ w.players[p].capacity \in 1..MaxCapacity
       /\ w.players[p].strength \in 1..MaxStrength
       /\ w.players[p].available \in Nat
       /\ ActiveBombs(w, p) + w.players[p].available <= w.players[p].capacity

\* The bombs of a player are part of the bombs.
LEMMA BombsOfPlayer ==
  ASSUME NEW w, IsFiniteSet(DOMAIN w.bombs), NEW p
  PROVE  /\ IsFiniteSet({c \in DOMAIN w.bombs : w.bombs[c].owner = p})
         /\ ActiveBombs(w, p) \in Nat
<1>1. {c \in DOMAIN w.bombs : w.bombs[c].owner = p} \subseteq DOMAIN w.bombs
  OBVIOUS
<1>2. IsFiniteSet({c \in DOMAIN w.bombs : w.bombs[c].owner = p})
  BY <1>1, FS_Subset
<1> QED BY <1>2, FS_CardinalityType DEF ActiveBombs

\* Fewer bombs, fewer of them for a player.
LEMMA FewerBombs ==
  ASSUME NEW w, IsFiniteSet(DOMAIN w.bombs), NEW v, NEW p,
         DOMAIN v.bombs \subseteq DOMAIN w.bombs,
         \A c \in DOMAIN v.bombs : v.bombs[c] = w.bombs[c]
  PROVE  /\ IsFiniteSet(DOMAIN v.bombs)
         /\ ActiveBombs(v, p) <= ActiveBombs(w, p)
<1> DEFINE Of(x) == {c \in DOMAIN x.bombs : x.bombs[c].owner = p}
<1>1. IsFiniteSet(DOMAIN v.bombs) /\ IsFiniteSet(Of(w))
  BY FS_Subset, BombsOfPlayer
<1>2. Of(v) \subseteq Of(w)
  OBVIOUS
<1> HIDE DEF Of
<1>3. Cardinality(Of(v)) <= Cardinality(Of(w))
  BY <1>1, <1>2, FS_Subset
<1> QED BY <1>1, <1>3 DEF ActiveBombs, Of

\* A bomb more, at most, for its owner only.
LEMMA OneMoreBomb ==
  ASSUME NEW w, IsFiniteSet(DOMAIN w.bombs), NEW p, NEW c, NEW bomb,
         bomb.owner = p, NEW v, v.bombs = Over(Only(c, bomb), w.bombs)
  PROVE  /\ IsFiniteSet(DOMAIN v.bombs)
         /\ ActiveBombs(v, p) <= ActiveBombs(w, p) + 1
         /\ \A q : q # p => ActiveBombs(v, q) <= ActiveBombs(w, q)
<1> DEFINE Of(x, q) == {b \in DOMAIN x.bombs : x.bombs[b].owner = q}
<1>1. /\ DOMAIN v.bombs = DOMAIN w.bombs \cup {c}
      /\ \A b \in DOMAIN v.bombs : v.bombs[b] = IF b = c THEN bomb ELSE w.bombs[b]
  BY DEF Over, Only
<1>2. IsFiniteSet(DOMAIN v.bombs)
  BY <1>1, FS_AddElement
<1>3. \A q : IsFiniteSet(Of(w, q)) /\ Cardinality(Of(w, q)) \in Nat
  BY BombsOfPlayer, FS_CardinalityType
<1>4. Of(v, p) \subseteq Of(w, p) \cup {c}
  BY <1>1
<1>5. \A q : q # p => Of(v, q) \subseteq Of(w, q)
  BY <1>1
<1> HIDE DEF Of
<1>6. /\ IsFiniteSet(Of(w, p) \cup {c})
      /\ Cardinality(Of(w, p) \cup {c}) <= Cardinality(Of(w, p)) + 1
      /\ Cardinality(Of(w, p) \cup {c}) \in Nat
  BY <1>3, FS_AddElement, FS_CardinalityType
<1>7. /\ Cardinality(Of(v, p)) <= Cardinality(Of(w, p) \cup {c})
      /\ Cardinality(Of(v, p)) \in Nat
  BY <1>4, <1>6, FS_Subset, FS_CardinalityType
<1>8. \A q : q # p => Cardinality(Of(v, q)) <= Cardinality(Of(w, q))
  BY <1>3, <1>5, FS_Subset
<1>9. Cardinality(Of(v, p)) <= Cardinality(Of(w, p)) + 1
  BY <1>3, <1>6, <1>7
<1> QED BY <1>2, <1>8, <1>9 DEF ActiveBombs, Of

\* Nothing else changes the count.
LEMMA CountedStays ==
  ASSUME NEW w, Counted(w), NEW v, v.bombs = w.bombs,
         SamePlayers(w, v, {"position", "state", "elapsed", "queue"})
  PROVE  Counted(v)
BY DEF Counted, ActiveBombs, SamePlayers, PlayerFields

\* A player who drops a bomb pays for it.
LEMMA ActionCounts ==
  ASSUME NEW w, Shaped(w), Counted(w), NEW asked
  PROVE  Counted(ApplyAction(w, asked))
<1> DEFINE v == ApplyAction(w, asked)
<1>1. CASE v = w
  BY <1>1
<1>2. CASE v # w
  <2> DEFINE p == asked.player
             next == Head(w.players[p].queue)
  <2>1. /\ p \in DOMAIN w.players
        /\ \E u, m : /\ Waits(w, p, asked.action, u)
                     /\ m = u \/ Moves(u, p, next.action.movement, m)
                     /\ \/ v = m
                        \/ next.action.drop /\ Drops(m, p, next.cell, v)
    BY <1>2, ApplyActionParts
  <2>2. PICK u, m : /\ Waits(w, p, asked.action, u)
                    /\ m = u \/ Moves(u, p, next.action.movement, m)
                    /\ \/ v = m
                       \/ next.action.drop /\ Drops(m, p, next.cell, v)
    BY <2>1
  <2> HIDE DEF v, p, next
  <2>3. Counted(u) /\ Shaped(u) /\ p \in DOMAIN u.players
    <3>1. u.bombs = w.bombs /\ SamePlayers(w, u, {"position", "state", "elapsed", "queue"})
      BY <2>2 DEF Waits, Same, Fields, SamePlayers
    <3> QED BY <2>1, <2>2, <3>1, CountedStays, ZenonT(60) DEF Waits, SamePlayers
  <2>4. Counted(m) /\ Shaped(m) /\ p \in DOMAIN m.players
    <3>1. CASE m = u
      BY <2>3, <3>1
    <3>2. CASE Moves(u, p, next.action.movement, m)
      <4>1. m.bombs = u.bombs /\ SamePlayers(u, m, {"position", "state", "elapsed", "queue"})
        BY <3>2 DEF Moves, Same, Fields, SamePlayers
      <4> QED BY <2>3, <3>2, <4>1, CountedStays DEF Moves, SamePlayers
    <3> QED BY <2>2, <3>1, <3>2
  <2>5. CASE v = m
    BY <2>4, <2>5 DEF v
  <2>6. CASE Drops(m, p, next.cell, v)
    <3>1. /\ SamePlayers(m, v, {"available"})
          /\ m.players[p].available # 0
          /\ v.players[p].available = m.players[p].available - 1
          /\ \A q \in DOMAIN m.players \ {p} : v.players[q] = m.players[q]
          /\ v.bombs = Over(Only(next.cell,
                                 [owner |-> p,
                                  strength |-> m.players[p].strength]),
                            m.bombs)
      BY <2>6 DEF Drops
    <3>2. /\ IsFiniteSet(DOMAIN v.bombs)
          /\ ActiveBombs(v, p) <= ActiveBombs(m, p) + 1
          /\ \A q : q # p => ActiveBombs(v, q) <= ActiveBombs(m, q)
      BY <2>4, <3>1, OneMoreBomb DEF Counted
    <3>3. \A q : ActiveBombs(v, q) \in Nat /\ ActiveBombs(m, q) \in Nat
      BY <2>4, <3>2, BombsOfPlayer DEF Counted
    <3>4. /\ DOMAIN v.players = DOMAIN m.players
          /\ \A q \in DOMAIN m.players :
               /\ v.players[q].capacity = m.players[q].capacity
               /\ v.players[q].strength = m.players[q].strength
      BY <3>1 DEF SamePlayers, PlayerFields
    <3>5. ASSUME NEW q \in DOMAIN m.players
          PROVE  /\ v.players[q].available \in Nat
                 /\ ActiveBombs(v, q) + v.players[q].available
                      <= v.players[q].capacity
      <4>1. /\ m.players[q].available \in Nat /\ m.players[q].capacity \in Int
            /\ ActiveBombs(m, q) + m.players[q].available
                 <= m.players[q].capacity
        BY <2>4 DEF Counted
      <4>2. ActiveBombs(v, q) \in Nat /\ ActiveBombs(m, q) \in Nat
        BY <3>3
      <4>3. CASE q = p
        BY <2>4, <3>1, <3>2, <3>4, <4>1, <4>2, <4>3
      <4>4. CASE q # p
        BY <2>4, <3>1, <3>2, <3>4, <4>1, <4>2, <4>4
      <4> QED BY <4>3, <4>4
    <3>6. Counted(v)
      BY <2>4, <3>2, <3>4, <3>5 DEF Counted
    <3> QED BY <3>6 DEF v
  <2> QED BY <2>2, <2>5, <2>6
<1> QED BY <1>1, <1>2

\* So do all of them.
LEMMA ActionsCount ==
  ASSUME NEW w, Shaped(w), Counted(w), NEW actions
  PROVE  Counted(ApplyPlayerAction(w, actions))
<1> DEFINE asked == Asked(actions)
<1>1. /\ ApplyPlayerAction(w, actions) = Actions!Fold(w, asked)
      /\ PlayerCount \in Nat /\ DOMAIN asked = 1..PlayerCount
  BY ApplyPlayerActionIsFold
<1>2. PICK h : /\ h[0] = w
               /\ \A i \in 1..PlayerCount : h[i] = ApplyAction(h[i - 1], asked[i])
               /\ Actions!Fold(w, asked) = h[PlayerCount]
  BY <1>1, ActionSteps
<1> HIDE DEF asked
<1> DEFINE S == {i \in 0..PlayerCount : Shaped(h[i]) /\ Counted(h[i])}
<1>3. 0 \in S
  BY <1>1, <1>2
<1>4. ASSUME NEW i \in 1..PlayerCount, i - 1 \in S
      PROVE  i \in S
  <2>1. Shaped(h[i - 1]) /\ Counted(h[i - 1])
    BY <1>4
  <2>2. Shaped(h[i])
    BY <1>2, <2>1, ApplyActionEffect DEF Acted
  <2>3. Counted(h[i])
    BY <1>2, <2>1, ActionCounts
  <2> QED BY <2>2, <2>3
<1> HIDE DEF S
<1>5. 0..PlayerCount \subseteq S
  BY <1>1, <1>3, <1>4, Actions!Induction
<1>6. PlayerCount \in S
  BY <1>1, <1>5
<1> QED BY <1>1, <1>2, <1>6 DEF S

\* RefreshBombInventory does not wrap around.
LEMMA InventoryCounts ==
  ASSUME NEW w, Shaped(w), Counted(w)
  PROVE  Counted(RefreshBombInventory(w))
<1> DEFINE v == RefreshBombInventory(w)
<1>1. /\ Same(w, v, {"players"}) /\ SamePlayers(w, v, {"available"})
      /\ \A p \in DOMAIN w.players :
           v.players[p].available =
             (w.players[p].capacity - ActiveBombs(w, p)) % 256
  BY RefreshBombInventoryEffect
<1> HIDE DEF v
<1>2. v.bombs = w.bombs
  BY <1>1 DEF Same, Fields
<1>3. ASSUME NEW p \in DOMAIN w.players
      PROVE  /\ v.players[p].available \in Nat
             /\ ActiveBombs(v, p) + v.players[p].available
                  <= w.players[p].capacity
  <2>1. ActiveBombs(v, p) = ActiveBombs(w, p) /\ ActiveBombs(w, p) \in Nat
    BY <1>2, BombsOfPlayer DEF Counted, ActiveBombs
  <2>2. /\ w.players[p].capacity \in Nat /\ w.players[p].capacity < 256
        /\ ActiveBombs(w, p) <= w.players[p].capacity
    BY <2>1, ArenaConstants, BytesAreEnough DEF Counted
  <2>3. v.players[p].available = w.players[p].capacity - ActiveBombs(w, p)
    BY <1>1, <2>1, <2>2
  <2> QED BY <2>1, <2>2, <2>3
<1>4. Counted(v)
  BY <1>1, <1>2, <1>3 DEF Counted, SamePlayers, PlayerFields
<1> QED BY <1>4 DEF v

\* A power-up gives a bomb to the one who may have one more.
LEMMA PickUpCounts ==
  ASSUME NEW w, Shaped(w), Counted(w), NEW picking, picking.kind \in Kinds
  PROVE  Counted(PickUp(w, picking))
<1> DEFINE v == PickUp(w, picking)
<1>1. CASE v = w
  BY <1>1
<1>2. CASE v # w
  <2>1. /\ Same(w, v, {"players", "invisible", "shields", "map", "dead"})
        /\ SamePlayers(w, v, {"capacity", "available", "strength"})
        /\ \A q \in DOMAIN w.players :
             \/ /\ v.players[q].capacity = w.players[q].capacity
                /\ v.players[q].available = w.players[q].available
             \/ /\ w.players[q].capacity # MaxCapacity
                /\ v.players[q].capacity = w.players[q].capacity + 1
                /\ v.players[q].available = w.players[q].available + 1
        /\ \A q \in DOMAIN w.players :
             v.players[q].strength
               \in {w.players[q].strength,
                    Min2(w.players[q].strength + 1, MaxStrength)}
    <3>1. Takes(w, picking.player, picking.kind, v)
      BY <1>2, PickUpEffect
    <3> HIDE DEF v
    <3> QED BY <3>1 DEF Takes
  <2> HIDE DEF v
  <2>2. v.bombs = w.bombs /\ DOMAIN v.players = DOMAIN w.players
    BY <2>1 DEF Same, Fields, SamePlayers
  <2>3. ASSUME NEW q \in DOMAIN w.players
        PROVE  /\ v.players[q].capacity \in 1..MaxCapacity
               /\ v.players[q].strength \in 1..MaxStrength
               /\ v.players[q].available \in Nat
               /\ ActiveBombs(v, q) + v.players[q].available
                    <= v.players[q].capacity
    <3>1. /\ ActiveBombs(v, q) = ActiveBombs(w, q)
          /\ ActiveBombs(w, q) \in Nat
      BY <2>2, BombsOfPlayer DEF Counted, ActiveBombs
    <3>2. /\ w.players[q].capacity \in 1..MaxCapacity
          /\ w.players[q].strength \in 1..MaxStrength
          /\ w.players[q].available \in Nat
          /\ ActiveBombs(w, q) + w.players[q].available
               <= w.players[q].capacity
          /\ MaxCapacity \in Nat /\ MaxStrength \in Nat
      BY ArenaConstants DEF Counted
    <3>3. v.players[q].strength \in 1..MaxStrength
      BY <2>1, <3>2 DEF Min2
    <3>4. CASE /\ v.players[q].capacity = w.players[q].capacity
               /\ v.players[q].available = w.players[q].available
      BY <3>1, <3>2, <3>3, <3>4
    <3>5. CASE /\ w.players[q].capacity # MaxCapacity
               /\ v.players[q].capacity = w.players[q].capacity + 1
               /\ v.players[q].available = w.players[q].available + 1
      BY <3>1, <3>2, <3>3, <3>5
    <3> QED BY <2>1, <3>4, <3>5
  <2>4. Counted(v)
    BY <2>2, <2>3 DEF Counted
  <2> QED BY <2>4 DEF v
<1> QED BY <1>1, <1>2

\* The power-ups keep the bombs counted.
LEMMA PickUpsCount ==
  ASSUME NEW w, Shaped(w), Counted(w)
  PROVE  Counted(PickUps(w))
<1>1. PICK n, h : n \in Nat /\ PickingPath(w, PickUps(w), n, h)
  BY PickUpsSteps DEF PickingPath
<1> n \in Nat
  BY <1>1
<1> DEFINE S == {i \in 0..n : Shaped(h[i]) /\ Counted(h[i])}
<1>2. 0 \in S
  BY <1>1 DEF PickingPath
<1>3. ASSUME NEW i \in 1..n, i - 1 \in S
      PROVE  i \in S
  <2>1. Shaped(h[i - 1]) /\ Counted(h[i - 1])
    BY <1>3
  <2>2. PICK picking : picking.kind \in Kinds /\ h[i] = PickUp(h[i - 1], picking)
    BY <1>1 DEF PickingPath, Picks
  <2>3. \/ h[i] = h[i - 1]
        \/ Takes(h[i - 1], picking.player, picking.kind, h[i])
    BY <2>1, <2>2, PickUpEffect
  <2>4. Counted(h[i])
    BY <2>1, <2>2, PickUpCounts
  <2>5. Shaped(h[i])
    BY <2>1, <2>3 DEF Takes
  <2> QED BY <2>4, <2>5
<1> HIDE DEF S
<1>4. 0..n \subseteq S
  BY <1>2, <1>3, Pickings!Induction
<1>5. n \in S
  BY <1>4
<1> QED BY <1>1, <1>5 DEF S, PickingPath

\* What holds of the world between two ticks, for any tick to be as expected.
Sound(w) ==
  /\ Shaped(w) /\ Counted(w)
  /\ DOMAIN w.players \subseteq Players
  /\ \A p \in DOMAIN w.invincible : w.invincible[p] \in Nat

\* The first arena is sound.
LEMMA InitSound == Init => Sound(world)
<1> SUFFICES ASSUME Init
             PROVE  Sound(world)
  OBVIOUS
<1>1. Shaped(world)
  BY DEF Init, Shaped, Fields, PlayerFields, NewPlayer
<1>2. /\ world.players = [p \in Players |-> NewPlayer(p)]
      /\ world.bombs = <<>> /\ world.invincible = <<>>
  BY DEF Init
<1>3. IsFiniteSet(DOMAIN world.bombs) /\ DOMAIN world.invincible = {}
  BY <1>2, FS_EmptySet
<1>4. ASSUME NEW p \in Players
      PROVE  ActiveBombs(world, p) = 0
  <2>1. {c \in DOMAIN world.bombs : world.bombs[c].owner = p} = {}
    BY <1>2
  <2> QED BY <2>1, FS_EmptySet DEF ActiveBombs
<1>5. Counted(world)
  BY <1>2, <1>3, <1>4, ArenaConstants DEF Counted, NewPlayer
<1> QED BY <1>1, <1>2, <1>3, <1>5 DEF Sound

\* The bombs are counted in the worlds before the explosions.
LEMMA BeforeCounts ==
  ASSUME NEW w, NEW actions, NEW order, NEW kicked, NEW s,
         Stages(w, actions, order, kicked, s), Sound(w)
  PROVE  Shaped(s.before) /\ Counted(s.before)
<1>1. s.start = w /\ Shaped(s.start) /\ Counted(s.start)
  BY DEF Stages, Sound
<1>2. s.counted = RefreshBombInventory(s.start) /\ Counted(s.counted)
  BY <1>1, InventoryCounts DEF Stages
<1>3. Shaped(s.counted)
  BY <1>1, <1>2, RefreshBombInventoryEffect
<1>4. /\ s.dated = UpdateClocks(s.counted) /\ s.timed = UpdateTimers(s.dated)
      /\ s.animated = Animator(s.timed)
      /\ s.acted = ApplyPlayerAction(s.animated, actions)
      /\ s.reduced = ArenaReduction(s.acted)
      /\ s.sealed = UpdateFallingBlocks(s.reduced)
      /\ s.before = TriggerCrushedTimers(s.sealed)
  BY DEF Stages
<1>5. Shaped(s.dated) /\ Same(s.counted, s.dated, {"date"})
  BY <1>3, <1>4, UpdateClocksEffect
<1>6. /\ Shaped(s.timed)
      /\ Same(s.dated, s.timed, {"timer", "blocks", "invincible", "invisible",
                                 "clock", "fog"})
  BY <1>4, <1>5, UpdateTimersEffect
<1>7. /\ Shaped(s.animated)
      /\ Same(s.timed, s.animated, {"players", "crates", "flames", "dead"})
      /\ SamePlayers(s.timed, s.animated, {"elapsed"})
  BY <1>4, <1>6, AnimatorEffect
<1>8. Counted(s.animated)
  <2>1. /\ s.animated.bombs = s.counted.bombs
        /\ s.timed.players = s.counted.players
    BY <1>5, <1>6, <1>7 DEF Same, Fields
  <2>2. SamePlayers(s.counted, s.animated, {"position", "state", "elapsed", "queue"})
    BY <1>7, <2>1 DEF SamePlayers
  <2> QED BY <1>2, <2>1, <2>2, CountedStays
<1>9. Counted(s.acted) /\ Shaped(s.acted)
  BY <1>4, <1>7, <1>8, ActionsCount, ApplyPlayerActionEffect DEF Acted
<1>10. /\ Shaped(s.reduced)
       /\ Same(s.acted, s.reduced, {"clock", "nextFall", "blocks"})
  BY <1>4, <1>9, ArenaReductionEffect
<1>11. /\ Shaped(s.sealed)
       /\ Same(s.reduced, s.sealed, {"blocks", "crushed", "map", "walls"})
  BY <1>4, <1>10, UpdateFallingBlocksEffect
<1>12. Shaped(s.before) /\ Same(s.sealed, s.before, {"timer"})
  BY <1>4, <1>11, TriggerCrushedTimersEffect
<1>13. Counted(s.before)
  <2>1. s.before.bombs = s.acted.bombs /\ s.before.players = s.acted.players
    BY <1>10, <1>11, <1>12 DEF Same, Fields
  <2> QED BY <1>9, <2>1 DEF Counted, ActiveBombs
<1> QED BY <1>12, <1>13

\* A tick has its frames.
LEMMA TickHasFrames ==
  ASSUME NEW actions, Ticked(actions), Sound(world)
  PROVE  \E order, kicked, s :
           /\ Stages(world, actions, order, kicked, s) /\ Frames(s)
           /\ order \in SetToSeqs(Exploding(Triggered(s.before)))
           /\ \E n \in Nat : DOMAIN order = 1..n
           /\ kicked \subseteq DOMAIN world.players
           /\ \A p \in kicked : Player(p) \notin s.before.dead
           /\ world' = s.done /\ result' = CheckGameOver(world')
           /\ Counted(s.before)
<1>1. PICK order, kicked, s :
        /\ Stages(world, actions, order, kicked, s)
        /\ order \in SetToSeqs(Exploding(Triggered(s.before)))
        /\ kicked \subseteq DOMAIN world.players
        /\ \A p \in kicked : Player(p) \notin s.before.dead
        /\ world' = s.done /\ result' = CheckGameOver(world')
  BY TickHasStages
<1>2. Shaped(s.before) /\ Counted(s.before) /\ Shaped(world)
  BY <1>1, BeforeCounts DEF Sound
<1>3. \E n \in Nat : DOMAIN order = 1..n
  <2>1. Triggered(s.before).bombs = s.before.bombs
    BY <1>2, TriggeredEffect DEF Same, Fields
  <2>2. IsFiniteSet(Exploding(Triggered(s.before)))
    BY <1>2, <2>1, FS_Subset DEF Exploding, Counted
  <2>3. DOMAIN order = 1 .. Cardinality(Exploding(Triggered(s.before)))
    BY <1>1 DEF SetToSeqs
  <2> QED BY <2>2, <2>3, FS_CardinalityType
<1>4. Frames(s)
  BY <1>1, <1>2, <1>3, StagesHaveFrames
<1> QED BY <1>1, <1>2, <1>3, <1>4

\* A tick leaves a sound world.
LEMMA TickKeepsSound ==
  ASSUME NEW actions, Ticked(actions), Sound(world)
  PROVE  Sound(world)'
<1>1. PICK order, kicked, s :
        /\ Stages(world, actions, order, kicked, s) /\ Frames(s)
        /\ world' = s.done /\ Counted(s.before)
  BY TickHasFrames
<1>2. Counted(s.cleared)
  <2>1. s.cleared.bombs = s.before.bombs /\ s.cleared.players = s.before.players
    BY <1>1 DEF Frames, Same, Fields
  <2> QED BY <1>1, <2>1 DEF Counted, ActiveBombs
<1>3. Counted(s.picked)
  BY <1>1, <1>2, PickUpsCount DEF Stages, Frames
<1>4. Counted(s.fogged)
  <2>1. /\ s.fogged.bombs = s.picked.bombs
        /\ s.fogged.players = s.judged.players
    BY <1>1 DEF Frames, Same, Fields
  <2>2. SamePlayers(s.picked, s.fogged, {"position", "state", "elapsed", "queue"})
    BY <1>1, <2>1 DEF Frames, SamePlayers
  <2> QED BY <1>3, <2>1, <2>2, CountedStays
<1> DEFINE gone == s.fogged.dead \cup s.fogged.crushed
           here == {p \in DOMAIN s.fogged.players : Player(p) \notin gone}
<1>5. /\ s.done.players = Restrict(s.fogged.players, here)
      /\ s.done.bombs = Restrict(s.fogged.bombs,
                                 Remaining(DOMAIN s.fogged.bombs, "bomb", gone))
      /\ s.done.invincible = Restrict(s.fogged.invincible,
                                      DOMAIN s.fogged.invincible \cap here)
  <2>1. s.done = RemoveDeadObjects(s.fogged) /\ Shaped(s.fogged)
    BY <1>1 DEF Stages, Frames
  <2>2. Removes(s.fogged, s.done)
    BY <2>1, RemoveDeadObjectsEffect
  <2> QED BY <2>2 DEF Removes
<1>6. here \subseteq DOMAIN s.fogged.players
  OBVIOUS
<1> HIDE DEF gone, here
<1>7. Counted(s.done)
  <2>1. /\ DOMAIN s.done.bombs \subseteq DOMAIN s.fogged.bombs
        /\ \A c \in DOMAIN s.done.bombs : s.done.bombs[c] = s.fogged.bombs[c]
    BY <1>5 DEF Restrict, Remaining
  <2>2. /\ IsFiniteSet(DOMAIN s.done.bombs)
        /\ \A p : ActiveBombs(s.done, p) <= ActiveBombs(s.fogged, p)
    BY <1>4, <2>1, FewerBombs DEF Counted
  <2>3. \A p : ActiveBombs(s.done, p) \in Nat /\ ActiveBombs(s.fogged, p) \in Nat
    BY <1>4, <2>2, BombsOfPlayer DEF Counted
  <2>4. /\ DOMAIN s.done.players = here
        /\ \A p \in here : s.done.players[p] = s.fogged.players[p]
    BY <1>5 DEF Restrict
  <2>5. ASSUME NEW p \in here
        PROVE  ActiveBombs(s.done, p) + s.done.players[p].available
                 <= s.done.players[p].capacity
    <3>1. /\ s.fogged.players[p].available \in Nat
          /\ s.fogged.players[p].capacity \in Int
          /\ ActiveBombs(s.fogged, p) + s.fogged.players[p].available
               <= s.fogged.players[p].capacity
      BY <1>4, <1>6 DEF Counted
    <3> QED BY <2>2, <2>3, <2>4, <3>1
  <2> QED BY <1>4, <1>6, <2>2, <2>4, <2>5 DEF Counted
<1>8. DOMAIN s.done.players \subseteq Players
  <2>1. DOMAIN s.fogged.players = DOMAIN s.start.players
    BY <1>1 DEF Frames, Acted, PickedUp, Same, SamePlayers, Fields
  <2>2. s.start = world
    BY <1>1 DEF Stages
  <2> QED BY <1>5, <1>6, <2>1, <2>2 DEF Sound, Restrict
<1>9. \A p \in DOMAIN s.done.invincible : s.done.invincible[p] \in Nat
  <2>1. s.start = world /\ s.dated.invincible = s.start.invincible
    BY <1>1 DEF Stages, Frames, Same, Fields
  <2>2. s.timed.invincible = Decreased(s.dated.invincible)
    <3>1. s.timed = UpdateTimers(s.dated) /\ Shaped(s.dated)
      BY <1>1 DEF Stages, Frames
    <3> QED BY <3>1, UpdateTimersEffect
  <2>3. \A p \in DOMAIN s.timed.invincible : s.timed.invincible[p] \in Nat
    BY <2>1, <2>2 DEF Decreased, Sound
  <2>4. s.lit.invincible = s.timed.invincible
    BY <1>1 DEF Frames, Acted, Same, Fields
  <2>5. \E safe \in SUBSET DOMAIN s.lit.invincible :
          s.saved.invincible = Restrict(s.lit.invincible, safe)
    <3>1. s.saved = UpdateInvincibilityState(s.lit) /\ Shaped(s.lit)
      BY <1>1 DEF Stages, Frames
    <3> QED BY <3>1, UpdateInvincibilityStateEffect
  <2>6. \A p \in DOMAIN s.saved.invincible : s.saved.invincible[p] \in Nat
    BY <2>3, <2>4, <2>5 DEF Restrict
  <2>7. \E hit : s.shielded.invincible = Over([p \in hit |-> InvincibleDuration],
                                             s.saved.invincible)
    <3>1. s.shielded = UpdateShields(s.saved) /\ Shaped(s.saved)
      BY <1>1 DEF Stages, Frames
    <3> QED BY <3>1, UpdateShieldsEffect
  <2>8. \A p \in DOMAIN s.shielded.invincible : s.shielded.invincible[p] \in Nat
    BY <2>6, <2>7, ArenaConstants DEF Over
  <2>9. s.fogged.invincible = s.shielded.invincible
    BY <1>1 DEF Frames, PickedUp, Same, Fields
  <2> QED BY <1>5, <2>8, <2>9 DEF Restrict
<1> QED BY <1>1, <1>7, <1>8, <1>9 DEF Sound, Frames

\* The inductive invariant of the bombs and of the shields.
THEOREM SoundInvariant == Spec => []Sound(world)
<1>1. Init => Sound(world)
  BY InitSound
<1>2. Sound(world) /\ [Next]_vars => Sound(world)'
  <2>1. CASE Next
    BY <2>1, TickKeepsSound DEF Next, Tick
  <2>2. CASE UNCHANGED vars
    BY <2>2 DEF vars
  <2> QED BY <2>1, <2>2
<1> QED BY <1>1, <1>2, PTL DEF Spec

\* A player never has more bombs in the arena than it may have, whatever the
\* players drop, pick up and burn (refresh_bomb_inventory, drop_bomb).
THEOREM BombsAreCounted == Spec => []BombsCounted
<1>1. Sound(world) => BombsCounted
  BY DEF Sound, Counted, BombsCounted
<1> QED BY <1>1, SoundInvariant, PTL

-----------------------------------------------------------------------------
(* The shields.                                                            *)

\* The fire does not start to burn a player who is protected, in any tick.
LEMMA TickProtects ==
  ASSUME NEW actions, Ticked(actions), Sound(world),
         NEW p \in DOMAIN world.players \cap DOMAIN world'.players,
         \/ p \in world.shields
         \/ p \in DOMAIN world.invincible /\ world.invincible[p] > 1
  PROVE  ~(Alive(world, p) /\ world'.players[p].state = "burn")
<1>1. PICK order, kicked, s :
        /\ Stages(world, actions, order, kicked, s) /\ Frames(s)
        /\ world' = s.done
  BY TickHasFrames
<1>2. s.start = world
  BY <1>1 DEF Stages
<1>3. Player(p) \notin s.shielded.burning
  <2>1. /\ s.saved = UpdateInvincibilityState(s.lit) /\ Shaped(s.lit)
        /\ s.shielded = UpdateShields(s.saved) /\ Shaped(s.saved)
    BY <1>1 DEF Stages, Frames
  <2>2. /\ s.saved.burning =
             s.lit.burning \ {Player(q) : q \in {q \in DOMAIN s.lit.invincible :
                                                  s.lit.invincible[q] # 0}}
        /\ s.shielded.burning =
             s.saved.burning \ {Player(q) : q \in {q \in s.saved.shields :
                                            Player(q) \in s.saved.burning}}
    BY <2>1, UpdateInvincibilityStateEffect, UpdateShieldsEffect
  <2>3. CASE p \in world.shields
    <3>1. s.saved.shields = s.start.shields
      BY <1>1 DEF Frames, Acted, Same, Fields
    <3> QED BY <1>2, <2>2, <2>3, <3>1
  <2>4. CASE p \in DOMAIN world.invincible /\ world.invincible[p] > 1
    <3>1. /\ s.dated.invincible = s.start.invincible
          /\ s.lit.invincible = s.timed.invincible
      BY <1>1 DEF Frames, Acted, Same, Fields
    <3>2. s.timed.invincible = Decreased(s.dated.invincible)
      <4>1. s.timed = UpdateTimers(s.dated) /\ Shaped(s.dated)
        BY <1>1 DEF Stages, Frames
      <4> QED BY <4>1, UpdateTimersEffect
    <3>3. world.invincible[p] \in Nat
      BY <2>4 DEF Sound
    <3>4. p \in DOMAIN s.lit.invincible /\ s.lit.invincible[p] # 0
      BY <1>2, <2>4, <3>1, <3>2, <3>3 DEF Decreased
    <3> QED BY <2>2, <3>4
  <2> QED BY <2>3, <2>4
<1>4. Player(p) \notin s.picked.burning
  <2>1. s.picked.burning = s.shielded.burning
    BY <1>1 DEF Frames, PickedUp, Same, Fields
  <2> QED BY <1>3, <2>1
<1>5. /\ p \in DOMAIN s.picked.players
      /\ s.picked.players[p].state = s.start.players[p].state
  <2>1. /\ s.dated.players = s.counted.players
        /\ s.timed.players = s.dated.players
        /\ s.reduced.players = s.acted.players
        /\ s.cleared.players = s.acted.players
    BY <1>1 DEF Frames, Same, Fields
  <2> QED BY <1>1, <1>2, <2>1
          DEF Frames, Acted, PickedUp, SamePlayers, PlayerFields
<1>6. s.judged.players[p].state # "burn" \/ s.start.players[p].state # "alive"
  <2>1. s.judged = UpdatePlayers(s.picked, kicked) /\ Shaped(s.picked)
    BY <1>1 DEF Stages, Frames
  <2>2. s.judged.players[p].state =
          IF s.picked.players[p].state # "alive" THEN s.picked.players[p].state
          ELSE IF Player(p) \in s.picked.burning THEN "burn"
          ELSE IF Player(p) \in s.picked.crushed THEN "die"
          ELSE "alive"
    BY <1>5, <2>1, UpdatePlayersEffect
  <2> QED BY <1>4, <1>5, <2>2
<1>7. s.done.players[p] = s.judged.players[p]
  <2>1. s.done = RemoveDeadObjects(s.fogged) /\ Shaped(s.fogged)
    BY <1>1 DEF Stages, Frames
  <2>2. Removes(s.fogged, s.done)
    BY <2>1, RemoveDeadObjectsEffect
  <2>3. PICK here : s.done.players = Restrict(s.fogged.players, here)
    BY <2>2 DEF Removes
  <2>4. s.fogged.players = s.judged.players
    BY <1>1 DEF Frames, Same, Fields
  <2> QED BY <1>1, <2>3, <2>4 DEF Restrict
<1> QED BY <1>1, <1>2, <1>6, <1>7 DEF Alive

\* The fire does not start to burn a player who had a shield or who is invincible
\* for more than a tick (update_shields, update_invincibility_state).
THEOREM ShieldsAlwaysProtect == Spec => ShieldsProtect
<1> DEFINE Protected ==
             \A p \in DOMAIN world.players \cap DOMAIN world'.players :
               \/ p \in world.shields
               \/ p \in DOMAIN world.invincible /\ world.invincible[p] > 1
               => ~(Alive(world, p) /\ world'.players[p].state = "burn")
<1>1. Sound(world) /\ [Next]_vars => [Protected]_vars
  BY TickProtects DEF Next, Tick
<1>2. ShieldsProtect <=> [][Protected]_vars
  BY DEF ShieldsProtect
<1> HIDE DEF Protected
<1> QED BY <1>1, <1>2, SoundInvariant, PTL DEF Spec

-----------------------------------------------------------------------------
(* The promise of Survival.                                                *)

\* What becomes of the players in a tick.
LEMMA TickFates ==
  ASSUME NEW actions, Ticked(actions), Sound(world)
  PROVE  /\ DOMAIN world'.players \subseteq DOMAIN world.players
         /\ \A p \in DOMAIN world'.players : Alive(world, p)' => Alive(world, p)
         /\ result' = CheckGameOver(world')
<1>1. PICK order, kicked, s :
        /\ Stages(world, actions, order, kicked, s) /\ Frames(s)
        /\ world' = s.done /\ result' = CheckGameOver(world')
  BY TickHasFrames
<1>2. s.start = world
  BY <1>1 DEF Stages
<1>3. /\ DOMAIN s.picked.players = DOMAIN world.players
      /\ \A p \in DOMAIN world.players :
           s.picked.players[p].state = world.players[p].state
  <2>1. /\ s.dated.players = s.counted.players
        /\ s.timed.players = s.dated.players
        /\ s.reduced.players = s.acted.players
        /\ s.cleared.players = s.acted.players
    BY <1>1 DEF Frames, Same, Fields
  <2> QED BY <1>1, <1>2, <2>1
          DEF Frames, Acted, PickedUp, SamePlayers, PlayerFields
<1>4. /\ DOMAIN s.judged.players = DOMAIN s.picked.players
      /\ \A p \in DOMAIN s.picked.players :
           s.judged.players[p].state = "alive" => s.picked.players[p].state = "alive"
  <2>1. s.judged = UpdatePlayers(s.picked, kicked) /\ Shaped(s.picked)
    BY <1>1 DEF Stages, Frames
  <2>2. \A p \in DOMAIN s.picked.players :
          s.judged.players[p].state =
            IF s.picked.players[p].state # "alive" THEN s.picked.players[p].state
            ELSE IF Player(p) \in s.picked.burning THEN "burn"
            ELSE IF Player(p) \in s.picked.crushed THEN "die"
            ELSE "alive"
    BY <2>1, UpdatePlayersEffect
  <2> QED BY <1>1, <2>2 DEF Frames, SamePlayers
<1>5. PICK here : /\ here \subseteq DOMAIN s.judged.players
                  /\ s.done.players = Restrict(s.judged.players, here)
  <2>1. s.done = RemoveDeadObjects(s.fogged) /\ Shaped(s.fogged)
    BY <1>1 DEF Stages, Frames
  <2>2. Removes(s.fogged, s.done)
    BY <2>1, RemoveDeadObjectsEffect
  <2>3. PICK here : /\ s.done.players = Restrict(s.fogged.players, here)
                    /\ here \subseteq DOMAIN s.fogged.players
    BY <2>2 DEF Removes
  <2>4. s.fogged.players = s.judged.players
    BY <1>1 DEF Frames, Same, Fields
  <2> QED BY <2>3, <2>4
<1> QED BY <1>1, <1>3, <1>4, <1>5 DEF Alive, Restrict

\* The names of the players, and the results, are told apart.
LEMMA NamesAreDistinct ==
  /\ \A p, q : Player(p) = Player(q) => p = q
  /\ \A p : Player(p)[2] = p
BY DEF Player

Named == {Player(p) : p \in Players}

\* The result follows from who is there.
LEMMA GameOverIsVerdict ==
  ASSUME Sound(world)', result' = CheckGameOver(world')
  PROVE  Promise!Verdict
<1> DEFINE here == DOMAIN world'.players
           alive == Promise!Among("alive")'
           dying == Promise!Among("dying")'
<1>1. /\ alive = {Player(p) : p \in {p \in here : world'.players[p].state = "alive"}}
      /\ dying = {Player(p) : p \in {p \in here : world'.players[p].state # "alive"}}
  <2>1. here \subseteq Players
    BY DEF Sound
  <2> QED BY <2>1, NamesAreDistinct DEF Promise!Among, Status, Alive
<1>2. IsFiniteSet(here) /\ Cardinality(here) \in Nat
  <2>1. here \subseteq 0 .. PlayerCount - 1 /\ PlayerCount \in Int
    BY GridConstants DEF Sound, Players
  <2>2. IsFiniteSet(0 .. PlayerCount - 1)
    BY <2>1, FS_Interval
  <2> QED BY <2>1, <2>2, FS_Subset, FS_CardinalityType
<1> HIDE DEF alive, dying
<1>3. CASE dying # {}
  <2>1. \E p \in here : ~Alive(world', p)
    BY <1>1, <1>3 DEF Alive
  <2>2. result' = Running
    BY <2>1 DEF CheckGameOver
  <2> QED BY <1>3, <2>2 DEF Promise!Verdict, dying
<1>4. CASE dying = {}
  <2>1. /\ alive = {Player(p) : p \in here}
        /\ \A p \in here : Alive(world', p)
    BY <1>1, <1>4 DEF Alive
  <2>2. result' = IF here = {} THEN Draw
                  ELSE IF Cardinality(here) = 1
                  THEN Player(CHOOSE p \in here : TRUE)
                  ELSE IF ReductionDelay = 0 /\ world'.clock = 0 THEN Draw
                  ELSE Running
    BY <2>1 DEF CheckGameOver
  <2>3. CASE here = {}
    <3>1. alive = {} /\ result' = Draw
      BY <2>1, <2>2, <2>3
    <3> QED BY <1>4, <3>1 DEF Promise!Verdict, alive, dying
  <2>4. CASE here # {} /\ \E a \in alive : alive = {a}
    <3>1. PICK a : alive = {a}
      BY <2>4
    <3>2. PICK p \in here : a = Player(p)
      BY <2>1, <3>1
    <3>3. \A q \in here : Player(q) = Player(p)
      BY <2>1, <3>1, <3>2
    <3>4. here = {p}
      BY <3>3, NamesAreDistinct
    <3>5. Cardinality(here) = 1
      BY <3>4, FS_Singleton
    <3>6. result' \in alive
      BY <2>1, <2>2, <2>4, <3>4, <3>5
    <3> QED BY <1>4, <2>4, <3>6 DEF Promise!Verdict, alive, dying
  <2>5. CASE here # {} /\ ~\E a \in alive : alive = {a}
    <3>1. Cardinality(here) # 1
      <4>1. ~\E p : here = {p}
        BY <2>1, <2>5
      <4> QED BY <1>2, <4>1, FS_Singleton
    <3>2. result' \in {Running, Draw} /\ alive # {}
      BY <2>1, <2>2, <2>5, <3>1
    <3> QED BY <1>4, <2>5, <3>2 DEF Promise!Verdict, alive, dying
  <2> QED BY <2>3, <2>4, <2>5
<1> QED BY <1>3, <1>4

\* Every tick is a step of Survival.
LEMMA TickIsAStep ==
  ASSUME NEW actions, Ticked(actions), Sound(world), result = Running
  PROVE  Promise!Step
<1>1. Sound(world)'
  BY TickKeepsSound
<1>2. /\ DOMAIN world'.players \subseteq DOMAIN world.players
      /\ \A p \in DOMAIN world'.players : Alive(world, p)' => Alive(world, p)
      /\ result' = CheckGameOver(world')
  BY TickFates
<1>3. Promise!Verdict
  BY <1>1, <1>2, GameOverIsVerdict
<1> DEFINE status == [e \in Named |-> Status[e[2]]]
<1>4. status' \in [Named -> Promise!Status]
  BY NamesAreDistinct DEF Status, Promise!Status, Named
<1>5. ASSUME NEW e \in Named
      PROVE  Promise!Fate(e)
  <2>1. PICK p \in Players : e = Player(p) /\ e[2] = p
    BY NamesAreDistinct DEF Named
  <2>2. Status[p] \in Promise!Status /\ Status'[p] \in Promise!Status
    BY DEF Status, Promise!Status
  <2>3. status[e] = Status[p] /\ status'[e] = Status'[p]
    BY <2>1
  <2>4. Status[p] = "dying" => Status'[p] \in {"dying", "gone"}
    BY <1>2 DEF Status, Alive
  <2>5. Status[p] = "gone" => Status'[p] = "gone"
    BY <1>2 DEF Status
  <2> QED BY <2>2, <2>3, <2>4, <2>5 DEF Promise!Fate, Promise!Status, Named
<1> QED BY <1>3, <1>4, <1>5 DEF Promise!Step, Named

\* The arena keeps the promise of Survival: each tick is one of its steps, or
\* changes nothing of what it tells (update_players, check_game_over).
THEOREM ArenaImplementsSurvival == Spec => SurvivalImplemented
<1>1. Init => Promise!Init
  BY NamesAreDistinct DEF Init, Promise!Init, Status, Alive, NewPlayer
<1>2. Sound(world) /\ [Next]_vars => [Promise!Step]_(Promise!vars)
  <2>1. CASE Next /\ Sound(world)
    BY <2>1, TickIsAStep DEF Next, Tick
  <2>2. CASE UNCHANGED vars
    BY <2>2 DEF vars, Promise!vars, Status, Alive
  <2> QED BY <2>1, <2>2
<1> QED BY <1>1, <1>2, SoundInvariant, PTL
        DEF Spec, SurvivalImplemented, Promise!Spec

-----------------------------------------------------------------------------
(* The edges of the fog.                                                   *)

FogFields == {"state", "opacity", "beside", "timer"}
FogStates == {"roll_in", "stable", "blown", "restore", "hiding"}

\* The fog of a cell.
FogTyped(fog) ==
  \A c \in DOMAIN fog : DOMAIN fog[c] = FogFields /\ fog[c].state \in FogStates

FogSound(fog) == FogTyped(fog) /\ FogEdges(fog)

\* Nothing goes on in the cells that the fog leaves.
LEMMA LeavingIsSound ==
  ASSUME NEW fog, FogSound(fog), NEW cells, NEW state \in {"blown", "hiding"},
         NEW duration
  PROVE  FogSound(Leaves(fog, cells, state, duration))
<1> DEFINE changed == Changed(fog, cells, state, duration)
           v == Uncover(changed, cells)
<1>1. /\ DOMAIN changed = DOMAIN fog
      /\ \A c \in DOMAIN fog :
           /\ DOMAIN changed[c] = FogFields
           /\ changed[c].beside = fog[c].beside
           /\ changed[c].state = IF c \in cells THEN state ELSE fog[c].state
  BY DEF Changed, FogSound, FogTyped, FogFields
<1> HIDE DEF changed
<1>2. /\ DOMAIN v = DOMAIN fog
      /\ \A c \in DOMAIN fog :
           /\ DOMAIN v[c] = FogFields
           /\ v[c].beside = fog[c].beside \ cells
           /\ v[c].state = IF c \in cells THEN state ELSE fog[c].state
  BY <1>1 DEF Uncover, FogFields
<1>3. Leaves(fog, cells, state, duration) = v
  BY DEF Leaves, changed
<1> HIDE DEF v
<1>4. FogTyped(v)
  BY <1>2 DEF FogSound, FogTyped, FogStates
<1>5. ASSUME NEW c \in DOMAIN v
      PROVE  v[c].beside = {n \in Neighbors(v, c) :
                              v[n].state \in {"roll_in", "stable"}}
  <2>1. fog[c].beside = {n \in Neighbors(fog, c) :
                           fog[n].state \in {"roll_in", "stable"}}
    BY <1>2 DEF FogSound, FogEdges
  <2>2. /\ Neighbors(v, c) = Neighbors(fog, c)
        /\ Neighbors(fog, c) \subseteq DOMAIN fog
    BY <1>2 DEF Neighbors
  <2> QED BY <1>2, <2>1, <2>2
<1> QED BY <1>3, <1>4, <1>5 DEF FogSound, FogEdges

\* The fog comes back, or has come back.
LEMMA OpacityIsSound ==
  ASSUME NEW fog, FogSound(fog), NEW blown
  PROVE  FogSound(OpacityFromTimers(fog, blown))
<1> DEFINE settled(c) == fog[c].state \in {"roll_in", "restore"} /\ fog[c].timer = 0
           duration(c) == IF fog[c].state = "roll_in" THEN RollInDuration
                          ELSE FogRestoreDuration
           next(c) ==
             CASE fog[c].state = "stable" -> fog[c]
               [] fog[c].state = "blown" ->
                    IF c \notin blown /\ fog[c].timer = 0
                    THEN [fog[c] EXCEPT !.opacity = 0, !.state = "restore",
                                        !.timer = FogRestoreDuration]
                    ELSE [fog[c] EXCEPT
                            !.opacity = Fading(fog[c].timer, FogBlowDuration)]
               [] fog[c].state \in {"roll_in", "restore"} ->
                    [fog[c] EXCEPT
                       !.state = IF settled(c) THEN "stable" ELSE @,
                       !.opacity = Growing(fog[c].timer, duration(c))]
               [] fog[c].state = "hiding" ->
                    [fog[c] EXCEPT
                       !.opacity = Fading(fog[c].timer, FogHideDuration)]
           v == [c \in DOMAIN fog |->
                   [next(c) EXCEPT
                      !.beside = @ \cup {n \in Neighbors(fog, c) : settled(n)}]]
<1>1. ASSUME NEW c \in DOMAIN fog
      PROVE  /\ DOMAIN next(c) = FogFields /\ next(c).beside = fog[c].beside
             /\ next(c).state \in FogStates
             /\ next(c).state \in {"roll_in", "stable"} <=>
                  \/ fog[c].state \in {"roll_in", "stable"}
                  \/ settled(c)
  <2>1. DOMAIN fog[c] = FogFields /\ fog[c].state \in FogStates
    BY DEF FogSound, FogTyped
  <2>2. CASE fog[c].state = "stable"
    BY <2>1, <2>2
  <2>3. CASE fog[c].state = "blown"
    BY <2>1, <2>3 DEF FogFields, FogStates
  <2>4. CASE fog[c].state = "roll_in"
    BY <2>1, <2>4 DEF FogFields, FogStates
  <2>5. CASE fog[c].state = "restore"
    BY <2>1, <2>5 DEF FogFields, FogStates
  <2>6. CASE fog[c].state = "hiding"
    BY <2>1, <2>6 DEF FogFields, FogStates
  <2> QED BY <2>1, <2>2, <2>3, <2>4, <2>5, <2>6 DEF FogStates
<1>2. OpacityFromTimers(fog, blown) = v
  BY DEF OpacityFromTimers
<1> HIDE DEF next
<1>3. /\ DOMAIN v = DOMAIN fog
      /\ \A c \in DOMAIN fog :
           /\ DOMAIN v[c] = FogFields
           /\ v[c].beside = fog[c].beside
                            \cup {n \in Neighbors(fog, c) : settled(n)}
           /\ v[c].state = next(c).state
  BY <1>1 DEF FogFields
<1> HIDE DEF v
<1>4. FogTyped(v)
  BY <1>1, <1>3 DEF FogTyped
<1>5. ASSUME NEW c \in DOMAIN v
      PROVE  v[c].beside = {n \in Neighbors(v, c) :
                              v[n].state \in {"roll_in", "stable"}}
  <2>1. fog[c].beside = {n \in Neighbors(fog, c) :
                           fog[n].state \in {"roll_in", "stable"}}
    BY <1>3 DEF FogSound, FogEdges
  <2>2. /\ Neighbors(v, c) = Neighbors(fog, c)
        /\ Neighbors(fog, c) \subseteq DOMAIN fog
    BY <1>3 DEF Neighbors
  <2>3. \A n \in Neighbors(fog, c) :
          v[n].state \in {"roll_in", "stable"} <=>
            fog[n].state \in {"roll_in", "stable"} \/ settled(n)
    BY <1>1, <1>3, <2>2
  <2> HIDE DEF settled
  <2> QED BY <1>3, <2>1, <2>2, <2>3
<1> QED BY <1>2, <1>4, <1>5 DEF FogSound, FogEdges

\* A tick of the fog of a player, and the timers.
LEMMA UpdateFogIsSound ==
  ASSUME NEW fog, FogSound(fog), NEW at, NEW flames
  PROVE  FogSound(UpdateFog(fog, at, flames))
<1> DEFINE seen == UncoverAroundPlayer(fog, at)
           blown == IF PlayerCount <= 2 THEN flames ELSE {}
           left == UncoverAroundFlames(seen, blown)
<1>1. FogSound(seen)
  BY LeavingIsSound DEF UncoverAroundPlayer, HideFog
<1> HIDE DEF seen
<1>2. FogSound(left)
  BY <1>1, LeavingIsSound DEF UncoverAroundFlames, BlowFog
<1>3. UpdateFog(fog, at, flames) = OpacityFromTimers(left, blown)
  BY DEF UpdateFog, seen
<1> HIDE DEF left, blown
<1> QED BY <1>2, <1>3, OpacityIsSound

\* The timers keep the fog of a player sound.
LEMMA FogTimersAreSound ==
  ASSUME NEW fog, FogSound(fog)
  PROVE  FogSound(FogTimers(fog))
<1> DEFINE v == FogTimers(fog)
<1>1. /\ DOMAIN v = DOMAIN fog
      /\ \A c \in DOMAIN fog : /\ DOMAIN v[c] = FogFields
                               /\ v[c].beside = fog[c].beside
                               /\ v[c].state = fog[c].state
  BY DEF FogTimers, FogSound, FogTyped, FogFields
<1> HIDE DEF v
<1>2. \A c : Neighbors(v, c) = Neighbors(fog, c)
             /\ Neighbors(fog, c) \subseteq DOMAIN fog
  BY <1>1 DEF Neighbors
<1>3. ASSUME NEW c \in DOMAIN v
      PROVE  v[c].beside = {n \in Neighbors(v, c) :
                              v[n].state \in {"roll_in", "stable"}}
  BY <1>1, <1>2 DEF FogSound, FogEdges
<1>4. FogTyped(v)
  BY <1>1 DEF FogTyped, FogSound
<1> QED BY <1>3, <1>4 DEF FogSound, FogEdges, v

\* The fog at the beginning.
LEMMA NewFogIsSound ==
  ASSUME NEW at, NEW excluded
  PROVE  FogSound(NewFog(at, excluded))
<1> DEFINE fog == NewFog(at, excluded)
           foggy == Cells \ (Around(at) \cup excluded)
<1>1. /\ DOMAIN fog = foggy
      /\ \A c \in foggy : /\ DOMAIN fog[c] = FogFields
                          /\ fog[c].state = "roll_in"
                          /\ fog[c].beside = (Around(c) \cap foggy) \ {c}
  BY DEF NewFog, FogFields
<1> HIDE DEF fog, foggy
<1>2. FogTyped(fog)
  BY <1>1 DEF FogTyped, FogStates
<1>3. ASSUME NEW c \in DOMAIN fog
      PROVE  fog[c].beside = {n \in Neighbors(fog, c) :
                                fog[n].state \in {"roll_in", "stable"}}
  BY <1>1 DEF Neighbors
<1> QED BY <1>2, <1>3 DEF FogSound, FogEdges, fog

FogsSound(w) == \A p \in Players : FogSound(w.fog[p])

\* The first fogs are sound.
LEMMA InitFogs == Init => FogsSound(world)
<1> SUFFICES ASSUME Init, NEW p \in Players
             PROVE  FogSound(world.fog[p])
  BY DEF FogsSound
<1>1. PICK excluded : world.fog[p] = IF FogOfWar THEN NewFog(StartCell(p), excluded)
                                     ELSE <<>>
  BY DEF Init
<1>2. FogSound(<<>>)
  BY DEF FogSound, FogTyped, FogEdges
<1> QED BY <1>1, <1>2, NewFogIsSound

\* A tick keeps the fogs sound.
LEMMA TickKeepsFogs ==
  ASSUME NEW actions, Ticked(actions), Sound(world), FogsSound(world)
  PROVE  FogsSound(world)'
<1>1. PICK order, kicked, s :
        /\ Stages(world, actions, order, kicked, s) /\ Frames(s)
        /\ world' = s.done
  BY TickHasFrames
<1>2. FogsSound(s.timed)
  <2>1. s.dated.fog = world.fog
    BY <1>1 DEF Stages, Frames, Same, Fields
  <2>2. s.timed.fog = [p \in Players |-> FogTimers(s.dated.fog[p])]
    <3>1. s.timed = UpdateTimers(s.dated) /\ Shaped(s.dated)
      BY <1>1 DEF Stages, Frames
    <3> QED BY <3>1, UpdateTimersEffect
  <2> QED BY <2>1, <2>2, FogTimersAreSound DEF FogsSound
<1>3. s.judged.fog = s.timed.fog
  BY <1>1 DEF Frames, Acted, PickedUp, Same, Fields
<1>4. FogsSound(s.fogged)
  <2>1. s.fogged = UpdateFogOfWar(s.judged) /\ Shaped(s.judged)
    BY <1>1 DEF Stages, Frames
  <2> DEFINE flames == {f.cell : f \in s.judged.flames}
  <2>2. s.fogged.fog = [p \in Players |->
                          IF p \in DOMAIN s.judged.players
                          THEN UpdateFog(s.judged.fog[p],
                                         PlayerCell(s.judged, p), flames)
                          ELSE s.judged.fog[p]]
    BY <2>1, UpdateFogOfWarEffect
  <2> HIDE DEF flames
  <2>3. \A p \in Players : FogSound(s.judged.fog[p])
    BY <1>2, <1>3 DEF FogsSound
  <2> QED BY <2>2, <2>3, UpdateFogIsSound DEF FogsSound
<1>5. s.done.fog = s.fogged.fog
  BY <1>1 DEF Frames, Same, Fields
<1> QED BY <1>1, <1>4, <1>5 DEF FogsSound

\* Where the bot plays, the fog goes on in the cells where it is, and only
\* there (fog_of_war_updater).
THEOREM FogEdgesAlwaysAgree == BotSpec => []FogEdgesAgree
<1> DEFINE Inv == Sound(world) /\ FogsSound(world)
<1>1. BotInit => Inv
  BY InitSound, InitFogs DEF BotInit
<1>2. Inv /\ [BotTick]_botVars => Inv'
  <2>1. CASE BotTick /\ Inv
    <3>1. PICK actions : Ticked(actions)
      BY <2>1 DEF BotTick
    <3> QED BY <2>1, <3>1, TickKeepsSound, TickKeepsFogs
  <2>2. CASE UNCHANGED botVars
    BY <2>2 DEF botVars, FogsSound
  <2> QED BY <2>1, <2>2
<1>3. Inv => FogEdgesAgree
  BY DEF FogsSound, FogSound, FogEdgesAgree
<1> HIDE DEF Inv
<1> QED BY <1>1, <1>2, <1>3, PTL DEF BotSpec

-----------------------------------------------------------------------------
(* The lists of entities, without repetition.                              *)

IsList(s) == s \in Seq(Range(s))

\* The entities of a list.
LEMMA ListRange ==
  ASSUME NEW X, NEW s \in Seq(X)
  PROVE  Range(s) = {s[i] : i \in 1..Len(s)} /\ s \in Seq(Range(s))
<1>1. Range(s) = {s[i] : i \in 1..Len(s)}
  BY DEF Range
<1>2. s \in [1..Len(s) -> Range(s)] /\ Len(s) \in Nat
  BY <1>1
<1> QED BY <1>1, <1>2

\* An entity at the end.
LEMMA AppendToList ==
  ASSUME NEW s, IsList(s), NEW e
  PROVE  LET t == Append(s, e) IN
           /\ IsList(t) /\ Range(t) = Range(s) \cup {e}
           /\ Len(t) = Len(s) + 1 /\ Len(s) \in Nat
           /\ \A i \in 1..Len(s) : t[i] = s[i]
           /\ IsInjective(s) /\ e \notin Range(s) => IsInjective(t)
<1> DEFINE t == Append(s, e)
           X == Range(s) \cup {e}
<1>1. s \in Seq(X)
  BY SeqMonotonic DEF IsList
<1>2. /\ t \in Seq(X) /\ Len(t) = Len(s) + 1 /\ Len(s) \in Nat
      /\ \A i \in 1..Len(s) : t[i] = s[i]
      /\ t[Len(s) + 1] = e
  BY <1>1
<1>3. Range(t) = {t[i] : i \in 1..Len(t)} /\ t \in Seq(Range(t))
  BY <1>2, ListRange
<1>4. Range(s) = {s[i] : i \in 1..Len(s)}
  BY <1>1, ListRange
<1> HIDE DEF t
<1>5. Range(t) = Range(s) \cup {e}
  BY <1>2, <1>3, <1>4
<1>6. ASSUME IsInjective(s), e \notin Range(s)
      PROVE  IsInjective(t)
  <2>1. DOMAIN t = 1..Len(t) /\ DOMAIN s = 1..Len(s)
    BY <1>1, <1>2
  <2>2. ASSUME NEW i \in 1..Len(t), NEW j \in 1..Len(t), t[i] = t[j]
        PROVE  i = j
    <3>1. CASE i \in 1..Len(s) /\ j \in 1..Len(s)
      BY <1>2, <1>6, <2>1, <2>2, <3>1 DEF IsInjective
    <3>2. CASE i = Len(s) + 1 /\ j \in 1..Len(s)
      BY <1>2, <1>4, <1>6, <2>2, <3>2
    <3>3. CASE i \in 1..Len(s) /\ j = Len(s) + 1
      BY <1>2, <1>4, <1>6, <2>2, <3>3
    <3> QED BY <1>2, <3>1, <3>2, <3>3
  <2> QED BY <2>1, <2>2 DEF IsInjective
<1> QED BY <1>2, <1>3, <1>5, <1>6 DEF t, IsList

\* What Without does, entity after entity.
Keeps(g, n, s, gone) ==
  g = [i \in 0..n |->
         IF i = 0 THEN <<>>
         ELSE IF s[i] \in gone THEN g[i - 1] ELSE Append(g[i - 1], s[i])]

\* What is kept of a list is computed item by item.
LEMMA KeepsExists ==
  ASSUME NEW s, NEW gone, NEW n \in Nat
  PROVE  \E g : Keeps(g, n, s, gone)
<1> DEFINE S == {k \in 0..n : \E g : Keeps(g, k, s, gone)}
<1>1. 0 \in S
  <2> DEFINE g == [i \in 0..0 |-> <<>>]
  <2>1. Keeps(g, 0, s, gone)
    BY DEF Keeps
  <2> QED BY <2>1
<1>2. ASSUME NEW k \in 1..n, k - 1 \in S
      PROVE  k \in S
  <2>1. PICK g : Keeps(g, k - 1, s, gone)
    BY <1>2
  <2> DEFINE last == IF s[k] \in gone THEN g[k - 1] ELSE Append(g[k - 1], s[k])
             f == [i \in 0..k |-> IF i = k THEN last ELSE g[i]]
  <2>2. ASSUME NEW i \in 0..k
        PROVE  f[i] = IF i = 0 THEN <<>>
                      ELSE IF s[i] \in gone THEN f[i - 1]
                      ELSE Append(f[i - 1], s[i])
    <3>1. CASE i = k
      <4>1. f[i] = last /\ f[i - 1] = g[k - 1] /\ i # 0
        BY <3>1
      <4> QED BY <3>1, <4>1
    <3>2. CASE i # k
      <4>1. i \in 0 .. k - 1 /\ f[i] = g[i] /\ (i # 0 => f[i - 1] = g[i - 1])
        BY <3>2
      <4>2. g[i] = IF i = 0 THEN <<>>
                   ELSE IF s[i] \in gone THEN g[i - 1]
                   ELSE Append(g[i - 1], s[i])
        BY <2>1, <4>1 DEF Keeps
      <4> QED BY <4>1, <4>2
    <3> QED BY <3>1, <3>2
  <2>3. Keeps(f, k, s, gone)
    <3>1. f = [i \in 0..k |-> f[i]]
      OBVIOUS
    <3> HIDE DEF f
    <3> QED BY <2>2, <3>1 DEF Keeps
  <2> QED BY <2>3
<1> HIDE DEF S
<1>3. 0..n \subseteq S
  BY <1>1, <1>2, Actions!Induction
<1> QED BY <1>3 DEF S

\* It is what Without computes.
LEMMA WithoutSteps ==
  ASSUME NEW s, Len(s) \in Nat, NEW gone
  PROVE  \E g : /\ g[0] = <<>>
                /\ \A i \in 1..Len(s) :
                     g[i] = IF s[i] \in gone THEN g[i - 1]
                            ELSE Append(g[i - 1], s[i])
                /\ Without(s, gone) = g[Len(s)]
<1> DEFINE g == CHOOSE g : Keeps(g, Len(s), s, gone)
<1>1. Keeps(g, Len(s), s, gone)
  BY KeepsExists
<1>2. Without(s, gone) = g[Len(s)]
  BY DEF Without, Keeps
<1> HIDE DEF g
<1>3. ASSUME NEW i \in 0..Len(s)
      PROVE  g[i] = IF i = 0 THEN <<>>
                    ELSE IF s[i] \in gone THEN g[i - 1]
                    ELSE Append(g[i - 1], s[i])
  BY <1>1 DEF Keeps
<1> QED BY <1>2, <1>3

\* What is left, in the same order.
LEMMA WithoutFromList ==
  ASSUME NEW s, IsList(s), NEW gone
  PROVE  LET t == Without(s, gone) IN
           /\ IsList(t) /\ Range(t) = Range(s) \ gone
           /\ IsInjective(s) => IsInjective(t)
           /\ s # <<>> /\ s[1] \notin gone => t # <<>> /\ t[1] = s[1]
<1>1. /\ Len(s) \in Nat /\ DOMAIN s = 1..Len(s)
      /\ Range(s) = {s[i] : i \in 1..Len(s)}
  BY ListRange DEF IsList
<1>2. PICK g : /\ g[0] = <<>>
               /\ \A i \in 1..Len(s) : g[i] = IF s[i] \in gone THEN g[i - 1]
                                              ELSE Append(g[i - 1], s[i])
               /\ Without(s, gone) = g[Len(s)]
  BY <1>1, WithoutSteps
<1> DEFINE Kept(i) ==
             /\ IsList(g[i]) /\ Range(g[i]) = {s[j] : j \in 1..i} \ gone
             /\ IsInjective(s) => IsInjective(g[i])
             /\ i > 0 /\ s[1] \notin gone => Len(g[i]) > 0 /\ g[i][1] = s[1]
           S == {i \in 0..Len(s) : Kept(i)}
<1>3. 0 \in S
  <2>1. IsList(<<>>) /\ Range(<<>>) = {} /\ IsInjective(<<>>)
    BY DEF IsList, Range, IsInjective
  <2>2. {s[j] : j \in 1..0} = {}
    OBVIOUS
  <2> QED BY <1>1, <1>2, <2>1, <2>2
<1>4. ASSUME NEW k \in 1..Len(s), k - 1 \in S
      PROVE  k \in S
  <2>1. Kept(k - 1)
    BY <1>4
  <2>2. {s[j] : j \in 1..k} = {s[j] : j \in 1 .. k - 1} \cup {s[k]}
    <3>1. 1..k = (1 .. k - 1) \cup {k}
      OBVIOUS
    <3> QED BY <3>1
  <2>3. CASE s[k] \in gone
    <3>1. g[k] = g[k - 1]
      BY <1>2, <2>3
    <3>2. k > 1 \/ s[1] \in gone
      BY <2>3
    <3> QED BY <2>1, <2>2, <2>3, <3>1, <3>2
  <2>4. CASE s[k] \notin gone
    <3> DEFINE t == g[k - 1]
    <3>1. g[k] = Append(t, s[k])
      BY <1>2, <2>4
    <3>2. IsList(t)
      BY <2>1
    <3>3. /\ IsList(g[k]) /\ Range(g[k]) = Range(t) \cup {s[k]}
          /\ Len(g[k]) = Len(t) + 1 /\ Len(t) \in Nat
          /\ \A i \in 1..Len(t) : g[k][i] = t[i]
          /\ IsInjective(t) /\ s[k] \notin Range(t) => IsInjective(g[k])
      BY <3>1, <3>2, AppendToList
    <3>4. IsInjective(s) => s[k] \notin Range(t)
      BY <1>1, <2>1 DEF IsInjective
    <3>5. ASSUME s[1] \notin gone
          PROVE  Len(g[k]) > 0 /\ g[k][1] = s[1]
      <4>1. CASE k = 1
        <5>1. Range(t) = {}
          BY <2>1, <4>1
        <5>2. g[k] = Append(<<>>, s[k])
          BY <1>2, <3>1, <4>1
        <5> QED BY <3>3, <4>1, <5>2
      <4>2. CASE k > 1
        <5>1. Len(t) > 0 /\ t[1] = s[1]
          BY <2>1, <3>5, <4>2
        <5> QED BY <3>3, <5>1
      <4> QED BY <4>1, <4>2
    <3>6. Range(g[k]) = {s[j] : j \in 1..k} \ gone
      BY <2>1, <2>2, <2>4, <3>3
    <3> QED BY <2>1, <3>3, <3>4, <3>5, <3>6
  <2> QED BY <2>3, <2>4
<1> HIDE DEF S
<1>5. 0..Len(s) \subseteq S
  BY <1>1, <1>3, <1>4, Actions!Induction
<1>6. Kept(Len(s))
  BY <1>1, <1>5, SMTT(30) DEF S
<1>7. s # <<>> => Len(s) > 0
  BY EmptySeq DEF IsList
<1>8. Without(s, gone) = <<>> => Len(Without(s, gone)) = 0
  OBVIOUS
<1> QED BY <1>1, <1>2, <1>6, <1>7, <1>8

-----------------------------------------------------------------------------
(* The moves: a player stays in the free cells, and does not enter a solid *)
(* one.                                                                    *)

Point == Int \X Int

\* The coordinates are divided as expected.
LEMMA Division ==
  ASSUME NEW x \in Int
  PROVE  /\ StepsPerCell \in Nat /\ StepsPerCell = 2 * HalfCell /\ HalfCell \in Nat
         /\ HalfCell > 0
         /\ x = StepsPerCell * (x \div StepsPerCell) + (x % StepsPerCell)
         /\ x % StepsPerCell \in 0 .. StepsPerCell - 1
         /\ x % StepsPerCell \in Int
         /\ x \div StepsPerCell \in Int
<1>1. /\ StepsPerCell \in Nat /\ StepsPerCell > 0
      /\ StepsPerCell = 2 * HalfCell /\ HalfCell \in Nat /\ HalfCell > 0
  BY GridConstants DEF HalfCell
<1>2. x \div StepsPerCell \in Int
  BY <1>1
<1>3. x % StepsPerCell \in 0 .. StepsPerCell - 1
  BY <1>1
<1>4. x = StepsPerCell * (x \div StepsPerCell) + (x % StepsPerCell)
  BY <1>1
<1> QED BY <1>1, <1>2, <1>3, <1>4

\* The division of a coordinate by the size of a cell.
LEMMA Quotients ==
  ASSUME NEW x \in Int, NEW q \in Int, NEW r \in 0 .. StepsPerCell - 1,
         x = StepsPerCell * q + r
  PROVE  x \div StepsPerCell = q /\ x % StepsPerCell = r
<1>1. StepsPerCell \in Nat /\ StepsPerCell > 0 /\ r \in Int
  BY GridConstants
<1> QED BY <1>1

\* A step on an axis stays in the cell, or it leaves the half of the cell to
\* which it goes.
LEMMA StepOnAnAxis ==
  ASSUME NEW x \in Int, NEW sign \in {-1, 1}
  PROVE  /\ x + sign \in Int
         /\ \/ (x + sign) \div StepsPerCell = x \div StepsPerCell
            \/ /\ (x + sign) \div StepsPerCell = (x \div StepsPerCell) + sign
               /\ sign * ((x % StepsPerCell) - HalfCell) + 1 >= 0
         /\ sign * ((x % StepsPerCell) - HalfCell) < 0 =>
              (x + sign) \div StepsPerCell = x \div StepsPerCell
<1> DEFINE q == x \div StepsPerCell
           r == x % StepsPerCell
<1>1. /\ StepsPerCell \in Nat /\ StepsPerCell = 2 * HalfCell
      /\ HalfCell \in Nat /\ HalfCell > 0
      /\ x = StepsPerCell * q + r /\ r \in 0 .. StepsPerCell - 1 /\ q \in Int
  BY Division
<1> HIDE DEF q, r
<1>2. CASE r + sign \in 0 .. StepsPerCell - 1
  <2>1. x + sign = StepsPerCell * q + (r + sign)
    BY <1>1
  <2>2. (x + sign) \div StepsPerCell = q
    BY <1>1, <1>2, <2>1, Quotients
  <2> QED BY <1>1, <2>2 DEF q
<1>3. CASE sign = 1 /\ r = StepsPerCell - 1
  <2>1. x + sign = StepsPerCell * (q + 1) + 0
    BY <1>1, <1>3
  <2>2. (x + sign) \div StepsPerCell = q + 1
    BY <1>1, <2>1, Quotients
  <2> QED BY <1>1, <1>3, <2>2 DEF q, r
<1>4. CASE sign = -1 /\ r = 0
  <2>1. x + sign = StepsPerCell * (q - 1) + (StepsPerCell - 1)
    BY <1>1, <1>4
  <2>2. (x + sign) \div StepsPerCell = q - 1
    BY <1>1, <2>1, Quotients
  <2> QED BY <1>1, <1>4, <2>2 DEF q, r
<1> QED BY <1>1, <1>2, <1>3, <1>4

\* The directions.
LEMMA DirectionFacts ==
  ASSUME NEW d \in Directions
  PROVE  /\ Axis(d) \in {1, 2} /\ 3 - Axis(d) \in {1, 2} /\ Sign(d) \in {-1, 1}
         /\ Opposite[d] \in Directions
         /\ \A c \in Point :
              /\ Beside(c, d) \in Point
              /\ Beside(c, d)[Axis(d)] = c[Axis(d)] + Sign(d)
              /\ Beside(c, d)[3 - Axis(d)] = c[3 - Axis(d)]
BY DEF Directions, Axis, Sign, Delta, Opposite, Beside, Point

\* A cell, and a coordinate that changes.
LEMMA SameCell ==
  ASSUME NEW pos \in Point, NEW c \in Point,
         \A a \in {1, 2} : pos[a] \div StepsPerCell = c[a]
  PROVE  CellOf(pos) = c
BY DEF CellOf, Point

\* The cell of a point.
LEMMA CellOfPoint ==
  ASSUME NEW pos \in Point
  PROVE  /\ CellOf(pos) \in Point
         /\ \A a \in {1, 2} : /\ CellOf(pos)[a] = pos[a] \div StepsPerCell
                              /\ pos[a] \in Int
<1>1. pos[1] \in Int /\ pos[2] \in Int
  BY DEF Point
<1>2. pos[1] \div StepsPerCell \in Int /\ pos[2] \div StepsPerCell \in Int
  BY <1>1, Division
<1> QED BY <1>1, <1>2 DEF CellOf, Point

\* The half of a cell.
LEMMA HalfFacts ==
  ASSUME NEW pos \in Point, NEW axis \in {1, 2}, NEW s \in HalfOn(pos, axis)
  PROVE  /\ s \in Directions /\ Axis(s) = axis
         /\ Sign(s) * Offset(pos, axis) > 0
<1>1. Offset(pos, axis) \in Int
  <2>1. pos[axis] \in Int
    BY CellOfPoint
  <2>2. StepsPerCell \in Nat /\ StepsPerCell > 0 /\ HalfCell \in Int
    BY <2>1, Division
  <2>3. pos[axis] % StepsPerCell \in Int
    BY <2>1, <2>2
  <2> QED BY <2>2, <2>3 DEF Offset
<1> QED BY <1>1 DEF HalfOn, Directions, Axis, Sign, Delta

\* Only one coordinate changes.
LEMMA Shift ==
  ASSUME NEW pos \in Point, NEW a \in {1, 2}, NEW x \in Int
  PROVE  LET to == [pos EXCEPT ![a] = x] IN
           to \in Point /\ to[a] = x /\ to[3 - a] = pos[3 - a]
BY DEF Point

\* A free cell is not on the border, and what is beside it is in the arena.
LEMMA BesideFreeCell ==
  ASSUME NEW c \in FreeCells
  PROVE  /\ c \in Point
         /\ \A d \in Directions : Beside(c, d) \in Cells
<1>1. c[1] \in 1 .. Width - 2 /\ c[2] \in 1 .. Height - 2 /\ c = <<c[1], c[2]>>
  BY GridConstants DEF FreeCells, Cells, StaticWall
<1> QED BY <1>1, GridConstants DEF Beside, Delta, Directions, Cells, Point

\* What the edges say of a cell.
LEMMA EdgesOfCell ==
  ASSUME NEW solid, NEW b \in Cells, NEW e \in Directions,
         e \notin EdgesAt(fences, solid, b)
  PROVE  b \in FreeCells /\ b \notin solid
BY DEF EdgesAt, FreeCells

\* The cells where a move may end.
Enters(to, c, solid) ==
  /\ to \in Point
  /\ CellOf(to) = c \/ CellOf(to) \in FreeCells \ solid

\* A player who goes around a corner enters no solid cell.
LEMMA DodgedEnters ==
  ASSUME NEW from \in Point, CellOf(from) \in FreeCells, NEW pos \in Point,
         CellOf(pos) = CellOf(from), NEW d \in Directions, NEW solid
  PROVE  Enters(Dodged(pos, from, d, fences, solid), CellOf(from), solid)
<1> DEFINE c == CellOf(from)
           other == 3 - Axis(d)
           way == {s \in HalfOn(from, other) :
                     /\ s \notin fences[c]
                     /\ EdgesAt(fences, solid, Beside(c, s))
                          \cap {EdgeAside(s), d} = {}
                     /\ Opposite[d] \notin EdgesAt(fences, solid,
                                                   Beside(Beside(c, s), d))}
           s == CHOOSE s \in way : TRUE
           to == [pos EXCEPT ![other] = @ + Sign(s)]
<1>1. CASE way = {}
  <2>1. Dodged(pos, from, d, fences, solid) = pos
    BY <1>1 DEF Dodged
  <2> QED BY <2>1 DEF Enters
<1>2. CASE way # {}
  <2>1. Dodged(pos, from, d, fences, solid) = to
    BY <1>2 DEF Dodged
  <2>2. /\ s \in HalfOn(from, other)
        /\ d \notin EdgesAt(fences, solid, Beside(c, s))
    BY <1>2
  <2>3. other \in {1, 2}
    BY DirectionFacts
  <2>4. s \in Directions /\ Axis(s) = other
    BY <2>2, <2>3, HalfFacts
  <2> HIDE DEF s, other
  <2>5. Beside(c, s) \in FreeCells \ solid
    BY <2>2, <2>4, BesideFreeCell, EdgesOfCell
  <2>6. Sign(s) \in {-1, 1} /\ pos[other] \in Int /\ pos[3 - other] \in Int
    BY <2>3, <2>4, DirectionFacts, CellOfPoint
  <2>7. /\ to \in Point /\ to[other] = pos[other] + Sign(s)
        /\ to[3 - other] = pos[3 - other]
    BY <2>3, <2>6, Shift
  <2> HIDE DEF to
  <2>8. c \in Point /\ \A a \in {1, 2} : pos[a] \div StepsPerCell = c[a]
    BY CellOfPoint
  <2>9. \/ to[other] \div StepsPerCell = c[other]
        \/ to[other] \div StepsPerCell = c[other] + Sign(s)
    BY <2>3, <2>6, <2>7, <2>8, StepOnAnAxis
  <2>10. to[3 - other] \div StepsPerCell = c[3 - other]
    BY <2>3, <2>7, <2>8
  <2>11. CASE to[other] \div StepsPerCell = c[other]
    <3>1. \A a \in {1, 2} : to[a] \div StepsPerCell = c[a]
      BY <2>3, <2>10, <2>11
    <3>2. CellOf(to) = c
      BY <2>7, <2>8, <3>1, SameCell
    <3> QED BY <2>1, <2>7, <3>2 DEF Enters
  <2>12. CASE to[other] \div StepsPerCell = c[other] + Sign(s)
    <3>1. /\ Beside(c, s) \in Point /\ Beside(c, s)[other] = c[other] + Sign(s)
          /\ Beside(c, s)[3 - other] = c[3 - other]
      BY <2>4, <2>8, DirectionFacts
    <3>2. \A a \in {1, 2} : to[a] \div StepsPerCell = Beside(c, s)[a]
      BY <2>3, <2>10, <2>12, <3>1
    <3>3. CellOf(to) = Beside(c, s)
      BY <2>7, <3>1, <3>2, SameCell
    <3> QED BY <2>1, <2>5, <2>7, <3>3 DEF Enters
  <2> QED BY <2>9, <2>11, <2>12
<1> QED BY <1>1, <1>2

\* Getting closer to the middle of the way does not leave the cell, on the other
\* axis.
LEMMA StraightenedEnters ==
  ASSUME NEW from \in Point, NEW pos \in Point, NEW d \in Directions, NEW solid,
         pos[3 - Axis(d)] = from[3 - Axis(d)]
  PROVE  LET to == Straightened(pos, from, d, fences, solid) IN
           to \in Point /\ CellOf(to) = CellOf(pos)
<1> DEFINE other == 3 - Axis(d)
           aside == {s \in HalfOn(from, other) :
                       Opposite[d] \in EdgesAt(fences, solid,
                                         Beside(Beside(CellOf(from), d), s))}
           s == CHOOSE s \in aside : TRUE
           to == [pos EXCEPT ![other] = @ - Sign(s)]
<1>1. CASE aside = {}
  <2>1. Straightened(pos, from, d, fences, solid) = pos
    BY <1>1 DEF Straightened
  <2> QED BY <2>1
<1>2. CASE aside # {}
  <2>1. Straightened(pos, from, d, fences, solid) = to
    BY <1>2 DEF Straightened
  <2>2. s \in HalfOn(from, other)
    BY <1>2
  <2>3. other \in {1, 2} /\ 3 - other \in {1, 2}
    BY DirectionFacts
  <2>4. s \in Directions /\ Sign(s) * Offset(from, other) > 0
    BY <2>2, <2>3, HalfFacts
  <2>5. pos[other] = from[other]
    OBVIOUS
  <2> HIDE DEF s, other
  <2> DEFINE sign == -Sign(s)
  <2>6. /\ Sign(s) \in {-1, 1} /\ pos[other] \in Int /\ pos[3 - other] \in Int
        /\ pos[other] - Sign(s) = pos[other] + sign /\ sign \in {-1, 1}
    BY <2>3, <2>4, DirectionFacts, CellOfPoint
  <2>7. /\ to \in Point /\ to[other] = pos[other] + sign
        /\ to[3 - other] = pos[3 - other]
    BY <2>3, <2>6, Shift
  <2>8. sign * ((pos[other] % StepsPerCell) - HalfCell) < 0
    <3>0. StepsPerCell \in Nat /\ StepsPerCell > 0 /\ HalfCell \in Int
      BY <2>6, Division
    <3>1. pos[other] % StepsPerCell \in Int
      BY <2>6, <3>0
    <3>2. Sign(s) * ((pos[other] % StepsPerCell) - HalfCell) > 0
      BY <2>4, <2>5 DEF Offset
    <3> QED BY <2>6, <3>0, <3>1, <3>2
  <2> HIDE DEF sign
  <2>9. to[other] \div StepsPerCell = pos[other] \div StepsPerCell
    BY <2>6, <2>7, <2>8, StepOnAnAxis
  <2>10. CellOf(pos) \in Point /\ \A a \in {1, 2} : to[a] \div StepsPerCell = CellOf(pos)[a]
    BY <2>3, <2>7, <2>9, CellOfPoint
  <2>11. CellOf(to) = CellOf(pos)
    BY <2>7, <2>10, SameCell
  <2> QED BY <2>1, <2>7, <2>11
<1> QED BY <1>1, <1>2

\* A move enters no solid cell.
LEMMA MovedEnters ==
  ASSUME NEW pos \in Point, CellOf(pos) \in FreeCells, NEW d \in Directions,
         NEW solid
  PROVE  Enters(Moved(pos, d, fences, solid), CellOf(pos), solid)
<1> DEFINE c == CellOf(pos)
           a == Axis(d)
           ahead == Sign(d) * Offset(pos, a) + 1
           at(offset) == [pos EXCEPT ![a] = Middle(c)[a] + Sign(d) * offset]
           next == [pos EXCEPT ![a] = @ + Sign(d)]
<1>1. /\ a \in {1, 2} /\ 3 - a \in {1, 2} /\ Sign(d) \in {-1, 1}
      /\ c \in Point
      /\ \A i \in {1, 2} : c[i] = pos[i] \div StepsPerCell /\ pos[i] \in Int
  BY DirectionFacts, CellOfPoint
<1>2. /\ StepsPerCell \in Nat /\ StepsPerCell = 2 * HalfCell
      /\ HalfCell \in Nat /\ HalfCell > 0
  BY Division
<1> HIDE DEF a
\* In the cell, at an offset of its middle.
<1>3. ASSUME NEW offset \in Int, -HalfCell < offset, offset <= 0
      PROVE  at(offset) \in Point /\ CellOf(at(offset)) = c
  <2> DEFINE r == HalfCell + Sign(d) * offset
  <2>1. r \in 0 .. StepsPerCell - 1
    BY <1>1, <1>2, <1>3
  <2>2. /\ Middle(c)[a] + Sign(d) * offset = StepsPerCell * c[a] + r
        /\ StepsPerCell * c[a] + r \in Int
    <3>1. c[1] \in Int /\ c[2] \in Int
      BY <1>1 DEF Point
    <3>2. Middle(c)[a] = c[a] * StepsPerCell + HalfCell
      BY <1>1 DEF Middle
    <3> QED BY <1>1, <1>2, <1>3, <3>1, <3>2
  <2>3. /\ at(offset) \in Point /\ at(offset)[a] = StepsPerCell * c[a] + r
        /\ at(offset)[3 - a] = pos[3 - a]
    BY <1>1, <2>2, Shift
  <2> HIDE DEF r, at
  <2>4. at(offset)[a] \div StepsPerCell = c[a]
    BY <1>1, <2>1, <2>2, <2>3, Quotients DEF Point
  <2>5. \A i \in {1, 2} : at(offset)[i] \div StepsPerCell = c[i]
    BY <1>1, <2>3, <2>4
  <2> QED BY <1>1, <2>3, <2>5, SameCell
<1>4. CASE ahead >= -EdgeWidth /\ d \in fences[c]
  <2>1. Moved(pos, d, fences, solid) =
          Dodged(at(-EdgeWidth), pos, d, fences, solid)
    BY <1>4 DEF Moved, a
  <2>2. HalfCell > EdgeWidth
    BY <1>4, FencesAreThin DEF FreeCells
  <2>3. at(-EdgeWidth) \in Point /\ CellOf(at(-EdgeWidth)) = c
    BY <1>2, <1>3, <2>2 DEF EdgeWidth
  <2> HIDE DEF at
  <2> QED BY <2>1, <2>3, DodgedEnters
<1>5. CASE /\ ~(ahead >= -EdgeWidth /\ d \in fences[c])
           /\ ahead >= 0
           /\ Opposite[d] \in EdgesAt(fences, solid, Beside(c, d))
  <2>1. Moved(pos, d, fences, solid) = Dodged(at(0), pos, d, fences, solid)
    BY <1>5 DEF Moved, a
  <2>2. at(0) \in Point /\ CellOf(at(0)) = c
    BY <1>2, <1>3
  <2> HIDE DEF at
  <2> QED BY <2>1, <2>2, DodgedEnters
<1>6. CASE /\ ~(ahead >= -EdgeWidth /\ d \in fences[c])
           /\ ~(/\ ahead >= 0
                /\ Opposite[d] \in EdgesAt(fences, solid, Beside(c, d)))
  <2>1. Moved(pos, d, fences, solid) = Straightened(next, pos, d, fences, solid)
    BY <1>6 DEF Moved, a
  <2>2. /\ next \in Point /\ next[a] = pos[a] + Sign(d)
        /\ next[3 - a] = pos[3 - a]
    BY <1>1, Shift
  <2> HIDE DEF next
  <2>3. /\ Straightened(next, pos, d, fences, solid) \in Point
        /\ CellOf(Straightened(next, pos, d, fences, solid)) = CellOf(next)
    BY <2>2, StraightenedEnters DEF a
  <2>4. \/ next[a] \div StepsPerCell = c[a]
        \/ next[a] \div StepsPerCell = c[a] + Sign(d) /\ ahead >= 0
    BY <1>1, <2>2, StepOnAnAxis DEF Offset
  <2>5. CASE next[a] \div StepsPerCell = c[a]
    <3>1. \A i \in {1, 2} : next[i] \div StepsPerCell = c[i]
      BY <1>1, <2>2, <2>5
    <3>2. CellOf(next) = c
      BY <1>1, <2>2, <3>1, SameCell
    <3> QED BY <2>1, <2>3, <3>2 DEF Enters
  <2>6. CASE next[a] \div StepsPerCell = c[a] + Sign(d) /\ ahead >= 0
    <3>1. /\ Beside(c, d) \in Point /\ Beside(c, d)[a] = c[a] + Sign(d)
          /\ Beside(c, d)[3 - a] = c[3 - a]
      BY <1>1, DirectionFacts DEF a
    <3>2. \A i \in {1, 2} : next[i] \div StepsPerCell = Beside(c, d)[i]
      BY <1>1, <2>2, <2>6, <3>1
    <3>3. CellOf(next) = Beside(c, d)
      BY <2>2, <3>1, <3>2, SameCell
    <3>4. Beside(c, d) \in FreeCells \ solid
      BY <1>6, <2>6, BesideFreeCell, EdgesOfCell, DirectionFacts
    <3> QED BY <2>1, <2>3, <3>3, <3>4 DEF Enters
  <2> QED BY <2>4, <2>5, <2>6
<1> QED BY <1>4, <1>5, <1>6

-----------------------------------------------------------------------------
(* The order of the falling blocks: free cells, each of them once.         *)

\* The minimum of a set of numbers.
LEMMA MinIsLeast ==
  ASSUME NEW S, S \subseteq Nat, S # {}
  PROVE  Min(S) \in S /\ \A n \in S : Min(S) <= n
BY Actions!LeastNatural DEF Min

IsOrder(order) ==
  IsList(order) /\ IsInjective(order) /\ Range(order) \subseteq FreeCells

\* A side of the spiral adds to the order cells that are not there yet.
LEMMA TakenIsOrder ==
  ASSUME NEW order, IsOrder(order), NEW side, DOMAIN side \subseteq Nat,
         \A i \in DOMAIN side : side[i] \in Cells
  PROVE  IsOrder(Taken(order, side))
<1> DEFINE available == {i \in DOMAIN side : ~StaticWall(side[i])
                                             /\ side[i] \notin Range(order)}
<1>1. CASE available = {}
  BY <1>1 DEF Taken
<1>2. CASE available # {}
  <2> DEFINE c == side[Min(available)]
  <2>1. Taken(order, side) = Append(order, c)
    BY <1>2 DEF Taken
  <2>2. Min(available) \in available
    BY <1>2, MinIsLeast
  <2>3. c \in FreeCells /\ c \notin Range(order)
    BY <2>2 DEF FreeCells
  <2> HIDE DEF c
  <2> QED BY <2>1, <2>3, AppendToList DEF IsOrder
<1> QED BY <1>1, <1>2

IsFall(fall) ==
  /\ DOMAIN fall = {"ring", "order"}
  /\ fall.ring \in Nat /\ IsOrder(fall.order)

\* The cells of a side are in the arena.
LEMMA SideInCells ==
  ASSUME NEW k \in Nat, ~(2 * k > Width - 1), ~(2 * k > Height - 1),
         NEW s \in 1..4
  PROVE  /\ DOMAIN Side(k, s) \subseteq Nat
         /\ \A i \in DOMAIN Side(k, s) : Side(k, s)[i] \in Cells
<1> DEFINE right == Width - 1 - k
           bottom == Height - 1 - k
<1>1. k \in 0..right /\ k \in 0..bottom /\ right \in 0 .. Width - 1
      /\ bottom \in 0 .. Height - 1 /\ Width \in Nat /\ Height \in Nat
  BY GridConstants
<1>2. CASE s = 1
  <2>1. Side(k, s) = [i \in 1 .. right - k + 1 |-> <<k + i - 1, k>>]
    BY <1>2 DEF Side
  <2> HIDE DEF right, bottom
  <2> QED BY <1>1, <2>1 DEF Cells
<1>3. CASE s = 2
  <2>1. Side(k, s) = [i \in 1 .. bottom - k + 1 |-> <<right, k + i - 1>>]
    BY <1>3 DEF Side
  <2> HIDE DEF right, bottom
  <2> QED BY <1>1, <2>1 DEF Cells
<1>4. CASE s = 3
  <2>1. Side(k, s) = [i \in 1 .. right - k + 1 |-> <<right - i + 1, bottom>>]
    BY <1>4 DEF Side
  <2> HIDE DEF right, bottom
  <2> QED BY <1>1, <2>1 DEF Cells
<1>5. CASE s = 4
  <2>1. Side(k, s) = [i \in 1 .. bottom - k + 1 |-> <<k, bottom - i + 1>>]
    BY <1>5 DEF Side
  <2> HIDE DEF right, bottom
  <2> QED BY <1>1, <2>1 DEF Cells
<1> QED BY <1>2, <1>3, <1>4, <1>5

\* So does a turn of the spiral.
LEMMA FallTurnIsFall ==
  ASSUME NEW fall, IsFall(fall), NEW turn
  PROVE  IsFall(FallTurn(fall, turn))
<1> DEFINE k == fall.ring
           a == Taken(fall.order, Side(k, 1))
           b == Taken(a, Side(k, 2))
           c == Taken(b, Side(k, 3))
           d == Taken(c, Side(k, 4))
<1>1. CASE 2 * k > Width - 1 \/ 2 * k > Height - 1
  BY <1>1 DEF FallTurn
<1>2. CASE ~(2 * k > Width - 1 \/ 2 * k > Height - 1)
  <2>1. FallTurn(fall, turn) = IF d = fall.order
                               THEN [fall EXCEPT !.ring = @ + 1]
                               ELSE [fall EXCEPT !.order = d]
    BY <1>2 DEF FallTurn
  <2>2. /\ k \in Nat /\ IsOrder(fall.order)
        /\ \A s \in 1..4 :
             /\ DOMAIN Side(k, s) \subseteq Nat
             /\ \A i \in DOMAIN Side(k, s) : Side(k, s)[i] \in Cells
    BY <1>2, SideInCells DEF IsFall
  <2> HIDE DEF k
  <2>3. IsOrder(a)
    BY <2>2, TakenIsOrder
  <2> HIDE DEF a
  <2>4. IsOrder(b)
    BY <2>2, <2>3, TakenIsOrder
  <2> HIDE DEF b
  <2>5. IsOrder(c)
    BY <2>2, <2>4, TakenIsOrder
  <2> HIDE DEF c
  <2>6. IsOrder(d)
    BY <2>2, <2>5, TakenIsOrder
  <2> HIDE DEF d
  <2> QED BY <2>1, <2>6 DEF IsFall
<1> QED BY <1>1, <1>2

\* The turns are one after the other.
LEMMA FallSteps ==
  ASSUME NEW fall, NEW n \in Nat, NEW turns, DOMAIN turns = 1..n
  PROVE  \E h : /\ h[0] = fall
                /\ \A i \in 1..n : h[i] = FallTurn(h[i - 1], turns[i])
                /\ Falls!Fold(fall, turns) = h[n]
BY Falls!FoldSteps

AllTurns == [i \in 1 .. Width * Height |-> i]

\* FallOrder has no repetition, and only free cells.
LEMMA FallOrderIsOrder ==
  /\ IsOrder(FallOrder) /\ Len(FallOrder) \in Nat
  /\ DOMAIN FallOrder = 1..Len(FallOrder)
<1> DEFINE n == Width * Height
           first == [ring |-> 0, order |-> <<>>]
<1>1. FallOrder = Falls!Fold(first, AllTurns).order
  BY DEF FallOrder, AllTurns, Falls!Fold, FoldLeft, Falls!FoldLeft,
         MapThenFoldSet, Falls!MapThenFoldSet, Max, Falls!Max
<1>2. n \in Nat /\ DOMAIN AllTurns = 1..n
  BY GridConstants DEF AllTurns
<1>3. IsFall(first)
  BY DEF IsFall, IsOrder, IsList, IsInjective, Range
<1> HIDE DEF first, n
<1>4. PICK h : /\ h[0] = first
               /\ \A i \in 1..n : h[i] = FallTurn(h[i - 1], AllTurns[i])
               /\ Falls!Fold(first, AllTurns) = h[n]
  BY <1>2, FallSteps
<1> DEFINE S == {i \in 0..n : IsFall(h[i])}
<1>5. 0 \in S
  BY <1>2, <1>3, <1>4
<1>6. ASSUME NEW i \in 1..n, i - 1 \in S
      PROVE  i \in S
  BY <1>4, <1>6, FallTurnIsFall
<1> HIDE DEF S
<1>7. 0..n \subseteq S
  BY <1>2, <1>5, <1>6, Falls!Induction
<1>8. IsOrder(FallOrder)
  BY <1>1, <1>2, <1>4, <1>7 DEF S, IsFall
<1> QED BY <1>8, ListRange DEF IsOrder, IsList

=============================================================================
