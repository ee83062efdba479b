------------------------------- MODULE Arena -------------------------------
(***************************************************************************)
(* The contest: what bim::game::contest::tick() does to the entities of    *)
(* the arena.  The world is the registry and the entity map; each system   *)
(* of src/modules/bim/game is an operator from a world to the next one,    *)
(* and the step Tick composes them in the order of contest.cpp.  Durations *)
(* are counted in ticks.  An entity is named by its kind and its cell, or  *)
(* its index for a player.  The entities of a cell of the map are in the   *)
(* order in which they have been put there.                                *)
(***************************************************************************)
EXTENDS Grid

CONSTANTS
  fences,               \* the fences of the level, a function of the cells
  BombDelay, FlameWarmUp, FlameCoolDown, FlameDuration,
  BurnDuration, DieDuration, CrateBurnDuration,
  InvincibleDuration, InvisibleDuration,
  ReductionDelay, FallingBlockDuration,
  StartDelay,           \* bound: the date of the contest stops after it
  GameDuration,         \* the timer of a game without falling blocks
  QueueSize,            \* the delay of the actions
  MaxCapacity, MaxStrength,
  Crates,               \* the possible crates: functions of some cells
  Abilities,            \* bound: what each player may ask for
  Kickable,             \* bound: the players who may be kicked
  FogOfWar,             \* the fog is one of the features of the game
  Excluded,             \* the possible sets of cells without fog
  RollInDuration,
  RollInDelay,          \* for each cell away from the center
  FogBlowDuration, FogRestoreDuration, FogHideDuration,
  FullOpacity

ASSUME ArenaConstants ==
  /\ fences \in [Cells -> SUBSET Directions]
  /\ 0 < FlameWarmUp /\ FlameWarmUp < FlameCoolDown
  /\ FlameCoolDown < FlameDuration
  /\ {BombDelay, BurnDuration, DieDuration, CrateBurnDuration,
      InvincibleDuration, InvisibleDuration, FallingBlockDuration,
      QueueSize, MaxCapacity, MaxStrength} \subseteq Nat \ {0}
  /\ Kickable \subseteq 0 .. PlayerCount - 1

\* The inventories are counted in a byte.
ASSUME BytesAreEnough == MaxCapacity < 256

\* The level leaves the corners of the arena to the players.
ASSUME StartsAreFree ==
  /\ \A p \in 0 .. PlayerCount - 1 : StartCell(p) \in FreeCells
  /\ \A crates \in Crates : DOMAIN crates \subseteq FreeCells \ ForbiddenCells

\* A fence is thinner than half a cell.
ASSUME FencesAreThin ==
  HalfCell > EdgeWidth \/ \A c \in Cells : fences[c] = {}

ASSUME FogConstants ==
  /\ FogOfWar \in BOOLEAN
  /\ Excluded \subseteq SUBSET Cells
  /\ {RollInDuration, FogBlowDuration, FogRestoreDuration, FogHideDuration,
      FullOpacity} \subseteq Nat \ {0}
  /\ RollInDelay \in Nat

VARIABLES world, result

vars == <<world, result>>

Players == 0 .. PlayerCount - 1
Running == <<"running">>
Draw == <<"draw">>

Kinds == {"bomb", "flame", "invisibility", "shield"}
Idle == [movement |-> "idle", drop |-> FALSE]

IsPlayer(e) == e[1] = "player"
Player(p) == <<"player", p>>

Updated(f, d, F(_)) == [x \in DOMAIN f |-> IF x \in d THEN F(x) ELSE f[x]]

Only(x, v) == [y \in {x} |-> v]

\* The function g where it is defined, f elsewhere.
Over(g, f) ==
  [x \in DOMAIN g \cup DOMAIN f |-> IF x \in DOMAIN g THEN g[x] ELSE f[x]]

\* What is in s but not in gone, in the same order.
Without(s, gone) ==
  LET kept[n \in 0 .. Len(s)] ==
        IF n = 0 THEN <<>>
        ELSE IF s[n] \in gone THEN kept[n - 1] ELSE Append(kept[n - 1], s[n])
  IN kept[Len(s)]

\* The turn of the players, from the last one, with what concerns each of them.
Turns(F(_)) == [i \in 1..PlayerCount |-> F(PlayerCount - i)]

-----------------------------------------------------------------------------
(* The entity map.                                                         *)

Put(map, e, c) == [map EXCEPT ![c] = Append(@, e)]

KeptIn(map, e, c) == map

Erased(map, e, c) == [map EXCEPT ![c] = Without(@, {e})]

Here(w, c) == Range(w.map[c])

SolidCells(w) ==
  {c \in FreeCells : \E e \in Here(w, c) : e[1] \in {"bomb", "crate", "wall"}}

PlayerCell(w, p) == CellOf(w.players[p].position)

CellOfEntity(w, e) == IF IsPlayer(e) THEN PlayerCell(w, e[2]) ELSE e[2]

Alive(w, p) == w.players[p].state = "alive"

Killed(w, es) == [w EXCEPT !.dead = @ \cup es]

-----------------------------------------------------------------------------
(* The factories.                                                          *)

NewPlayer(p) ==
  [position |-> Middle(StartCell(p)), state |-> "alive", elapsed |-> 0,
   capacity |-> 1, available |-> 1, strength |-> 1,
   queue |-> [i \in 1..QueueSize |-> [action |-> Idle, cell |-> <<0, 0>>]]]

NewCrate(spawner) == [spawner |-> spawner, state |-> "idle", elapsed |-> 0]

NewBomb(w, p, c) ==
  [w EXCEPT
     !.bombs = Over(Only(c, [owner |-> p,
                             strength |-> w.players[p].strength]), @),
     !.timer = Over(Only(<<"bomb", c>>, BombDelay), @),
     !.map = Put(@, <<"bomb", c>>, c)]

NewFlame(c, origin) == [cell |-> c, origin |-> origin, age |-> 0]

NewFallingBlock(w, c) ==
  [w EXCEPT !.blocks = Over(Only(c, FallingBlockDuration), @)]

NewInvincibility(w, ps) ==
  [w EXCEPT !.invincible = Over([p \in ps |-> InvincibleDuration], @)]

NewInvisibility(w, p) ==
  [w EXCEPT !.invisible = Over(Only(p, InvisibleDuration), @)]

-----------------------------------------------------------------------------
(* The fog of war (fog_of_war.cpp, fog_of_war_updater.cpp): what a player  *)
(* does not see yet.  The fog of a player is a function of the cells which *)
(* have or had some.  A fog in the cell c is drawn according to the set    *)
(* beside of the cells next to c where it goes on.                         *)

\* The fog at the beginning of the contest, for a player in the cell at: it
\* rolls in from the center of the arena.
NewFog(at, excluded) ==
  LET foggy == Cells \ (Around(at) \cup excluded) IN
    [c \in foggy |->
       [state |-> "roll_in", opacity |-> 0,
        beside |-> (Around(c) \cap foggy) \ {c},
        timer |-> RollInDuration
                  + RollInDelay * (Apart(c[1], Width \div 2)
                                   + Apart(c[2], Height \div 2))]]

\* Nothing goes on any more in the cells which the fog leaves.
Uncover(fog, cells) ==
  [n \in DOMAIN fog |-> [fog[n] EXCEPT !.beside = @ \ cells]]

Changed(fog, cells, state, duration) ==
  [n \in DOMAIN fog |->
     IF n \in cells
     THEN [fog[n] EXCEPT !.state = state,
                         !.timer = (fog[n].opacity * duration) \div FullOpacity]
     ELSE fog[n]]

LeavesEdges(fog, cells, state, duration) ==
  Changed(fog, cells, state, duration)

\* The fog leaves some cells.
Leaves(fog, cells, state, duration) ==
  Uncover(Changed(fog, cells, state, duration), cells)

\* For good.
HideFog(fog, cells) ==
  Leaves(fog, {c \in cells \cap DOMAIN fog : fog[c].state # "hiding"},
         "hiding", FogHideDuration)

\* For some time.
BlowFog(fog, cells) ==
  Leaves(fog, {c \in cells \cap DOMAIN fog :
                 fog[c].state \notin {"hiding", "blown"}},
         "blown", FogBlowDuration)

Fading(timer, duration) == (timer * FullOpacity) \div duration

Growing(timer, duration) ==
  IF timer > duration THEN 0 ELSE Fading(duration - timer, duration)

\* The cells where the fog of the cell c may go on.
Neighbors(fog, c) == (Around(c) \ {c}) \cap DOMAIN fog

\* blown: the cells with a flame.
OpacityFromTimers(fog, blown) ==
  LET settled(c) == fog[c].state \in {"roll_in", "restore"} /\ fog[c].timer = 0
      duration(c) == IF fog[c].state = "roll_in" THEN RollInDuration
                     ELSE FogRestoreDuration
      next(c) ==
        CASE fog[c].state = "stable" -> fog[c]
          [] fog[c].state = "blown" ->
               IF c \notin blown /\ fog[c].timer = 0
               THEN [fog[c] EXCEPT !.opacity = 0, !.state = "restore",
                                   !.timer = FogRestoreDuration]
               ELSE [fog[c] EXCEPT
                       !.opacity = Fading(fog[c].timer, FogBlowDuration)]
          [] fog[c].state \in {"roll_in", "restore"} ->
               [fog[c] EXCEPT
                  !.state = IF settled(c) THEN "stable" ELSE @,
                  !.opacity = Growing(fog[c].timer, duration(c))]
          [] fog[c].state = "hiding" ->
               [fog[c] EXCEPT
                  !.opacity = Fading(fog[c].timer, FogHideDuration)]
  IN [c \in DOMAIN fog |->
        [next(c) EXCEPT
           !.beside = @ \cup {n \in Neighbors(fog, c) : settled(n)}]]

UncoverAroundPlayer(fog, at) == HideFog(fog, Around(at))

UncoverAroundFlames(fog, flames) == BlowFog(fog, flames)

\* The fog of a player in the cell at; the flames blow the fog away too when
\* there are not more than two players.
UpdateFog(fog, at, flames) ==
  LET seen  == UncoverAroundPlayer(fog, at)
      blown == IF PlayerCount <= 2 THEN flames ELSE {}
  IN OpacityFromTimers(UncoverAroundFlames(seen, blown), blown)

FogTimers(fog) ==
  [c \in DOMAIN fog |->
     [fog[c] EXCEPT !.timer = IF @ = 0 THEN 0 ELSE @ - 1]]

\* What a player sees: no fog there, or a fog that leaves for good.
Visible(fog, c) ==
  \/ c \notin DOMAIN fog
  \/ fog[c].state = "hiding" /\ fog[c].opacity < FullOpacity

\* The fog goes on in the cells where it is, and only there.
FogEdges(fog) ==
  \A c \in DOMAIN fog :
    fog[c].beside = {n \in Neighbors(fog, c) :
                       fog[n].state \in {"roll_in", "stable"}}

-----------------------------------------------------------------------------
(* The systems before the actions.                                         *)

ActiveBombs(w, p) == Cardinality({c \in DOMAIN w.bombs : w.bombs[c].owner = p})

RefreshBombInventory(w) ==
  [w EXCEPT !.players =
     [p \in DOMAIN @ |->
        [@[p] EXCEPT !.available = 
                (w.players[p].capacity - ActiveBombs(w, p)) % 256]]]

Decreased(f) == [x \in DOMAIN f |-> IF f[x] = 0 THEN 0 ELSE f[x] - 1]

UpdateTimers(w) ==
  [w EXCEPT !.timer = Decreased(@), !.blocks = Decreased(@),
            !.invincible = Decreased(@), !.invisible = Decreased(@),
            !.clock = IF @ = 0 THEN 0 ELSE @ - 1,
            !.fog = [p \in Players |-> FogTimers(@[p])]]

UpdateClocks(w) ==
  [w EXCEPT !.date = IF @ > StartDelay THEN @ ELSE @ + 1]

Older(x) == [x EXCEPT !.elapsed = @ + 1]

\* The animations of the dying players, the burning crates and the flames.
Animator(w) ==
  LET grown ==
        [w EXCEPT
           !.players = [p \in DOMAIN @ |->
                          IF Alive(w, p) THEN @[p] ELSE Older(@[p])],
           !.crates = [c \in DOMAIN @ |->
                         IF @[c].state = "idle" THEN @[c] ELSE Older(@[c])],
           !.flames = {[f EXCEPT !.age = @ + 1] : f \in @}]
      over(p) ==
        grown.players[p].elapsed =
          CASE grown.players[p].state = "burn" -> BurnDuration
            [] grown.players[p].state = "die" -> DieDuration
            [] OTHER -> -1
  IN Killed(grown,
            {Player(p) : p \in {p \in DOMAIN w.players : over(p)}}
            \cup {<<"crate", c>> :
                    c \in {c \in DOMAIN w.crates :
                             grown.crates[c].elapsed = CrateBurnDuration}})

-----------------------------------------------------------------------------
(* The actions of the players.                                             *)

DropAnyBomb(w, p, c) ==
  IF c \in SolidCells(w) THEN w
  ELSE NewBomb([w EXCEPT !.players[p].available = (@ - 1) % 256], p, c)

DropBomb(w, p, c) ==
  IF w.players[p].available = 0 \/ c \in SolidCells(w) THEN w
  ELSE NewBomb([w EXCEPT !.players[p].available = @ - 1], p, c)

MovePlayer(w, p, d) ==
  LET from == w.players[p].position
      to == Moved(from, d, fences, SolidCells(w))
  IN IF d = "idle" \/ to = from THEN w
     ELSE [w EXCEPT
             !.players[p].position = to,
             !.map = Put(Erased(@, Player(p), CellOf(from)),
                         Player(p), CellOf(to))]

\* What the player asks for is done QueueSize ticks later; the bomb is dropped
\* in the cell where the player was then.
ApplyAction(w, asked) ==
  LET p == asked.player
      queued == [action |-> asked.action, cell |-> PlayerCell(w, p)]
      next == Head(w.players[p].queue)
      moved == MovePlayer([w EXCEPT !.players[p].queue =
                             Append(Tail(@), queued)],
                          p, next.action.movement)
  IN IF p \notin DOMAIN w.players \/ ~Alive(w, p) THEN w
     ELSE IF next.action.drop THEN DropBomb(moved, p, next.cell) ELSE moved

ApplyPlayerAction(w, actions) ==
  FoldLeft(ApplyAction, w,
           Turns(LAMBDA p : [player |-> p,
                             action |-> IF p \in DOMAIN actions THEN actions[p]
                                        ELSE Idle]))

-----------------------------------------------------------------------------
(* The reduction of the arena.                                             *)

ReduceOnce(w) ==
  IF ReductionDelay = 0 \/ w.clock > 0 \/ w.nextFall > 1 THEN w
  ELSE NewFallingBlock([w EXCEPT !.clock = FallingBlockDuration,
                                 !.nextFall = @ + 1],
                       FallOrder[w.nextFall])

ArenaReduction(w) ==
  IF ReductionDelay = 0 \/ w.clock > 0 \/ w.nextFall > Len(FallOrder) THEN w
  ELSE NewFallingBlock([w EXCEPT !.clock = FallingBlockDuration,
                                 !.nextFall = @ + 1],
                       FallOrder[w.nextFall])

SealFallingBlocks(w, cells) ==
  [w EXCEPT !.blocks = Restrict(@, DOMAIN @ \ cells),
            !.crushed = @ \cup UNION {Here(w, c) : c \in cells},
            !.map = Updated(@, cells, LAMBDA c : << <<"wall", c>> >>),
            !.walls = @ \cup cells]

UpdateFallingBlocks(w) ==
  SealFallingBlocks(w, {c \in DOMAIN w.blocks : w.blocks[c] = 0})

TriggerCrushedTimers(w) ==
  [w EXCEPT !.timer = Updated(@, w.crushed, LAMBDA e : 0)]

-----------------------------------------------------------------------------
(* The explosions.                                                         *)

IsShallow(e) == IsPlayer(e)

Obstacles(w, c) == {i \in DOMAIN w.map[c] : ~IsShallow(w.map[c][i])}

FirstObstacle(w, c) == w.map[c][Min(Obstacles(w, c))]

RayCell(c, d, k) == <<c[1] + k * Delta[d][1], c[2] + k * Delta[d][2]>>

\* How far from the bomb in the cell c is what stops its flames.
RayEnd(w, c, d) ==
  LET stops(k) == LET at == RayCell(c, d, k) IN
                    at \notin FreeCells \/ Obstacles(w, at) # {}
      strength == w.bombs[c].strength
  IN Min({strength + 1} \cup {k \in 1..strength : stops(k)})

\* What stops them burns.
RayTarget(w, c, d) ==
  LET end == RayEnd(w, c, d)
      at == RayCell(c, d, end)
  IN IF end > w.bombs[c].strength \/ at \notin FreeCells THEN {}
     ELSE {FirstObstacle(w, at)}

Ray(w, c, d) ==
  [w EXCEPT !.flames = @ \cup {NewFlame(RayCell(c, d, k), FALSE) :
                                 k \in 1 .. RayEnd(w, c, d) - 1},
            !.burning = @ \cup RayTarget(w, c, d)]

Rays(w, c) == Ray(Ray(Ray(Ray(w, c, "left"), c, "right"), c, "up"), c, "down")

\* Several blockers may be in the same cell.
NewBlocker(w, c) ==
  LET n == CHOOSE n \in 1 .. Cardinality(DOMAIN w.timer) + 1 :
             <<"blocker", c, n>> \notin DOMAIN w.timer
  IN <<"blocker", c, n>>

ExplodeForBombs(w, c) ==
  Killed([Rays(w, c) EXCEPT !.flames = @ \cup {NewFlame(c, TRUE)},
                            !.map = Erased(@, <<"bomb", c>>, c)],
         {<<"bomb", c>>})

\* The bomb of the cell c explodes.  Something stops the other flames there
\* until the flame is off.
Explode(w, c) ==
  LET blocker == NewBlocker(w, c) IN
    Killed([Rays(w, c) EXCEPT
              !.flames = @ \cup {NewFlame(c, TRUE)},
              !.timer = Over(Only(blocker, FlameDuration), @),
              !.map = Erased(Put(@, blocker, c), <<"bomb", c>>, c)],
           {<<"bomb", c>>})

ExpiredBlockers(w) == {e \in DOMAIN w.timer : e[1] = "blocker" /\ w.timer[e] = 0}

\* The bombs in a flame are about to explode, the useless blockers go.
Triggered(w) ==
  LET lit == [w EXCEPT !.timer = Updated(@, w.burning,
                 LAMBDA e : IF e[1] = "bomb" THEN 0 ELSE w.timer[e])]
      gone == ExpiredBlockers(w)
  IN [lit EXCEPT
        !.map = [c \in DOMAIN @ |-> Without(@[c], gone)],
        !.dead = @ \cup gone]

Exploding(w) == {c \in DOMAIN w.bombs : w.timer[<<"bomb", c>>] = 0}

\* order: the cells of the bombs, as they are in their storage.
UpdateBombs(w, order) == FoldLeft(Explode, Triggered(w), order)

UpdateFlames(w) ==
  LET hot == {f \in w.flames : f.age >= FlameWarmUp /\ f.age < FlameCoolDown}
  IN [w EXCEPT !.burning = @ \cup UNION {Here(w, f.cell) : f \in hot}]

-----------------------------------------------------------------------------
(* The effects of the power-ups.                                           *)

UpdateInvincibilityState(w) ==
  LET over == {p \in DOMAIN w.invincible : w.invincible[p] = 0}
      safe == DOMAIN w.invincible \ over
  IN [w EXCEPT !.invincible = Restrict(@, safe),
               !.burning = @ \ {Player(p) : p \in safe}]

UseShields(w) ==
  LET hit == {p \in w.shields : Player(p) \in w.burning}
  IN NewInvincibility([w EXCEPT !.shields = @ \ hit], hit)

UpdateShields(w) ==
  LET hit == {p \in w.shields : Player(p) \in w.burning}
  IN NewInvincibility([w EXCEPT !.burning = @ \ {Player(p) : p \in hit},
                                !.shields = @ \ hit], hit)

UpdateCrates(w) ==
  [w EXCEPT !.crates =
     [c \in DOMAIN @ |->
        IF <<"crate", c>> \in w.burning /\ @[c].state = "idle"
        THEN [@[c] EXCEPT !.state = "burn", !.elapsed = 0] ELSE @[c]]]

UpdateInvisibilityState(w) ==
  [w EXCEPT !.invisible =
     Restrict(@, {p \in DOMAIN @ : @[p] > 0 /\ Alive(w, p)})]

\* The dead crates leave their power-up.
UpdatePowerUpSpawners(w) ==
  LET open == {c \in DOMAIN w.crates :
                 <<"crate", c>> \in w.dead /\ w.crates[c].spawner \in Kinds}
  IN [w EXCEPT
        !.powerUps = Over([c \in open |-> w.crates[c].spawner], @),
        !.map = Updated(@, open,
                        LAMBDA c : Append(w.map[c], <<"power_up", c>>))]

UpdatePowerUps(w) ==
  LET burnt == {c \in DOMAIN w.powerUps : <<"power_up", c>> \in w.burning}
  IN Killed([w EXCEPT !.map = Updated(@, burnt,
               LAMBDA c : Without(w.map[c], {<<"power_up", c>>}))],
            {<<"power_up", c>> : c \in burnt})

Min2(a, b) == IF a < b THEN a ELSE b

BombPowerUp(w, p) ==
  IF w.players[p].capacity = MaxCapacity THEN w
  ELSE [w EXCEPT !.players[p].capacity = @ + 1, !.players[p].available = @ + 1]

FlamePowerUp(w, p) ==
  [w EXCEPT !.players[p].strength = Min2(@ + 1, MaxStrength)]

InvisibilityPowerUp(w, p) == NewInvisibility(w, p)

ShieldPowerUp(w, p) == [w EXCEPT !.shields = @ \cup {p}]

Effect(w, p, kind) ==
  CASE kind = "bomb" -> BombPowerUp(w, p)
    [] kind = "flame" -> FlamePowerUp(w, p)
    [] kind = "invisibility" -> InvisibilityPowerUp(w, p)
    [] kind = "shield" -> ShieldPowerUp(w, p)

PickUp(w, picking) ==
  LET p == picking.player
      c == PlayerCell(w, p)
      e == <<"power_up", c>>
  IN IF /\ p \in DOMAIN w.players
        /\ e \in Here(w, c) \ w.dead
        /\ w.powerUps[c] = picking.kind
     THEN Killed([Effect(w, p, picking.kind) EXCEPT !.map = Erased(@, e, c)],
                 {e})
     ELSE w

PickUpsOf(w, kind) ==
  FoldLeft(PickUp, w, Turns(LAMBDA p : [player |-> p, kind |-> kind]))

PickUps(w) ==
  PickUpsOf(PickUpsOf(PickUpsOf(PickUpsOf(w, "bomb"), "flame"),
                      "invisibility"), "shield")

-----------------------------------------------------------------------------
(* The end of the players.                                                 *)

Transition(w, es, state) ==
  [w EXCEPT !.players =
     [p \in DOMAIN @ |->
        IF Player(p) \in es /\ @[p].state = "alive"
        THEN [@[p] EXCEPT !.state = state, !.elapsed = 0] ELSE @[p]]]

UpdatePlayers(w, kicked) ==
  LET out == Killed(w, {Player(p) : p \in kicked})
      burnt == Transition(out, w.burning, "burn")
      died == Transition(burnt, w.crushed, "die")
  IN [died EXCEPT !.crushed = {e \in @ : ~IsPlayer(e)}]

UpdateFogOfWar(w) ==
  LET flames == {f.cell : f \in w.flames} IN
    [w EXCEPT !.fog =
       [p \in Players |-> IF p \in DOMAIN w.players
                          THEN UpdateFog(@[p], PlayerCell(w, p), flames)
                          ELSE @[p]]]

RemoveDeadObjects(w) ==
  LET gone == w.dead \cup w.crushed
      left(S, kind) == {c \in S : <<kind, c>> \notin gone}
      here == {p \in DOMAIN w.players : Player(p) \notin gone}
  IN [w EXCEPT
        !.map = [c \in DOMAIN @ |-> Without(@[c], gone)],
        !.players = Restrict(@, here),
        !.shields = @ \cap here,
        !.invincible = Restrict(@, DOMAIN @ \cap here),
        !.invisible = Restrict(@, DOMAIN @ \cap here),
        !.bombs = Restrict(@, left(DOMAIN @, "bomb")),
        !.crates = Restrict(@, left(DOMAIN @, "crate")),
        !.powerUps = Restrict(@, left(DOMAIN @, "power_up")),
        !.timer = Restrict(@, DOMAIN @ \ gone),
        !.flames = {f \in @ : f.age < FlameDuration},
        !.burning = @ \ gone,
        !.crushed = {}, !.dead = {}]

CheckWinner(w) ==
  LET alive == {p \in DOMAIN w.players : Alive(w, p)} IN
    IF alive = {} THEN Draw
    ELSE IF Cardinality(alive) = 1 THEN Player(CHOOSE p \in alive : TRUE)
    ELSE Running

\* The players still there, unless one of them is dying, tell the winner.
CheckGameOver(w) ==
  LET here == DOMAIN w.players IN
    IF \E p \in here : ~Alive(w, p) THEN Running
    ELSE IF here = {} THEN Draw
    ELSE IF Cardinality(here) = 1 THEN Player(CHOOSE p \in here : TRUE)
    ELSE IF ReductionDelay = 0 /\ w.clock = 0 THEN Draw
    ELSE Running

-----------------------------------------------------------------------------

BeforeBombs(w, actions) ==
  TriggerCrushedTimers(UpdateFallingBlocks(ArenaReduction(
    ApplyPlayerAction(Animator(UpdateTimers(UpdateClocks(
                        RefreshBombInventory(w)))),
                      actions))))

AfterBombs(w, kicked) ==
  RemoveDeadObjects(UpdateFogOfWar(UpdatePlayers(
    PickUps(UpdatePowerUps(UpdatePowerUpSpawners(UpdateInvisibilityState(
      UpdateCrates(UpdateShields(UpdateInvincibilityState(
        UpdateFlames(w)))))))),
    kicked)))

Init ==
  /\ \E crates \in Crates, excluded \in Excluded :
       world =
         [players |-> [p \in Players |-> NewPlayer(p)],
          crates |-> [c \in DOMAIN crates |-> NewCrate(crates[c])],
          bombs |-> <<>>, powerUps |-> <<>>, walls |-> {}, blocks |-> <<>>,
          flames |-> {}, timer |-> <<>>,
          map |-> [c \in FreeCells |->
            IF c \in DOMAIN crates THEN << <<"crate", c>> >>
            ELSE Without([i \in 1..PlayerCount |-> Player(i - 1)],
                         {Player(p) : p \in {p \in Players :
                                              StartCell(p) # c}})],
          burning |-> {}, crushed |-> {}, dead |-> {},
          shields |-> {}, invincible |-> <<>>, invisible |-> <<>>,
          clock |-> IF ReductionDelay = 0 THEN GameDuration
                    ELSE ReductionDelay,
          nextFall |-> 1, date |-> 0,
          fog |-> [p \in Players |->
                     IF FogOfWar THEN NewFog(StartCell(p), excluded)
                     ELSE <<>>]]
  /\ result = Running

\* What the living players may ask for.
Requests ==
  LET alive == {p \in DOMAIN world.players : Alive(world, p)} IN
    {a \in [alive -> [movement : Directions \cup {"idle"}, drop : BOOLEAN]] :
       \A p \in alive : a[p] \in Abilities[p]}

\* A tick: the players have asked for some actions, some of them have been
\* kicked; but not the ones whose death ends in this tick: update_players would
\* mark them as dead twice, which entt does not allow.
Ticked(actions) ==
  LET before == BeforeBombs(world, actions) IN
  \E order \in SetToSeqs(Exploding(Triggered(before))),
    kicked \in SUBSET {p \in Kickable \cap DOMAIN world.players :
                       Player(p) \notin before.dead} :
      /\ world' = AfterBombs(UpdateBombs(before, order), kicked)
      /\ result' = CheckGameOver(world')

Tick ==
  /\ result = Running
  /\ \E actions \in Requests : Ticked(actions)

Next == Tick

Spec == Init /\ [][Next]_vars

\* The runner of the contest ticks until it is over.  It is WF_vars(Tick), a
\* tick being possible as long as the result is Running.
FairSpec == Spec /\ ([]<>(result # Running) \/ []<><<TRUE>>_vars)

-----------------------------------------------------------------------------

Entities ==
  {Player(p) : p \in DOMAIN world.players}
  \cup {<<"bomb", c>> : c \in DOMAIN world.bombs}
  \cup {<<"crate", c>> : c \in DOMAIN world.crates}
  \cup {<<"power_up", c>> : c \in DOMAIN world.powerUps}
  \cup {<<"wall", c>> : c \in world.walls}
  \cup {e \in DOMAIN world.timer : e[1] = "blocker"}

TypeOK ==
  /\ DOMAIN world.players \subseteq Players
  /\ \A p \in DOMAIN world.players :
       LET player == world.players[p] IN
         /\ PlayerCell(world, p) \in FreeCells
         /\ player.state \in {"alive", "burn", "die"}
         /\ player.available \in 0..MaxCapacity
         /\ player.capacity \in 1..MaxCapacity
         /\ player.strength \in 1..MaxStrength
         /\ Len(player.queue) = QueueSize
  /\ world.burning \subseteq Entities
  /\ world.crushed = {} /\ world.dead = {}
  /\ result \in {Running, Draw} \cup {Player(p) : p \in Players}

\* Between two ticks, the entity map and the registry tell the same: nothing in
\* the map has left the registry, nothing is twice in the map, and what can be
\* met is at its place; only the players crushed by a block are nowhere.
MapAgrees ==
  /\ \A c \in FreeCells : /\ Here(world, c) \subseteq Entities
                         /\ IsInjective(world.map[c])
  /\ \A e \in Entities :
       LET places == {c \in FreeCells : e \in Here(world, c)} IN
         \/ places = {CellOfEntity(world, e)}
         \/ /\ places = {}
            /\ IsPlayer(e) /\ ~Alive(world, e[2])
            /\ CellOfEntity(world, e) \in world.walls

\* A player never has more bombs in the arena than it may have, whatever it
\* picks up meanwhile: bomb_available does not wrap around.
BombsCounted ==
  \A p \in DOMAIN world.players :
    ActiveBombs(world, p) + world.players[p].available
      <= world.players[p].capacity

\* What is stored twice agrees after each tick: the places of the entities, and
\* the bombs of the players.
RegistryAgrees == MapAgrees /\ BombsCounted

\* The order of the bombs in their storage does not matter: the bombs which
\* explode in a tick burn the same cells and the same things in any order.
ExplosionsCommute ==
  LET before == BeforeBombs(world, [p \in DOMAIN world.players |-> Idle])
      lasting(e) == e[1] # "blocker" /\ e \notin {<<"bomb", c>> :
                                            c \in Exploding(Triggered(before))}
      after == {LET w == UpdateBombs(before, order)
                IN <<w.flames, {e \in w.burning : lasting(e)}>> :
                  order \in SetToSeqs(Exploding(Triggered(before)))}
  IN Cardinality(after) = 1

\* The fire does not start to burn a player who had a shield or who is
\* invincible for more than a tick.
ShieldsProtect ==
  [][\A p \in DOMAIN world.players \cap DOMAIN world'.players :
       \/ p \in world.shields
       \/ p \in DOMAIN world.invincible /\ world.invincible[p] > 1
       => ~(Alive(world, p) /\ world'.players[p].state = "burn")]_vars

\* The arena keeps the promise of module Survival.
Status == [p \in Players |->
             IF p \notin DOMAIN world.players THEN "gone"
             ELSE IF Alive(world, p) THEN "alive" ELSE "dying"]

Promise ==
  INSTANCE Survival WITH Players <- {Player(p) : p \in Players},
                         status <- [e \in {Player(p) : p \in Players} |->
                                      Status[e[2]]]

SurvivalImplemented == Promise!Spec

\* Every contest ends.
ContestEnds == <>(result # Running)

=============================================================================
