--------------------------- MODULE RegistryProofs ---------------------------
(***************************************************************************)
(* What the arena stores twice always agrees: the entity map and the       *)
(* registry, through each system of a tick, for any arena, level,          *)
(* durations and number of players.  It is what makes the explosions of a  *)
(* tick commute.                                                           *)
(***************************************************************************)
EXTENDS ArenaProofs

-----------------------------------------------------------------------------
(* The registry and the entity map.                                        *)

EntitiesOf(w) ==
  {Player(p) : p \in DOMAIN w.players}
  \cup {<<"bomb", c>> : c \in DOMAIN w.bombs}
  \cup {<<"crate", c>> : c \in DOMAIN w.crates}
  \cup {<<"power_up", c>> : c \in DOMAIN w.powerUps}
  \cup {<<"wall", c>> : c \in w.walls}
  \cup {e \in DOMAIN w.timer : e[1] = "blocker"}

\* The map has a list of entities for each free cell, each of them once.
Lists(map) ==
  /\ DOMAIN map = FreeCells
  /\ \A c \in FreeCells : IsList(map[c]) /\ IsInjective(map[c])

\* What may be in the registry and not in the map.
Missing(w, e) ==
  \/ e \in w.dead \cup w.crushed
  \/ IsPlayer(e) /\ ~Alive(w, e[2]) /\ CellOfEntity(w, e) \in w.walls

\* The entities are where they say they are.
Located(w) ==
  /\ \A c \in FreeCells : \A e \in Here(w, c) :
       e \in EntitiesOf(w) /\ CellOfEntity(w, e) = c
  /\ \A e \in EntitiesOf(w) :
       /\ CellOfEntity(w, e) \in FreeCells
       /\ e \in Here(w, CellOfEntity(w, e)) \/ Missing(w, e)

\* No bomb in a wall.
Alone(w) ==
  \A c \in FreeCells : <<"wall", c>> \in Here(w, c) => <<"bomb", c>> \notin Here(w, c)

Mapped(w) == Lists(w.map) /\ Located(w) /\ Alone(w)

\* An entity is in the registry if what it stands for is.
LEMMA EntityFacts ==
  ASSUME NEW w, NEW x
  PROVE  /\ Player(x) \in EntitiesOf(w) <=> x \in DOMAIN w.players
         /\ <<"bomb", x>> \in EntitiesOf(w) <=> x \in DOMAIN w.bombs
         /\ <<"crate", x>> \in EntitiesOf(w) <=> x \in DOMAIN w.crates
         /\ <<"power_up", x>> \in EntitiesOf(w) <=> x \in DOMAIN w.powerUps
         /\ <<"wall", x>> \in EntitiesOf(w) <=> x \in w.walls
         /\ x[1] = "blocker" => (x \in EntitiesOf(w) <=> x \in DOMAIN w.timer)
         /\ CellOfEntity(w, Player(x)) = PlayerCell(w, x)
         /\ IsPlayer(Player(x)) /\ Player(x)[2] = x
         /\ \A kind \in {"bomb", "crate", "power_up", "wall"} :
              /\ ~IsPlayer(<<kind, x>>)
              /\ CellOfEntity(w, <<kind, x>>) = x
         /\ x[1] = "blocker" => ~IsPlayer(x) /\ CellOfEntity(w, x) = x[2]
<1>1. Player(x) \in EntitiesOf(w) <=> x \in DOMAIN w.players
  BY DEF EntitiesOf, Player
<1>2. <<"bomb", x>> \in EntitiesOf(w) <=> x \in DOMAIN w.bombs
  BY DEF EntitiesOf, Player
<1>3. <<"crate", x>> \in EntitiesOf(w) <=> x \in DOMAIN w.crates
  BY DEF EntitiesOf, Player
<1>4. <<"power_up", x>> \in EntitiesOf(w) <=> x \in DOMAIN w.powerUps
  BY DEF EntitiesOf, Player
<1>5. <<"wall", x>> \in EntitiesOf(w) <=> x \in w.walls
  BY DEF EntitiesOf, Player
<1>6. x[1] = "blocker" => (x \in EntitiesOf(w) <=> x \in DOMAIN w.timer)
  BY DEF EntitiesOf, Player
<1>7. /\ IsPlayer(Player(x)) /\ Player(x)[2] = x
      /\ CellOfEntity(w, Player(x)) = PlayerCell(w, x)
  BY DEF Player, IsPlayer, CellOfEntity
<1>8. \A kind \in {"bomb", "crate", "power_up", "wall"} :
        ~IsPlayer(<<kind, x>>) /\ CellOfEntity(w, <<kind, x>>) = x
  BY DEF IsPlayer, CellOfEntity
<1>9. x[1] = "blocker" => ~IsPlayer(x) /\ CellOfEntity(w, x) = x[2]
  BY DEF IsPlayer, CellOfEntity
<1> QED BY <1>1, <1>2, <1>3, <1>4, <1>5, <1>6, <1>7, <1>8, <1>9

\* Every entity is of one of these kinds.
LEMMA EntityKinds ==
  ASSUME NEW w, NEW e \in EntitiesOf(w)
  PROVE  \/ \E p \in DOMAIN w.players : e = Player(p)
         \/ \E c \in DOMAIN w.bombs : e = <<"bomb", c>>
         \/ \E c \in DOMAIN w.crates : e = <<"crate", c>>
         \/ \E c \in DOMAIN w.powerUps : e = <<"power_up", c>>
         \/ \E c \in w.walls : e = <<"wall", c>>
         \/ e \in DOMAIN w.timer /\ e[1] = "blocker"
BY DEF EntitiesOf

\* The same registry, the same entities.
LEMMA SameEntities ==
  ASSUME NEW w, NEW v, DOMAIN v.players = DOMAIN w.players,
         DOMAIN v.bombs = DOMAIN w.bombs, DOMAIN v.crates = DOMAIN w.crates,
         DOMAIN v.powerUps = DOMAIN w.powerUps, v.walls = w.walls,
         DOMAIN v.timer = DOMAIN w.timer
  PROVE  EntitiesOf(v) = EntitiesOf(w)
BY DEF EntitiesOf

\* An entity is in the same cell as long as no player moves.
LEMMA SamePlaces ==
  ASSUME NEW w, NEW v,
         \A p \in DOMAIN w.players :
           v.players[p].position = w.players[p].position
  PROVE  \A e \in EntitiesOf(w) : CellOfEntity(v, e) = CellOfEntity(w, e)
<1> SUFFICES ASSUME NEW e \in EntitiesOf(w)
             PROVE  CellOfEntity(v, e) = CellOfEntity(w, e)
  OBVIOUS
<1>1. CASE IsPlayer(e)
  <2>1. PICK p \in DOMAIN w.players : e = Player(p)
    BY <1>1 DEF EntitiesOf, IsPlayer
  <2>2. v.players[p].position = w.players[p].position
    BY <2>1
  <2> QED BY <2>1, <2>2 DEF CellOfEntity, IsPlayer, Player, PlayerCell
<1>2. CASE ~IsPlayer(e)
  BY <1>2 DEF CellOfEntity
<1> QED BY <1>1, <1>2

\* What is missing still is, as long as no player moves or comes back to life.
LEMMA MissingStays ==
  ASSUME NEW w, NEW v,
         w.dead \cup w.crushed \subseteq v.dead \cup v.crushed,
         w.walls \subseteq v.walls,
         \A p \in DOMAIN w.players :
           /\ v.players[p].position = w.players[p].position
           /\ Alive(v, p) => Alive(w, p)
  PROVE  \A e \in EntitiesOf(w) : Missing(w, e) => Missing(v, e)
<1> SUFFICES ASSUME NEW e \in EntitiesOf(w), Missing(w, e)
             PROVE  Missing(v, e)
  OBVIOUS
<1>1. CASE IsPlayer(e)
  <2>1. PICK p \in DOMAIN w.players : e = Player(p)
    BY <1>1 DEF EntitiesOf, IsPlayer
  <2>2. e[2] = p
    BY <2>1 DEF Player
  <2>3. CellOfEntity(v, e) = CellOfEntity(w, e)
    BY SamePlaces
  <2> QED BY <2>2, <2>3 DEF Missing
<1>2. CASE ~IsPlayer(e)
  BY <1>2 DEF Missing
<1> QED BY <1>1, <1>2

\* What keeps the entities where they say they are: what is new is put in its
\* cell, what leaves the map may be missing.
Follows(w, v) ==
  /\ \A e \in EntitiesOf(w) :
       /\ e \in EntitiesOf(v) /\ CellOfEntity(v, e) = CellOfEntity(w, e)
       /\ Missing(w, e) => Missing(v, e)
  /\ \A e \in EntitiesOf(v) \ EntitiesOf(w) :
       /\ CellOfEntity(v, e) \in FreeCells
       /\ e \in Here(v, CellOfEntity(v, e))
  /\ \A c \in FreeCells : \A e \in Here(v, c) :
       e \in Here(w, c) \/ (e \in EntitiesOf(v) /\ CellOfEntity(v, e) = c)
  /\ \A c \in FreeCells : \A e \in Here(w, c) :
       e \in Here(v, c) \/ Missing(v, e)

\* When the map follows an entity, each is still where it should be.
LEMMA FollowsLocated ==
  ASSUME NEW w, Located(w), NEW v, Follows(w, v)
  PROVE  Located(v)
<1>1. ASSUME NEW c \in FreeCells, NEW e \in Here(v, c)
      PROVE  e \in EntitiesOf(v) /\ CellOfEntity(v, e) = c
  BY <1>1 DEF Located, Follows
<1>2. ASSUME NEW e \in EntitiesOf(v)
      PROVE  /\ CellOfEntity(v, e) \in FreeCells
             /\ e \in Here(v, CellOfEntity(v, e)) \/ Missing(v, e)
  BY <1>2 DEF Located, Follows
<1> QED BY <1>1, <1>2 DEF Located

\* It is so when only the registry changes.
LEMMA MappedStays ==
  ASSUME NEW w, Mapped(w), NEW v, v.map = w.map,
         EntitiesOf(v) = EntitiesOf(w),
         \A p \in DOMAIN w.players :
           v.players[p].position = w.players[p].position,
         \A e \in EntitiesOf(w) : Missing(w, e) => Missing(v, e)
  PROVE  Mapped(v)
<1>1. \A e \in EntitiesOf(w) : CellOfEntity(v, e) = CellOfEntity(w, e)
  BY SamePlaces
<1>2. \A c : Here(v, c) = Here(w, c)
  BY DEF Here
<1>3. Follows(w, v)
  BY <1>1, <1>2 DEF Follows
<1>4. Located(v)
  BY <1>3, FollowsLocated DEF Mapped
<1> QED BY <1>2, <1>4 DEF Mapped, Lists, Alone

-----------------------------------------------------------------------------
(* The actions of the players keep the map and the registry together.      *)

\* An entity is put in a cell.
LEMMA PutInMap ==
  ASSUME NEW map, Lists(map), NEW c \in FreeCells, NEW e,
         e \notin Range(map[c])
  PROVE  /\ Lists(Put(map, e, c))
         /\ Range(Put(map, e, c)[c]) = Range(map[c]) \cup {e}
         /\ \A x \in FreeCells \ {c} : Put(map, e, c)[x] = map[x]
<1>1. /\ DOMAIN Put(map, e, c) = FreeCells
      /\ Put(map, e, c)[c] = Append(map[c], e)
      /\ \A x \in FreeCells \ {c} : Put(map, e, c)[x] = map[x]
  BY DEF Put, Lists
<1>2. /\ IsList(Append(map[c], e)) /\ IsInjective(Append(map[c], e))
      /\ Range(Append(map[c], e)) = Range(map[c]) \cup {e}
  BY AppendToList DEF Lists
<1> QED BY <1>1, <1>2 DEF Lists

\* An entity leaves a cell.
LEMMA ErasedFromMap ==
  ASSUME NEW map, Lists(map), NEW c \in FreeCells, NEW e
  PROVE  /\ Lists(Erased(map, e, c))
         /\ Range(Erased(map, e, c)[c]) = Range(map[c]) \ {e}
         /\ \A x \in FreeCells \ {c} : Erased(map, e, c)[x] = map[x]
<1>1. /\ DOMAIN Erased(map, e, c) = FreeCells
      /\ Erased(map, e, c)[c] = Without(map[c], {e})
      /\ \A x \in FreeCells \ {c} : Erased(map, e, c)[x] = map[x]
  BY DEF Erased, Lists
<1>2. /\ IsList(Without(map[c], {e})) /\ IsInjective(Without(map[c], {e}))
      /\ Range(Without(map[c], {e})) = Range(map[c]) \ {e}
  BY WithoutFromList DEF Lists
<1> QED BY <1>1, <1>2 DEF Lists

\* The cells with a crate or a power-up.
Covered(w) == DOMAIN w.crates \cup DOMAIN w.powerUps

\* What waits in a queue: a bomb is dropped in a free cell, and not with a
\* power-up.
Items(covered) ==
  {i \in [action : [movement : Directions \cup {"idle"}, drop : BOOLEAN],
          cell : Point] :
     i.action.drop => i.cell \in FreeCells \ covered}

\* A player is in a free cell.
Able(player, covered) ==
  /\ player.position \in Point
  /\ player.queue \in Seq(Items(covered)) /\ Len(player.queue) = QueueSize

\* What holds as long as the players act.
Acting(w) ==
  /\ Mapped(w) /\ w.crushed = {}
  /\ \A p \in DOMAIN w.players :
       /\ Able(w.players[p], Covered(w)) /\ w.players[p].strength \in Nat
       /\ PlayerCell(w, p) \notin DOMAIN w.crates
  /\ \A c \in DOMAIN w.bombs : w.bombs[c].strength \in Nat /\ c \notin Covered(w)
  /\ \A c \in DOMAIN w.crates : <<"crate", c>> \in Here(w, c)
  /\ w.burning \subseteq EntitiesOf(w)
  /\ IsFiniteSet(DOMAIN w.timer)

Requested == [movement : Directions \cup {"idle"}, drop : BOOLEAN]

\* The players are in free cells, the crates are solid.
LEMMA ActingCells ==
  ASSUME NEW w, Acting(w)
  PROVE  /\ \A p \in DOMAIN w.players : PlayerCell(w, p) \in FreeCells
         /\ \A c \in DOMAIN w.crates : c \in SolidCells(w)
<1>1. ASSUME NEW p \in DOMAIN w.players
      PROVE  PlayerCell(w, p) \in FreeCells
  <2>1. Player(p) \in EntitiesOf(w) /\ CellOfEntity(w, Player(p)) = PlayerCell(w, p)
    BY EntityFacts
  <2> QED BY <2>1 DEF Acting, Mapped, Located
<1>2. ASSUME NEW c \in DOMAIN w.crates
      PROVE  c \in SolidCells(w)
  <2>1. <<"crate", c>> \in EntitiesOf(w) /\ CellOfEntity(w, <<"crate", c>>) = c
    BY EntityFacts, ZenonT(60)
  <2>2. c \in FreeCells /\ <<"crate", c>> \in Here(w, c)
    BY <2>1 DEF Acting, Mapped, Located
  <2> QED BY <2>2 DEF SolidCells
<1> QED BY <1>1, <1>2

\* A player who waits for the end of a move keeps the map right.
LEMMA WaitsActing ==
  ASSUME NEW w, Shaped(w), Acting(w), NEW p \in DOMAIN w.players,
         NEW action \in Requested, PlayerCell(w, p) \notin Covered(w),
         NEW v, Waits(w, p, action, v)
  PROVE  /\ Acting(v) /\ Covered(v) = Covered(w)
         /\ \A q \in DOMAIN w.players :
              v.players[q].position = w.players[q].position
<1>1. /\ v.map = w.map /\ v.crushed = w.crushed /\ v.bombs = w.bombs
      /\ v.crates = w.crates /\ v.powerUps = w.powerUps /\ v.walls = w.walls
      /\ v.timer = w.timer /\ v.dead = w.dead /\ v.burning = w.burning
      /\ DOMAIN v.players = DOMAIN w.players
      /\ \A q \in DOMAIN w.players :
           /\ v.players[q].position = w.players[q].position
           /\ v.players[q].state = w.players[q].state
           /\ v.players[q].strength = w.players[q].strength
  BY DEF Waits, Same, SamePlayers, Fields, PlayerFields
<1>2. EntitiesOf(v) = EntitiesOf(w)
  BY <1>1, SameEntities
<1>3. \A q \in DOMAIN w.players : PlayerCell(v, q) = PlayerCell(w, q)
  BY <1>1 DEF PlayerCell
<1>4. Mapped(v)
  <2>1. \A e \in EntitiesOf(w) : Missing(w, e) => Missing(v, e)
    BY <1>1, MissingStays DEF Alive
  <2> QED BY <1>1, <1>2, <2>1, MappedStays DEF Acting
<1>5. Covered(v) = Covered(w)
  BY <1>1 DEF Covered
<1>6. ASSUME NEW q \in DOMAIN w.players
      PROVE  Able(v.players[q], Covered(w))
  <2>1. Able(w.players[q], Covered(w)) /\ Able(w.players[p], Covered(w))
    BY DEF Acting
  <2>2. CASE q # p
    BY <2>1, <2>2 DEF Waits
  <2>3. CASE q = p
    <3> DEFINE item == [action |-> action, cell |-> PlayerCell(w, p)]
               queue == w.players[p].queue
    <3>1. PlayerCell(w, p) \in FreeCells /\ PlayerCell(w, p) \in Point
      BY <2>1, ActingCells, CellOfPoint DEF PlayerCell, Able
    <3>2. item \in Items(Covered(w))
      BY <3>1 DEF Items, Requested
    <3>3. queue \in Seq(Items(Covered(w))) /\ Len(queue) = QueueSize
          /\ QueueSize \in Nat /\ QueueSize > 0
      BY <2>1, ArenaConstants DEF Able
    <3>4. v.players[p].queue = Append(Tail(queue), item)
      BY DEF Waits
    <3> HIDE DEF item, queue
    <3>5. /\ Append(Tail(queue), item) \in Seq(Items(Covered(w)))
          /\ Len(Append(Tail(queue), item)) = QueueSize
      BY <3>2, <3>3
    <3> QED BY <1>1, <2>1, <2>3, <3>4, <3>5 DEF Able
  <2> QED BY <2>2, <2>3
<1>7. \A c : Here(v, c) = Here(w, c)
  BY <1>1 DEF Here
<1> QED BY <1>1, <1>2, <1>3, <1>4, <1>5, <1>6, <1>7 DEF Acting

\* So does a player who moves.
LEMMA MovesActing ==
  ASSUME NEW w, Shaped(w), Acting(w), NEW p \in DOMAIN w.players,
         NEW d \in Directions \cup {"idle"}, NEW v, Moves(w, p, d, v)
  PROVE  /\ Acting(v) /\ Covered(v) = Covered(w)
         /\ \A q \in DOMAIN w.players \ {p} :
              v.players[q].position = w.players[q].position
<1> DEFINE from == w.players[p].position
           to == v.players[p].position
           a == CellOf(from)
           b == CellOf(to)
<1>1. /\ v.crushed = w.crushed /\ v.bombs = w.bombs
      /\ v.crates = w.crates /\ v.powerUps = w.powerUps /\ v.walls = w.walls
      /\ v.timer = w.timer /\ v.dead = w.dead /\ v.burning = w.burning
      /\ DOMAIN v.players = DOMAIN w.players
      /\ \A q \in DOMAIN w.players :
           /\ v.players[q].state = w.players[q].state
           /\ v.players[q].strength = w.players[q].strength
           /\ v.players[q].queue = w.players[q].queue
      /\ \A q \in DOMAIN w.players \ {p} : v.players[q] = w.players[q]
  BY DEF Moves, Same, SamePlayers, Fields, PlayerFields
<1>2. EntitiesOf(v) = EntitiesOf(w)
  BY <1>1, SameEntities
<1>3. /\ to \in Point /\ a \in FreeCells /\ b \in FreeCells
      /\ b = a \/ b \notin SolidCells(w)
      /\ PlayerCell(w, p) = a /\ PlayerCell(v, p) = b
  <2>1. from \in Point /\ a \in FreeCells /\ PlayerCell(w, p) = a
    BY ActingCells DEF Acting, Able, PlayerCell
  <2>2. to = Moved(from, d, fences, SolidCells(w)) /\ d \in Directions
    BY DEF Moves
  <2>3. Enters(to, a, SolidCells(w))
    BY <2>1, <2>2, MovedEnters
  <2> QED BY <2>1, <2>3 DEF Enters, PlayerCell
<1>4. v.map = Put(Erased(w.map, Player(p), a), Player(p), b)
  BY DEF Moves
<1> HIDE DEF from, to, a, b
<1>5. /\ Player(p) \in EntitiesOf(w) /\ CellOfEntity(w, Player(p)) = a
      /\ CellOfEntity(v, Player(p)) = b
  BY <1>3, EntityFacts
<1>6. ASSUME NEW e \in EntitiesOf(w), e # Player(p)
      PROVE  /\ CellOfEntity(v, e) = CellOfEntity(w, e)
             /\ Missing(w, e) => Missing(v, e)
  <2>1. CASE IsPlayer(e)
    <3>1. PICK q \in DOMAIN w.players : e = Player(q)
      BY <2>1 DEF EntitiesOf, IsPlayer
    <3>2. q # p /\ e[2] = q
      BY <1>6, <3>1 DEF Player
    <3>3. v.players[q] = w.players[q]
      BY <1>1, <3>2
    <3> QED BY <1>1, <3>2, <3>3 DEF Missing, CellOfEntity, PlayerCell, Alive
  <2>2. CASE ~IsPlayer(e)
    BY <1>1, <2>2 DEF Missing, CellOfEntity
  <2> QED BY <2>1, <2>2
<1>7. /\ Lists(v.map)
      /\ \A c \in FreeCells :
           Here(v, c) = (Here(w, c) \ {Player(p)})
                        \cup (IF c = b THEN {Player(p)} ELSE {})
  <2> DEFINE map == Erased(w.map, Player(p), a)
  <2>1. /\ Lists(map) /\ Range(map[a]) = Range(w.map[a]) \ {Player(p)}
        /\ \A c \in FreeCells \ {a} : map[c] = w.map[c]
    BY <1>3, ErasedFromMap DEF Acting, Mapped
  <2>2. ASSUME NEW c \in FreeCells
        PROVE  Range(map[c]) = Range(w.map[c]) \ {Player(p)}
    <3>1. CASE c = a
      BY <2>1, <3>1
    <3>2. CASE c # a
      <4>1. Player(p) \notin Here(w, c)
        BY <1>5, <3>2 DEF Acting, Mapped, Located
      <4> QED BY <2>1, <3>2, <4>1 DEF Here
    <3> QED BY <3>1, <3>2
  <2> HIDE DEF map
  <2>3. /\ Lists(Put(map, Player(p), b))
        /\ Range(Put(map, Player(p), b)[b]) = Range(map[b]) \cup {Player(p)}
        /\ \A c \in FreeCells \ {b} : Put(map, Player(p), b)[c] = map[c]
    BY <1>3, <2>1, <2>2, PutInMap
  <2>4. v.map = Put(map, Player(p), b)
    BY <1>4 DEF map
  <2> QED BY <2>2, <2>3, <2>4 DEF Here
<1>8. Located(v)
  <2>1. ASSUME NEW c \in FreeCells, NEW e \in Here(v, c)
        PROVE  e \in EntitiesOf(v) /\ CellOfEntity(v, e) = c
    <3>1. CASE e = Player(p)
      BY <1>2, <1>5, <1>7, <2>1, <3>1
    <3>2. CASE e # Player(p)
      <4>1. e \in Here(w, c)
        BY <1>7, <2>1, <3>2
      <4> QED BY <1>2, <1>6, <3>2, <4>1 DEF Acting, Mapped, Located
    <3> QED BY <3>1, <3>2
  <2>2. ASSUME NEW e \in EntitiesOf(v)
        PROVE  /\ CellOfEntity(v, e) \in FreeCells
               /\ e \in Here(v, CellOfEntity(v, e)) \/ Missing(v, e)
    <3>1. CASE e = Player(p)
      BY <1>3, <1>5, <1>7, <3>1
    <3>2. CASE e # Player(p)
      BY <1>2, <1>6, <1>7, <3>2 DEF Acting, Mapped, Located
    <3> QED BY <3>1, <3>2
  <2> QED BY <2>1, <2>2 DEF Located
<1>9. ASSUME NEW c \in FreeCells, NEW e, ~IsPlayer(e)
      PROVE  e \in Here(v, c) <=> e \in Here(w, c)
  <2>1. e # Player(p)
    BY <1>9 DEF Player, IsPlayer
  <2> QED BY <1>7, <2>1
<1>10. Mapped(v)
  BY <1>7, <1>8, <1>9, EntityFacts DEF Acting, Mapped, Alone
<1>11. Covered(v) = Covered(w)
  BY <1>1 DEF Covered
<1>12. ASSUME NEW q \in DOMAIN v.players
       PROVE  /\ Able(v.players[q], Covered(v)) /\ v.players[q].strength \in Nat
              /\ PlayerCell(v, q) \notin DOMAIN v.crates
  <2>1. CASE q # p
    BY <1>1, <1>11, <2>1 DEF Acting, PlayerCell
  <2>2. CASE q = p
    <3>1. /\ Able(w.players[p], Covered(w)) /\ w.players[p].strength \in Nat
          /\ a \notin DOMAIN w.crates
      BY <1>3 DEF Acting
    <3>2. b \notin DOMAIN w.crates
      BY <1>3, <3>1, ActingCells
    <3> QED BY <1>1, <1>3, <1>11, <2>2, <3>1, <3>2 DEF Able, to
  <2> QED BY <2>1, <2>2
<1>13. ASSUME NEW c \in DOMAIN v.crates
       PROVE  <<"crate", c>> \in Here(v, c)
  <2>1. c \in FreeCells /\ <<"crate", c>> \in Here(w, c)
    BY <1>1, ActingCells DEF Acting, SolidCells
  <2> QED BY <1>9, <2>1, EntityFacts
<1> QED BY <1>1, <1>2, <1>10, <1>11, <1>12, <1>13 DEF Acting

\* So does a player who drops a bomb where nothing is.
LEMMA DropsActing ==
  ASSUME NEW w, Shaped(w), Acting(w), NEW p \in DOMAIN w.players,
         NEW c \in FreeCells \ Covered(w), NEW v, Drops(w, p, c, v)
  PROVE  /\ Acting(v) /\ Covered(v) = Covered(w)
         /\ \A q \in DOMAIN w.players :
              v.players[q].position = w.players[q].position
<1> DEFINE bomb == <<"bomb", c>>
<1>1. /\ v.crushed = w.crushed /\ v.crates = w.crates
      /\ v.powerUps = w.powerUps /\ v.walls = w.walls
      /\ v.dead = w.dead /\ v.burning = w.burning
      /\ DOMAIN v.players = DOMAIN w.players
      /\ \A q \in DOMAIN w.players :
           /\ v.players[q].position = w.players[q].position
           /\ v.players[q].state = w.players[q].state
           /\ v.players[q].strength = w.players[q].strength
           /\ v.players[q].queue = w.players[q].queue
  BY DEF Drops, Same, SamePlayers, Fields, PlayerFields
<1>2. /\ v.map = Put(w.map, bomb, c) /\ c \notin SolidCells(w)
      /\ DOMAIN v.bombs = DOMAIN w.bombs \cup {c}
      /\ \A x \in DOMAIN v.bombs :
           v.bombs[x].strength = IF x = c THEN w.players[p].strength
                                 ELSE w.bombs[x].strength
      /\ DOMAIN v.timer = DOMAIN w.timer \cup {bomb}
  BY DEF Drops, Over, Only
<1>3. bomb \notin Here(w, c) /\ <<"wall", c>> \notin Here(w, c)
  BY <1>2 DEF SolidCells
<1>4. /\ Lists(v.map)
      /\ Here(v, c) = Here(w, c) \cup {bomb}
      /\ \A x \in FreeCells \ {c} : Here(v, x) = Here(w, x)
  BY <1>2, <1>3, PutInMap DEF Acting, Mapped, Here
<1>5. EntitiesOf(v) = EntitiesOf(w) \cup {bomb}
  BY <1>1, <1>2 DEF EntitiesOf
<1>6. CellOfEntity(v, bomb) = c
  BY DEF CellOfEntity, IsPlayer
<1> HIDE DEF bomb
<1>7. Located(v)
  <2>1. \A e \in EntitiesOf(w) : CellOfEntity(v, e) = CellOfEntity(w, e)
    BY <1>1, SamePlaces
  <2>2. \A e \in EntitiesOf(w) : Missing(w, e) => Missing(v, e)
    BY <1>1, MissingStays DEF Alive
  <2>3. Follows(w, v)
    BY <1>4, <1>5, <1>6, <2>1, <2>2 DEF Follows
  <2> QED BY <2>3, FollowsLocated DEF Acting, Mapped
<1>8. Alone(v)
  <2> SUFFICES ASSUME NEW x \in FreeCells, <<"wall", x>> \in Here(v, x)
               PROVE  <<"bomb", x>> \notin Here(v, x)
    BY DEF Alone
  <2>1. CASE x = c
    BY <1>3, <1>4, <2>1 DEF bomb
  <2>2. CASE x # c
    BY <1>4, <2>2 DEF Acting, Mapped, Alone
  <2> QED BY <2>1, <2>2
<1>9. Covered(v) = Covered(w)
  BY <1>1 DEF Covered
<1>10. \A q \in DOMAIN v.players :
         /\ Able(v.players[q], Covered(v)) /\ v.players[q].strength \in Nat
         /\ PlayerCell(v, q) \notin DOMAIN v.crates
  BY <1>1, <1>9 DEF Acting, Able, PlayerCell
<1>11. \A x \in DOMAIN v.bombs : v.bombs[x].strength \in Nat /\ x \notin Covered(v)
  BY <1>2, <1>9 DEF Acting
<1>12. ASSUME NEW x \in DOMAIN v.crates
       PROVE  <<"crate", x>> \in Here(v, x)
  <2>1. x \in FreeCells /\ <<"crate", x>> \in Here(w, x)
    BY <1>1, ActingCells DEF Acting, SolidCells
  <2> QED BY <1>4, <2>1
<1>13. IsFiniteSet(DOMAIN v.timer)
  <2>1. IsFiniteSet(DOMAIN w.timer)
    BY DEF Acting
  <2> QED BY <1>2, <2>1, FS_AddElement
<1> QED BY <1>1, <1>4, <1>5, <1>7, <1>8, <1>9, <1>10, <1>11, <1>12, <1>13
       DEF Acting, Mapped

\* The turn of a player.
LEMMA ActionActing ==
  ASSUME NEW w, Shaped(w), Acting(w), NEW asked, asked.action \in Requested,
         asked.player \in DOMAIN w.players =>
           PlayerCell(w, asked.player) \notin Covered(w)
  PROVE  LET v == ApplyAction(w, asked) IN
           /\ Acting(v) /\ Covered(v) = Covered(w)
           /\ DOMAIN v.players = DOMAIN w.players
           /\ \A q \in DOMAIN w.players \ {asked.player} :
                v.players[q].position = w.players[q].position
<1> DEFINE v == ApplyAction(w, asked)
<1>1. CASE v = w
  BY <1>1
<1>2. CASE v # w
  <2> DEFINE p == asked.player
             next == Head(w.players[p].queue)
  <2>1. /\ p \in DOMAIN w.players
        /\ \E u, m : /\ Waits(w, p, asked.action, u)
                     /\ m = u \/ Moves(u, p, next.action.movement, m)
                     /\ \/ v = m
                        \/ next.action.drop /\ Drops(m, p, next.cell, v)
    BY <1>2, ApplyActionParts
  <2>2. PICK u, m : /\ Waits(w, p, asked.action, u)
                    /\ m = u \/ Moves(u, p, next.action.movement, m)
                    /\ \/ v = m
                       \/ next.action.drop /\ Drops(m, p, next.cell, v)
    BY <2>1
  <2>3. next \in Items(Covered(w))
    <3>1. /\ w.players[p].queue \in Seq(Items(Covered(w)))
          /\ Len(w.players[p].queue) = QueueSize
          /\ QueueSize \in Nat /\ QueueSize > 0
      BY <2>1, ArenaConstants DEF Acting, Able
    <3> QED BY <3>1
  <2>4. /\ next.action.movement \in Directions \cup {"idle"}
        /\ next.action.drop => next.cell \in FreeCells \ Covered(w)
    BY <2>3 DEF Items
  <2> HIDE DEF v, next
  <2>5. /\ Shaped(u) /\ Acting(u) /\ Covered(u) = Covered(w)
        /\ DOMAIN u.players = DOMAIN w.players
        /\ \A q \in DOMAIN w.players :
             u.players[q].position = w.players[q].position
    <3>1. Shaped(u) /\ DOMAIN u.players = DOMAIN w.players
      BY <2>2 DEF Waits, SamePlayers
    <3>2. PlayerCell(w, p) \notin Covered(w)
      BY <2>1
    <3> QED BY <2>1, <2>2, <3>1, <3>2, WaitsActing
  <2>6. /\ Shaped(m) /\ Acting(m) /\ Covered(m) = Covered(w)
        /\ DOMAIN m.players = DOMAIN w.players
        /\ \A q \in DOMAIN w.players \ {p} :
             m.players[q].position = w.players[q].position
    <3>1. CASE m = u
      BY <2>5, <3>1
    <3>2. CASE Moves(u, p, next.action.movement, m)
      <4>1. Shaped(m) /\ DOMAIN m.players = DOMAIN u.players
        BY <3>2 DEF Moves, SamePlayers
      <4>2. /\ Acting(m) /\ Covered(m) = Covered(u)
            /\ \A q \in DOMAIN u.players \ {p} :
                 m.players[q].position = u.players[q].position
        BY <2>1, <2>4, <2>5, <3>2, MovesActing
      <4> QED BY <2>5, <4>1, <4>2
    <3> QED BY <2>2, <3>1, <3>2
  <2>7. CASE v = m
    BY <2>6, <2>7 DEF v
  <2>8. CASE next.action.drop /\ Drops(m, p, next.cell, v)
    <3>1. DOMAIN v.players = DOMAIN m.players
      BY <2>8 DEF Drops, SamePlayers
    <3>2. /\ Acting(v) /\ Covered(v) = Covered(m)
          /\ \A q \in DOMAIN m.players :
               v.players[q].position = m.players[q].position
      BY <2>1, <2>4, <2>6, <2>8, DropsActing
    <3> QED BY <2>6, <3>1, <3>2 DEF v
  <2> QED BY <2>2, <2>7, <2>8
<1> QED BY <1>1, <1>2

\* The turns of the players: each of them is where it was until its turn.
LEMMA ActionsActing ==
  ASSUME NEW w, Shaped(w), Acting(w), NEW actions,
         \A p \in DOMAIN actions : actions[p] \in Requested,
         DOMAIN w.players \subseteq Players,
         \A p \in DOMAIN w.players : PlayerCell(w, p) \notin Covered(w)
  PROVE  LET v == ApplyPlayerAction(w, actions) IN
           Acting(v) /\ Covered(v) = Covered(w)
<1> DEFINE n == PlayerCount
           asked == Asked(actions)
<1>1. /\ n \in Nat /\ DOMAIN asked = 1..n
      /\ ApplyPlayerAction(w, actions) = Actions!Fold(w, asked)
  BY ApplyPlayerActionIsFold
<1>2. ASSUME NEW i \in 1..n
      PROVE  asked[i].player = n - i /\ asked[i].action \in Requested
  BY <1>2 DEF Asked, Turns, Idle, Requested
<1> HIDE DEF n, asked
<1>3. PICK h : /\ h[0] = w
               /\ \A i \in 1..n : h[i] = ApplyAction(h[i - 1], asked[i])
               /\ Actions!Fold(w, asked) = h[n]
  BY <1>1, ActionSteps
<1> DEFINE Good(i) ==
             /\ Shaped(h[i]) /\ Acting(h[i]) /\ Covered(h[i]) = Covered(w)
             /\ DOMAIN h[i].players = DOMAIN w.players
             /\ \A q \in DOMAIN w.players :
                  q < n - i => h[i].players[q].position = w.players[q].position
           S == {i \in 0..n : Good(i)}
<1>4. 0 \in S
  BY <1>1, <1>3
<1>5. ASSUME NEW i \in 1..n, i - 1 \in S
      PROVE  i \in S
  <2> DEFINE u == h[i - 1]
             v == h[i]
             p == n - i
  <2>1. Good(i - 1)
    BY <1>5
  <2>2. v = ApplyAction(u, asked[i])
    BY <1>3
  <2>3. asked[i].player = p /\ asked[i].action \in Requested
    BY <1>2
  <2>4. p \in DOMAIN u.players => PlayerCell(u, p) \notin Covered(u)
    <3>1. SUFFICES ASSUME p \in DOMAIN w.players
                   PROVE  PlayerCell(u, p) \notin Covered(w)
      BY <2>1
    <3>2. p < n - (i - 1)
      BY <1>1
    <3>3. u.players[p].position = w.players[p].position
      BY <2>1, <3>1, <3>2
    <3> QED BY <3>1, <3>3 DEF PlayerCell
  <2>5. Shaped(u) /\ Acting(u)
    BY <2>1
  <2>6. Shaped(v)
    BY <2>2, <2>5, ApplyActionEffect DEF Acted
  <2> HIDE DEF u, v
  <2>7. /\ Acting(v) /\ Covered(v) = Covered(u)
        /\ DOMAIN v.players = DOMAIN u.players
        /\ \A q \in DOMAIN u.players \ {p} :
             v.players[q].position = u.players[q].position
    BY <2>2, <2>3, <2>4, <2>5, ActionActing
  <2>8. ASSUME NEW q \in DOMAIN w.players, q < n - i
        PROVE  v.players[q].position = w.players[q].position
    <3>1. q \in Nat /\ n \in Nat
      BY <1>1 DEF Players
    <3>2. q # p /\ q < n - (i - 1)
      BY <2>8, <3>1
    <3>3. u.players[q].position = w.players[q].position
      BY <2>1, <3>2 DEF u
    <3> QED BY <2>1, <2>7, <3>2, <3>3 DEF u
  <2>9. Good(i)
    BY <2>1, <2>6, <2>7, <2>8 DEF u, v
  <2> QED BY <2>9
<1> HIDE DEF S
<1>6. 0..n \subseteq S
  BY <1>1, <1>4, <1>5, Actions!Induction
<1> QED BY <1>1, <1>3, <1>6 DEF S

-----------------------------------------------------------------------------
(* The systems after the actions keep them together too.                   *)

\* The blocks fall in their order: none of them falls on a wall.
Blocked(w) ==
  /\ w.nextFall \in 1 .. Len(FallOrder) + 1
  /\ w.walls \cap DOMAIN w.blocks = {}
  /\ w.walls \cup DOMAIN w.blocks
       \subseteq {FallOrder[i] : i \in 1 .. w.nextFall - 1}

Inside(flames) == {f.cell : f \in flames} \subseteq FreeCells

\* What holds after the actions of the players, until the end of the tick.
Standing(w) ==
  /\ Mapped(w) /\ Blocked(w)
  /\ \A p \in DOMAIN w.players :
       /\ Able(w.players[p], Covered(w))
       /\ PlayerCell(w, p) \notin DOMAIN w.crates
  /\ \A c \in DOMAIN w.bombs : w.bombs[c].strength \in Nat /\ c \notin Covered(w)
  /\ \A c \in DOMAIN w.crates \cap DOMAIN w.powerUps : <<"crate", c>> \in w.dead
  /\ \A e \in w.crushed : CellOfEntity(w, e) \in w.walls
  /\ w.crushed \subseteq EntitiesOf(w)
  /\ \A c : <<"wall", c>> \notin w.dead \cup w.crushed
  /\ w.burning \subseteq EntitiesOf(w)
  /\ Inside(w.flames)
  /\ IsFiniteSet(DOMAIN w.timer)

\* The systems that only change the timers, the flames and what burns.
LEMMA StandingStays ==
  ASSUME NEW w, Standing(w), NEW v,
         v.players = w.players, v.bombs = w.bombs, v.powerUps = w.powerUps,
         v.walls = w.walls, v.blocks = w.blocks, v.map = w.map,
         v.crushed = w.crushed, v.dead = w.dead, v.nextFall = w.nextFall,
         DOMAIN v.crates = DOMAIN w.crates, DOMAIN v.timer = DOMAIN w.timer,
         v.burning \subseteq EntitiesOf(w), Inside(v.flames)
  PROVE  Standing(v) /\ EntitiesOf(v) = EntitiesOf(w)
<1>1. EntitiesOf(v) = EntitiesOf(w)
  BY SameEntities
<1>2. \A e \in EntitiesOf(w) : Missing(w, e) => Missing(v, e)
  BY MissingStays DEF Alive
<1>3. Mapped(v)
  BY <1>1, <1>2, MappedStays DEF Standing
<1>4. \A e \in EntitiesOf(w) : CellOfEntity(v, e) = CellOfEntity(w, e)
  BY SamePlaces
<1>5. Covered(v) = Covered(w)
  BY DEF Covered
<1>6. Blocked(v)
  BY DEF Standing, Blocked
<1>7. \A e \in v.crushed : CellOfEntity(v, e) \in v.walls
  BY <1>4 DEF Standing
<1> QED BY <1>1, <1>3, <1>5, <1>6, <1>7 DEF Standing, PlayerCell

\* What is in the cells of an arena.
LEMMA HereIsKnown ==
  ASSUME NEW w, Mapped(w), NEW c \in FreeCells
  PROVE  /\ Here(w, c) \subseteq EntitiesOf(w)
         /\ Len(w.map[c]) \in Nat /\ DOMAIN w.map[c] = 1..Len(w.map[c])
         /\ Here(w, c) = {w.map[c][i] : i \in 1..Len(w.map[c])}
BY ListRange, SMTT(30) DEF Mapped, Located, Lists, IsList, Here

\* The flames go on until they are stopped.
LEMMA RayEndFacts ==
  ASSUME NEW w, NEW c, w.bombs[c].strength \in Nat, NEW d
  PROVE  LET n == w.bombs[c].strength
             end == RayEnd(w, c, d)
         IN /\ end \in 1 .. n + 1
            /\ \A k \in 1 .. end - 1 : /\ RayCell(c, d, k) \in FreeCells
                                       /\ Obstacles(w, RayCell(c, d, k)) = {}
            /\ end <= n /\ RayCell(c, d, end) \in FreeCells =>
                 Obstacles(w, RayCell(c, d, end)) # {}
<1> DEFINE n == w.bombs[c].strength
           end == RayEnd(w, c, d)
           stops(k) == LET at == RayCell(c, d, k) IN
                         at \notin FreeCells \/ Obstacles(w, at) # {}
           ends == {n + 1} \cup {k \in 1..n : stops(k)}
<1>1. end = Min(ends)
  BY DEF RayEnd
<1>2. ends \subseteq Nat /\ ends # {}
  OBVIOUS
<1>3. end \in ends /\ \A k \in ends : end <= k
  BY <1>1, <1>2, MinIsLeast
<1> HIDE DEF end
<1>4. end \in 1 .. n + 1
  BY <1>3
<1>5. ASSUME NEW k \in 1 .. end - 1
      PROVE  ~stops(k)
  BY <1>3, <1>4
<1>6. end <= n => stops(end)
  BY <1>3
<1> QED BY <1>4, <1>5, <1>6 DEF end

\* What stops them is in the arena.
LEMMA FirstObstacleIsHere ==
  ASSUME NEW w, Mapped(w), NEW c \in FreeCells, Obstacles(w, c) # {}
  PROVE  /\ FirstObstacle(w, c) \in Here(w, c) /\ ~IsPlayer(FirstObstacle(w, c))
         /\ Min(Obstacles(w, c)) \in Obstacles(w, c)
         /\ Obstacles(w, c) \subseteq 1..Len(w.map[c])
         /\ \A i \in Obstacles(w, c) : Min(Obstacles(w, c)) <= i
<1>1. /\ Len(w.map[c]) \in Nat /\ DOMAIN w.map[c] = 1..Len(w.map[c])
      /\ Here(w, c) = {w.map[c][i] : i \in 1..Len(w.map[c])}
  BY HereIsKnown
<1>2. Obstacles(w, c) \subseteq 1..Len(w.map[c])
  BY <1>1 DEF Obstacles
<1>3. /\ Min(Obstacles(w, c)) \in Obstacles(w, c)
      /\ \A i \in Obstacles(w, c) : Min(Obstacles(w, c)) <= i
  BY <1>1, <1>2, MinIsLeast
<1>4. FirstObstacle(w, c) = w.map[c][Min(Obstacles(w, c))]
  BY DEF FirstObstacle
<1>5. ~IsPlayer(w.map[c][Min(Obstacles(w, c))])
  BY <1>3 DEF Obstacles, IsShallow
<1> QED BY <1>1, <1>2, <1>3, <1>4, <1>5

\* A ray keeps the map right.
LEMMA RayStanding ==
  ASSUME NEW w, Shaped(w), Standing(w), NEW c \in DOMAIN w.bombs, NEW d
  PROVE  Standing(Ray(w, c, d)) /\ EntitiesOf(Ray(w, c, d)) = EntitiesOf(w)
<1> DEFINE v == Ray(w, c, d)
           new == {NewFlame(RayCell(c, d, k), FALSE) :
                     k \in 1 .. RayEnd(w, c, d) - 1}
<1>1. /\ Same(w, v, {"flames", "burning"})
      /\ v.flames = w.flames \cup new
      /\ v.burning = w.burning \cup RayTarget(w, c, d)
  BY DEF Ray, Shaped, Same, Fields
<1>2. w.bombs[c].strength \in Nat
  BY DEF Standing
<1>3. Inside(v.flames)
  <2>1. \A k \in 1 .. RayEnd(w, c, d) - 1 : RayCell(c, d, k) \in FreeCells
    BY <1>2, RayEndFacts
  <2>2. \A f \in new : f.cell \in FreeCells
    BY <2>1 DEF NewFlame
  <2> HIDE DEF new
  <2>3. Inside(w.flames)
    BY DEF Standing
  <2> QED BY <1>1, <2>2, <2>3 DEF Inside
<1>4. RayTarget(w, c, d) \subseteq EntitiesOf(w)
  <2> DEFINE end == RayEnd(w, c, d)
             at == RayCell(c, d, end)
  <2>1. CASE end > w.bombs[c].strength \/ at \notin FreeCells
    BY <2>1 DEF RayTarget
  <2>2. CASE ~(end > w.bombs[c].strength \/ at \notin FreeCells)
    <3>1. RayTarget(w, c, d) = {FirstObstacle(w, at)} /\ at \in FreeCells
      BY <2>2 DEF RayTarget
    <3>2. end \in 1 .. w.bombs[c].strength + 1
      BY <1>2, RayEndFacts
    <3>3. Obstacles(w, at) # {}
      BY <1>2, <2>2, <3>2, RayEndFacts
    <3> HIDE DEF at
    <3>4. Mapped(w)
      BY DEF Standing
    <3>5. FirstObstacle(w, at) \in EntitiesOf(w)
      BY <3>1, <3>3, <3>4, FirstObstacleIsHere, HereIsKnown
    <3> QED BY <3>1, <3>5
  <2> QED BY <2>1, <2>2
<1>5. v.burning \subseteq EntitiesOf(w)
  BY <1>1, <1>4 DEF Standing
<1> HIDE DEF v
<1>6. /\ v.players = w.players /\ v.bombs = w.bombs /\ v.powerUps = w.powerUps
      /\ v.walls = w.walls /\ v.blocks = w.blocks /\ v.map = w.map
      /\ v.crushed = w.crushed /\ v.dead = w.dead /\ v.nextFall = w.nextFall
      /\ v.crates = w.crates /\ v.timer = w.timer
  BY <1>1 DEF Same, Fields
<1>7. Standing(v) /\ EntitiesOf(v) = EntitiesOf(w)
  BY <1>3, <1>5, <1>6, StandingStays
<1> QED BY <1>7 DEF v

\* So do the four of a bomb.
LEMMA RaysStanding ==
  ASSUME NEW w, Shaped(w), Standing(w), NEW c \in DOMAIN w.bombs
  PROVE  Standing(Rays(w, c)) /\ EntitiesOf(Rays(w, c)) = EntitiesOf(w)
<1> DEFINE u == Ray(w, c, "left")
           v == Ray(u, c, "right")
           x == Ray(v, c, "up")
           y == Ray(x, c, "down")
           Fine(z) == /\ Shaped(z) /\ Standing(z) /\ z.bombs = w.bombs
                      /\ EntitiesOf(z) = EntitiesOf(w)
<1>1. ASSUME NEW z, Fine(z), NEW d
      PROVE  Fine(Ray(z, c, d))
  <2>1. Ray(z, c, d).bombs = z.bombs /\ Shaped(Ray(z, c, d))
    BY <1>1, RayEffect DEF Same, Fields
  <2> QED BY <1>1, <2>1, RayStanding
<1>2. Rays(w, c) = y
  BY DEF Rays
<1>3. Fine(w)
  OBVIOUS
<1> HIDE DEF Fine
<1>4. Fine(u) /\ Fine(v) /\ Fine(x) /\ Fine(y)
  BY <1>1, <1>3
<1> QED BY <1>2, <1>4 DEF Fine

\* There is always a name for a new blocker.
LEMMA NewBlockerIsNew ==
  ASSUME NEW w, NEW c, IsFiniteSet(DOMAIN w.timer)
  PROVE  /\ NewBlocker(w, c) \notin DOMAIN w.timer
         /\ NewBlocker(w, c)[1] = "blocker" /\ NewBlocker(w, c)[2] = c
         /\ \E n : NewBlocker(w, c) = <<"blocker", c, n>>
<1> DEFINE T == DOMAIN w.timer
           N == Cardinality(T) + 1
           name(n) == <<"blocker", c, n>>
<1>1. Cardinality(T) \in Nat
  BY FS_CardinalityType
<1>2. ~(\A n \in 1..N : name(n) \in T)
  <2>1. SUFFICES ASSUME \A n \in 1..N : name(n) \in T
                 PROVE  FALSE
    OBVIOUS
  <2> DEFINE f == [n \in 1..N |-> name(n)]
  <2>2. f \in [1..N -> T]
    BY <2>1
  <2>3. IsFiniteSet(1..N) /\ Cardinality(1..N) = N
    BY <1>1, FS_Interval
  <2>4. \A x, y \in 1..N : f[x] = f[y] => x = y
    OBVIOUS
  <2> HIDE DEF f, N
  <2>5. Cardinality(T) < Cardinality(1..N)
    BY <1>1, <2>3 DEF N
  <2>6. \E x, y \in 1..N : x # y /\ f[x] = f[y]
    <3> HIDE DEF T
    <3>1. IsFiniteSet(T)
      BY DEF T
    <3> QED BY <2>2, <2>3, <2>5, <3>1, FS_PigeonHole
  <2> QED BY <2>4, <2>6
<1> DEFINE n == CHOOSE n \in 1..N : name(n) \notin T
<1>3. n \in 1..N /\ name(n) \notin T
  BY <1>2
<1>4. NewBlocker(w, c) = name(n)
  BY DEF NewBlocker
<1> HIDE DEF n
<1> QED BY <1>3, <1>4

\* The bomb of a cell is replaced by a blocker.
LEMMA ExplodeStanding ==
  ASSUME NEW w, Shaped(w), Standing(w), NEW c \in DOMAIN w.bombs
  PROVE  /\ Standing(Explode(w, c)) /\ Explode(w, c).bombs = w.bombs
         /\ Here(Explode(w, c), c) =
              (Here(w, c) \cup {NewBlocker(w, c)}) \ {<<"bomb", c>>}
         /\ \A x \in FreeCells \ {c} : Explode(w, c).map[x] = w.map[x]
<1> DEFINE u == Rays(w, c)
           v == Explode(w, c)
           blocker == NewBlocker(w, c)
           bomb == <<"bomb", c>>
<1>1. /\ Standing(u) /\ EntitiesOf(u) = EntitiesOf(w)
      /\ Same(w, u, {"flames", "burning"})
  BY RaysStanding, RaysEffect
<1>2. /\ Same(w, v, {"flames", "burning", "timer", "map", "dead"})
      /\ v.flames = u.flames \cup {NewFlame(c, TRUE)} /\ v.burning = u.burning
      /\ v.timer = Over(Only(blocker, FlameDuration), w.timer)
      /\ v.map = Erased(Put(w.map, blocker, c), bomb, c)
      /\ v.dead = w.dead \cup {bomb}
  BY ExplodeEffect
<1>3. /\ v.players = w.players /\ v.bombs = w.bombs /\ v.powerUps = w.powerUps
      /\ v.walls = w.walls /\ v.blocks = w.blocks /\ v.crushed = w.crushed
      /\ v.nextFall = w.nextFall /\ v.crates = w.crates
  BY <1>2 DEF Same, Fields
<1>4. /\ blocker \notin DOMAIN w.timer /\ blocker[1] = "blocker"
      /\ blocker[2] = c /\ ~IsPlayer(blocker) /\ blocker # bomb
      /\ blocker # <<"wall", c>> /\ CellOfEntity(v, blocker) = c
  <2>1. IsFiniteSet(DOMAIN w.timer)
    BY DEF Standing
  <2>2. /\ blocker \notin DOMAIN w.timer /\ blocker[1] = "blocker"
        /\ blocker[2] = c
    BY <2>1, NewBlockerIsNew
  <2> HIDE DEF blocker, v
  <2> QED BY <2>2 DEF IsPlayer, CellOfEntity
<1>5. DOMAIN v.timer = DOMAIN w.timer \cup {blocker}
  BY <1>2 DEF Over, Only
<1>6. bomb \in EntitiesOf(w) /\ c \in FreeCells /\ CellOfEntity(w, bomb) = c
  <2>1. bomb \in EntitiesOf(w) /\ CellOfEntity(w, bomb) = c
    BY DEF EntitiesOf, CellOfEntity, IsPlayer
  <2> QED BY <2>1 DEF Standing, Mapped, Located
<1> HIDE DEF u, v, blocker, bomb
<1>7. EntitiesOf(v) = EntitiesOf(w) \cup {blocker}
  BY <1>3, <1>4, <1>5 DEF EntitiesOf
<1>8. blocker \notin Here(w, c)
  <2>1. blocker \notin EntitiesOf(w)
    BY <1>4, EntityFacts
  <2> QED BY <1>6, <2>1, HereIsKnown DEF Standing
<1>9. /\ Lists(v.map) /\ Here(v, c) = (Here(w, c) \cup {blocker}) \ {bomb}
      /\ \A x \in FreeCells \ {c} : v.map[x] = w.map[x]
  <2> DEFINE map == Put(w.map, blocker, c)
  <2>1. /\ Lists(map) /\ Range(map[c]) = Here(w, c) \cup {blocker}
        /\ \A x \in FreeCells \ {c} : map[x] = w.map[x]
    BY <1>6, <1>8, PutInMap DEF Standing, Mapped, Here
  <2> HIDE DEF map
  <2>2. /\ Lists(Erased(map, bomb, c))
        /\ Range(Erased(map, bomb, c)[c]) = Range(map[c]) \ {bomb}
        /\ \A x \in FreeCells \ {c} : Erased(map, bomb, c)[x] = map[x]
    BY <1>6, <2>1, ErasedFromMap
  <2>3. v.map = Erased(map, bomb, c)
    BY <1>2 DEF map
  <2> QED BY <2>1, <2>2, <2>3 DEF Here
<1>10. \A x \in FreeCells \ {c} : Here(v, x) = Here(w, x)
  BY <1>9 DEF Here
<1>11. \A e \in EntitiesOf(w) : CellOfEntity(v, e) = CellOfEntity(w, e)
  BY <1>3, SamePlaces
<1>12. Located(v)
  <2>1. \A e \in EntitiesOf(w) : Missing(w, e) => Missing(v, e)
    BY <1>2, <1>3, MissingStays DEF Alive
  <2>2. Missing(v, bomb)
    BY <1>2 DEF Missing
  <2>3. Follows(w, v)
    BY <1>4, <1>6, <1>7, <1>9, <1>10, <1>11, <2>1, <2>2 DEF Follows
  <2> QED BY <2>3, FollowsLocated DEF Standing, Mapped
<1>13. Alone(v)
  <2> SUFFICES ASSUME NEW x \in FreeCells, <<"wall", x>> \in Here(v, x)
               PROVE  <<"bomb", x>> \notin Here(v, x)
    BY DEF Alone
  <2>1. CASE x = c
    BY <1>9, <2>1 DEF bomb
  <2>2. CASE x # c
    BY <1>10, <2>2 DEF Standing, Mapped, Alone
  <2> QED BY <2>1, <2>2
<1>14. Covered(v) = Covered(w)
  BY <1>3 DEF Covered
<1>15. Blocked(v)
  BY <1>3 DEF Standing, Blocked
<1>16. \A p \in DOMAIN v.players : /\ Able(v.players[p], Covered(v))
                                   /\ PlayerCell(v, p) \notin DOMAIN v.crates
  BY <1>3, <1>14 DEF Standing, PlayerCell
<1>17. /\ \A e \in v.crushed : CellOfEntity(v, e) \in v.walls
       /\ v.crushed \subseteq EntitiesOf(v)
  BY <1>3, <1>7, <1>11 DEF Standing
<1>18. /\ v.burning \subseteq EntitiesOf(v) /\ Inside(v.flames)
  <2>1. u.burning \subseteq EntitiesOf(w) /\ Inside(u.flames)
    BY <1>1 DEF Standing
  <2> QED BY <1>2, <1>6, <1>7, <2>1 DEF Inside, NewFlame
<1>19. IsFiniteSet(DOMAIN v.timer)
  <2>1. IsFiniteSet(DOMAIN w.timer)
    BY DEF Standing
  <2> QED BY <1>5, <2>1, FS_AddElement
<1>20. /\ \A x \in DOMAIN v.crates \cap DOMAIN v.powerUps :
            <<"crate", x>> \in v.dead
       /\ \A x : <<"wall", x>> \notin v.dead \cup v.crushed
  BY <1>2, <1>3 DEF Standing, bomb
<1>21. Standing(v)
  BY <1>3, <1>9, <1>12, <1>13, <1>14, <1>15, <1>16, <1>17, <1>18, <1>19, <1>20
     DEF Standing, Mapped
<1> QED BY <1>3, <1>9, <1>21 DEF v, blocker, bomb

\* Some entities leave the map, which are dead.
Thins(w, v) ==
  /\ DOMAIN v.players = DOMAIN w.players
  /\ \A p \in DOMAIN w.players :
       /\ v.players[p].position = w.players[p].position
       /\ v.players[p].queue = w.players[p].queue
       /\ Alive(v, p) => Alive(w, p)
  /\ v.bombs = w.bombs /\ v.crates = w.crates /\ v.powerUps = w.powerUps
  /\ v.walls = w.walls /\ v.blocks = w.blocks /\ v.nextFall = w.nextFall
  /\ v.crushed = w.crushed /\ v.burning = w.burning /\ v.flames = w.flames
  /\ DOMAIN v.timer = DOMAIN w.timer
  /\ Lists(v.map)
  /\ \A c \in FreeCells : /\ Here(v, c) \subseteq Here(w, c)
                         /\ Here(w, c) \subseteq Here(v, c) \cup v.dead
  /\ w.dead \subseteq v.dead /\ \A c : <<"wall", c>> \notin v.dead

\* The arena stays right when dead entities leave the map.
LEMMA ThinsStanding ==
  ASSUME NEW w, Standing(w), NEW v, Thins(w, v)
  PROVE  Standing(v) /\ EntitiesOf(v) = EntitiesOf(w)
<1>1. EntitiesOf(v) = EntitiesOf(w)
  BY SameEntities DEF Thins
<1>2. \A e \in EntitiesOf(w) : CellOfEntity(v, e) = CellOfEntity(w, e)
  BY SamePlaces DEF Thins
<1>3. \A e \in EntitiesOf(w) : Missing(w, e) => Missing(v, e)
  <2>1. /\ w.dead \cup w.crushed \subseteq v.dead \cup v.crushed
        /\ w.walls \subseteq v.walls
        /\ \A p \in DOMAIN w.players :
             /\ v.players[p].position = w.players[p].position
             /\ Alive(v, p) => Alive(w, p)
    BY DEF Thins
  <2> QED BY <2>1, MissingStays
<1>4. Located(v)
  <2>1. \A e \in v.dead : Missing(v, e)
    BY DEF Missing
  <2>2. Follows(w, v)
    BY <1>1, <1>2, <1>3, <2>1 DEF Follows, Thins
  <2> QED BY <2>2, FollowsLocated DEF Standing, Mapped
<1>5. Alone(v)
  BY DEF Standing, Mapped, Alone, Thins
<1>6. Covered(v) = Covered(w)
  BY DEF Covered, Thins
<1>7. Blocked(v)
  BY DEF Standing, Blocked, Thins
<1>8. \A p \in DOMAIN v.players : /\ Able(v.players[p], Covered(v))
                                  /\ PlayerCell(v, p) \notin DOMAIN v.crates
  BY <1>6 DEF Standing, PlayerCell, Thins, Able
<1>9. /\ \A e \in v.crushed : CellOfEntity(v, e) \in v.walls
      /\ v.crushed \subseteq EntitiesOf(v)
  BY <1>1, <1>2 DEF Standing, Thins
<1>10. /\ \A c \in DOMAIN v.crates \cap DOMAIN v.powerUps :
            <<"crate", c>> \in v.dead
       /\ \A c : <<"wall", c>> \notin v.dead \cup v.crushed
  BY DEF Standing, Thins
<1>11. /\ Lists(v.map) /\ v.bombs = w.bombs /\ v.burning = w.burning
       /\ v.flames = w.flames /\ DOMAIN v.timer = DOMAIN w.timer
  BY DEF Thins
<1>12. /\ \A c \in DOMAIN w.bombs : w.bombs[c].strength \in Nat /\ c \notin Covered(w)
       /\ w.burning \subseteq EntitiesOf(w) /\ Inside(w.flames)
       /\ IsFiniteSet(DOMAIN w.timer)
  BY DEF Standing
<1> QED BY <1>1, <1>4, <1>5, <1>6, <1>7, <1>8, <1>9, <1>10, <1>11, <1>12
        DEF Standing, Mapped

\* So do the useless blockers.
LEMMA TriggeredStanding ==
  ASSUME NEW w, Shaped(w), Standing(w)
  PROVE  Standing(Triggered(w))
<1> DEFINE v == Triggered(w)
           gone == ExpiredBlockers(w)
<1>1. /\ Same(w, v, {"timer", "map", "dead"})
      /\ DOMAIN v.timer = DOMAIN w.timer
      /\ v.map = [c \in DOMAIN w.map |-> Without(w.map[c], gone)]
      /\ v.dead = w.dead \cup gone
  BY TriggeredEffect
<1>2. \A e \in gone : e[1] = "blocker"
  BY DEF ExpiredBlockers
<1> HIDE DEF v, gone
<1>3. ASSUME NEW c \in FreeCells
      PROVE  /\ IsList(v.map[c]) /\ IsInjective(v.map[c])
             /\ Here(v, c) = Here(w, c) \ gone
  <2>1. IsList(w.map[c]) /\ IsInjective(w.map[c]) /\ DOMAIN w.map = FreeCells
    BY DEF Standing, Mapped, Lists
  <2>2. v.map[c] = Without(w.map[c], gone)
    BY <1>1, <2>1
  <2> QED BY <2>1, <2>2, WithoutFromList DEF Here
<1>4. Lists(v.map)
  BY <1>1, <1>3 DEF Standing, Mapped, Lists
<1>5. /\ v.players = w.players /\ v.bombs = w.bombs /\ v.crates = w.crates
      /\ v.powerUps = w.powerUps /\ v.walls = w.walls /\ v.blocks = w.blocks
      /\ v.nextFall = w.nextFall /\ v.crushed = w.crushed
      /\ v.burning = w.burning /\ v.flames = w.flames
  BY <1>1 DEF Same, Fields
<1>6. \A c : <<"wall", c>> \notin v.dead
  BY <1>1, <1>2 DEF Standing
<1>7. Thins(w, v)
  BY <1>1, <1>3, <1>4, <1>5, <1>6 DEF Thins, Alive
<1>8. Standing(v)
  BY <1>7, ThinsStanding
<1> QED BY <1>8 DEF v

\* All the bombs explode.
LEMMA ExplosionsStanding ==
  ASSUME NEW w, Shaped(w), Standing(w), NEW n \in Nat, NEW order,
         DOMAIN order = 1..n, \A i \in 1..n : order[i] \in DOMAIN w.bombs
  PROVE  Standing(UpdateBombs(w, order))
<1> DEFINE u == Triggered(w)
<1>1. Standing(u) /\ Shaped(u) /\ u.bombs = w.bombs
  BY TriggeredStanding, TriggeredEffect DEF Same, Fields
<1>2. UpdateBombs(w, order) = Explosions!Fold(u, order)
  BY UpdateBombsIsFold
<1> HIDE DEF u
<1>0. PICK h : Explodes(u, order, n, h)
  BY ExplosionSteps
<1>3. /\ h[0] = u
      /\ \A i \in 1..n : h[i] = Explode(h[i - 1], order[i])
      /\ Explosions!Fold(u, order) = h[n]
  BY <1>0 DEF Explodes
<1> DEFINE Good(v) == Shaped(v) /\ Standing(v) /\ v.bombs = w.bombs
           S == {i \in 0..n : Good(h[i])}
<1>4. 0 \in S
  BY <1>1, <1>3
<1>5. ASSUME NEW i \in 1..n, i - 1 \in S
      PROVE  i \in S
  <2>1. Good(h[i - 1]) /\ h[i] = Explode(h[i - 1], order[i])
    BY <1>3, <1>5
  <2>2. order[i] \in DOMAIN h[i - 1].bombs
    BY <2>1
  <2>3. Shaped(h[i - 1])
    BY <2>1
  <2>4. Shaped(Explode(h[i - 1], order[i]))
    BY <2>3, ExplodeEffect
  <2> QED BY <2>1, <2>2, <2>4, ExplodeStanding
<1> HIDE DEF S
<1>6. 0..n \subseteq S
  BY <1>4, <1>5, Explosions!Induction
<1> QED BY <1>2, <1>3, <1>6 DEF S

\* So do the power-ups that burn.
LEMMA ClearedStanding ==
  ASSUME NEW w, Shaped(w), Standing(w)
  PROVE  Standing(UpdatePowerUps(w))
<1> DEFINE v == UpdatePowerUps(w)
           burnt == {c \in DOMAIN w.powerUps : <<"power_up", c>> \in w.burning}
<1>1. /\ Same(w, v, {"map", "dead"})
      /\ v.map = [c \in DOMAIN w.map |->
                    IF c \in burnt THEN Without(w.map[c], {<<"power_up", c>>})
                    ELSE w.map[c]]
      /\ v.dead = w.dead \cup {<<"power_up", c>> : c \in burnt}
  BY UpdatePowerUpsEffect
<1> HIDE DEF v, burnt
<1>2. ASSUME NEW c \in FreeCells
      PROVE  /\ IsList(v.map[c]) /\ IsInjective(v.map[c])
             /\ Here(v, c) \subseteq Here(w, c)
             /\ Here(w, c) \subseteq Here(v, c) \cup v.dead
  <2>1. IsList(w.map[c]) /\ IsInjective(w.map[c]) /\ DOMAIN w.map = FreeCells
    BY DEF Standing, Mapped, Lists
  <2>2. CASE c \in burnt
    <3>1. v.map[c] = Without(w.map[c], {<<"power_up", c>>})
      BY <1>1, <2>1, <2>2
    <3>2. /\ IsList(v.map[c]) /\ IsInjective(v.map[c])
          /\ Here(v, c) = Here(w, c) \ {<<"power_up", c>>}
      BY <2>1, <3>1, WithoutFromList DEF Here
    <3> QED BY <1>1, <2>2, <3>2
  <2>3. CASE c \notin burnt
    BY <1>1, <2>1, <2>3 DEF Here
  <2> QED BY <2>2, <2>3
<1>3. Lists(v.map)
  BY <1>1, <1>2 DEF Standing, Mapped, Lists
<1>4. /\ v.players = w.players /\ v.bombs = w.bombs /\ v.crates = w.crates
      /\ v.powerUps = w.powerUps /\ v.walls = w.walls /\ v.blocks = w.blocks
      /\ v.nextFall = w.nextFall /\ v.crushed = w.crushed
      /\ v.burning = w.burning /\ v.flames = w.flames /\ v.timer = w.timer
  BY <1>1 DEF Same, Fields
<1>5. \A c : <<"wall", c>> \notin v.dead
  BY <1>1 DEF Standing
<1>6. Thins(w, v)
  BY <1>1, <1>2, <1>3, <1>4, <1>5 DEF Thins, Alive
<1>7. Standing(v)
  BY <1>6, ThinsStanding
<1> QED BY <1>7 DEF v

\* So does a power-up that is picked up.
LEMMA TakesStanding ==
  ASSUME NEW w, Shaped(w), Standing(w), NEW p, NEW kind, NEW v,
         Takes(w, p, kind, v)
  PROVE  Standing(v) /\ Thins(w, v)
<1> DEFINE c == PlayerCell(w, p)
           e == <<"power_up", c>>
<1>1. /\ p \in DOMAIN w.players /\ e \in Here(w, c)
      /\ Same(w, v, {"players", "invisible", "shields", "map", "dead"})
      /\ v.map = Erased(w.map, e, c) /\ v.dead = w.dead \cup {e}
      /\ SamePlayers(w, v, {"capacity", "available", "strength"})
  BY DEF Takes
<1> HIDE DEF c
<1>2. c \in FreeCells
  <2>1. Player(p) \in EntitiesOf(w) /\ CellOfEntity(w, Player(p)) = c
    BY <1>1, EntityFacts DEF c
  <2> QED BY <2>1 DEF Standing, Mapped, Located
<1>3. /\ Lists(v.map) /\ Here(v, c) = Here(w, c) \ {e}
      /\ \A x \in FreeCells \ {c} : Here(v, x) = Here(w, x)
  BY <1>1, <1>2, ErasedFromMap DEF Standing, Mapped, Here
<1>4. /\ v.bombs = w.bombs /\ v.crates = w.crates
      /\ v.powerUps = w.powerUps /\ v.walls = w.walls /\ v.blocks = w.blocks
      /\ v.nextFall = w.nextFall /\ v.crushed = w.crushed
      /\ v.burning = w.burning /\ v.flames = w.flames /\ v.timer = w.timer
      /\ DOMAIN v.players = DOMAIN w.players
      /\ \A q \in DOMAIN w.players :
           /\ v.players[q].position = w.players[q].position
           /\ v.players[q].queue = w.players[q].queue
           /\ v.players[q].state = w.players[q].state
  BY <1>1 DEF Same, SamePlayers, Fields, PlayerFields
<1>5. \A x : <<"wall", x>> \notin v.dead
  BY <1>1 DEF Standing
<1> HIDE DEF e
<1>6. \A x \in FreeCells : /\ Here(v, x) \subseteq Here(w, x)
                          /\ Here(w, x) \subseteq Here(v, x) \cup v.dead
  BY <1>1, <1>3
<1>7. Thins(w, v)
  BY <1>1, <1>3, <1>4, <1>5, <1>6 DEF Thins, Alive
<1> QED BY <1>7, ThinsStanding

\* The power-up of a kind in the cell of a player is not there any more.
Picked(w, p, kind) ==
  LET c == PlayerCell(w, p) IN
    w.powerUps[c] = kind => <<"power_up", c>> \notin Here(w, c) \ w.dead

\* It stays so as long as the map only loses what is dead.
LEMMA PickedStays ==
  ASSUME NEW w, Standing(w), NEW v, Thins(w, v), NEW p \in DOMAIN w.players,
         NEW kind, Picked(w, p, kind)
  PROVE  Picked(v, p, kind)
<1> DEFINE c == PlayerCell(w, p)
<1>1. c \in FreeCells
  <2>1. Player(p) \in EntitiesOf(w) /\ CellOfEntity(w, Player(p)) = c
    BY EntityFacts
  <2> QED BY <2>1 DEF Standing, Mapped, Located
<1>2. PlayerCell(v, p) = c /\ v.powerUps = w.powerUps
  BY DEF PlayerCell, Thins
<1>3. Here(v, c) \subseteq Here(w, c) /\ w.dead \subseteq v.dead
  BY <1>1 DEF Thins
<1> QED BY <1>2, <1>3 DEF Picked

\* None may leave.
LEMMA ThinsReflexive ==
  ASSUME NEW w, Standing(w)
  PROVE  Thins(w, w)
BY DEF Standing, Mapped, Thins

\* They may leave in several times.
LEMMA ThinsTransitive ==
  ASSUME NEW u, NEW v, NEW w, Thins(u, v), Thins(v, w)
  PROVE  Thins(u, w)
<1>1. \A c \in FreeCells : /\ Here(w, c) \subseteq Here(u, c)
                          /\ Here(u, c) \subseteq Here(w, c) \cup w.dead
  BY DEF Thins
<1> QED BY <1>1 DEF Thins

\* A player picks up what there is in its cell.
LEMMA PickUpStanding ==
  ASSUME NEW w, Shaped(w), Standing(w), NEW picking, picking.kind \in Kinds
  PROVE  LET v == PickUp(w, picking) IN
           /\ Shaped(v) /\ Standing(v) /\ Thins(w, v)
           /\ picking.player \in DOMAIN w.players =>
                Picked(v, picking.player, picking.kind)
<1> DEFINE v == PickUp(w, picking)
           p == picking.player
           kind == picking.kind
           c == PlayerCell(w, p)
           e == <<"power_up", c>>
<1>1. CASE p \in DOMAIN w.players /\ e \in Here(w, c) \ w.dead
           /\ w.powerUps[c] = kind
  <2>1. Takes(w, p, kind, v)
    BY <1>1, PickUpTakes
  <2> HIDE DEF v
  <2>2. Standing(v) /\ Thins(w, v) /\ Shaped(v) /\ e \in v.dead
    BY <2>1, TakesStanding DEF Takes
  <2>3. PlayerCell(v, p) = c
    BY <1>1, <2>2 DEF Thins, PlayerCell
  <2>4. Picked(v, p, kind)
    BY <2>2, <2>3 DEF Picked
  <2> QED BY <2>2, <2>4 DEF v
<1>2. CASE ~(p \in DOMAIN w.players /\ e \in Here(w, c) \ w.dead
             /\ w.powerUps[c] = kind)
  <2>1. v = w
    BY <1>2 DEF PickUp
  <2>2. p \in DOMAIN w.players => Picked(w, p, kind)
    BY <1>2 DEF Picked
  <2> HIDE DEF v
  <2>3. Shaped(v) /\ Standing(v) /\ Thins(w, v)
    BY <2>1, ThinsReflexive
  <2> QED BY <2>1, <2>2, <2>3 DEF v
<1> QED BY <1>1, <1>2

\* All the players do, for a kind of power-ups.
PicksAll(w, v, kinds) ==
  /\ Shaped(v) /\ Standing(v) /\ Thins(w, v)
  /\ \A p \in DOMAIN w.players, kind \in kinds : Picked(v, p, kind)

\* No player misses the power-up of a kind in its cell.
LEMMA PickUpsOfAll ==
  ASSUME NEW w, Shaped(w), Standing(w), NEW kind \in Kinds,
         DOMAIN w.players \subseteq Players
  PROVE  PicksAll(w, PickUpsOf(w, kind), {kind})
<1> DEFINE n == PlayerCount
           turns == PickingTurns(kind)
<1>1. PickUpsOf(w, kind) = Pickings!Fold(w, turns)
  BY DEF PickUpsOf, PickingTurns, Pickings!Fold, FoldLeft, Pickings!FoldLeft,
         MapThenFoldSet, Pickings!MapThenFoldSet, Max, Pickings!Max
<1>2. n \in Nat /\ DOMAIN turns = 1..n
  BY GridConstants DEF Turns, PickingTurns
<1>3. ASSUME NEW i \in 1..n
      PROVE  turns[i].player = n - i /\ turns[i].kind = kind
  BY <1>3 DEF Turns, PickingTurns
<1> HIDE DEF turns
<1>4. PICK h : /\ h[0] = w
               /\ \A i \in 1..n : h[i] = PickUp(h[i - 1], turns[i])
               /\ Pickings!Fold(w, turns) = h[n]
  BY <1>2, PickingSteps
<1> DEFINE Good(i) ==
             /\ Shaped(h[i]) /\ Standing(h[i]) /\ Thins(w, h[i])
             /\ \A p \in DOMAIN w.players : p >= n - i => Picked(h[i], p, kind)
           S == {i \in 0..n : Good(i)}
<1>5. 0 \in S
  <2>1. \A p \in DOMAIN w.players : ~(p >= n - 0)
    BY <1>2 DEF Players
  <2> QED BY <1>2, <1>4, <2>1, ThinsReflexive
<1>6. ASSUME NEW i \in 1..n, i - 1 \in S
      PROVE  i \in S
  <2> DEFINE u == h[i - 1]
             v == h[i]
  <2>1. Good(i - 1)
    BY <1>6
  <2>2. v = PickUp(u, turns[i]) /\ turns[i].player = n - i /\ turns[i].kind = kind
    BY <1>3, <1>4
  <2>3. Shaped(u) /\ Standing(u) /\ Thins(w, u)
    BY <2>1
  <2>4. DOMAIN u.players = DOMAIN w.players
    BY <2>3 DEF Thins
  <2>5. \A p \in DOMAIN w.players : p >= n - (i - 1) => Picked(u, p, kind)
    BY <2>1
  <2> HIDE DEF u, v
  <2>6. /\ Shaped(v) /\ Standing(v) /\ Thins(u, v)
        /\ n - i \in DOMAIN u.players => Picked(v, n - i, kind)
    BY <2>2, <2>3, PickUpStanding
  <2>7. Thins(w, v)
    BY <2>3, <2>6, ThinsTransitive
  <2>8. ASSUME NEW p \in DOMAIN w.players, p >= n - i
        PROVE  Picked(v, p, kind)
    <3>1. p \in Int /\ n \in Nat
      BY <1>2 DEF Players
    <3>2. CASE p = n - i
      BY <2>4, <2>6, <3>2
    <3>3. CASE p # n - i
      <4>1. p >= n - (i - 1)
        BY <2>8, <3>1, <3>3
      <4>2. Picked(u, p, kind)
        BY <2>5, <4>1
      <4> QED BY <2>3, <2>4, <2>6, <4>2, PickedStays
    <3> QED BY <3>2, <3>3
  <2>9. Good(i)
    BY <2>6, <2>7, <2>8 DEF v
  <2> QED BY <2>9
<1> HIDE DEF S
<1>7. 0..n \subseteq S
  BY <1>2, <1>5, <1>6, Pickings!Induction
<1>8. Good(n)
  BY <1>2, <1>7 DEF S
<1>9. \A p \in DOMAIN w.players : p >= n - n
  BY <1>2 DEF Players
<1> QED BY <1>1, <1>4, <1>8, <1>9 DEF PicksAll

\* One kind after another.
LEMMA PicksMore ==
  ASSUME NEW w, NEW u, NEW v, NEW some, NEW others, PicksAll(w, u, some),
         PicksAll(u, v, others)
  PROVE  PicksAll(w, v, some \cup others)
<1>1. Thins(w, v) /\ DOMAIN u.players = DOMAIN w.players
  BY ThinsTransitive DEF PicksAll, Thins
<1>2. ASSUME NEW p \in DOMAIN w.players, NEW kind \in some
      PROVE  Picked(v, p, kind)
  <2>1. Picked(u, p, kind) /\ Standing(u) /\ Thins(u, v)
    BY DEF PicksAll
  <2> QED BY <1>1, <2>1, PickedStays
<1>3. \A p \in DOMAIN w.players, kind \in others : Picked(v, p, kind)
  BY <1>1 DEF PicksAll
<1> QED BY <1>1, <1>2, <1>3 DEF PicksAll

\* No player leaves a power-up in its cell.
LEMMA PickUpsAll ==
  ASSUME NEW w, Shaped(w), Standing(w), DOMAIN w.players \subseteq Players
  PROVE  PicksAll(w, PickUps(w), Kinds)
<1> DEFINE a == PickUpsOf(w, "bomb")
           b == PickUpsOf(a, "flame")
           c == PickUpsOf(b, "invisibility")
           d == PickUpsOf(c, "shield")
<1>1. PickUps(w) = d
  BY DEF PickUps
<1>2. PicksAll(w, a, {"bomb"})
  BY PickUpsOfAll DEF Kinds
<1> HIDE DEF a
<1>3. PicksAll(a, b, {"flame"})
  <2>1. Shaped(a) /\ Standing(a) /\ DOMAIN a.players \subseteq Players
    BY <1>2 DEF PicksAll, Thins
  <2> QED BY <2>1, PickUpsOfAll DEF Kinds
<1> HIDE DEF b
<1>4. PicksAll(w, b, {"bomb"} \cup {"flame"})
  BY <1>2, <1>3, PicksMore
<1>5. PicksAll(b, c, {"invisibility"})
  <2>1. Shaped(b) /\ Standing(b) /\ DOMAIN b.players \subseteq Players
    BY <1>4 DEF PicksAll, Thins
  <2> QED BY <2>1, PickUpsOfAll DEF Kinds
<1> HIDE DEF c
<1>6. PicksAll(w, c, ({"bomb"} \cup {"flame"}) \cup {"invisibility"})
  BY <1>4, <1>5, PicksMore
<1>7. PicksAll(c, d, {"shield"})
  <2>1. Shaped(c) /\ Standing(c) /\ DOMAIN c.players \subseteq Players
    BY <1>6 DEF PicksAll, Thins
  <2> QED BY <2>1, PickUpsOfAll DEF Kinds
<1> HIDE DEF d
<1>8. PicksAll(w, d, (({"bomb"} \cup {"flame"}) \cup {"invisibility"}) \cup {"shield"})
  BY <1>6, <1>7, PicksMore
<1>9. Kinds = (({"bomb"} \cup {"flame"}) \cup {"invisibility"}) \cup {"shield"}
  BY DEF Kinds
<1> QED BY <1>1, <1>8, <1>9

-----------------------------------------------------------------------------
(* The arena between two ticks.                                            *)

\* The power-ups are of the kinds that there are.
Known(w) == \A c \in DOMAIN w.powerUps : w.powerUps[c] \in Kinds

\* What holds between two ticks.
Resting(w) ==
  /\ Mapped(w) /\ Blocked(w) /\ Known(w)
  /\ w.dead = {} /\ w.crushed = {}
  /\ \A p \in DOMAIN w.players :
       /\ Able(w.players[p], Covered(w))
       /\ w.players[p].state \in {"alive", "burn", "die"}
       /\ PlayerCell(w, p) \notin Covered(w)
  /\ \A c \in DOMAIN w.bombs : w.bombs[c].strength \in Nat /\ c \notin Covered(w)
  /\ DOMAIN w.crates \cap DOMAIN w.powerUps = {}
  /\ w.burning \subseteq EntitiesOf(w)
  /\ Inside(w.flames)
  /\ IsFiniteSet(DOMAIN w.timer)

\* The cells of the falling blocks are in the arena.
LEMMA BlocksAreInside ==
  ASSUME NEW w, Blocked(w)
  PROVE  w.walls \subseteq FreeCells /\ DOMAIN w.blocks \subseteq FreeCells
<1>1. Range(FallOrder) \subseteq FreeCells /\ DOMAIN FallOrder = 1..Len(FallOrder)
      /\ Len(FallOrder) \in Nat
  BY FallOrderIsOrder DEF IsOrder
<1>2. \A i \in 1..Len(FallOrder) : FallOrder[i] \in FreeCells
  BY <1>1 DEF Range
<1>3. w.nextFall - 1 \in 0..Len(FallOrder)
  BY <1>1 DEF Blocked
<1>4. \A i \in 1 .. w.nextFall - 1 : FallOrder[i] \in FreeCells
  BY <1>1, <1>2, <1>3
<1> QED BY <1>4 DEF Blocked

\* The next block falls in a cell where no other fell.
LEMMA ReductionBlocked ==
  ASSUME NEW w, Shaped(w), Blocked(w)
  PROVE  Blocked(ArenaReduction(w))
<1> DEFINE v == ArenaReduction(w)
<1>1. /\ Same(w, v, {"clock", "nextFall", "blocks"})
      /\ \/ v.nextFall = w.nextFall /\ v.blocks = w.blocks
         \/ /\ ~(w.nextFall > Len(FallOrder))
            /\ v.nextFall = w.nextFall + 1
            /\ v.blocks = Over(Only(FallOrder[w.nextFall],
                                    FallingBlockDuration), w.blocks)
  BY ArenaReductionEffect
<1> HIDE DEF v
<1>2. v.walls = w.walls
  BY <1>1 DEF Same, Fields
<1>3. CASE v.nextFall = w.nextFall /\ v.blocks = w.blocks
  BY <1>2, <1>3 DEF Blocked, v
<1>4. CASE /\ ~(w.nextFall > Len(FallOrder))
           /\ v.nextFall = w.nextFall + 1
           /\ v.blocks = Over(Only(FallOrder[w.nextFall],
                                   FallingBlockDuration), w.blocks)
  <2> DEFINE n == w.nextFall
             fallen == {FallOrder[i] : i \in 1 .. n - 1}
  <2>1. /\ IsInjective(FallOrder) /\ DOMAIN FallOrder = 1..Len(FallOrder)
        /\ Len(FallOrder) \in Nat
    BY FallOrderIsOrder DEF IsOrder
  <2>2. n \in 1..Len(FallOrder)
    BY <1>4, <2>1 DEF Blocked
  <2>3. \A i \in 1 .. n - 1 : i \in DOMAIN FallOrder /\ i # n
    BY <2>1, <2>2
  <2>4. FallOrder[n] \notin fallen
    BY <2>1, <2>2, <2>3 DEF IsInjective
  <2>5. w.walls \cup DOMAIN w.blocks \subseteq fallen /\ w.walls \cap DOMAIN w.blocks = {}
    BY DEF Blocked
  <2>6. DOMAIN v.blocks = {FallOrder[n]} \cup DOMAIN w.blocks
    BY <1>4 DEF Over, Only
  <2>7. v.nextFall = n + 1 /\ n + 1 \in 1 .. Len(FallOrder) + 1
    BY <1>4, <2>1, <2>2
  <2>8. {FallOrder[i] : i \in 1 .. (n + 1) - 1} = fallen \cup {FallOrder[n]}
    <3>1. 1 .. (n + 1) - 1 = (1 .. n - 1) \cup {n}
      BY <2>1, <2>2
    <3> QED BY <3>1
  <2> HIDE DEF n, fallen
  <2> QED BY <1>2, <2>4, <2>5, <2>6, <2>7, <2>8 DEF Blocked, v
<1> QED BY <1>1, <1>3, <1>4

\* The blocks that have fallen are walls, what they fall on is crushed.
LEMMA SealsStanding ==
  ASSUME NEW w, Shaped(w), Acting(w), Blocked(w), Inside(w.flames),
         \A c : <<"wall", c>> \notin w.dead,
         DOMAIN w.crates \cap DOMAIN w.powerUps = {}
  PROVE  Standing(UpdateFallingBlocks(w))
<1> DEFINE v == UpdateFallingBlocks(w)
           cells == {c \in DOMAIN w.blocks : w.blocks[c] = 0}
<1>1. /\ Same(w, v, {"blocks", "crushed", "map", "walls"})
      /\ v.blocks = Restrict(w.blocks, DOMAIN w.blocks \ cells)
      /\ v.crushed = w.crushed \cup UNION {Here(w, c) : c \in cells}
      /\ v.map = Updated(w.map, cells, LAMBDA c : << <<"wall", c>> >>)
      /\ v.walls = w.walls \cup cells
  BY UpdateFallingBlocksEffect
<1>2. v.map = [c \in DOMAIN w.map |-> IF c \in cells THEN << <<"wall", c>> >>
                                      ELSE w.map[c]]
  BY <1>1 DEF Updated
<1>3. cells \subseteq FreeCells /\ cells \cap w.walls = {}
      /\ cells \subseteq DOMAIN w.blocks
  BY BlocksAreInside DEF Blocked
<1> HIDE DEF v, cells
<1>4. /\ v.players = w.players /\ v.bombs = w.bombs /\ v.powerUps = w.powerUps
      /\ v.crates = w.crates /\ v.timer = w.timer /\ v.dead = w.dead
      /\ v.burning = w.burning /\ v.flames = w.flames
      /\ v.nextFall = w.nextFall
  BY <1>1 DEF Same, Fields
<1>5. /\ Mapped(w) /\ w.crushed = {} /\ DOMAIN w.map = FreeCells
  BY DEF Acting, Mapped, Lists
<1>6. ASSUME NEW c \in cells
      PROVE  /\ Here(v, c) = {<<"wall", c>>}
             /\ IsList(v.map[c]) /\ IsInjective(v.map[c])
  <2>1. v.map[c] = << <<"wall", c>> >>
    BY <1>2, <1>3, <1>5
  <2>2. Range(v.map[c]) = {<<"wall", c>>}
    BY <2>1 DEF Range
  <2> QED BY <2>1, <2>2 DEF Here, IsList, IsInjective
<1>7. ASSUME NEW c \in FreeCells \ cells
      PROVE  v.map[c] = w.map[c] /\ Here(v, c) = Here(w, c)
  BY <1>2, <1>5 DEF Here
<1>8. Lists(v.map)
  <2>1. DOMAIN v.map = FreeCells
    BY <1>2, <1>5
  <2> QED BY <1>5, <1>6, <1>7, <2>1 DEF Mapped, Lists
<1>9. EntitiesOf(v) = EntitiesOf(w) \cup {<<"wall", c>> : c \in cells}
  BY <1>1, <1>4, ZenonT(60) DEF EntitiesOf
<1>10. \A e \in EntitiesOf(w) : CellOfEntity(v, e) = CellOfEntity(w, e)
  BY <1>4, SamePlaces
<1>11. \A e \in EntitiesOf(w) : Missing(w, e) => Missing(v, e)
  BY <1>1, <1>4, MissingStays DEF Alive
<1>12. ASSUME NEW c \in cells
       PROVE  CellOfEntity(v, <<"wall", c>>) = c
  BY DEF CellOfEntity, IsPlayer
<1>13. \A e \in v.crushed : Missing(v, e)
  BY DEF Missing
<1>14. \A c \in FreeCells : \A e \in Here(w, c) :
         e \in Here(v, c) \/ Missing(v, e)
  BY <1>1, <1>7, <1>13
<1>15. Located(v)
  <2>1. \A e \in EntitiesOf(v) \ EntitiesOf(w) :
          /\ CellOfEntity(v, e) \in FreeCells
          /\ e \in Here(v, CellOfEntity(v, e))
    BY <1>3, <1>6, <1>9, <1>12
  <2>2. \A c \in FreeCells : \A e \in Here(v, c) :
          e \in Here(w, c) \/ (e \in EntitiesOf(v) /\ CellOfEntity(v, e) = c)
    BY <1>6, <1>7, <1>9, <1>12
  <2>3. \A e \in EntitiesOf(w) :
          /\ e \in EntitiesOf(v) /\ CellOfEntity(v, e) = CellOfEntity(w, e)
          /\ Missing(w, e) => Missing(v, e)
    BY <1>9, <1>10, <1>11
  <2>4. Follows(w, v)
    BY <1>14, <2>1, <2>2, <2>3 DEF Follows
  <2> QED BY <1>5, <2>4, FollowsLocated DEF Mapped
<1>16. Alone(v)
  BY <1>5, <1>6, <1>7 DEF Mapped, Alone
<1>17. Blocked(v)
  <2>1. DOMAIN v.blocks = DOMAIN w.blocks \ cells
    BY <1>1 DEF Restrict
  <2> QED BY <1>1, <1>3, <1>4, <2>1 DEF Blocked
<1>18. Covered(v) = Covered(w)
  BY <1>4 DEF Covered
<1>19. \A e \in v.crushed : e \in EntitiesOf(w) /\ CellOfEntity(w, e) \in cells
  <2>1. \A c \in cells : \A e \in Here(w, c) :
          e \in EntitiesOf(w) /\ CellOfEntity(w, e) = c
    BY <1>3, <1>5 DEF Mapped, Located
  <2>2. v.crushed = w.crushed \cup UNION {Here(w, c) : c \in cells}
    BY <1>1
  <2>3. v.crushed = UNION {Here(w, c) : c \in cells}
    BY <1>5, <2>2
  <2> QED BY <2>1, <2>3
<1>20. \A e \in v.crushed : e \in EntitiesOf(v) /\ CellOfEntity(v, e) \in v.walls
  BY <1>1, <1>9, <1>10, <1>19
<1>21. ASSUME NEW c
       PROVE  <<"wall", c>> \notin v.dead \cup v.crushed
  <2>1. SUFFICES ASSUME <<"wall", c>> \in v.crushed
                 PROVE  FALSE
    BY <1>4
  <2>2. c \in w.walls /\ CellOfEntity(w, <<"wall", c>>) = c
    BY <1>19, <2>1, EntityFacts
  <2> QED BY <1>3, <1>19, <2>1, <2>2
<1>22. \A p \in DOMAIN v.players : /\ Able(v.players[p], Covered(v))
                                   /\ PlayerCell(v, p) \notin DOMAIN v.crates
  BY <1>4, <1>18 DEF Acting, PlayerCell
<1>23. /\ \A c \in DOMAIN v.bombs : /\ v.bombs[c].strength \in Nat
                                    /\ c \notin Covered(v)
       /\ v.burning \subseteq EntitiesOf(v)
       /\ IsFiniteSet(DOMAIN v.timer) /\ Inside(v.flames)
       /\ DOMAIN v.crates \cap DOMAIN v.powerUps = {}
  BY <1>4, <1>9, <1>18 DEF Acting
<1>24. Standing(v)
  BY <1>8, <1>15, <1>16, <1>17, <1>20, <1>21, <1>22, <1>23 DEF Standing, Mapped
<1> QED BY <1>24 DEF v

\* The systems before the actions only change what the actions do not read.
LEMMA AnimatedActing ==
  ASSUME NEW w, NEW actions, NEW order, NEW kicked, NEW s,
         Stages(w, actions, order, kicked, s), Frames(s), Resting(w), Counted(w)
  PROVE  LET v == s.animated IN
           /\ Acting(v) /\ Blocked(v) /\ Inside(v.flames) /\ Known(v)
           /\ \A c : <<"wall", c>> \notin v.dead /\ <<"bomb", c>> \notin v.dead
           /\ DOMAIN v.crates \cap DOMAIN v.powerUps = {}
           /\ DOMAIN v.players = DOMAIN w.players
           /\ \A p \in DOMAIN v.players :
                PlayerCell(v, p) \notin Covered(v)
<1> DEFINE v == s.animated
<1>1. /\ w = s.start
      /\ s.timed = UpdateTimers(s.dated) /\ Shaped(s.dated)
      /\ v = Animator(s.timed) /\ Shaped(s.timed)
  BY DEF Stages, Frames
<1>2. /\ s.timed.timer = Decreased(s.dated.timer)
      /\ s.timed.blocks = Decreased(s.dated.blocks)
  BY <1>1, UpdateTimersEffect
<1>3. /\ DOMAIN v.crates = DOMAIN s.timed.crates
      /\ v.flames = {[f EXCEPT !.age = @ + 1] : f \in s.timed.flames}
      /\ v.dead \subseteq s.timed.dead
                          \cup {Player(p) : p \in DOMAIN s.timed.players}
                          \cup {<<"crate", c>> : c \in DOMAIN s.timed.crates}
  BY <1>1, AnimatorEffect
<1> HIDE DEF v
<1>4. /\ v.bombs = w.bombs /\ v.powerUps = w.powerUps /\ v.walls = w.walls
      /\ v.map = w.map /\ v.crushed = w.crushed /\ v.burning = w.burning
      /\ v.nextFall = w.nextFall
      /\ v.timer = s.timed.timer /\ v.blocks = s.timed.blocks
      /\ s.dated.timer = w.timer /\ s.dated.blocks = w.blocks
      /\ s.timed.crates = w.crates /\ s.timed.flames = w.flames
      /\ s.timed.dead = w.dead
  BY <1>1 DEF Frames, Same, Fields, v
<1>5. /\ DOMAIN s.timed.players = DOMAIN w.players
      /\ DOMAIN v.players = DOMAIN w.players
      /\ \A p \in DOMAIN w.players :
           /\ v.players[p].position = w.players[p].position
           /\ v.players[p].state = w.players[p].state
           /\ v.players[p].queue = w.players[p].queue
           /\ v.players[p].strength = w.players[p].strength
  BY <1>1, SMTT(30) DEF Frames, Same, SamePlayers, Fields, PlayerFields, v
<1>6. DOMAIN v.timer = DOMAIN w.timer /\ DOMAIN v.blocks = DOMAIN w.blocks
  BY <1>2, <1>4 DEF Decreased
<1>7. w.dead = {} /\ w.crushed = {}
  BY DEF Resting
<1>8. \A c : <<"wall", c>> \notin v.dead /\ <<"bomb", c>> \notin v.dead
  BY <1>3, <1>4, <1>7 DEF Player
<1>9. EntitiesOf(v) = EntitiesOf(w)
  BY <1>3, <1>4, <1>5, <1>6, SameEntities
<1>10. \A e \in EntitiesOf(w) : Missing(w, e) => Missing(v, e)
  BY <1>4, <1>5, <1>7, MissingStays DEF Alive
<1>11. Mapped(v)
  BY <1>4, <1>5, <1>9, <1>10, MappedStays DEF Resting
<1>12. Covered(v) = Covered(w)
  BY <1>3, <1>4 DEF Covered
<1>13. \A p \in DOMAIN v.players :
         /\ Able(v.players[p], Covered(v)) /\ PlayerCell(v, p) \notin Covered(v)
  BY <1>5, <1>12 DEF Resting, Able, PlayerCell
<1>14. \A p \in DOMAIN v.players :
         v.players[p].strength \in Nat /\ PlayerCell(v, p) \notin DOMAIN v.crates
  <2>1. \A p \in DOMAIN w.players : w.players[p].strength \in 1..MaxStrength
    BY DEF Counted
  <2>2. \A p \in DOMAIN v.players : v.players[p].strength \in Nat
    BY <1>5, <2>1
  <2> QED BY <1>13, <2>2 DEF Covered
<1>15. \A c \in DOMAIN v.crates : <<"crate", c>> \in Here(v, c)
  <2> SUFFICES ASSUME NEW c \in DOMAIN v.crates
               PROVE  <<"crate", c>> \in Here(v, c)
    OBVIOUS
  <2>1. /\ <<"crate", c>> \in EntitiesOf(w)
        /\ CellOfEntity(w, <<"crate", c>>) = c
    BY <1>3, <1>4 DEF EntitiesOf, CellOfEntity, IsPlayer
  <2>2. ~IsPlayer(<<"crate", c>>)
    BY DEF IsPlayer
  <2>3. ~Missing(w, <<"crate", c>>)
    BY <1>7, <2>2 DEF Missing
  <2> QED BY <1>4, <2>1, <2>3 DEF Resting, Mapped, Located, Here
<1>16. Blocked(v)
  BY <1>4, <1>6 DEF Resting, Blocked
<1>17. Inside(v.flames)
  <2>1. \A f \in w.flames : f.cell \in FreeCells
    BY DEF Resting, Inside
  <2>2. ASSUME NEW f \in v.flames
        PROVE  f.cell \in FreeCells
    <3>1. PICK g \in w.flames : f = [g EXCEPT !.age = @ + 1]
      BY <1>3, <1>4
    <3>2. f.cell = g.cell
      BY <3>1
    <3> QED BY <2>1, <3>2
  <2> QED BY <2>2 DEF Inside
<1>18. Acting(v)
  BY <1>4, <1>6, <1>7, <1>9, <1>11, <1>12, <1>13, <1>14, <1>15
     DEF Acting, Resting
<1>19. Known(v) /\ DOMAIN v.crates \cap DOMAIN v.powerUps = {}
  BY <1>3, <1>4 DEF Resting, Known
<1> QED BY <1>5, <1>8, <1>13, <1>16, <1>17, <1>18, <1>19 DEF v

\* The power-ups take the place of the crates.
LEMMA OpenedStanding ==
  ASSUME NEW w, Shaped(w), Standing(w), Known(w),
         DOMAIN w.crates \cap DOMAIN w.powerUps = {}
  PROVE  /\ Standing(UpdatePowerUpSpawners(w))
         /\ Known(UpdatePowerUpSpawners(w))
<1> DEFINE v == UpdatePowerUpSpawners(w)
           open == {c \in DOMAIN w.crates : /\ <<"crate", c>> \in w.dead
                                            /\ w.crates[c].spawner \in Kinds}
           item(c) == <<"power_up", c>>
<1>1. /\ Same(w, v, {"powerUps", "map"})
      /\ v.powerUps = Over([c \in open |-> w.crates[c].spawner], w.powerUps)
      /\ v.map = [c \in DOMAIN w.map |->
                    IF c \in open THEN Append(w.map[c], item(c)) ELSE w.map[c]]
  BY UpdatePowerUpSpawnersEffect
<1>2. /\ open \subseteq DOMAIN w.crates
      /\ \A c \in open : <<"crate", c>> \in w.dead
      /\ \A c \in open : w.crates[c].spawner \in Kinds
  OBVIOUS
<1> HIDE DEF v, open
<1>3. /\ v.players = w.players /\ v.bombs = w.bombs /\ v.crates = w.crates
      /\ v.timer = w.timer /\ v.dead = w.dead /\ v.burning = w.burning
      /\ v.flames = w.flames /\ v.nextFall = w.nextFall
      /\ v.crushed = w.crushed /\ v.walls = w.walls /\ v.blocks = w.blocks
  BY <1>1 DEF Same, Fields
<1>4. /\ DOMAIN v.powerUps = open \cup DOMAIN w.powerUps
      /\ \A c \in open : v.powerUps[c] = w.crates[c].spawner
      /\ \A c \in DOMAIN w.powerUps \ open : v.powerUps[c] = w.powerUps[c]
  BY <1>1 DEF Over
<1>5. Known(v)
  BY <1>2, <1>4 DEF Known
<1>6. Mapped(w) /\ DOMAIN w.map = FreeCells
  BY DEF Standing, Mapped, Lists
<1>7. open \subseteq FreeCells
  <2>1. \A c \in DOMAIN w.crates : /\ <<"crate", c>> \in EntitiesOf(w)
                                   /\ CellOfEntity(w, <<"crate", c>>) = c
    BY EntityFacts
  <2> QED BY <1>2, <1>6, <2>1 DEF Mapped, Located
<1>8. ASSUME NEW c \in open
      PROVE  /\ IsList(v.map[c]) /\ IsInjective(v.map[c])
             /\ Here(v, c) = Here(w, c) \cup {item(c)}
             /\ item(c) \notin EntitiesOf(w)
  <2>1. item(c) \notin EntitiesOf(w)
    BY <1>2 DEF EntitiesOf, Player
  <2>2. item(c) \notin Range(w.map[c])
    BY <1>6, <1>7, <2>1, HereIsKnown DEF Here
  <2>3. IsList(w.map[c]) /\ IsInjective(w.map[c])
    BY <1>6, <1>7 DEF Mapped, Lists
  <2>4. v.map[c] = Append(w.map[c], item(c))
    BY <1>1, <1>6, <1>7
  <2> HIDE DEF item
  <2> QED BY <2>1, <2>2, <2>3, <2>4, AppendToList DEF Here
<1>9. ASSUME NEW c \in FreeCells \ open
      PROVE  v.map[c] = w.map[c] /\ Here(v, c) = Here(w, c)
  BY <1>1, <1>6 DEF Here
<1>10. Lists(v.map)
  <2>1. DOMAIN v.map = FreeCells
    BY <1>1, <1>6
  <2> QED BY <1>6, <1>8, <1>9, <2>1 DEF Mapped, Lists
<1>11. EntitiesOf(v) = EntitiesOf(w) \cup {item(c) : c \in open}
  BY <1>3, <1>4 DEF EntitiesOf
<1>12. \A e \in EntitiesOf(w) : CellOfEntity(v, e) = CellOfEntity(w, e)
  BY <1>3, SamePlaces
<1>13. \A e \in EntitiesOf(w) : Missing(w, e) => Missing(v, e)
  BY <1>3, MissingStays DEF Alive
<1>14. \A c \in open : CellOfEntity(v, item(c)) = c
  BY DEF CellOfEntity, IsPlayer
<1>15. Located(v)
  <2>1. \A e \in EntitiesOf(v) \ EntitiesOf(w) :
          /\ CellOfEntity(v, e) \in FreeCells
          /\ e \in Here(v, CellOfEntity(v, e))
    BY <1>7, <1>8, <1>11, <1>14
  <2>2. \A c \in FreeCells : \A e \in Here(v, c) :
          e \in Here(w, c) \/ (e \in EntitiesOf(v) /\ CellOfEntity(v, e) = c)
    BY <1>8, <1>9, <1>11, <1>14
  <2>3. \A e \in EntitiesOf(w) :
          /\ e \in EntitiesOf(v) /\ CellOfEntity(v, e) = CellOfEntity(w, e)
          /\ Missing(w, e) => Missing(v, e)
    BY <1>11, <1>12, <1>13
  <2>4. \A c \in FreeCells : \A e \in Here(w, c) :
          e \in Here(v, c) \/ Missing(v, e)
    BY <1>8, <1>9
  <2>5. Follows(w, v)
    BY <2>1, <2>2, <2>3, <2>4 DEF Follows
  <2> QED BY <1>6, <2>5, FollowsLocated DEF Mapped
<1>16. Alone(v)
  <2> SUFFICES ASSUME NEW c \in FreeCells, <<"wall", c>> \in Here(v, c)
               PROVE  <<"bomb", c>> \notin Here(v, c)
    BY DEF Alone
  <2>1. <<"wall", c>> # item(c) /\ <<"bomb", c>> # item(c)
    OBVIOUS
  <2> HIDE DEF item
  <2>2. <<"wall", c>> \in Here(w, c)
    BY <1>8, <1>9, <2>1
  <2>3. <<"bomb", c>> \notin Here(w, c)
    BY <1>6, <2>2 DEF Mapped, Alone
  <2> QED BY <1>8, <1>9, <2>1, <2>3
<1>17. Blocked(v)
  BY <1>3 DEF Standing, Blocked
<1>18. Covered(v) = Covered(w)
  BY <1>2, <1>3, <1>4 DEF Covered
<1>19. \A p \in DOMAIN v.players : /\ Able(v.players[p], Covered(v))
                                   /\ PlayerCell(v, p) \notin DOMAIN v.crates
  BY <1>3, <1>18 DEF Standing, PlayerCell
<1>20. /\ \A e \in v.crushed : CellOfEntity(v, e) \in v.walls
       /\ v.crushed \subseteq EntitiesOf(v)
  BY <1>3, <1>11, <1>12 DEF Standing
<1>21. /\ \A c \in DOMAIN v.crates \cap DOMAIN v.powerUps :
            <<"crate", c>> \in v.dead
       /\ \A c : <<"wall", c>> \notin v.dead \cup v.crushed
  BY <1>2, <1>3, <1>4 DEF Standing
<1>22. /\ \A c \in DOMAIN v.bombs : /\ v.bombs[c].strength \in Nat
                                    /\ c \notin Covered(v)
       /\ v.burning \subseteq EntitiesOf(v)
       /\ IsFiniteSet(DOMAIN v.timer) /\ Inside(v.flames)
  BY <1>3, <1>11, <1>18 DEF Standing
<1>23. Standing(v)
  BY <1>10, <1>15, <1>16, <1>17, <1>19, <1>20, <1>21, <1>22
     DEF Standing, Mapped
<1> QED BY <1>5, <1>23 DEF v

\* The crushed players die.
LEMMA JudgedStanding ==
  ASSUME NEW w, Shaped(w), Standing(w), NEW kicked
  PROVE  LET v == UpdatePlayers(w, kicked) IN
           /\ Standing(v) /\ \A e \in v.crushed : ~IsPlayer(e)
           /\ EntitiesOf(v) = EntitiesOf(w)
<1> DEFINE v == UpdatePlayers(w, kicked)
<1>1. /\ Same(w, v, {"players", "dead", "crushed"})
      /\ v.dead = w.dead \cup {Player(p) : p \in kicked}
      /\ v.crushed = {e \in w.crushed : ~IsPlayer(e)}
      /\ SamePlayers(w, v, {"state", "elapsed"})
      /\ \A p \in DOMAIN w.players :
           v.players[p].state =
             IF w.players[p].state # "alive" THEN w.players[p].state
             ELSE IF Player(p) \in w.burning THEN "burn"
             ELSE IF Player(p) \in w.crushed THEN "die"
             ELSE "alive"
  BY UpdatePlayersEffect
<1> HIDE DEF v
<1>2. /\ v.bombs = w.bombs /\ v.powerUps = w.powerUps /\ v.walls = w.walls
      /\ v.blocks = w.blocks /\ v.map = w.map /\ v.nextFall = w.nextFall
      /\ v.crates = w.crates /\ v.timer = w.timer /\ v.burning = w.burning
      /\ v.flames = w.flames
  BY <1>1 DEF Same, Fields
<1>3. /\ DOMAIN v.players = DOMAIN w.players
      /\ \A p \in DOMAIN w.players :
           /\ v.players[p].position = w.players[p].position
           /\ v.players[p].queue = w.players[p].queue
  BY <1>1 DEF SamePlayers, PlayerFields
<1>4. EntitiesOf(v) = EntitiesOf(w)
  BY <1>2, <1>3, SameEntities
<1>5. \A e \in EntitiesOf(w) : CellOfEntity(v, e) = CellOfEntity(w, e)
  BY <1>3, SamePlaces
<1>6. ASSUME NEW e \in EntitiesOf(w), Missing(w, e)
      PROVE  Missing(v, e)
  <2>1. CASE IsPlayer(e)
    <3>1. PICK p \in DOMAIN w.players : e = Player(p)
      BY <2>1 DEF EntitiesOf, IsPlayer
    <3>2. e[2] = p
      BY <3>1 DEF Player
    <3>3. CASE e \in w.dead
      BY <1>1, <3>3 DEF Missing
    <3>4. CASE e \in w.crushed
      <4>1. CellOfEntity(v, e) \in v.walls
        BY <1>2, <1>5, <3>4 DEF Standing
      <4>2. ~Alive(v, p)
        BY <1>1, <3>1, <3>4 DEF Alive
      <4> QED BY <2>1, <3>2, <4>1, <4>2 DEF Missing
    <3>5. CASE ~Alive(w, e[2]) /\ CellOfEntity(w, e) \in w.walls
      <4>1. ~Alive(v, p)
        BY <1>1, <3>2, <3>5 DEF Alive
      <4> QED BY <1>2, <1>5, <2>1, <3>2, <3>5, <4>1 DEF Missing
    <3> QED BY <1>6, <3>3, <3>4, <3>5 DEF Missing
  <2>2. CASE ~IsPlayer(e)
    BY <1>1, <1>6, <2>2 DEF Missing
  <2> QED BY <2>1, <2>2
<1>7. Mapped(v)
  BY <1>2, <1>3, <1>4, <1>6, MappedStays DEF Standing
<1>8. Covered(v) = Covered(w)
  BY <1>2 DEF Covered
<1>9. \A p \in DOMAIN v.players : /\ Able(v.players[p], Covered(v))
                                  /\ PlayerCell(v, p) \notin DOMAIN v.crates
  BY <1>2, <1>3, <1>8 DEF Standing, PlayerCell, Able
<1>10. /\ \A e \in v.crushed : CellOfEntity(v, e) \in v.walls
       /\ v.crushed \subseteq EntitiesOf(v)
  BY <1>1, <1>2, <1>4, <1>5 DEF Standing
<1>11. /\ \A c \in DOMAIN v.crates \cap DOMAIN v.powerUps :
            <<"crate", c>> \in v.dead
       /\ \A c : <<"wall", c>> \notin v.dead \cup v.crushed
  BY <1>1, <1>2 DEF Standing, Player
<1>12. /\ \A c \in DOMAIN v.bombs : /\ v.bombs[c].strength \in Nat
                                    /\ c \notin Covered(v)
       /\ v.burning \subseteq EntitiesOf(v)
       /\ IsFiniteSet(DOMAIN v.timer) /\ Inside(v.flames)
  BY <1>2, <1>4, <1>8 DEF Standing
<1>13. Blocked(v)
  BY <1>2 DEF Standing, Blocked
<1>14. Standing(v)
  BY <1>7, <1>9, <1>10, <1>11, <1>12, <1>13 DEF Standing
<1> QED BY <1>1, <1>4, <1>14 DEF v

\* What a player may do with fewer cells covered.
LEMMA AbleAmongFewer ==
  ASSUME NEW player, NEW covered, Able(player, covered), NEW fewer,
         fewer \subseteq covered
  PROVE  Able(player, fewer)
<1>1. Items(covered) \subseteq Items(fewer)
  BY DEF Items
<1>2. player.queue \in Seq(Items(covered))
  BY DEF Able
<1> HIDE DEF Items
<1>3. player.queue \in Seq(Items(fewer))
  BY <1>1, <1>2
<1> QED BY <1>3 DEF Able

\* The arena is at rest when what is dead has been removed.
LEMMA RemovedResting ==
  ASSUME NEW w, Shaped(w), Standing(w), Known(w),
         \A e \in w.crushed : ~IsPlayer(e),
         \A p \in DOMAIN w.players :
           /\ w.players[p].state \in {"alive", "burn", "die"}
           /\ PlayerCell(w, p) \in DOMAIN w.powerUps =>
                <<"power_up", PlayerCell(w, p)>> \in w.dead \cup w.crushed
  PROVE  Resting(RemoveDeadObjects(w))
<1> DEFINE v == RemoveDeadObjects(w)
           gone == w.dead \cup w.crushed
           here == {p \in DOMAIN w.players : Player(p) \notin gone}
<1>1. Removes(w, v)
  BY RemoveDeadObjectsEffect
<1> HIDE DEF v
<1>2. /\ v.map = [c \in DOMAIN w.map |-> Without(w.map[c], gone)]
      /\ v.players = Restrict(w.players, here)
      /\ v.bombs = Restrict(w.bombs, Remaining(DOMAIN w.bombs, "bomb", gone))
      /\ v.crates = Restrict(w.crates, Remaining(DOMAIN w.crates, "crate", gone))
      /\ v.powerUps = Restrict(w.powerUps,
                               Remaining(DOMAIN w.powerUps, "power_up", gone))
      /\ v.timer = Restrict(w.timer, DOMAIN w.timer \ gone)
      /\ v.flames = {f \in w.flames : f.age < FlameDuration}
      /\ v.burning = w.burning \ gone
      /\ v.crushed = {} /\ v.dead = {}
  BY <1>1 DEF Removes
<1>3. /\ v.walls = w.walls /\ v.blocks = w.blocks /\ v.nextFall = w.nextFall
  BY <1>1 DEF Removes, Same, Fields
<1> HIDE DEF gone
<1>4. /\ DOMAIN v.players = here
      /\ \A p \in here : v.players[p] = w.players[p]
      /\ DOMAIN v.bombs = {c \in DOMAIN w.bombs : <<"bomb", c>> \notin gone}
      /\ \A c \in DOMAIN v.bombs : v.bombs[c] = w.bombs[c]
  BY <1>2 DEF Restrict, Remaining
<1>5. /\ DOMAIN v.crates = {c \in DOMAIN w.crates : <<"crate", c>> \notin gone}
      /\ DOMAIN v.powerUps =
           {c \in DOMAIN w.powerUps : <<"power_up", c>> \notin gone}
      /\ \A c \in DOMAIN v.powerUps : v.powerUps[c] = w.powerUps[c]
      /\ DOMAIN v.timer = DOMAIN w.timer \ gone
  BY <1>2 DEF Restrict, Remaining
<1>6. \A c : <<"wall", c>> \notin gone
  BY DEF Standing, gone
<1>7. EntitiesOf(v) = EntitiesOf(w) \ gone
  <2>1. ASSUME NEW e \in EntitiesOf(v)
        PROVE  e \in EntitiesOf(w) \ gone
    <3>1. CASE \E p \in DOMAIN v.players : e = Player(p)
      BY <1>4, <3>1 DEF EntitiesOf
    <3>2. CASE \E c \in DOMAIN v.bombs : e = <<"bomb", c>>
      BY <1>4, <3>2 DEF EntitiesOf
    <3>3. CASE \E c \in DOMAIN v.crates : e = <<"crate", c>>
      BY <1>5, <3>3 DEF EntitiesOf
    <3>4. CASE \E c \in DOMAIN v.powerUps : e = <<"power_up", c>>
      BY <1>5, <3>4 DEF EntitiesOf
    <3>5. CASE \E c \in v.walls : e = <<"wall", c>>
      BY <1>3, <1>6, <3>5 DEF EntitiesOf
    <3>6. CASE e \in DOMAIN v.timer /\ e[1] = "blocker"
      BY <1>5, <3>6 DEF EntitiesOf
    <3> QED BY <2>1, <3>1, <3>2, <3>3, <3>4, <3>5, <3>6, EntityKinds
  <2>2. ASSUME NEW e \in EntitiesOf(w), e \notin gone
        PROVE  e \in EntitiesOf(v)
    BY <1>3, <1>4, <1>5, <2>2 DEF EntitiesOf
  <2> QED BY <2>1, <2>2
<1>8. ASSUME NEW c \in FreeCells
      PROVE  /\ IsList(v.map[c]) /\ IsInjective(v.map[c])
             /\ Here(v, c) = Here(w, c) \ gone
  <2>1. IsList(w.map[c]) /\ IsInjective(w.map[c]) /\ DOMAIN w.map = FreeCells
    BY DEF Standing, Mapped, Lists
  <2>2. v.map[c] = Without(w.map[c], gone)
    BY <1>2, <2>1
  <2> QED BY <2>1, <2>2, WithoutFromList DEF Here
<1>9. Lists(v.map)
  <2>1. DOMAIN v.map = FreeCells
    BY <1>2 DEF Standing, Mapped, Lists
  <2> QED BY <1>8, <2>1 DEF Lists
<1>10. \A e \in EntitiesOf(v) : CellOfEntity(w, e) = CellOfEntity(v, e)
  BY <1>4, SamePlaces
<1>11. ASSUME NEW e \in EntitiesOf(v), Missing(w, e)
       PROVE  Missing(v, e)
  <2>1. IsPlayer(e) /\ ~Alive(w, e[2]) /\ CellOfEntity(w, e) \in w.walls
    BY <1>7, <1>11 DEF Missing, gone
  <2>2. PICK p \in DOMAIN v.players : e = Player(p)
    BY <2>1 DEF EntitiesOf, IsPlayer
  <2>3. e[2] = p /\ v.players[p] = w.players[p]
    BY <1>4, <2>2 DEF Player
  <2> QED BY <1>3, <1>10, <2>1, <2>3 DEF Missing, Alive
<1>12. Located(v)
  <2>1. Located(w)
    BY DEF Standing, Mapped
  <2>2. ASSUME NEW c \in FreeCells, NEW e \in Here(v, c)
        PROVE  e \in EntitiesOf(v) /\ CellOfEntity(v, e) = c
    BY <1>7, <1>8, <1>10, <2>1, <2>2 DEF Located
  <2>3. ASSUME NEW e \in EntitiesOf(v)
        PROVE  /\ CellOfEntity(v, e) \in FreeCells
               /\ e \in Here(v, CellOfEntity(v, e)) \/ Missing(v, e)
    BY <1>7, <1>8, <1>10, <1>11, <2>1, <2>3 DEF Located
  <2> QED BY <2>2, <2>3 DEF Located
<1>13. Alone(v)
  BY <1>8 DEF Standing, Mapped, Alone
<1>14. Blocked(v) /\ Known(v)
  BY <1>3, <1>5 DEF Standing, Blocked, Known
<1>15. Covered(v) \subseteq Covered(w)
  BY <1>5 DEF Covered
<1>16. ASSUME NEW p \in DOMAIN v.players
       PROVE  /\ Able(v.players[p], Covered(v))
              /\ v.players[p].state \in {"alive", "burn", "die"}
              /\ PlayerCell(v, p) \notin Covered(v)
  <2>1. p \in DOMAIN w.players /\ v.players[p] = w.players[p]
    BY <1>4
  <2>2. Able(w.players[p], Covered(w)) /\ PlayerCell(w, p) \notin DOMAIN w.crates
    BY <2>1 DEF Standing
  <2>3. Able(v.players[p], Covered(v))
    BY <1>15, <2>1, <2>2, AbleAmongFewer
  <2>4. PlayerCell(v, p) = PlayerCell(w, p)
    BY <2>1 DEF PlayerCell
  <2>5. PlayerCell(w, p) \notin DOMAIN v.powerUps
    BY <1>5, <2>1 DEF gone
  <2> QED BY <1>5, <2>1, <2>2, <2>3, <2>4, <2>5 DEF Covered
<1>17. \A c \in DOMAIN v.bombs : v.bombs[c].strength \in Nat /\ c \notin Covered(v)
  BY <1>4, <1>15 DEF Standing
<1>18. DOMAIN v.crates \cap DOMAIN v.powerUps = {}
  BY <1>5 DEF Standing, gone
<1>19. v.burning \subseteq EntitiesOf(v) /\ Inside(v.flames)
  BY <1>2, <1>7 DEF Standing, Inside
<1>20. IsFiniteSet(DOMAIN v.timer)
  <2>1. IsFiniteSet(DOMAIN w.timer) /\ DOMAIN v.timer \subseteq DOMAIN w.timer
    BY <1>5 DEF Standing
  <2> QED BY <2>1, FS_Subset
<1>21. Resting(v)
  BY <1>2, <1>9, <1>12, <1>13, <1>14, <1>16, <1>17, <1>18, <1>19, <1>20
     DEF Resting, Mapped
<1> QED BY <1>21 DEF v

\* What the other systems change.
Quiet(w, v) ==
  /\ Same(w, v, {"timer", "flames", "burning", "crates", "shields",
                 "invincible", "invisible", "fog"})
  /\ DOMAIN v.crates = DOMAIN w.crates /\ DOMAIN v.timer = DOMAIN w.timer
  /\ v.burning \subseteq EntitiesOf(w) /\ Inside(v.flames)

\* None of them disturbs the map.
LEMMA QuietStanding ==
  ASSUME NEW w, Standing(w), NEW v, Quiet(w, v)
  PROVE  /\ Standing(v) /\ EntitiesOf(v) = EntitiesOf(w)
         /\ v.players = w.players /\ v.powerUps = w.powerUps
         /\ DOMAIN v.crates = DOMAIN w.crates
<1>1. /\ v.players = w.players /\ v.bombs = w.bombs /\ v.powerUps = w.powerUps
      /\ v.walls = w.walls /\ v.blocks = w.blocks /\ v.map = w.map
      /\ v.crushed = w.crushed /\ v.dead = w.dead /\ v.nextFall = w.nextFall
  BY DEF Quiet, Same, Fields
<1> QED BY <1>1, StandingStays DEF Quiet

\* The bombs explode in an arena where everything is at its place.
LEMMA BeforeStanding ==
  ASSUME NEW w, NEW actions, NEW order, NEW kicked, NEW s,
         Stages(w, actions, order, kicked, s), Frames(s), Resting(w), Sound(w),
         \A p \in DOMAIN actions : actions[p] \in Requested
  PROVE  LET v == s.before IN
           /\ Standing(v) /\ Known(v)
           /\ DOMAIN v.crates \cap DOMAIN v.powerUps = {}
           /\ DOMAIN v.players = DOMAIN w.players
           /\ \A c : <<"bomb", c>> \notin v.dead
<1> DEFINE u == s.animated
           a == s.acted
           r == s.reduced
           f == s.sealed
           v == s.before
<1>1. /\ Shaped(u) /\ Shaped(a) /\ Shaped(r) /\ Shaped(f)
      /\ a = ApplyPlayerAction(u, actions) /\ r = ArenaReduction(a)
      /\ f = UpdateFallingBlocks(r) /\ v = TriggerCrushedTimers(f)
      /\ Counted(w) /\ DOMAIN w.players \subseteq Players
  BY DEF Stages, Frames, Sound
<1>2. /\ Acted(u, a) /\ Same(a, r, {"clock", "nextFall", "blocks"})
      /\ Same(r, f, {"blocks", "crushed", "map", "walls"})
      /\ Same(f, v, {"timer"})
  BY DEF Frames
<1>3. /\ Acting(u) /\ Blocked(u) /\ Inside(u.flames) /\ Known(u)
      /\ \A c : <<"wall", c>> \notin u.dead /\ <<"bomb", c>> \notin u.dead
      /\ DOMAIN u.crates \cap DOMAIN u.powerUps = {}
      /\ DOMAIN u.players = DOMAIN w.players
      /\ \A p \in DOMAIN u.players : PlayerCell(u, p) \notin Covered(u)
  BY <1>1, AnimatedActing
<1> HIDE DEF u, a, r, f, v
<1>4. Acting(a)
  BY <1>1, <1>3, ActionsActing
<1>5. /\ a.crates = u.crates /\ a.powerUps = u.powerUps /\ a.walls = u.walls
      /\ a.blocks = u.blocks /\ a.nextFall = u.nextFall /\ a.dead = u.dead
      /\ a.flames = u.flames /\ DOMAIN a.players = DOMAIN u.players
  BY <1>2 DEF Acted, Same, SamePlayers, Fields
<1>6. Blocked(a)
  BY <1>3, <1>5 DEF Blocked
<1>7. Blocked(r)
  BY <1>1, <1>6, ReductionBlocked
<1>8. /\ r.players = a.players /\ r.crates = a.crates /\ r.bombs = a.bombs
      /\ r.powerUps = a.powerUps /\ r.walls = a.walls /\ r.flames = a.flames
      /\ r.timer = a.timer /\ r.map = a.map /\ r.burning = a.burning
      /\ r.crushed = a.crushed /\ r.dead = a.dead
  BY <1>2 DEF Same, Fields
<1>9. EntitiesOf(r) = EntitiesOf(a)
  BY <1>8, SameEntities
<1>10. Mapped(r)
  <2>1. \A e \in EntitiesOf(a) : Missing(a, e) => Missing(r, e)
    BY <1>8, MissingStays DEF Alive
  <2> QED BY <1>4, <1>8, <1>9, <2>1, MappedStays DEF Acting
<1>11. Covered(r) = Covered(a)
  BY <1>8 DEF Covered
<1>12. \A c : PlayerCell(r, c) = PlayerCell(a, c) /\ Here(r, c) = Here(a, c)
  BY <1>8 DEF PlayerCell, Here
<1>13. Acting(r)
  BY <1>4, <1>8, <1>9, <1>10, <1>11, <1>12 DEF Acting
<1>14. Standing(f)
  BY <1>1, <1>3, <1>5, <1>7, <1>8, <1>13, SealsStanding
<1>15. /\ f.players = r.players /\ f.powerUps = r.powerUps /\ f.crates = r.crates
  BY <1>2 DEF Same, Fields
<1>16. Quiet(f, v)
  <2>1. DOMAIN v.timer = DOMAIN f.timer
    BY <1>1, TriggerCrushedTimersEffect
  <2>2. Same(f, v, {"timer", "flames", "burning", "crates", "shields",
                    "invincible", "invisible", "fog"})
    BY <1>2 DEF Same
  <2>3. v.crates = f.crates /\ v.burning = f.burning /\ v.flames = f.flames
    BY <1>2 DEF Same, Fields
  <2>4. f.burning \subseteq EntitiesOf(f) /\ Inside(f.flames)
    BY <1>14 DEF Standing
  <2> QED BY <2>1, <2>2, <2>3, <2>4 DEF Quiet
<1>17. /\ Standing(v) /\ v.players = f.players /\ v.powerUps = f.powerUps
       /\ DOMAIN v.crates = DOMAIN f.crates
  BY <1>14, <1>16, QuietStanding
<1>18. Known(v)
  BY <1>3, <1>5, <1>8, <1>15, <1>17 DEF Known
<1>19. /\ DOMAIN v.crates \cap DOMAIN v.powerUps = {}
       /\ DOMAIN v.players = DOMAIN w.players
  BY <1>3, <1>5, <1>8, <1>15, <1>17
<1>20. \A c : <<"bomb", c>> \notin v.dead
  <2>1. v.dead = f.dead /\ f.dead = r.dead
    BY <1>2 DEF Same, Fields
  <2> QED BY <1>3, <1>5, <1>8, <2>1
<1> QED BY <1>17, <1>18, <1>19, <1>20 DEF v

\* The effects of the flames.
LEMMA ShownStanding ==
  ASSUME NEW w, NEW actions, NEW order, NEW kicked, NEW s,
         Stages(w, actions, order, kicked, s), Frames(s), Standing(s.exploded)
  PROVE  /\ Standing(s.shown) /\ s.shown.players = s.exploded.players
         /\ s.shown.powerUps = s.exploded.powerUps
         /\ DOMAIN s.shown.crates = DOMAIN s.exploded.crates
<1> DEFINE e == s.exploded
           l == s.lit
           v == s.saved
           d == s.shielded
           b == s.burnt
           n == s.shown
           Quieted == {"timer", "flames", "burning", "crates", "shields",
                       "invincible", "invisible", "fog"}
<1>1. /\ Shaped(e) /\ Shaped(l) /\ Shaped(v) /\ Shaped(d) /\ Shaped(b)
      /\ l = UpdateFlames(e) /\ v = UpdateInvincibilityState(l)
      /\ d = UpdateShields(v) /\ b = UpdateCrates(d)
  BY DEF Stages, Frames
<1>2. /\ Same(e, l, {"burning"}) /\ Same(l, v, {"invincible", "burning"})
      /\ Same(v, d, {"invincible", "burning", "shields"})
      /\ Same(d, b, {"crates"}) /\ Same(b, n, {"invisible"})
  BY DEF Frames
<1>3. Standing(e)
  OBVIOUS
<1> HIDE DEF e, l, v, d, b, n
<1>4. \A x : Standing(x) => x.burning \subseteq EntitiesOf(x) /\ Inside(x.flames)
  BY DEF Standing
<1>5. Quiet(e, l)
  <2>1. Same(e, l, Quieted)
    BY <1>2 DEF Same
  <2>2. /\ l.crates = e.crates /\ l.timer = e.timer /\ l.flames = e.flames
    BY <1>2 DEF Same, Fields
  <2>3. PICK hot \in SUBSET {x.cell : x \in e.flames} :
          l.burning = e.burning \cup UNION {Here(e, c) : c \in hot}
    BY <1>1, UpdateFlamesEffect
  <2>4. hot \subseteq FreeCells
    BY <1>3, <1>4 DEF Inside
  <2>5. \A c \in hot : Here(e, c) \subseteq EntitiesOf(e)
    BY <1>3, <2>4, HereIsKnown DEF Standing
  <2>6. l.burning \subseteq EntitiesOf(e)
    BY <1>3, <1>4, <2>3, <2>5
  <2> QED BY <1>3, <1>4, <2>1, <2>2, <2>6 DEF Quiet
<1>6. Standing(l) /\ EntitiesOf(l) = EntitiesOf(e) /\ l.players = e.players
      /\ l.powerUps = e.powerUps /\ DOMAIN l.crates = DOMAIN e.crates
  BY <1>3, <1>5, QuietStanding
<1>7. Quiet(l, v)
  <2>1. Same(l, v, Quieted)
    BY <1>2 DEF Same
  <2>2. v.crates = l.crates /\ v.timer = l.timer /\ v.flames = l.flames
    BY <1>2 DEF Same, Fields
  <2>3. v.burning \subseteq l.burning
    BY <1>1, UpdateInvincibilityStateEffect
  <2> QED BY <1>4, <1>6, <2>1, <2>2, <2>3 DEF Quiet
<1>8. Standing(v) /\ v.players = e.players
      /\ v.powerUps = e.powerUps /\ DOMAIN v.crates = DOMAIN e.crates
  BY <1>6, <1>7, QuietStanding
<1>9. Quiet(v, d)
  <2>1. Same(v, d, Quieted)
    BY <1>2 DEF Same
  <2>2. d.crates = v.crates /\ d.timer = v.timer /\ d.flames = v.flames
    BY <1>2 DEF Same, Fields
  <2>3. d.burning \subseteq v.burning
    BY <1>1, UpdateShieldsEffect
  <2> QED BY <1>4, <1>8, <2>1, <2>2, <2>3 DEF Quiet
<1>10. Standing(d) /\ d.players = e.players
       /\ d.powerUps = e.powerUps /\ DOMAIN d.crates = DOMAIN e.crates
  BY <1>8, <1>9, QuietStanding
<1>11. Quiet(d, b)
  <2>1. Same(d, b, Quieted)
    BY <1>2 DEF Same
  <2>2. b.timer = d.timer /\ b.flames = d.flames /\ b.burning = d.burning
    BY <1>2 DEF Same, Fields
  <2>3. DOMAIN b.crates = DOMAIN d.crates
    BY <1>1, UpdateCratesEffect
  <2> QED BY <1>4, <1>10, <2>1, <2>2, <2>3 DEF Quiet
<1>12. Standing(b) /\ b.players = e.players
       /\ b.powerUps = e.powerUps /\ DOMAIN b.crates = DOMAIN e.crates
  BY <1>10, <1>11, QuietStanding
<1>13. Quiet(b, n)
  <2>1. Same(b, n, Quieted)
    BY <1>2 DEF Same
  <2>2. n.timer = b.timer /\ n.flames = b.flames /\ n.burning = b.burning
        /\ n.crates = b.crates
    BY <1>2 DEF Same, Fields
  <2> QED BY <1>4, <1>12, <2>1, <2>2 DEF Quiet
<1>14. Standing(n) /\ n.players = e.players
       /\ n.powerUps = e.powerUps /\ DOMAIN n.crates = DOMAIN e.crates
  BY <1>12, <1>13, QuietStanding
<1> QED BY <1>14 DEF e, n

\* The end of a tick: what is dead is removed.
LEMMA DoneResting ==
  ASSUME NEW w, NEW actions, NEW order, NEW kicked, NEW s,
         Stages(w, actions, order, kicked, s), Frames(s),
         Standing(s.shown), Known(s.shown),
         DOMAIN s.shown.crates \cap DOMAIN s.shown.powerUps = {},
         DOMAIN s.shown.players \subseteq Players,
         \A p \in DOMAIN s.shown.players :
           s.shown.players[p].state \in {"alive", "burn", "die"}
  PROVE  Resting(s.done)
<1> DEFINE n == s.shown
           o == s.opened
           c == s.cleared
           k == s.picked
           j == s.judged
           f == s.fogged
<1>1. /\ o = UpdatePowerUpSpawners(n) /\ c = UpdatePowerUps(o)
      /\ k = PickUps(c) /\ j = UpdatePlayers(k, kicked)
      /\ f = UpdateFogOfWar(j) /\ s.done = RemoveDeadObjects(f)
      /\ Shaped(n) /\ Shaped(o) /\ Shaped(c) /\ Shaped(k) /\ Shaped(j)
      /\ Shaped(f)
  BY DEF Stages, Frames
<1>2. /\ Same(n, o, {"powerUps", "map"}) /\ Same(o, c, {"map", "dead"})
      /\ PickedUp(c, k) /\ Same(k, j, {"players", "dead", "crushed"})
      /\ SamePlayers(k, j, {"state", "elapsed"}) /\ Same(j, f, {"fog"})
  BY DEF Frames
<1>3. /\ Standing(n) /\ Known(n) /\ DOMAIN n.crates \cap DOMAIN n.powerUps = {}
      /\ DOMAIN n.players \subseteq Players
      /\ \A p \in DOMAIN n.players :
           n.players[p].state \in {"alive", "burn", "die"}
  OBVIOUS
<1> HIDE DEF n, o, c, k, j, f
<1>4. Standing(o) /\ Known(o)
  BY <1>1, <1>3, OpenedStanding
<1>5. Standing(c)
  BY <1>1, <1>4, ClearedStanding
<1>6. c.players = n.players /\ c.powerUps = o.powerUps
  BY <1>2 DEF Same, Fields
<1>7. PicksAll(c, k, Kinds)
  BY <1>1, <1>3, <1>5, <1>6, PickUpsAll
<1>8. Standing(k) /\ DOMAIN k.players = DOMAIN c.players
      /\ k.powerUps = c.powerUps
  BY <1>7 DEF PicksAll, Thins
<1>9. \A p \in DOMAIN k.players :
        k.players[p].state \in {"alive", "burn", "die"}
  BY <1>2, <1>3, <1>6 DEF PickedUp, SamePlayers, PlayerFields
<1>10. /\ Standing(j) /\ \A e \in j.crushed : ~IsPlayer(e)
       /\ EntitiesOf(j) = EntitiesOf(k)
  BY <1>1, <1>8, JudgedStanding
<1>11. /\ j.dead = k.dead \cup {Player(p) : p \in kicked}
       /\ j.crushed = {e \in k.crushed : ~IsPlayer(e)}
       /\ DOMAIN j.players = DOMAIN k.players
       /\ \A p \in DOMAIN k.players :
            /\ j.players[p].state \in {"alive", "burn", "die"}
            /\ j.players[p].position = k.players[p].position
  BY <1>1, <1>9, UpdatePlayersEffect DEF SamePlayers, PlayerFields
<1>12. j.powerUps = k.powerUps
  BY <1>2 DEF Same, Fields
<1>13. ASSUME NEW p \in DOMAIN j.players,
              PlayerCell(j, p) \in DOMAIN j.powerUps
       PROVE  <<"power_up", PlayerCell(j, p)>> \in j.dead \cup j.crushed
  <2> DEFINE at == PlayerCell(j, p)
             e == <<"power_up", at>>
  <2>1. at = PlayerCell(k, p) /\ p \in DOMAIN k.players
    BY <1>11 DEF PlayerCell
  <2>2. k.powerUps[at] \in Kinds
    BY <1>4, <1>6, <1>8, <1>12, <1>13 DEF Known
  <2>3. Picked(k, p, k.powerUps[at])
    BY <1>7, <1>8, <2>1, <2>2 DEF PicksAll
  <2>4. e \notin Here(k, at) \ k.dead
    BY <2>1, <2>3 DEF Picked
  <2>5. at \in DOMAIN k.powerUps
    BY <1>12, <1>13
  <2> HIDE DEF at
  <2>6. e \in EntitiesOf(k) /\ CellOfEntity(k, e) = at /\ ~IsPlayer(e)
    BY <2>5 DEF EntitiesOf, CellOfEntity, IsPlayer
  <2>7. e \in Here(k, at) \/ Missing(k, e)
    BY <1>8, <2>6 DEF Standing, Mapped, Located
  <2>8. e \in k.dead \cup k.crushed
    BY <2>4, <2>6, <2>7 DEF Missing
  <2> QED BY <1>11, <2>6, <2>8 DEF at
<1>14. Quiet(j, f)
  <2>1. Same(j, f, {"timer", "flames", "burning", "crates", "shields",
                    "invincible", "invisible", "fog"})
    BY <1>2 DEF Same
  <2>2. f.timer = j.timer /\ f.flames = j.flames /\ f.burning = j.burning
        /\ f.crates = j.crates
    BY <1>2 DEF Same, Fields
  <2>3. j.burning \subseteq EntitiesOf(j) /\ Inside(j.flames)
    BY <1>10 DEF Standing
  <2> QED BY <2>1, <2>2, <2>3 DEF Quiet
<1>15. Standing(f) /\ f.players = j.players /\ f.powerUps = j.powerUps
  BY <1>10, <1>14, QuietStanding
<1>16. f.dead = j.dead /\ f.crushed = j.crushed
  BY <1>2 DEF Same, Fields
<1>17. Known(f)
  BY <1>4, <1>6, <1>8, <1>12, <1>15 DEF Known
<1>18. ASSUME NEW p \in DOMAIN f.players
       PROVE  /\ f.players[p].state \in {"alive", "burn", "die"}
              /\ PlayerCell(f, p) \in DOMAIN f.powerUps =>
                   <<"power_up", PlayerCell(f, p)>> \in f.dead \cup f.crushed
  <2>1. PlayerCell(f, p) = PlayerCell(j, p)
    BY <1>15 DEF PlayerCell
  <2> QED BY <1>11, <1>13, <1>15, <1>16, <2>1
<1>19. \A e \in f.crushed : ~IsPlayer(e)
  BY <1>10, <1>16
<1> QED BY <1>1, <1>15, <1>17, <1>18, <1>19, RemovedResting

\* The bombs that explode are in the arena.
LEMMA ExplodingBombs ==
  ASSUME NEW w, Shaped(w), NEW order,
         order \in SetToSeqs(Exploding(Triggered(w)))
  PROVE  \A i \in DOMAIN order : order[i] \in DOMAIN w.bombs
<1>1. Triggered(w).bombs = w.bombs
  BY TriggeredEffect DEF Same, Fields
<1>2. Exploding(Triggered(w)) \subseteq DOMAIN w.bombs
  BY <1>1 DEF Exploding
<1>3. \A i \in DOMAIN order : order[i] \in Exploding(Triggered(w))
  <2> HIDE DEF Exploding, Triggered
  <2> QED BY DEF SetToSeqs
<1> QED BY <1>2, <1>3

\* A tick leaves the arena at rest.
LEMMA TickRests ==
  ASSUME NEW actions \in Requests, Ticked(actions), Sound(world), Resting(world)
  PROVE  Resting(world)'
<1>1. PICK order, kicked, s :
        /\ Stages(world, actions, order, kicked, s) /\ Frames(s)
        /\ order \in SetToSeqs(Exploding(Triggered(s.before)))
        /\ \E n \in Nat : DOMAIN order = 1..n
        /\ world' = s.done
  BY TickHasFrames
<1>2. \A p \in DOMAIN actions : actions[p] \in Requested
  BY DEF Requests, Requested
<1>3. /\ Standing(s.before) /\ Known(s.before)
      /\ DOMAIN s.before.crates \cap DOMAIN s.before.powerUps = {}
      /\ DOMAIN s.before.players = DOMAIN world.players
  BY <1>1, <1>2, BeforeStanding
<1>4. s.exploded = UpdateBombs(s.before, order) /\ Shaped(s.before)
  BY <1>1 DEF Stages, Frames
<1>5. PICK n \in Nat : DOMAIN order = 1..n
  BY <1>1
<1>6. \A i \in 1..n : order[i] \in DOMAIN s.before.bombs
  BY <1>1, <1>4, <1>5, ExplodingBombs
<1>7. Standing(s.exploded)
  BY <1>3, <1>4, <1>5, <1>6, ExplosionsStanding
<1>8. /\ s.exploded.players = s.before.players
      /\ s.exploded.powerUps = s.before.powerUps
      /\ s.exploded.crates = s.before.crates
  BY <1>1 DEF Frames, Same, Fields
<1>9. /\ Standing(s.shown) /\ s.shown.players = s.exploded.players
      /\ s.shown.powerUps = s.exploded.powerUps
      /\ DOMAIN s.shown.crates = DOMAIN s.exploded.crates
  BY <1>1, <1>7, ShownStanding
<1>10. Known(s.shown)
       /\ DOMAIN s.shown.crates \cap DOMAIN s.shown.powerUps = {}
       /\ DOMAIN s.shown.players \subseteq Players
  BY <1>3, <1>8, <1>9 DEF Known, Sound
<1>11. \A p \in DOMAIN s.shown.players :
         s.shown.players[p].state \in {"alive", "burn", "die"}
  <2>1. s.start = world
    BY <1>1 DEF Stages
  <2>2. s.dated.players = s.counted.players /\ s.timed.players = s.dated.players
        /\ SamePlayers(world, s.counted, {"available"})
        /\ SamePlayers(s.timed, s.animated, {"elapsed"})
    BY <1>1, <2>1 DEF Frames, Same, Fields
  <2>3. SamePlayers(s.animated, s.acted, {"position", "available", "queue"})
        /\ s.before.players = s.acted.players
    BY <1>1 DEF Frames, Acted, Same, Fields
  <2>4. \A p \in DOMAIN world.players :
          s.acted.players[p].state = world.players[p].state
    BY <2>2, <2>3 DEF SamePlayers, PlayerFields
  <2> QED BY <1>3, <1>8, <1>9, <2>3, <2>4 DEF Resting
<1>12. Resting(s.done)
  BY <1>1, <1>9, <1>10, <1>11, DoneResting
<1> QED BY <1>1, <1>12

\* A player starts in the middle of its cell.
LEMMA MiddleOfCell ==
  ASSUME NEW c \in FreeCells
  PROVE  Middle(c) \in Point /\ CellOf(Middle(c)) = c
<1>1. c \in Point /\ c[1] \in Int /\ c[2] \in Int
  BY BesideFreeCell DEF Point
<1>2. /\ HalfCell \in 0 .. StepsPerCell - 1 /\ StepsPerCell \in Int
      /\ HalfCell \in Int
  BY Division
<1>3. \A a \in {1, 2} : c[a] \in Int /\ c[a] * StepsPerCell = StepsPerCell * c[a]
  BY <1>1, <1>2
<1>4. Middle(c) \in Point
  BY <1>1, <1>2 DEF Middle, Point
<1>5. (c[1] * StepsPerCell + HalfCell) \div StepsPerCell = c[1]
  <2>1. c[1] * StepsPerCell + HalfCell \in Int
    BY <1>1, <1>2
  <2> QED BY <1>1, <1>2, <1>3, <2>1, Quotients
<1>6. (c[2] * StepsPerCell + HalfCell) \div StepsPerCell = c[2]
  <2>1. c[2] * StepsPerCell + HalfCell \in Int
    BY <1>1, <1>2
  <2> QED BY <1>1, <1>2, <1>3, <2>1, Quotients
<1>7. CellOf(Middle(c)) = <<c[1], c[2]>>
  BY <1>5, <1>6 DEF CellOf, Middle
<1> QED BY <1>1, <1>4, <1>7 DEF Point

\* Nothing but the players in the cells where they start.
LEMMA StartsAreClear ==
  ASSUME NEW crates \in Crates, NEW p \in Players
  PROVE  /\ StartCell(p) \in FreeCells /\ StartCell(p) \notin DOMAIN crates
         /\ DOMAIN crates \subseteq FreeCells
<1>1. StartCell(p) \in FreeCells
  BY StartsAreFree DEF Players
<1>2. StartCell(p) \in Point
  BY <1>1, BesideFreeCell
<1>3. StartCell(p) \in Around(StartCell(p))
  BY <1>2 DEF Around, Point
<1>4. StartCell(p) \in ForbiddenCells
  BY <1>3 DEF ForbiddenCells, Players
<1> QED BY <1>1, <1>4, StartsAreFree

\* The players in a cell at the beginning of the contest.
Starters(c) ==
  Without([i \in 1..PlayerCount |-> Player(i - 1)],
          {Player(p) : p \in {p \in Players : StartCell(p) # c}})

\* The list of the players of a cell is the one of those who start there.
LEMMA StartersOfCell ==
  ASSUME NEW c
  PROVE  /\ IsList(Starters(c)) /\ IsInjective(Starters(c))
         /\ Range(Starters(c)) =
              {Player(p) : p \in {p \in Players : StartCell(p) = c}}
<1> DEFINE all == [i \in 1..PlayerCount |-> Player(i - 1)]
           gone == {Player(p) : p \in {p \in Players : StartCell(p) # c}}
           named == {Player(p) : p \in Players}
<1>1. PlayerCount \in Nat
  BY GridConstants
<1>2. Range(all) = named
  <2>1. Range(all) = {Player(i - 1) : i \in 1..PlayerCount}
    BY DEF Range
  <2>2. \A i \in 1..PlayerCount : i - 1 \in Players
    BY <1>1 DEF Players
  <2>3. \A p \in Players : p + 1 \in 1..PlayerCount /\ p = (p + 1) - 1
    BY <1>1 DEF Players
  <2>4. \A p \in Players : Player(p) \in {Player(i - 1) : i \in 1..PlayerCount}
    BY <2>3
  <2> QED BY <2>1, <2>2, <2>4
<1>3. all \in Seq(named) /\ IsInjective(all)
  <2>1. \A i \in 1..PlayerCount : Player(i - 1) \in named
    BY <1>1 DEF Players
  <2>2. \A i, j \in 1..PlayerCount : Player(i - 1) = Player(j - 1) => i = j
    <3>1. \A i, j \in 1..PlayerCount : i - 1 = j - 1 => i = j
      BY <1>1
    <3> QED BY <3>1, NamesAreDistinct
  <2>3. IsInjective(all)
    BY <2>2 DEF IsInjective
  <2> HIDE DEF named
  <2>4. all \in Seq(named)
    BY <1>1, <2>1
  <2> QED BY <2>3, <2>4
<1>4. IsList(all)
  BY <1>2, <1>3 DEF IsList
<1>5. Starters(c) = Without(all, gone)
  BY DEF Starters
<1> HIDE DEF all, gone, named
<1>6. /\ IsList(Without(all, gone)) /\ IsInjective(Without(all, gone))
      /\ Range(Without(all, gone)) = Range(all) \ gone
  BY <1>3, <1>4, WithoutFromList
<1>7. named \ gone = {Player(p) : p \in {p \in Players : StartCell(p) = c}}
  BY NamesAreDistinct DEF named, gone
<1> QED BY <1>2, <1>5, <1>6, <1>7

\* The arena is at rest when the contest begins.
LEMMA InitRests == Init => Resting(world)
<1> SUFFICES ASSUME Init
             PROVE  Resting(world)
  OBVIOUS
<1> DEFINE w == world
<1>1. PICK crates \in Crates :
        /\ w.crates = [c \in DOMAIN crates |-> NewCrate(crates[c])]
        /\ w.map = [c \in FreeCells |->
                      IF c \in DOMAIN crates THEN << <<"crate", c>> >>
                      ELSE Starters(c)]
  BY DEF Init, Starters
<1>2. /\ w.players = [p \in Players |-> NewPlayer(p)]
      /\ w.bombs = <<>> /\ w.powerUps = <<>> /\ w.walls = {}
      /\ w.blocks = <<>> /\ w.flames = {} /\ w.timer = <<>>
      /\ w.burning = {} /\ w.crushed = {} /\ w.dead = {}
      /\ w.nextFall = 1
  BY DEF Init
<1> HIDE DEF w
<1>3. /\ DOMAIN w.players = Players /\ DOMAIN w.crates = DOMAIN crates
      /\ DOMAIN w.bombs = {} /\ DOMAIN w.powerUps = {} /\ DOMAIN w.blocks = {}
      /\ DOMAIN w.timer = {} /\ DOMAIN w.map = FreeCells
  BY <1>1, <1>2
<1>4. EntitiesOf(w) = {Player(p) : p \in Players}
                      \cup {<<"crate", c>> : c \in DOMAIN crates}
  BY <1>2, <1>3 DEF EntitiesOf
<1>5. DOMAIN crates \subseteq FreeCells
  BY StartsAreFree
<1>6. ASSUME NEW p \in Players
      PROVE  /\ w.players[p].position \in Point
             /\ PlayerCell(w, p) = StartCell(p)
             /\ StartCell(p) \in FreeCells \ DOMAIN crates
             /\ CellOfEntity(w, Player(p)) = StartCell(p)
  <2>1. w.players[p].position = Middle(StartCell(p))
    BY <1>2 DEF NewPlayer
  <2>2. StartCell(p) \in FreeCells \ DOMAIN crates
    BY StartsAreClear
  <2>3. PlayerCell(w, p) = StartCell(p) /\ w.players[p].position \in Point
    BY <2>1, <2>2, MiddleOfCell DEF PlayerCell
  <2> QED BY <2>2, <2>3 DEF CellOfEntity, IsPlayer, Player
<1>7. ASSUME NEW c \in DOMAIN crates
      PROVE  /\ Here(w, c) = {<<"crate", c>>}
             /\ IsList(w.map[c]) /\ IsInjective(w.map[c])
             /\ CellOfEntity(w, <<"crate", c>>) = c
  <2>1. w.map[c] = << <<"crate", c>> >>
    BY <1>1, <1>5
  <2>2. Range(w.map[c]) = {<<"crate", c>>}
    BY <2>1 DEF Range
  <2> QED BY <2>1, <2>2 DEF Here, IsList, IsInjective, CellOfEntity, IsPlayer
<1>8. ASSUME NEW c \in FreeCells \ DOMAIN crates
      PROVE  /\ IsList(w.map[c]) /\ IsInjective(w.map[c])
             /\ Here(w, c) = {Player(p) : p \in {p \in Players : StartCell(p) = c}}
  <2>1. w.map[c] = Starters(c)
    BY <1>1
  <2> QED BY <2>1, StartersOfCell DEF Here
<1>9. Lists(w.map)
  BY <1>3, <1>7, <1>8 DEF Lists
<1>10. ASSUME NEW c \in FreeCells, NEW e \in Here(w, c)
       PROVE  e \in EntitiesOf(w) /\ CellOfEntity(w, e) = c
  <2>1. CASE c \in DOMAIN crates
    BY <1>4, <1>7, <1>10, <2>1
  <2>2. CASE c \notin DOMAIN crates
    <3>1. PICK p \in Players : e = Player(p) /\ StartCell(p) = c
      BY <1>8, <1>10, <2>2
    <3> QED BY <1>4, <1>6, <3>1
  <2> QED BY <2>1, <2>2
<1>11. ASSUME NEW e \in EntitiesOf(w)
       PROVE  /\ CellOfEntity(w, e) \in FreeCells
              /\ e \in Here(w, CellOfEntity(w, e))
  <2>1. CASE \E p \in Players : e = Player(p)
    BY <1>6, <1>8, <2>1
  <2>2. CASE \E c \in DOMAIN crates : e = <<"crate", c>>
    BY <1>5, <1>7, <2>2
  <2> QED BY <1>4, <1>11, <2>1, <2>2
<1>12. Located(w)
  BY <1>10, <1>11 DEF Located
<1>13. Alone(w)
  <2>1. \A x : <<"wall", x>> \notin EntitiesOf(w)
    BY <1>2, EntityFacts
  <2> QED BY <1>10, <2>1 DEF Alone
<1>14. Blocked(w)
  BY <1>2, <1>3, FallOrderIsOrder DEF Blocked
<1>15. ASSUME NEW p \in Players
       PROVE  Able(w.players[p], Covered(w))
  <2> DEFINE item == [action |-> Idle, cell |-> <<0, 0>>]
  <2>1. w.players[p].queue = [i \in 1..QueueSize |-> item]
    <3>1. w.players[p] = NewPlayer(p)
      BY <1>2
    <3>2. NewPlayer(p).queue = [i \in 1..QueueSize |-> item]
      BY DEF NewPlayer
    <3> QED BY <3>1, <3>2
  <2>2. item \in Items(Covered(w))
    BY DEF Items, Idle, Point
  <2>3. QueueSize \in Nat
    BY ArenaConstants
  <2> HIDE DEF item
  <2>4. /\ w.players[p].queue \in Seq(Items(Covered(w)))
        /\ Len(w.players[p].queue) = QueueSize
    BY <2>1, <2>2, <2>3
  <2> QED BY <1>6, <2>4 DEF Able
<1>16. ASSUME NEW p \in Players
       PROVE  /\ w.players[p].state \in {"alive", "burn", "die"}
              /\ PlayerCell(w, p) \notin Covered(w)
  BY <1>2, <1>3, <1>6 DEF NewPlayer, Covered
<1>17. Known(w) /\ Inside(w.flames) /\ IsFiniteSet(DOMAIN w.timer)
  BY <1>2, <1>3, FS_EmptySet DEF Known, Inside
<1>18. Resting(w)
  BY <1>2, <1>3, <1>9, <1>12, <1>13, <1>14, <1>15, <1>16, <1>17
     DEF Resting, Mapped
<1> QED BY <1>18 DEF w

\* Between two ticks everything is at its place: what is in the map is in the
\* registry and is where it says, no bomb is in a wall, the players are not in
\* a cell with a crate or a power-up, nor is a bomb, nothing is left of what is
\* dead.
THEOREM RestingInvariant == Spec => [](Sound(world) /\ Resting(world))
<1>1. Init => Sound(world) /\ Resting(world)
  BY InitSound, InitRests
<1>2. Sound(world) /\ Resting(world) /\ [Next]_vars
        => Sound(world)' /\ Resting(world)'
  <2>1. CASE Next
    BY <2>1, TickKeepsSound, TickRests DEF Next, Tick
  <2>2. CASE UNCHANGED vars
    BY <2>2 DEF vars
  <2> QED BY <2>1, <2>2
<1> QED BY <1>1, <1>2, PTL DEF Spec

\* The entity map and the registry tell the same.
LEMMA RestingMapAgrees ==
  ASSUME Resting(world)
  PROVE  MapAgrees
<1>1. Entities = EntitiesOf(world)
  BY DEF Entities, EntitiesOf
<1>2. /\ Lists(world.map) /\ Located(world)
      /\ world.dead = {} /\ world.crushed = {}
  BY DEF Resting, Mapped
<1>3. ASSUME NEW c \in FreeCells
      PROVE  Here(world, c) \subseteq Entities /\ IsInjective(world.map[c])
  BY <1>1, <1>2 DEF Lists, Located
<1>4. ASSUME NEW e \in Entities
      PROVE  LET places == {c \in FreeCells : e \in Here(world, c)} IN
               \/ places = {CellOfEntity(world, e)}
               \/ /\ places = {}
                  /\ IsPlayer(e) /\ ~Alive(world, e[2])
                  /\ CellOfEntity(world, e) \in world.walls
  <2> DEFINE places == {c \in FreeCells : e \in Here(world, c)}
             at == CellOfEntity(world, e)
  <2>1. /\ at \in FreeCells
        /\ e \in Here(world, at) \/ Missing(world, e)
        /\ \A c \in places : c = at
    BY <1>1, <1>2, <1>4 DEF Located
  <2>2. CASE e \in Here(world, at)
    <3>1. at \in places /\ \A c \in places : c = at
      BY <2>1, <2>2
    <3>2. places = {at}
      BY <3>1
    <3> QED BY <3>2
  <2>3. CASE e \notin Here(world, at)
    <3>1. places = {}
      BY <2>1, <2>3
    <3>2. Missing(world, e)
      BY <2>1, <2>3
    <3> QED BY <1>2, <3>1, <3>2 DEF Missing
  <2> QED BY <2>2, <2>3
<1> QED BY <1>3, <1>4 DEF MapAgrees

\* The entity map and the registry agree after each tick, and so do the bombs
\* and the inventories.
THEOREM RegistryAlwaysAgrees == Spec => []RegistryAgrees
<1>1. Sound(world) /\ Resting(world) => RegistryAgrees
  BY RestingMapAgrees DEF Sound, Counted, BombsCounted, RegistryAgrees
<1> QED BY <1>1, RestingInvariant, PTL

\* The verdict names the draw or a player.
Verdicts == {Running, Draw} \cup {Player(p) : p \in Players}

ResultTyped == result \in Verdicts

\* The end of the game tells a draw, a winner, or nothing.
LEMMA GameOverTells ==
  ASSUME NEW w, DOMAIN w.players \subseteq Players
  PROVE  CheckGameOver(w) \in Verdicts
<1> DEFINE here == DOMAIN w.players
<1>1. CASE CheckGameOver(w) = Player(CHOOSE p \in here : TRUE) /\ here # {}
  <2>1. (CHOOSE p \in here : TRUE) \in here
    BY <1>1
  <2> QED BY <1>1, <2>1 DEF Verdicts
<1>2. CASE CheckGameOver(w) \in {Running, Draw}
  BY <1>2 DEF Verdicts
<1> QED BY <1>1, <1>2 DEF CheckGameOver

\* The types of the players and of the result, between two ticks; whatever is
\* burning is still in the registry, and what is dead is not.
THEOREM TypesAreCorrect == Spec => []TypeOK
<1>1. Init => ResultTyped
  BY DEF Init, ResultTyped, Verdicts
<1>2. ResultTyped /\ Sound(world)' /\ [Next]_vars => ResultTyped'
  <2>1. ASSUME NEW actions, Ticked(actions), Sound(world)'
        PROVE  result' \in Verdicts
    <3>1. result' = CheckGameOver(world')
      BY <2>1 DEF Ticked
    <3>2. DOMAIN world'.players \subseteq Players
      BY <2>1 DEF Sound
    <3> QED BY <3>1, <3>2, GameOverTells
  <2>2. CASE UNCHANGED vars
    BY <2>2 DEF vars, ResultTyped
  <2> QED BY <2>1, <2>2 DEF Next, Tick, ResultTyped
<1>3. Sound(world) /\ Resting(world) /\ ResultTyped => TypeOK
  <2> SUFFICES ASSUME Sound(world), Resting(world), ResultTyped
               PROVE  TypeOK
    OBVIOUS
  <2>1. Entities = EntitiesOf(world)
    BY DEF Entities, EntitiesOf
  <2>2. ASSUME NEW p \in DOMAIN world.players
        PROVE  LET player == world.players[p] IN
                 /\ PlayerCell(world, p) \in FreeCells
                 /\ player.state \in {"alive", "burn", "die"}
                 /\ player.available \in 0..MaxCapacity
                 /\ player.capacity \in 1..MaxCapacity
                 /\ player.strength \in 1..MaxStrength
                 /\ Len(player.queue) = QueueSize
    <3>1. PlayerCell(world, p) \in FreeCells
      <4>1. /\ Player(p) \in EntitiesOf(world)
            /\ CellOfEntity(world, Player(p)) = PlayerCell(world, p)
        BY EntityFacts
      <4> QED BY <4>1 DEF Resting, Mapped, Located
    <3>2. /\ world.players[p].capacity \in 1..MaxCapacity
          /\ world.players[p].strength \in 1..MaxStrength
          /\ world.players[p].available \in Nat
          /\ ActiveBombs(world, p) + world.players[p].available
               <= world.players[p].capacity
      BY DEF Sound, Counted
    <3>3. ActiveBombs(world, p) \in Nat
      BY BombsOfPlayer DEF Sound, Counted
    <3>4. world.players[p].available \in 0..MaxCapacity
      BY <3>2, <3>3, ArenaConstants
    <3>5. /\ world.players[p].state \in {"alive", "burn", "die"}
          /\ Len(world.players[p].queue) = QueueSize
      BY DEF Resting, Able
    <3> QED BY <3>1, <3>2, <3>4, <3>5
  <2>3. /\ DOMAIN world.players \subseteq Players
        /\ world.burning \subseteq Entities
        /\ world.crushed = {} /\ world.dead = {}
    BY <2>1 DEF Sound, Resting
  <2> QED BY <2>2, <2>3 DEF TypeOK, ResultTyped, Verdicts
<1> QED BY <1>1, <1>2, <1>3, SoundInvariant, RestingInvariant, PTL DEF Spec

-----------------------------------------------------------------------------
(* The explosions commute.                                                 *)

\* Nothing leaves a list that does not have it.
LEMMA WithoutNothing ==
  ASSUME NEW s, IsList(s), NEW gone, Range(s) \cap gone = {}
  PROVE  Without(s, gone) = s
<1> DEFINE n == Len(s)
           X == Range(s)
<1>1. s \in Seq(X) /\ n \in Nat /\ DOMAIN s = 1..n
  BY DEF IsList
<1>2. \A i \in 1..n : s[i] \in X /\ s[i] \notin gone
  BY <1>1 DEF Range
<1>3. PICK g : /\ g[0] = <<>>
               /\ \A i \in 1..n : g[i] = IF s[i] \in gone THEN g[i - 1]
                                         ELSE Append(g[i - 1], s[i])
               /\ Without(s, gone) = g[n]
  BY <1>1, WithoutSteps
<1> HIDE DEF X, n
<1> DEFINE Good(i) == /\ g[i] \in Seq(X) /\ Len(g[i]) = i
                      /\ \A j \in 1..i : g[i][j] = s[j]
           S == {i \in 0..n : Good(i)}
<1>4. 0 \in S
  <2>1. g[0] \in Seq(X) /\ Len(g[0]) = 0
    BY <1>3
  <2>2. \A j \in 1..0 : g[0][j] = s[j]
    OBVIOUS
  <2> QED BY <1>1, <2>1, <2>2
<1>5. ASSUME NEW i \in 1..n, i - 1 \in S
      PROVE  i \in S
  <2>1. Good(i - 1) /\ g[i] = Append(g[i - 1], s[i]) /\ s[i] \in X
    BY <1>2, <1>3, <1>5
  <2>2. i \in Nat /\ i - 1 \in Nat
    BY <1>1
  <2>3. g[i] \in Seq(X) /\ Len(g[i]) = i
    BY <2>1, <2>2
  <2>4. ASSUME NEW j \in 1..i
        PROVE  g[i][j] = s[j]
    <3>1. CASE j = i
      BY <2>1, <2>2, <3>1
    <3>2. CASE j # i
      BY <2>1, <2>2, <3>2
    <3> QED BY <3>1, <3>2
  <2> QED BY <1>1, <2>3, <2>4
<1> HIDE DEF S
<1>6. 0..n \subseteq S
  BY <1>1, <1>4, <1>5, Explosions!Induction
<1>7. Good(n)
  BY <1>1, <1>6 DEF S
<1>8. g[n] = s
  <2>1. Len(g[n]) = n /\ Len(s) = n
    BY <1>7 DEF n
  <2> QED BY <1>1, <1>7, <2>1
<1> QED BY <1>3, <1>8

\* What is not a player stops the flames.
LEMMA HasObstacle ==
  ASSUME NEW w, Mapped(w), NEW c \in FreeCells, NEW e \in Here(w, c),
         ~IsPlayer(e)
  PROVE  Obstacles(w, c) # {}
<1>1. PICK i \in DOMAIN w.map[c] : e = w.map[c][i]
  BY HereIsKnown
<1>2. i \in Obstacles(w, c)
  BY <1>1 DEF Obstacles, IsShallow
<1> QED BY <1>2

\* What comes after the first obstacle of a cell changes nothing.
LEMMA AppendedObstacle ==
  ASSUME NEW w, Mapped(w), NEW c \in FreeCells, Obstacles(w, c) # {}, NEW e,
         NEW v, v.map[c] = Append(w.map[c], e)
  PROVE  Obstacles(v, c) # {} /\ FirstObstacle(v, c) = FirstObstacle(w, c)
<1> DEFINE s == w.map[c]
           t == v.map[c]
           m == Min(Obstacles(w, c))
           k == Min(Obstacles(v, c))
<1>1. /\ m \in Obstacles(w, c) /\ Obstacles(w, c) \subseteq 1..Len(s)
      /\ \A i \in Obstacles(w, c) : m <= i
  BY FirstObstacleIsHere
<1>2. /\ IsList(t) /\ Len(t) = Len(s) + 1 /\ Len(s) \in Nat
      /\ \A i \in 1..Len(s) : t[i] = s[i]
  BY AppendToList DEF Mapped, Lists
<1>3. DOMAIN t = 1 .. Len(s) + 1 /\ DOMAIN s = 1..Len(s)
  BY <1>2, HereIsKnown DEF IsList
<1> HIDE DEF m, k, s, t
<1>4. \A i \in 1..Len(s) : i \in Obstacles(v, c) <=> i \in Obstacles(w, c)
  BY <1>2, <1>3 DEF Obstacles, s, t
<1>5. Obstacles(v, c) \subseteq 1 .. Len(s) + 1
  BY <1>3 DEF Obstacles, t
<1>6. m \in Obstacles(v, c)
  BY <1>1, <1>4
<1>7. k \in Obstacles(v, c) /\ \A i \in Obstacles(v, c) : k <= i
  <2>1. Obstacles(v, c) \subseteq Nat /\ Obstacles(v, c) # {}
    BY <1>2, <1>5, <1>6
  <2> QED BY <2>1, MinIsLeast DEF k
<1>8. k <= m /\ m \in 1..Len(s) /\ k \in 1..Len(s)
  BY <1>1, <1>2, <1>5, <1>6, <1>7
<1>9. k = m
  BY <1>1, <1>2, <1>4, <1>7, <1>8
<1>10. t[m] = s[m]
  BY <1>2, <1>8
<1> QED BY <1>6, <1>9, <1>10 DEF FirstObstacle, k, m, s, t

\* The bombs that explode in a tick, and the blockers, do not last.
Lasting(es, exploding) ==
  {e \in es : e[1] # "blocker" /\ e \notin {<<"bomb", c>> : c \in exploding}}

\* The first obstacle of a cell is the same, or does not last.
Similar(u, w, x, exploding) ==
  /\ Obstacles(w, x) = {} <=> Obstacles(u, x) = {}
  /\ Obstacles(u, x) # {} =>
       Lasting({FirstObstacle(w, x)}, exploding) =
         Lasting({FirstObstacle(u, x)}, exploding)

\* What an explosion does not change for the next ones.
Alike(u, w, exploding) ==
  /\ w.bombs = u.bombs
  /\ \A x \in FreeCells :
       /\ Similar(u, w, x, exploding)
       /\ <<"wall", x>> \in Here(w, x) <=> <<"wall", x>> \in Here(u, x)

\* Without a wall, what stops the flames where a bomb explodes does not last.
LEMMA BombedCell ==
  ASSUME NEW w, Standing(w), NEW exploding, NEW c \in DOMAIN w.bombs,
         c \in FreeCells, c \in exploding, <<"wall", c>> \notin Here(w, c),
         Obstacles(w, c) # {}
  PROVE  Lasting({FirstObstacle(w, c)}, exploding) = {}
<1> DEFINE e == FirstObstacle(w, c)
<1>1. Mapped(w) /\ c \notin Covered(w)
  BY DEF Standing
<1>2. e \in Here(w, c) /\ ~IsPlayer(e)
  BY <1>1, FirstObstacleIsHere
<1> HIDE DEF e
<1>3. e \in EntitiesOf(w) /\ CellOfEntity(w, e) = c
  BY <1>1, <1>2 DEF Mapped, Located
<1>4. e[2] = c
  BY <1>2, <1>3 DEF CellOfEntity
<1>5. CASE \E p \in DOMAIN w.players : e = Player(p)
  BY <1>2, <1>5 DEF IsPlayer, Player
<1>6. CASE \E x \in DOMAIN w.bombs : e = <<"bomb", x>>
  BY <1>4, <1>6 DEF Lasting, e
<1>7. CASE \E x \in DOMAIN w.crates : e = <<"crate", x>>
  BY <1>1, <1>4, <1>7 DEF Covered
<1>8. CASE \E x \in DOMAIN w.powerUps : e = <<"power_up", x>>
  BY <1>1, <1>4, <1>8 DEF Covered
<1>9. CASE \E x \in w.walls : e = <<"wall", x>>
  BY <1>2, <1>4, <1>9
<1>10. CASE e \in DOMAIN w.timer /\ e[1] = "blocker"
  BY <1>10 DEF Lasting, e
<1> QED BY <1>3, <1>5, <1>6, <1>7, <1>8, <1>9, <1>10, EntityKinds

\* No bomb has exploded yet.
Unexploded(w) == \A x : <<"bomb", x>> \notin w.dead

\* A bomb that is not in the map is in a wall.
LEMMA BuriedBomb ==
  ASSUME NEW w, Standing(w), NEW c \in DOMAIN w.bombs,
         <<"bomb", c>> \notin w.dead, <<"bomb", c>> \notin Here(w, c)
  PROVE  <<"wall", c>> \in Here(w, c)
<1> DEFINE e == <<"bomb", c>>
           f == <<"wall", c>>
<1>1. e \in EntitiesOf(w) /\ CellOfEntity(w, e) = c /\ ~IsPlayer(e)
  BY DEF EntitiesOf, CellOfEntity, IsPlayer
<1>2. CellOfEntity(w, f) = c /\ ~IsPlayer(f)
  BY DEF CellOfEntity, IsPlayer
<1>3. Missing(w, e)
  BY <1>1 DEF Standing, Mapped, Located
<1>4. e \in w.crushed
  BY <1>1, <1>3 DEF Missing
<1>5. c \in w.walls
  BY <1>1, <1>4 DEF Standing
<1>6. f \in EntitiesOf(w) /\ f \notin w.dead \cup w.crushed
  BY <1>5 DEF EntitiesOf, Standing
<1>7. ~Missing(w, f)
  BY <1>2, <1>6 DEF Missing
<1> QED BY <1>2, <1>6, <1>7 DEF Standing, Mapped, Located

\* The explosion of a bomb.
LEMMA ExplodeAlike ==
  ASSUME NEW u, Standing(u), Unexploded(u),
         NEW exploding, exploding \subseteq DOMAIN u.bombs,
         NEW w, Shaped(w), Standing(w), Alike(u, w, exploding),
         NEW c \in exploding
  PROVE  Alike(u, Explode(w, c), exploding)
<1> DEFINE v == Explode(w, c)
           blocker == NewBlocker(w, c)
           bomb == <<"bomb", c>>
           wall == <<"wall", c>>
<1>1. c \in DOMAIN u.bombs /\ c \in DOMAIN w.bombs /\ w.bombs = u.bombs
  BY DEF Alike
<1>2. /\ Standing(v) /\ v.bombs = w.bombs
      /\ Here(v, c) = (Here(w, c) \cup {blocker}) \ {bomb}
      /\ \A x \in FreeCells \ {c} : v.map[x] = w.map[x]
  BY <1>1, ExplodeStanding
<1>3. v.map = Erased(Put(w.map, blocker, c), bomb, c)
  BY ExplodeEffect
<1>4. blocker[1] = "blocker" /\ blocker \notin DOMAIN w.timer
  <2>1. IsFiniteSet(DOMAIN w.timer)
    BY DEF Standing
  <2> HIDE DEF blocker
  <2> QED BY <2>1, NewBlockerIsNew DEF blocker
<1> HIDE DEF v, blocker
<1>5. blocker # bomb /\ blocker # wall /\ bomb # wall /\ ~IsPlayer(blocker)
      /\ ~IsPlayer(bomb) /\ ~IsPlayer(wall)
  BY <1>4 DEF IsPlayer
<1>6. c \in FreeCells /\ Mapped(w) /\ Mapped(u) /\ Mapped(v)
  <2>1. bomb \in EntitiesOf(w) /\ CellOfEntity(w, bomb) = c
    BY <1>1 DEF EntitiesOf, CellOfEntity, IsPlayer
  <2>2. Mapped(w) /\ Mapped(u) /\ Mapped(v)
    BY <1>2 DEF Standing
  <2> QED BY <2>1, <2>2 DEF Mapped, Located
<1> HIDE DEF bomb, wall
<1>7. wall \in Here(v, c) <=> wall \in Here(u, c)
  <2>1. wall \in Here(w, c) <=> wall \in Here(u, c)
    BY <1>6 DEF Alike, wall
  <2> QED BY <1>2, <1>5, <2>1
<1>8. blocker \in Here(v, c)
  BY <1>2, <1>5
<1>9. Obstacles(v, c) # {}
  BY <1>5, <1>6, <1>8, HasObstacle
<1>10. Similar(u, v, c, exploding)
  <2>1. CASE bomb \in Here(u, c)
    <3>1. wall \notin Here(u, c) /\ wall \notin Here(v, c)
      BY <1>6, <1>7, <2>1 DEF Mapped, Alone, bomb, wall
    <3>2. Obstacles(u, c) # {}
      BY <1>5, <1>6, <2>1, HasObstacle
    <3>3. Lasting({FirstObstacle(u, c)}, exploding) = {}
      BY <1>1, <1>6, <3>1, <3>2, BombedCell DEF wall
    <3>4. Lasting({FirstObstacle(v, c)}, exploding) = {}
      BY <1>1, <1>2, <1>6, <1>9, <3>1, BombedCell DEF wall
    <3> QED BY <1>9, <3>2, <3>3, <3>4 DEF Similar
  <2>2. CASE bomb \notin Here(u, c)
    <3>1. wall \in Here(u, c)
      BY <1>1, <2>2, BuriedBomb DEF Unexploded, bomb, wall
    <3>2. wall \in Here(w, c) /\ bomb \notin Here(w, c)
      BY <1>6, <3>1 DEF Alike, Mapped, Alone, bomb, wall
    <3>3. Obstacles(u, c) # {} /\ Obstacles(w, c) # {}
      BY <1>5, <1>6, <3>1, <3>2, HasObstacle
    <3>4. v.map[c] = Append(w.map[c], blocker)
      <4> DEFINE longer == Append(w.map[c], blocker)
      <4>1. v.map[c] = Without(longer, {bomb})
        BY <1>3, <1>6 DEF Erased, Put, Mapped, Lists
      <4>2. IsList(longer) /\ Range(longer) = Here(w, c) \cup {blocker}
        BY <1>6, AppendToList DEF Mapped, Lists, Here
      <4> HIDE DEF longer
      <4>3. Without(longer, {bomb}) = longer
        BY <1>5, <3>2, <4>2, WithoutNothing
      <4> QED BY <4>1, <4>3 DEF longer
    <3>5. FirstObstacle(v, c) = FirstObstacle(w, c)
      BY <1>6, <3>3, <3>4, AppendedObstacle
    <3>6. Similar(u, w, c, exploding)
      BY <1>6 DEF Alike
    <3> QED BY <1>9, <3>3, <3>5, <3>6 DEF Similar
  <2> QED BY <2>1, <2>2
<1>11. ASSUME NEW x \in FreeCells, x # c
       PROVE  /\ Similar(u, v, x, exploding)
              /\ <<"wall", x>> \in Here(v, x) <=> <<"wall", x>> \in Here(u, x)
  <2>1. v.map[x] = w.map[x]
    BY <1>2, <1>11
  <2>2. Obstacles(v, x) = Obstacles(w, x)
    BY <2>1 DEF Obstacles
  <2>3. FirstObstacle(v, x) = FirstObstacle(w, x) /\ Here(v, x) = Here(w, x)
    BY <2>1, <2>2 DEF FirstObstacle, Here
  <2> QED BY <2>2, <2>3 DEF Alike, Similar
<1>12. Alike(u, v, exploding)
  BY <1>1, <1>2, <1>7, <1>10, <1>11 DEF Alike, wall
<1> QED BY <1>12 DEF v

\* The flames go as far, and burn the same lasting things.
LEMMA AlikeRays ==
  ASSUME NEW u, Standing(u), NEW exploding, NEW w, Alike(u, w, exploding),
         NEW c \in DOMAIN u.bombs, NEW d
  PROVE  /\ RayEnd(w, c, d) = RayEnd(u, c, d)
         /\ Lasting(RayTarget(w, c, d), exploding) =
              Lasting(RayTarget(u, c, d), exploding)
<1> DEFINE n == u.bombs[c].strength
           end == RayEnd(u, c, d)
           at == RayCell(c, d, end)
           stops(z, k) == LET x == RayCell(c, d, k) IN
                            x \notin FreeCells \/ Obstacles(z, x) # {}
<1>1. w.bombs[c].strength = n /\ n \in Nat
  BY DEF Alike, Standing
<1>2. \A k : stops(w, k) <=> stops(u, k)
  BY DEF Alike, Similar
<1>3. {k \in 1..n : stops(w, k)} = {k \in 1..n : stops(u, k)}
  BY <1>2
<1>4. RayEnd(w, c, d) = end
  BY <1>1, <1>3 DEF RayEnd
<1>5. Lasting(RayTarget(w, c, d), exploding) =
        Lasting(RayTarget(u, c, d), exploding)
  <2>1. CASE end > n \/ at \notin FreeCells
    BY <1>1, <1>4, <2>1 DEF RayTarget
  <2>2. CASE ~(end > n \/ at \notin FreeCells)
    <3>1. RayTarget(u, c, d) = {FirstObstacle(u, at)}
      BY <2>2 DEF RayTarget
    <3>2. RayTarget(w, c, d) = {FirstObstacle(w, at)}
      BY <1>1, <1>4, <2>2 DEF RayTarget
    <3>3. end \in 1 .. n + 1
      BY <1>1, RayEndFacts
    <3>4. Obstacles(u, at) # {}
      BY <1>1, <2>2, <3>3, RayEndFacts
    <3>5. Similar(u, w, at, exploding)
      BY <2>2 DEF Alike
    <3> QED BY <3>1, <3>2, <3>4, <3>5 DEF Similar
  <2> QED BY <2>1, <2>2
<1> QED BY <1>4, <1>5

\* The flames of the bomb in the cell c, in a direction up to the n-th cell,
\* in all of them, and what they touch.
Beam(c, d, n) == {NewFlame(RayCell(c, d, k), FALSE) : k \in 1 .. n - 1}

Fire(w, c) ==
  {NewFlame(c, TRUE)} \cup UNION {Beam(c, d, RayEnd(w, c, d)) : d \in Directions}

Touched(w, c) == UNION {RayTarget(w, c, d) : d \in Directions}

\* A ray only depends on the bombs and on the map.
LEMMA RayStays ==
  ASSUME NEW w, NEW v, v.map = w.map, v.bombs = w.bombs, NEW c, NEW d
  PROVE  /\ RayEnd(v, c, d) = RayEnd(w, c, d)
         /\ RayTarget(v, c, d) = RayTarget(w, c, d)
<1>1. \A x : Obstacles(v, x) = Obstacles(w, x)
  BY DEF Obstacles
<1>2. \A x : FirstObstacle(v, x) = FirstObstacle(w, x)
  BY <1>1 DEF FirstObstacle
<1>3. RayEnd(v, c, d) = RayEnd(w, c, d)
  BY <1>1 DEF RayEnd
<1> QED BY <1>2, <1>3 DEF RayTarget

\* What a ray adds.
LEMMA RayAdds ==
  ASSUME NEW w, NEW v, Shaped(v), v.map = w.map, v.bombs = w.bombs, NEW c, NEW d
  PROVE  LET z == Ray(v, c, d) IN
           /\ Shaped(z) /\ z.map = w.map /\ z.bombs = w.bombs
           /\ z.flames = v.flames \cup Beam(c, d, RayEnd(w, c, d))
           /\ z.burning = v.burning \cup RayTarget(w, c, d)
<1> DEFINE z == Ray(v, c, d)
<1>1. Shaped(z) /\ Same(v, z, {"flames", "burning"})
  BY RayEffect
<1>2. z.map = v.map /\ z.bombs = v.bombs
  BY <1>1 DEF Same, Fields
<1>3. RayEnd(v, c, d) = RayEnd(w, c, d) /\ RayTarget(v, c, d) = RayTarget(w, c, d)
  BY RayStays
<1>4. /\ z.flames = v.flames \cup Beam(c, d, RayEnd(v, c, d))
      /\ z.burning = v.burning \cup RayTarget(v, c, d)
  BY DEF Ray, Beam, Shaped, Fields
<1> HIDE DEF z
<1> QED BY <1>1, <1>2, <1>3, <1>4 DEF z

\* What the explosion of a bomb adds.
LEMMA ExplodeAdds ==
  ASSUME NEW w, Shaped(w), NEW c
  PROVE  /\ Explode(w, c).flames = w.flames \cup Fire(w, c)
         /\ Explode(w, c).burning = w.burning \cup Touched(w, c)
<1> DEFINE n(d) == RayEnd(w, c, d)
           l == Ray(w, c, "left")
           r == Ray(l, c, "right")
           u == Ray(r, c, "up")
           v == Ray(u, c, "down")
<1> HIDE DEF n
<1>1. /\ Shaped(l) /\ l.map = w.map /\ l.bombs = w.bombs
      /\ l.flames = w.flames \cup Beam(c, "left", n("left"))
      /\ l.burning = w.burning \cup RayTarget(w, c, "left")
  BY RayAdds DEF n
<1> HIDE DEF l
<1>2. /\ Shaped(r) /\ r.map = w.map /\ r.bombs = w.bombs
      /\ r.flames = l.flames \cup Beam(c, "right", n("right"))
      /\ r.burning = l.burning \cup RayTarget(w, c, "right")
  BY <1>1, RayAdds DEF n
<1> HIDE DEF r
<1>3. /\ Shaped(u) /\ u.map = w.map /\ u.bombs = w.bombs
      /\ u.flames = r.flames \cup Beam(c, "up", n("up"))
      /\ u.burning = r.burning \cup RayTarget(w, c, "up")
  BY <1>2, RayAdds DEF n
<1> HIDE DEF u
<1>4. /\ v.flames = u.flames \cup Beam(c, "down", n("down"))
      /\ v.burning = u.burning \cup RayTarget(w, c, "down")
  BY <1>3, RayAdds DEF n
<1>5. Rays(w, c) = v
  BY DEF Rays, v, u, r, l
<1> HIDE DEF v
<1>6. Directions = {"left", "right", "up", "down"}
  BY DEF Directions
<1>7. Touched(w, c) =
        RayTarget(w, c, "left") \cup RayTarget(w, c, "right")
          \cup RayTarget(w, c, "up") \cup RayTarget(w, c, "down")
  BY <1>6 DEF Touched
<1>8. Fire(w, c) =
        {NewFlame(c, TRUE)}
          \cup (Beam(c, "left", n("left")) \cup Beam(c, "right", n("right"))
                \cup Beam(c, "up", n("up")) \cup Beam(c, "down", n("down")))
  BY <1>6 DEF Fire, n
<1>9. /\ Explode(w, c).flames = v.flames \cup {NewFlame(c, TRUE)}
      /\ Explode(w, c).burning = v.burning
  BY <1>5, ExplodeEffect
<1>10. Explode(w, c).flames = w.flames \cup Fire(w, c)
  BY <1>1, <1>2, <1>3, <1>4, <1>8, <1>9
<1>11. Explode(w, c).burning = w.burning \cup Touched(w, c)
  BY <1>1, <1>2, <1>3, <1>4, <1>7, <1>9
<1> QED BY <1>10, <1>11

\* For the worlds that are alike, it adds the same flames, and touches the
\* same lasting things.
LEMMA AlikeExplosions ==
  ASSUME NEW u, Standing(u), NEW exploding, NEW w, Alike(u, w, exploding),
         NEW c \in DOMAIN u.bombs
  PROVE  /\ Fire(w, c) = Fire(u, c)
         /\ Lasting(Touched(w, c), exploding) = Lasting(Touched(u, c), exploding)
<1>1. \A d : /\ RayEnd(w, c, d) = RayEnd(u, c, d)
             /\ Lasting(RayTarget(w, c, d), exploding) =
                  Lasting(RayTarget(u, c, d), exploding)
  BY AlikeRays
<1>2. Fire(w, c) = Fire(u, c)
  BY <1>1 DEF Fire
<1>3. ASSUME NEW z
      PROVE  Lasting(Touched(z, c), exploding) =
               UNION {Lasting(RayTarget(z, c, d), exploding) : d \in Directions}
  BY DEF Lasting, Touched
<1>4. UNION {Lasting(RayTarget(w, c, d), exploding) : d \in Directions} =
      UNION {Lasting(RayTarget(u, c, d), exploding) : d \in Directions}
  BY <1>1
<1> QED BY <1>2, <1>3, <1>4

\* The explosions of a tick add what each bomb would add alone.
Added(u, n, order, exploding, v) ==
  /\ v.flames = u.flames \cup UNION {Fire(u, order[j]) : j \in 1..n}
  /\ Lasting(v.burning, exploding) =
       Lasting(u.burning, exploding)
         \cup UNION {Lasting(Touched(u, order[j]), exploding) : j \in 1..n}

\* One more.
LEMMA AddedStep ==
  ASSUME NEW u, Standing(u), NEW exploding, NEW order, NEW n \in Nat, n > 0,
         NEW w, Shaped(w), Alike(u, w, exploding), order[n] \in DOMAIN u.bombs,
         Added(u, n - 1, order, exploding, w)
  PROVE  Added(u, n, order, exploding, Explode(w, order[n]))
<1> DEFINE c == order[n]
           v == Explode(w, c)
           fire(j) == Fire(u, order[j])
           hit(j) == Lasting(Touched(u, order[j]), exploding)
<1>1. v.flames = w.flames \cup Fire(w, c) /\ v.burning = w.burning \cup Touched(w, c)
  BY ExplodeAdds
<1>2. Fire(w, c) = fire(n) /\ Lasting(Touched(w, c), exploding) = hit(n)
  BY AlikeExplosions
<1>3. Lasting(v.burning, exploding) =
        Lasting(w.burning, exploding) \cup Lasting(Touched(w, c), exploding)
  BY <1>1 DEF Lasting
<1>4. /\ w.flames = u.flames \cup UNION {fire(j) : j \in 1 .. n - 1}
      /\ Lasting(w.burning, exploding) =
           Lasting(u.burning, exploding) \cup UNION {hit(j) : j \in 1 .. n - 1}
  BY DEF Added
<1>5. (1..n) = (1 .. n - 1) \cup {n}
  OBVIOUS
<1> HIDE DEF fire, hit, v
<1>6. UNION {fire(j) : j \in 1..n} = (UNION {fire(j) : j \in 1 .. n - 1}) \cup fire(n)
  BY <1>5
<1>7. UNION {hit(j) : j \in 1..n} = (UNION {hit(j) : j \in 1 .. n - 1}) \cup hit(n)
  BY <1>5
<1>8. v.flames = u.flames \cup UNION {fire(j) : j \in 1..n}
  BY <1>1, <1>2, <1>4, <1>6
<1>9. Lasting(v.burning, exploding) =
        Lasting(u.burning, exploding) \cup UNION {hit(j) : j \in 1..n}
  BY <1>2, <1>3, <1>4, <1>7
<1> QED BY <1>8, <1>9 DEF Added, fire, hit, v

\* The bombs of the cells listed in order are to explode in u.
Bursting(u, order, exploding) ==
  /\ Shaped(u) /\ Standing(u) /\ Unexploded(u)
  /\ exploding \subseteq DOMAIN u.bombs
  /\ \A i \in DOMAIN order : order[i] \in exploding

\* All of them.
LEMMA ExplosionsAdd ==
  ASSUME NEW u, NEW n \in Nat, NEW order, DOMAIN order = 1..n,
         NEW exploding, Bursting(u, order, exploding)
  PROVE  Added(u, n, order, exploding, Explosions!Fold(u, order))
<1>0. PICK h : Explodes(u, order, n, h)
  BY ExplosionSteps
<1>1. /\ h[0] = u
      /\ \A i \in 1..n : h[i] = Explode(h[i - 1], order[i])
      /\ Explosions!Fold(u, order) = h[n]
  BY <1>0 DEF Explodes
<1>2. /\ Shaped(u) /\ Standing(u) /\ Unexploded(u)
      /\ exploding \subseteq DOMAIN u.bombs
      /\ \A i \in 1..n : order[i] \in exploding
  BY DEF Bursting
<1> DEFINE Good(i) == /\ Shaped(h[i]) /\ Standing(h[i])
                      /\ Alike(u, h[i], exploding)
                      /\ Added(u, i, order, exploding, h[i])
           S == {i \in 0..n : Good(i)}
<1>3. 0 \in S
  <2>1. Alike(u, u, exploding)
    BY DEF Alike, Similar
  <2>2. Added(u, 0, order, exploding, u)
    BY DEF Added
  <2>3. Good(0)
    BY <1>1, <1>2, <2>1, <2>2
  <2> QED BY <2>3
<1>4. ASSUME NEW i \in 1..n, i - 1 \in S
      PROVE  i \in S
  <2>1. Good(i - 1) /\ h[i] = Explode(h[i - 1], order[i])
        /\ order[i] \in exploding /\ i \in Nat /\ i > 0
    BY <1>1, <1>2, <1>4
  <2>2. order[i] \in DOMAIN h[i - 1].bombs /\ order[i] \in DOMAIN u.bombs
    BY <1>2, <2>1 DEF Alike
  <2>3. Shaped(h[i]) /\ Standing(h[i])
    <3>1. Shaped(Explode(h[i - 1], order[i]))
      BY <2>1, ExplodeEffect
    <3>2. Standing(Explode(h[i - 1], order[i]))
      BY <2>1, <2>2, ExplodeStanding
    <3> QED BY <2>1, <3>1, <3>2
  <2>4. Alike(u, h[i], exploding)
    BY <1>2, <2>1, ExplodeAlike
  <2>5. Added(u, i, order, exploding, h[i])
    BY <1>2, <2>1, <2>2, AddedStep
  <2> QED BY <2>3, <2>4, <2>5
<1> HIDE DEF S
<1>5. 0..n \subseteq S
  BY <1>3, <1>4, Explosions!Induction
<1> QED BY <1>1, <1>5 DEF S

\* The orders of a finite set list the whole set, and there is one.
LEMMA OrdersListAll ==
  ASSUME NEW X, IsFiniteSet(X)
  PROVE  /\ Cardinality(X) \in Nat /\ SetToSeqs(X) # {}
         /\ \A order \in SetToSeqs(X) :
              /\ DOMAIN order = 1..Cardinality(X)
              /\ {order[i] : i \in 1..Cardinality(X)} = X
<1> DEFINE n == Cardinality(X)
<1>1. n \in Nat /\ ExistsBijection(1..n, X)
  BY FS_CardinalityType
<1> HIDE DEF n
<1>2. SetToSeqs(X) = {f \in [1..n -> X] : \A i, j \in 1..n : i # j => f[i] # f[j]}
  BY DEF SetToSeqs, n
<1>3. SetToSeqs(X) # {}
  <2>1. PICK f : f \in Bijection(1..n, X)
    BY <1>1 DEF ExistsBijection
  <2>2. f \in [1..n -> X] /\ \A i, j \in 1..n : i # j => f[i] # f[j]
    BY <2>1 DEF Bijection, Injection, IsInjective
  <2> QED BY <1>2, <2>2
<1>4. ASSUME NEW order \in SetToSeqs(X)
      PROVE  DOMAIN order = 1..n /\ {order[i] : i \in 1..n} = X
  <2>1. order \in [1..n -> X] /\ \A i, j \in 1..n : i # j => order[i] # order[j]
    BY <1>2
  <2>2. order \in Injection(1..n, X)
    BY <2>1 DEF Injection, IsInjective
  <2>3. Cardinality(1..n) = n
    BY <1>1, FS_Interval
  <2>4. order \in Surjection(1..n, X)
    BY <2>2, <2>3, FS_Injection DEF n
  <2>5. \A x \in X : \E i \in 1..n : order[i] = x
    BY <2>4 DEF Surjection
  <2> QED BY <2>1, <2>5
<1> QED BY <1>1, <1>3, <1>4 DEF n

\* The bombs of a standing arena explode alike in any order.
LEMMA AnyOrder ==
  ASSUME NEW w, Shaped(w), Standing(w), Unexploded(w),
         IsFiniteSet(DOMAIN w.bombs),
         NEW order \in SetToSeqs(Exploding(Triggered(w)))
  PROVE  LET u == Triggered(w)
             exploding == Exploding(Triggered(w))
             v == UpdateBombs(w, order)
         IN /\ v.flames = u.flames \cup UNION {Fire(u, c) : c \in exploding}
            /\ Lasting(v.burning, exploding) =
                 Lasting(u.burning, exploding)
                   \cup UNION {Lasting(Touched(u, c), exploding) : c \in exploding}
<1> DEFINE u == Triggered(w)
           exploding == Exploding(u)
           v == UpdateBombs(w, order)
           n == Cardinality(exploding)
<1>1. /\ Shaped(u) /\ Standing(u) /\ u.bombs = w.bombs
      /\ u.dead = w.dead \cup ExpiredBlockers(w)
  BY TriggeredEffect, TriggeredStanding DEF Same, Fields
<1>2. v = Explosions!Fold(u, order)
  BY UpdateBombsIsFold
<1> HIDE DEF u, v
<1>3. Unexploded(u)
  <2>1. \A e \in ExpiredBlockers(w) : e[1] = "blocker"
    BY DEF ExpiredBlockers
  <2>2. \A x : <<"bomb", x>> \notin ExpiredBlockers(w)
    BY <2>1
  <2> QED BY <1>1, <2>2 DEF Unexploded
<1>4. exploding \subseteq DOMAIN u.bombs
  BY DEF Exploding
<1>5. IsFiniteSet(exploding)
  BY <1>1, <1>4, FS_Subset
<1>6. order \in SetToSeqs(exploding)
  BY DEF u
<1> HIDE DEF exploding
<1>7. /\ n \in Nat /\ DOMAIN order = 1..n
      /\ {order[i] : i \in 1..n} = exploding
  BY <1>5, <1>6, OrdersListAll
<1> HIDE DEF n
<1>8. Bursting(u, order, exploding)
  BY <1>1, <1>3, <1>4, <1>7 DEF Bursting
<1>9. Added(u, n, order, exploding, v)
  BY <1>2, <1>7, <1>8, ExplosionsAdd
<1>10. {Fire(u, order[j]) : j \in 1..n} = {Fire(u, c) : c \in exploding}
  BY <1>7
<1>11. {Lasting(Touched(u, order[j]), exploding) : j \in 1..n} =
       {Lasting(Touched(u, c), exploding) : c \in exploding}
  BY <1>7
<1>12. /\ v.flames = u.flames \cup UNION {Fire(u, c) : c \in exploding}
       /\ Lasting(v.burning, exploding) =
            Lasting(u.burning, exploding)
              \cup UNION {Lasting(Touched(u, c), exploding) : c \in exploding}
  BY <1>9, <1>10, <1>11 DEF Added
<1> QED BY <1>12 DEF u, v, exploding

\* So their outcome is the same.
LEMMA OneOutcome ==
  ASSUME NEW w, Shaped(w), Standing(w), Unexploded(w),
         IsFiniteSet(DOMAIN w.bombs)
  PROVE  LET exploding == Exploding(Triggered(w))
         IN Cardinality({<<UpdateBombs(w, order).flames,
                           Lasting(UpdateBombs(w, order).burning, exploding)>> :
                             order \in SetToSeqs(exploding)}) = 1
<1> DEFINE u == Triggered(w)
           exploding == Exploding(u)
           fires == u.flames \cup UNION {Fire(u, c) : c \in exploding}
           hits == Lasting(u.burning, exploding)
                     \cup UNION {Lasting(Touched(u, c), exploding) : c \in exploding}
           of(order) == <<UpdateBombs(w, order).flames,
                          Lasting(UpdateBombs(w, order).burning, exploding)>>
           after == {of(order) : order \in SetToSeqs(exploding)}
<1>1. \A order \in SetToSeqs(exploding) : of(order) = <<fires, hits>>
  BY AnyOrder
<1>2. SetToSeqs(exploding) # {}
  <2>1. u.bombs = w.bombs
    BY TriggeredEffect DEF Same, Fields
  <2> HIDE DEF u
  <2>2. exploding \in SUBSET DOMAIN w.bombs
    BY <2>1 DEF Exploding
  <2>3. IsFiniteSet(exploding)
    BY <2>2, FS_Subset
  <2> HIDE DEF exploding
  <2> QED BY <2>3, OrdersListAll
<1> HIDE DEF of, fires, hits, exploding, u
<1>3. after = {<<fires, hits>>}
  BY <1>1, <1>2
<1>4. Cardinality(after) = 1
  BY <1>3, FS_Singleton
<1> QED BY <1>4 DEF of, exploding, u

\* The arena the bombs of the next tick explode in.
LEMMA NextBefore ==
  ASSUME Sound(world), Resting(world)
  PROVE  LET w == BeforeBombs(world, [p \in DOMAIN world.players |-> Idle]) IN
           /\ Shaped(w) /\ Standing(w) /\ Unexploded(w)
           /\ IsFiniteSet(DOMAIN w.bombs)
<1> DEFINE actions == [p \in DOMAIN world.players |-> Idle]
           w == BeforeBombs(world, actions)
<1>1. PICK s : Stages(world, actions, <<>>, {}, s) /\ s.before = w
  BY StagesExist
<1>2. \A p \in DOMAIN actions : actions[p] \in Requested
  BY DEF Idle, Requested
<1> HIDE DEF actions, w
<1>3. Shaped(s.before) /\ Counted(s.before)
  BY <1>1, BeforeCounts
<1>4. Frames(s)
  <2>1. DOMAIN <<>> = 1..0 /\ 0 \in Nat
    OBVIOUS
  <2> QED BY <1>1, <2>1, StagesHaveFrames DEF Sound
<1>5. Standing(s.before) /\ Unexploded(s.before)
  BY <1>1, <1>2, <1>4, BeforeStanding DEF Unexploded
<1>6. IsFiniteSet(DOMAIN s.before.bombs)
  BY <1>3 DEF Counted
<1>7. Shaped(w) /\ Standing(w) /\ Unexploded(w)
      /\ IsFiniteSet(DOMAIN w.bombs)
  BY <1>1, <1>3, <1>5, <1>6
<1> QED BY <1>7 DEF actions, w

\* The bombs which explode in a tick burn the same cells and the same things
\* whatever the order they are stored in (update_bombs).
THEOREM ExplosionsAlwaysCommute == Spec => []ExplosionsCommute
<1>1. Sound(world) /\ Resting(world) => ExplosionsCommute
  <2> SUFFICES ASSUME Sound(world), Resting(world)
               PROVE  ExplosionsCommute
    OBVIOUS
  <2> DEFINE w == BeforeBombs(world, [p \in DOMAIN world.players |-> Idle])
             exploding == Exploding(Triggered(w))
             lasting(e) ==
               e[1] # "blocker" /\ e \notin {<<"bomb", c>> : c \in exploding}
             after == {LET v == UpdateBombs(w, order)
                       IN <<v.flames, {e \in v.burning : lasting(e)}>> :
                         order \in SetToSeqs(exploding)}
  <2>1. /\ Shaped(w) /\ Standing(w) /\ Unexploded(w)
        /\ IsFiniteSet(DOMAIN w.bombs)
    BY NextBefore
  <2> HIDE DEF w
  <2>2. Cardinality({<<UpdateBombs(w, order).flames,
                       Lasting(UpdateBombs(w, order).burning, exploding)>> :
                         order \in SetToSeqs(exploding)}) = 1
    BY <2>1, OneOutcome
  <2> HIDE DEF exploding
  <2>3. Cardinality(after) = 1
    BY <2>2 DEF Lasting
  <2> QED BY <2>3 DEF ExplosionsCommute, w, exploding
<1> QED BY <1>1, RestingInvariant, PTL

=============================================================================
