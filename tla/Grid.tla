-------------------------------- MODULE Grid --------------------------------
(***************************************************************************)
(* The arena of a contest: its cells, its static walls, the edges of a     *)
(* cell, the cells where the players start, the order in which the blocks  *)
(* fall when the arena is reduced, and the moves of a player in it.        *)
(***************************************************************************)
EXTENDS Integers, Sequences, FiniteSets, FiniteSetsExt, SequencesExt

CONSTANTS Width, Height,
          PlayerCount,
          StepsPerCell \* the steps of a player in the width of a cell

ASSUME GridConstants ==
  /\ Width \in Nat /\ Width >= 3
  /\ Height \in Nat /\ Height >= 3
  /\ PlayerCount \in 1..4
  /\ StepsPerCell \in Nat /\ StepsPerCell > 0 /\ StepsPerCell % 2 = 0

Cells == (0 .. Width - 1) \X (0 .. Height - 1)

Directions == {"up", "left", "right", "down"}

Opposite == [up |-> "down", left |-> "right", right |-> "left", down |-> "up"]

Delta == [up |-> <<0, -1>>, left |-> <<-1, 0>>,
          right |-> <<1, 0>>, down |-> <<0, 1>>]

Apart(a, b) == IF a < b THEN b - a ELSE a - b

Beside(c, d) == <<c[1] + Delta[d][1], c[2] + Delta[d][2]>>

\* Walls all around the arena, and a pillar on the cells of even coordinates.
StaticWall(c) ==
  \/ c[1] \in {0, Width - 1} \/ c[2] \in {0, Height - 1}
  \/ c[1] % 2 = 0 /\ c[2] % 2 = 0

FreeCells == {c \in Cells : ~StaticWall(c)}

\* The cell where the i-th player starts, from zero.
StartCell(i) ==
  << <<1, 1>>, <<Width - 2, Height - 2>>, <<Width - 2, 1>>,
     <<1, Height - 2>> >>[(i % 4) + 1]

Around(c) == {<<c[1] + dx, c[2] + dy>> : dx \in -1..1, dy \in -1..1}

\* Neither crates nor fences there.
ForbiddenCells == UNION {Around(StartCell(i)) : i \in 0 .. PlayerCount - 1}

-----------------------------------------------------------------------------
(* The order of the falling blocks: ring by ring, one cell at a time on    *)
(* each of the four sides of the ring.                                     *)

\* The cells of the k-th ring, side by side, in the order of the scan.
Side(k, s) ==
  LET right == Width - 1 - k
      bottom == Height - 1 - k
      along == right - k + 1
      down == bottom - k + 1
  IN CASE s = 1 -> [i \in 1..along |-> <<k + i - 1, k>>]
       [] s = 2 -> [i \in 1..down |-> <<right, k + i - 1>>]
       [] s = 3 -> [i \in 1..along |-> <<right - i + 1, bottom>>]
       [] s = 4 -> [i \in 1..down |-> <<k, bottom - i + 1>>]

\* The order once the first available cell of a side has been added to it.
Taken(order, side) ==
  LET available == {i \in DOMAIN side : ~StaticWall(side[i])
                                        /\ side[i] \notin Range(order)}
  IN IF available = {} THEN order ELSE Append(order, side[Min(available)])

\* A turn around the ring, or to the next one when no cell is available.
FallTurn(fall, turn) ==
  LET order == Taken(Taken(Taken(Taken(fall.order, Side(fall.ring, 1)),
                                 Side(fall.ring, 2)),
                           Side(fall.ring, 3)),
                     Side(fall.ring, 4))
  IN IF 2 * fall.ring > Width - 1 \/ 2 * fall.ring > Height - 1 THEN fall
     ELSE IF order = fall.order THEN [fall EXCEPT !.ring = @ + 1]
     ELSE [fall EXCEPT !.order = order]

\* There are not more useful turns than cells in the arena.
FallOrder ==
  FoldLeft(FallTurn, [ring |-> 0, order |-> <<>>],
           [i \in 1 .. Width * Height |-> i]).order

-----------------------------------------------------------------------------
(* The moves of a player (move_player.cpp).  A position is a pair of       *)
(* fixed-point coordinates, counted in steps: a player is in the middle of *)
(* a cell when both are half a cell from the corner of the cell.           *)

HalfCell == StepsPerCell \div 2
EdgeWidth == 2

\* The coordinate that changes when moving in the direction d, and how.
Axis(d) == IF d \in {"left", "right"} THEN 1 ELSE 2
Sign(d) == Delta[d][Axis(d)]

CellOf(pos) == <<pos[1] \div StepsPerCell, pos[2] \div StepsPerCell>>

Middle(c) == <<c[1] * StepsPerCell + HalfCell, c[2] * StepsPerCell + HalfCell>>

\* The offset of a position to the middle of its cell.
Offset(pos, axis) == (pos[axis] % StepsPerCell) - HalfCell

AllEdges(fences, solid, c) ==
  IF StaticWall(c) \/ c \in solid \/ fences[c] # {} THEN Directions ELSE {}

\* The edges that stop a player in a cell.
EdgesAt(fences, solid, c) ==
  IF StaticWall(c) \/ c \in solid THEN Directions ELSE fences[c]

\* The direction to the half of the cell in which the player is, on an axis.
HalfOn(pos, axis) ==
  LET towards(negative, positive) ==
        IF Offset(pos, axis) < 0 THEN {negative}
        ELSE IF Offset(pos, axis) > 0 THEN {positive} ELSE {}
  IN IF axis = 1 THEN towards("left", "right") ELSE towards("up", "down")

\* Get closer to the middle of the way if there is something beside the cell
\* we are going into.
Straightened(pos, from, d, fences, solid) ==
  LET other == 3 - Axis(d)
      aside == {s \in HalfOn(from, other) :
                  Opposite[d] \in EdgesAt(fences, solid,
                                          Beside(Beside(CellOf(from), d), s))}
  IN IF aside = {} THEN pos
     ELSE [pos EXCEPT ![other] = @ - Sign(CHOOSE s \in aside : TRUE)]

\* The edge of the cell aside to be crossed to go around an obstacle.  Going
\* up is tested as going down.
EdgeAside(s) == IF s = "up" THEN "up" ELSE Opposite[s]

\* Try to go around an obstacle ahead.
Dodged(pos, from, d, fences, solid) ==
  LET c == CellOf(from)
      other == 3 - Axis(d)
      way == {s \in HalfOn(from, other) :
                /\ s \notin fences[c]
                /\ EdgesAt(fences, solid, Beside(c, s))
                     \cap {EdgeAside(s), d} = {}
                /\ Opposite[d] \notin EdgesAt(fences, solid,
                                              Beside(Beside(c, s), d))}
  IN IF way = {} THEN pos
     ELSE [pos EXCEPT ![other] = @ + Sign(CHOOSE s \in way : TRUE)]

\* The position of a player after a step in the direction d.
Moved(pos, d, fences, solid) ==
  LET c == CellOf(pos)
      a == Axis(d)
      ahead == Sign(d) * Offset(pos, a) + 1
      at(offset) == [pos EXCEPT ![a] = Middle(c)[a] + Sign(d) * offset]
  IN IF ahead >= -EdgeWidth /\ d \in fences[c]
     THEN Dodged(at(-EdgeWidth), pos, d, fences, solid)
     ELSE IF /\ ahead >= 0
             /\ Opposite[d] \in EdgesAt(fences, solid, Beside(c, d))
     THEN Dodged(at(0), pos, d, fences, solid)
     ELSE Straightened([pos EXCEPT ![a] = @ + Sign(d)], pos, d, fences, solid)

=============================================================================
