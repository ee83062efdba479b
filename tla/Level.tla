-------------------------------- MODULE Level --------------------------------
(***************************************************************************)
(* The fences of a level, as insert_random_fences (level_generation.cpp)   *)
(* draws them, and then somebody who walks in the level among obstacles.   *)
(* A random draw is a choice.                                              *)
(***************************************************************************)
EXTENDS Navigation

CONSTANTS WalkArea,     \* bound on the cells where the walker goes
          MaxObstacles  \* bound on the solid entities in its way

VARIABLES
  fences,    \* the fences in each cell
  todo,      \* the cells that may receive a fence and are still to be drawn
  needed,    \* the count of cells to draw
  available, \* the count of cells to draw from
  walker,    \* the position of the walker, None during the generation
  solid      \* the cells with something solid in

vars == <<fences, todo, needed, available, walker, solid>>

None == <<>>

FenceCountRatio == 3
MinFences == 2

PatternWidth == (Width + 1) \div 2
PatternHeight == (Height + 1) \div 2

WallsOn(c, ways) == Cardinality({d \in ways : StaticWall(Beside(c, d))})

\* A fence closes a corridor: a cell with walls on two opposite sides, and
\* on no other one.
VerticalEdge(c) == WallsOn(c, {"up", "down"}) = 2
HorizontalEdge(c) == WallsOn(c, {"left", "right"}) = 2

\* The cells of the first quarter of the arena which may receive a fence, row
\* by row.  The ones in the middle would be closed by their mirror image.
Candidates ==
  LET rows == [i \in 1 .. (PatternWidth - 1) * (PatternHeight - 1) |->
                 <<((i - 1) % (PatternWidth - 1)) + 1,
                   ((i - 1) \div (PatternWidth - 1)) + 1>>]
  IN SelectSeq(rows,
       LAMBDA c : /\ ~StaticWall(c) /\ c \notin ForbiddenCells
                  /\ VerticalEdge(c) # HorizontalEdge(c)
                  /\ IF VerticalEdge(c) THEN c[1] + 1 < PatternWidth
                     ELSE c[2] + 1 < PatternHeight)

HorizontalFlip(e) == IF e \in {"left", "right"} THEN Opposite[e] ELSE e
VerticalFlip(e) == IF e \in {"up", "down"} THEN Opposite[e] ELSE e

\* The fence on the edge e of the cell c, and its images by symmetry.
Images(c, e) ==
  LET x == Width - c[1] - 1
      y == Height - c[2] - 1
  IN << [cell |-> c, edge |-> e],
        [cell |-> <<x, c[2]>>, edge |-> HorizontalFlip(e)],
        [cell |-> <<c[1], y>>, edge |-> VerticalFlip(e)],
        [cell |-> <<x, y>>, edge |-> HorizontalFlip(VerticalFlip(e))] >>

KeepFence(fs, f) ==
  IF StaticWall(f.cell) THEN fs ELSE [fs EXCEPT ![f.cell] = @ \cup {f.edge}]

\* The fences once f is added, unless its two sides are then disconnected.
Fenced(fs, f) ==
  LET with == [fs EXCEPT ![f.cell] = @ \cup {f.edge}] IN
    IF StaticWall(f.cell) THEN fs
    ELSE IF Reachable(with, f.cell, Beside(f.cell, f.edge)) THEN with
    ELSE [with EXCEPT ![f.cell] = @ \ {f.edge}]

Init ==
  /\ fences = [c \in Cells |-> {}]
  /\ todo = Candidates
  /\ available = Len(Candidates)
  /\ needed \in MinFences .. Max({MinFences,
                                  Len(Candidates) \div FenceCountRatio})
  /\ walker = None
  /\ solid = {}

Drawing == todo # <<>> /\ available # 0 /\ needed # 0

\* The number drawn in 1..available is above needed: no fence in this cell.
SkipCandidate ==
  /\ walker = None /\ Drawing
  /\ needed < available
  /\ todo' = Tail(todo)
  /\ available' = available - 1
  /\ UNCHANGED <<fences, needed, walker, solid>>

PutFence ==
  /\ walker = None /\ Drawing
  /\ \E e \in IF VerticalEdge(Head(todo)) THEN {"left", "right"}
              ELSE {"up", "down"} :
       fences' = FoldLeft(Fenced, fences, Images(Head(todo), e))
  /\ todo' = Tail(todo)
  /\ needed' = needed - 1
  /\ available' = available - 1
  /\ UNCHANGED <<walker, solid>>

EnterLevel ==
  /\ walker = None /\ ~Drawing
  /\ walker' = Middle(StartCell(0))
  /\ UNCHANGED <<fences, todo, needed, available, solid>>

Walk ==
  /\ walker # None
  /\ \E d \in Directions : walker' = Moved(walker, d, fences, solid)
  /\ CellOf(walker') \in WalkArea
  /\ UNCHANGED <<fences, todo, needed, available, solid>>

\* Something solid appears where the walker is: it has dropped a bomb.
DropObstacle ==
  /\ walker # None
  /\ Cardinality(solid) < MaxObstacles
  /\ solid' = solid \cup {CellOf(walker)}
  /\ UNCHANGED <<fences, todo, needed, available, walker>>

Next == SkipCandidate \/ PutFence \/ EnterLevel \/ Walk \/ DropObstacle

Spec == Init /\ [][Next]_vars

-----------------------------------------------------------------------------

TypeOK ==
  /\ fences \in [Cells -> SUBSET Directions]
  /\ todo \in Seq(FreeCells)
  /\ needed \in Nat /\ available \in Nat
  /\ solid \subseteq FreeCells
  /\ walker # None => CellOf(walker) \in FreeCells

\* Whatever the draws, every free cell of the arena can be reached from any
\* other one: a fence that would cut the arena is removed.  (The walker does
\* not change the fences.)
Connected == walker = None => Closure(fences, {}, StartCell(0)) = FreeCells

\* The searches of navigation_check tell what they should: whether closing an
\* edge would cut the arena, the length of the shortest paths, whether there is
\* a cell to escape to.
SearchesAgree ==
  /\ walker = None /\ todo # <<>> =>
       \A d \in Directions :
         LET c == Head(todo)
             fs == [fences EXCEPT ![c] = @ \cup {d}]
         IN ~StaticWall(Beside(c, d)) =>
              (Reachable(fs, c, Beside(c, d))
                 <=> Beside(c, d) \in Closure(fs, {}, c))
  /\ walker # None /\ walker = Middle(CellOf(walker)) =>
       LET from == CellOf(walker)
           found == Paths(fences, solid, from, [c \in Cells |-> c])
           open == Closure(fences, solid, from)
           distance(c) == IF c = from THEN 0 ELSE found.distance[c]
       IN /\ ~found.lost
          /\ \A c \in FreeCells \ (open \cup solid) :
               found.distance[c] = Unreachable
          /\ \A c \in open \ {from} :
               LET near == LinkedTo(fences, solid \ {from}, {c}) IN
                 /\ distance(c) = 1 + Min({distance(n) : n \in near})
                 /\ found.previous[c] \in near
                 /\ distance(found.previous[c]) = distance(c) - 1

\* A step never goes through a fence nor into something solid, even when it
\* slides around a corner: a cell is left by one side at a time, and the side
\* is open.
StepsStayOpen ==
  walker # None =>
    \A d \in Directions :
      LET from == CellOf(walker)
          to == CellOf(Moved(walker, d, fences, solid))
      IN from # to =>
           /\ to \notin solid
           /\ \E side \in Directions :
                to = Beside(from, side) /\ Passage(fences, from, side)

\* The cells crossed by a player who makes k steps in the direction d.
Way(d, k) ==
  LET after[i \in 0..k] ==
        IF i = 0 THEN <<walker>>
        ELSE LET way == after[i - 1]
             IN Append(way, Moved(Last(way), d, fences, solid))
  IN [i \in 0..k |-> CellOf(after[k][i + 1])]

\* What the searches take for a passage can be walked: a player who holds a
\* direction leaves the cell by that side, from wherever it is in the cell.
PassagesCanBeWalked ==
  walker # None =>
    \A d \in Directions :
      LET c == CellOf(walker)
          n == Beside(c, d)
          way == Way(d, StepsPerCell)
      IN Passage(fences, c, d) /\ n \notin solid =>
           \E k \in 1..StepsPerCell :
             way[k] = n /\ \A i \in 0 .. k - 1 : way[i] = c

\* The arena which is generated can be walked everywhere, the bots find the
\* cells and the distances, and a player passes where they say it can, nowhere
\* else.
ArenaCanBeWalked ==
  Connected /\ SearchesAgree /\ StepsStayOpen /\ PassagesCanBeWalked

=============================================================================
