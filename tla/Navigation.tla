----------------------------- MODULE Navigation -----------------------------
(***************************************************************************)
(* The searches of bim::game::navigation_check: from a cell, visit the     *)
(* neighbours not separated by a fence, nearest first.  The cells to visit *)
(* are in a list, pending, sorted by decreasing distance.                  *)
(***************************************************************************)
EXTENDS Grid, FiniteSetsExt

Unreachable == 254
Border == 255

\* No fence nor static wall on the way from p to its neighbour in the
\* direction d.
Passage(fences, p, d) ==
  LET n == Beside(p, d) IN
    /\ n \in Cells
    /\ d \notin fences[p]
    /\ Opposite[d] \notin fences[n]
    /\ ~StaticWall(n)

\* The neighbours of p, in the order of the scan.
Neighbours(fences, p) ==
  LET ways == SelectSeq(<<"up", "left", "right", "down">>,
                        LAMBDA d : Passage(fences, p, d))
  IN [i \in DOMAIN ways |-> Beside(p, ways[i])]

PlacedLast(pending, n, distance) == Append(pending, n)

\* n in its place in pending: after the last cell at least as far as it.
Placed(pending, n, distance) ==
  LET k == Max({0} \cup {i \in DOMAIN pending :
                           distance[pending[i]] >= distance[n]})
  IN InsertAt(pending, k + 1, n)

\* The search of a cell of goal among the ones of cells: no cell is visited
\* twice, and the first one met in the goal ends the search.
Search(fences, from, goal, cells, distance) ==
  LET search[pending \in Seq(Cells), queued \in SUBSET Cells] ==
        IF pending = <<>> THEN FALSE
        ELSE LET p == Last(pending)
                 visited == SelectSeq(Neighbours(fences, p),
                              LAMBDA n : n \notin queued /\ n \in cells)
             IN p \in goal
                \/ search[FoldLeft(LAMBDA q, n : Placed(q, n, distance),
                                  Front(pending), visited),
                          queued \cup Range(visited)]
  IN search[<<from>>, {from}]

\* Is there a path between two cells, in the static geometry?
Reachable(fences, from, to) ==
  Search(fences, from, {to}, Cells,
         [c \in Cells |-> (c[1] - to[1]) * (c[1] - to[1])
                         + (c[2] - to[2]) * (c[2] - to[2])])

\* Is there a cell that is not forbidden, close enough, on a path without
\* anything solid?
Exists(fences, solid, from, maxDistance, forbidden) ==
  LET distance == [c \in Cells |-> Apart(c[1], from[1]) + Apart(c[2], from[2])]
  IN Search(fences, from, Cells \ forbidden,
            {c \in Cells : distance[c] <= maxDistance} \ solid, distance)

\* The visit of n, a neighbour of p, in the search of the shortest paths.  A
\* cell which has been queued is visited again if it is not farther that way;
\* the code counts on finding it in the list of the pending cells, s.lost
\* tells that it did not.
Visited(s, p, n, blocked) ==
  LET d == s.distance[p] + 1
      again == n \in s.queued
      k == SelectInSeq(s.pending, LAMBDA c : c = n)
      distance == [s.distance EXCEPT ![n] = d]
  IN IF n \in blocked THEN [s EXCEPT !.distance[n] = Border]
     ELSE IF again /\ s.distance[n] < d THEN s
     ELSE [s EXCEPT
             !.distance = distance,
             !.previous[n] = p,
             !.queued = @ \cup {n},
             !.lost = @ \/ (again /\ k = 0),
             !.pending =
               IF k = 0 THEN Placed(@, n, distance)
               ELSE Placed(SubSeq(@, 1, k - 1), n, distance)
                    \o SubSeq(@, k + 1, Len(@))]

\* The distance of each cell from a cell, and the cell before it on the way.
\* The cells never visited keep what previous told of them.
Paths(fences, blocked, from, previous) ==
  LET init == [pending |-> <<from>>, queued |-> {from}, lost |-> FALSE,
               distance |-> [c \in Cells |-> IF c = from THEN 0
                                             ELSE Unreachable],
               previous |-> [previous EXCEPT ![from] = from]]
      search[s \in [pending : Seq(Cells), queued : SUBSET Cells,
                    lost : BOOLEAN, distance : [Cells -> Nat],
                    previous : [Cells -> Cells]]] ==
        IF s.pending = <<>> THEN s
        ELSE LET p == Last(s.pending) IN
             search[FoldLeft(LAMBDA t, n : Visited(t, p, n, blocked),
                             [s EXCEPT !.pending = Front(@)],
                             Neighbours(fences, p))]
  IN search[init]

-----------------------------------------------------------------------------
(* What the searches should find, defined without a search.                *)

LinkedTo(fs, blocked, S) ==
  UNION {{Beside(p, d) : d \in {d \in Directions : Passage(fs, p, d)}} : p \in S}
    \ blocked

Closure(fs, blocked, from) ==
  LET grow[S \in SUBSET Cells] ==
        LET larger == S \cup LinkedTo(fs, blocked, S)
        IN IF larger = S THEN S ELSE grow[larger]
  IN grow[{from}]

=============================================================================
