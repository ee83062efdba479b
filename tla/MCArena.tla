------------------------------ MODULE MCArena ------------------------------
(***************************************************************************)
(* Arena on a small instance: a ring of eight cells around a pillar, where *)
(* two cells may have a crate.                                             *)
(***************************************************************************)
EXTENDS Arena

NoFences == [c \in Cells |-> {}]

\* No hole in the fog.
Nowhere == {{}}

\* All the free cells away from the players have a crate, with one shield and
\* one bomb inside.
AllCrates == {f \in [FreeCells \ ForbiddenCells -> {"shield", "bomb"}] :
                Cardinality(Range(f)) = 2}

\* The first player moves or drops a bomb, the second one waits.
Roles ==
  LET drop == [Idle EXCEPT !.drop = TRUE] IN
    [p \in Players |->
       {Idle} \cup IF p = 0
                  THEN {drop} \cup [movement : Directions, drop : {FALSE}]
                  ELSE {}]
=============================================================================
