------------------------------- MODULE MCBot -------------------------------
(***************************************************************************)
(* Bot on a small arena: any set of crates, fog everywhere, no falling     *)
(* block, and an opponent who never does anything.                         *)
(***************************************************************************)
EXTENDS Bot

NoFences == [c \in Cells |-> {}]

\* No hole in the fog.
Nowhere == {{}}

\* Some crates, with a bomb inside.
SomeCrates == UNION {[S -> {"bomb"}] : S \in SUBSET (FreeCells \ ForbiddenCells)}

Idlers == [p \in Players |-> {Idle}]
=============================================================================
