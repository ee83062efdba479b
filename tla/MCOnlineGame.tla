---------------------------- MODULE MCOnlineGame ----------------------------
(***************************************************************************)
(* OnlineGame on small instances.                                          *)
(***************************************************************************)
EXTENDS OnlineGame, TLC

CONSTANTS p1, p2, p3

Never == 100

NobodyDies == [p \in Players |-> Never]

\* p1 is burnt by the first tick and disappears in the next one.
P1Burns == [p \in Players |-> IF p = p1 THEN 0 ELSE Never]
P1Dies  == [p \in Players |-> IF p = p1 THEN 1 ELSE Never]

Symmetry == Permutations(Players)
=============================================================================
