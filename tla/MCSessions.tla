----------------------------- MODULE MCSessions -----------------------------
(***************************************************************************)
(* Sessions on a small instance: two devices of one player and a client    *)
(* whose credential is not well formed, behind one address.                *)
(***************************************************************************)
EXTENDS Sessions

CONSTANTS a1, t1, t2, t3, c1, c2, c3

MCRequests == {[address |-> a1, token |-> t1, credential |-> c1],
               [address |-> a1, token |-> t2, credential |-> c2],
               [address |-> a1, token |-> t3, credential |-> c3]}

\* Both devices have the same user, whose id is not the number of a session.
MCUserOf == [c \in {c1, c2, c3} |-> IF c = c3 THEN 1 ELSE 9]

\* The karma has a range of a few values: two short games are too many, one
\* disconnection is.
Lowest == -1
ShortGamePenalty == -1
DisconnectionPenalty == -2
=============================================================================
