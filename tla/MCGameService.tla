--------------------------- MODULE MCGameService ---------------------------
(***************************************************************************)
(* GameService on small instances: any client sends any update about the   *)
(* first MaxTick ticks, with the checksum of some state it could be in.    *)
(***************************************************************************)
EXTENDS GameService

CONSTANTS p1, p2, p3,
          MaxTick \* bound on the ticks played

Never == 100

NobodyDies == [p \in Players |-> Never]

\* p1 is burnt by the first tick and disappears in the next one.
P1Burns == [p \in Players |-> IF p = p1 THEN 0 ELSE Never]
P1Dies  == [p \in Players |-> IF p = p1 THEN 1 ELSE Never]

\* A state of the contest the server is never in.
WrongState == <<[p \in Players |-> MaxTick]>>

\* The states of the contest of t ticks, some players having been kicked.
StatesAt(t) ==
  {[i \in 1..t |-> [p \in Players |-> IF i - 1 < kick[p] THEN i - 1
                                      ELSE IF i - 1 = kick[p] THEN Kicked
                                      ELSE Gone]]
     : kick \in [Players -> 0..t]}

MCUpdates ==
  UNION {[type         : {"game_update"},
          from         : {f},
          actions      : {[i \in 1..n |-> f + i - 1] : n \in 0..MaxTick - f},
          checksumTick : {c},
          checksum     : StatesAt(c) \cup {WrongState}]
           : f \in 0..MaxTick, c \in 0..MaxTick}

\* The checksum is about a state not later than the first tick: see
\* ChecksumsCheckable.
BoundedUpdates == {m \in MCUpdates : m.checksumTick <= m.from}
=============================================================================
