------------------------------ MODULE Contest ------------------------------
(***************************************************************************)
(* The contest, as the network code sees it (bim::game::contest): a        *)
(* deterministic function of what has been applied for each player at each *)
(* tick.  A state of the contest is its history, the sequence, one element *)
(* per call of contest::tick(), of what was applied for each player:       *)
(*   - a natural number, the action;                                       *)
(*   - Kicked, when kick_player() was called before the tick;              *)
(*   - Gone, when the player has no entity any more.                       *)
(* The systems run by tick() are abstracted to what decides the result:    *)
(* the ticks at which players die.  They depend on the arena alone here,   *)
(* given by DyingTick, DeathTick and TimeLimit.                            *)
(***************************************************************************)
EXTENDS Integers, Sequences, FiniteSets

CONSTANTS Players,    \* the players of the contest
          Kicked, Gone,
          Running, Draw,
          DyingTick,  \* the tick at which a player is burnt or crushed
          DeathTick,  \* the tick at which its entity is removed, later
          TimeLimit   \* the tick count at which the game timer is zero

\* What the constants must be.
ContestConstants ==
  /\ IsFiniteSet(Players)
  /\ Kicked \notin Nat /\ Gone \notin Nat /\ Kicked # Gone
  /\ Running # Draw /\ Running \notin Players /\ Draw \notin Players
  /\ DyingTick \in [Players -> Nat]
  /\ DeathTick \in [Players -> Nat]
  /\ \A p \in Players : DyingTick[p] <= DeathTick[p]
  /\ TimeLimit \in Nat

ASSUME ContestAssumption == ContestConstants

Action == Nat

Entry == Action \cup {Kicked, Gone}

History == Seq([Players -> Entry])

\* The entity of p exists when the tick that follows h starts: p has not
\* been marked as kicked nor finished dying in a previous tick.
Present(h, p) ==
  /\ \A t \in DOMAIN h : h[t][p] # Kicked
  /\ Len(h) <= DeathTick[p]

Dying(h, p) == Len(h) > DyingTick[p]

\* What contest::tick() returned last: the players not dead decide, unless
\* one of them is still in its death animation.
Result(h) ==
  LET alive == {p \in Players : Present(h, p)} IN
    IF \E p \in alive : Dying(h, p) THEN Running
    ELSE IF alive = {} THEN Draw
    ELSE IF Cardinality(alive) = 1 THEN CHOOSE p \in alive : TRUE
    ELSE IF Len(h) >= TimeLimit THEN Draw
    ELSE Running

\* Two states of the game have the same checksum when they are the same
\* state: collisions of the CRC are left out.
Checksum(h) == h

\* What is applied for each player in the i-th tick after h, acts[p][i] being
\* the action of p for it.  A player is kicked at the first of these ticks for
\* which it has no action; its entity is removed at the end of that tick.
Applied(h, acts, i) ==
  [p \in Players |->
     IF \/ ~Present(h, p)
        \/ Len(h) + i - 1 > DeathTick[p]
        \/ i > Len(acts[p]) + 1
     THEN Gone
     ELSE IF i = Len(acts[p]) + 1 THEN Kicked
     ELSE acts[p][i]]

\* h after n more ticks.
Advance(h, n, acts) == h \o [i \in 1..n |-> Applied(h, acts, i)]

=============================================================================
