----------------------------- MODULE SealedLog -----------------------------
(***************************************************************************)
(* What the exchange of the actions promises to the players, whatever the  *)
(* network does, as long as nobody is kicked out: there is one log of      *)
(* ticks, it only grows, it never passes a tick some player has not played *)
(* yet, every player replays prefixes of it and never goes back, and the   *)
(* game has one verdict, the same for all.                                 *)
(***************************************************************************)
EXTENDS Naturals, Sequences, SequencesExt

CONSTANTS Members,  \* the players whose actions are awaited
          Undecided

VARIABLES
  log,     \* the ticks played by the server
  copy,    \* the part of it replayed by each player
  played,  \* the count of ticks each player has played ahead
  verdict, \* the result of the game
  told     \* the result as each player knows it

vars == <<log, copy, played, verdict, told>>

Init ==
  /\ log = <<>>
  /\ copy = [p \in Members |-> <<>>]
  /\ played = [p \in Members |-> 0]
  /\ verdict = Undecided
  /\ told = [p \in Members |-> Undecided]

\* Some ticks are sealed, which may decide the game.
Seal ==
  /\ IsStrictPrefix(log, log')
  /\ \A p \in Members : Len(log') <= played[p]
  /\ verdict = Undecided \/ verdict' = verdict
  /\ UNCHANGED <<copy, played, told>>

\* A player catches up with the log, and plays further.
Turn(p) ==
  /\ IsPrefix(copy[p], copy'[p])
  /\ IsPrefix(copy'[p], log)
  /\ played'[p] >= played[p]
  /\ \A q \in Members \ {p} : copy'[q] = copy[q] /\ played'[q] = played[q]
  /\ UNCHANGED <<log, verdict, told>>

Announce(p) ==
  /\ verdict # Undecided
  /\ told' = [told EXCEPT ![p] = verdict]
  /\ UNCHANGED <<log, copy, played, verdict>>

Next == Seal \/ \E p \in Members : Turn(p) \/ Announce(p)

Spec == Init /\ [][Next]_vars

=============================================================================
