------------------------------ MODULE Survival ------------------------------
(***************************************************************************)
(* What a contest promises to whoever runs it, without its arena: players  *)
(* who are alive, then maybe dying for a while, then gone for ever, and a  *)
(* result that follows from them and never changes.  It is what module     *)
(* Contest supposes of the contest when it replays it.                     *)
(***************************************************************************)
EXTENDS FiniteSets

CONSTANTS Players, Running, Draw

\* The results are told apart.
DistinctResults == Running # Draw /\ {Running, Draw} \cap Players = {}

VARIABLES status, result

vars == <<status, result>>

Status == {"alive", "dying", "gone"}

Among(s) == {p \in Players : status[p] = s}

Init ==
  /\ status = [p \in Players |-> "alive"]
  /\ result = Running

\* Some players start dying, some others are gone.
Fate(p) ==
  CASE status[p] = "alive" -> status'[p] \in Status
    [] status[p] = "dying" -> status'[p] \in {"dying", "gone"}
    [] status[p] = "gone" -> status'[p] = "gone"

\* Nobody wins while somebody is dying; the last one wins, unless nobody is
\* left, or the time is up.
Verdict ==
  LET alive == Among("alive")' IN
    IF Among("dying")' # {} THEN result' = Running
    ELSE IF alive = {} THEN result' = Draw
    ELSE IF \E p \in alive : alive = {p} THEN result' \in alive
    ELSE result' \in {Running, Draw}

Step ==
  /\ result = Running
  /\ status' \in [Players -> Status]
  /\ \A p \in Players : Fate(p)
  /\ Verdict

Spec == Init /\ [][Step]_vars

\* The winner is the only survivor.
WinnerSurvives == result \in Players => Among("alive") = {result}

=============================================================================
