------------------------------- MODULE Crates -------------------------------
(***************************************************************************)
(* The crates of a level and the power-ups hidden in some of them          *)
(* (insert_random_crates, generate_power_up_spawners): the crates are      *)
(* shuffled, then, one kind after the other, the list is scanned and a     *)
(* crate is taken with the probability that gives every crate its chance.  *)
(* A random draw is a choice among what it can return.                     *)
(***************************************************************************)
EXTENDS Integers, Sequences, SequencesExt

CONSTANTS Places,      \* the cells that may hold a crate
          Central,     \* those that are good for the invisibility power-up
          Kinds,       \* the kinds of power-ups, in the order of their draws
          CountOf,     \* how many of each kind a level has
          Invisibility \* the kind that is hidden in a central crate only

Null == 0

VARIABLES crates,     \* the crates not taken, or Null, in their order
          crateCount, \* how many of them are not Null
          spawner,    \* the kind hidden in a crate
          kinds,      \* the kinds still to draw, the current one first
          needed,     \* how many crates the current kind still needs
          available,  \* how many crates have not been scanned for it
          scanned     \* the index of the scan; -1 before the crates are placed

cratesVars == <<crates, crateCount, spawner, kinds, needed, available, scanned>>

\* The filter of the crates that can hide a power-up of kind k.
Suits(k, c) == k # Invisibility \/ c \in Central

\* A variant of Least with a defect: as many as the level should have.
AsMany(size, count) == count
Least(size, count) == IF size < count THEN size ELSE count

\* The scan for the next kind.  The available crates are counted for the
\* invisibility power-up and taken from the size of the population otherwise.
StartScan(ks, population, size) ==
  /\ kinds' = ks
  /\ scanned' = 0
  /\ IF ks = <<>> THEN needed' = 0 /\ available' = 0
     ELSE /\ needed' = Least(size, CountOf[Head(ks)])
          /\ available' = IF Head(ks) = Invisibility
                          THEN Len(SelectSeq(population, LAMBDA c : c \in Central))
                          ELSE size

\* The crates of a level, in the order of the shuffle.  There is at least one
\* crate, and central ones enough for the invisibility power-ups: the arenas of
\* the game have several times more, but nothing in the code checks it.
PlaceCrates(order, enabled) ==
  /\ order # <<>>
  /\ Invisibility \in enabled =>
       Len(SelectSeq(order, LAMBDA c : c \in Central)) >= CountOf[Invisibility]
  /\ crates' = order /\ crateCount' = Len(order)
  /\ spawner' = <<>>
  /\ StartScan(SelectSeq(Kinds, LAMBDA k : k \in enabled), order, Len(order))

Skip ==
  /\ needed > 0
  /\ LET c == crates[scanned + 1] IN c = Null \/ ~Suits(Head(kinds), c)
  /\ scanned' = scanned + 1
  /\ UNCHANGED <<crates, crateCount, spawner, kinds, needed, available>>

\* A draw among the crates available: n is what the generator returns.
Draw(n) ==
  LET c == crates[scanned + 1] IN
  /\ needed > 0
  /\ c # Null /\ Suits(Head(kinds), c)
  /\ IF n <= needed
     THEN /\ spawner' = [x \in DOMAIN spawner \cup {c} |->
                           IF x = c THEN Head(kinds) ELSE spawner[x]]
          /\ crates' = [crates EXCEPT ![scanned + 1] = Null]
          /\ crateCount' = crateCount - 1
          /\ needed' = needed - 1
     ELSE UNCHANGED <<spawner, crates, crateCount, needed>>
  /\ available' = available - 1
  /\ scanned' = scanned + 1
  /\ UNCHANGED kinds

NextKind ==
  /\ kinds # <<>> /\ needed = 0
  /\ StartScan(Tail(kinds), crates, crateCount)
  /\ UNCHANGED <<crates, crateCount, spawner>>

CratesInit ==
  /\ crates = <<>> /\ crateCount = 0 /\ spawner = <<>> /\ kinds = <<>>
  /\ needed = 0 /\ available = 0 /\ scanned = -1

CratesNext ==
  \/ /\ scanned = -1
     /\ \E placed \in SUBSET Places,
           enabled \in {ToSet(Kinds), ToSet(Kinds) \ {Invisibility}} :
          \E order \in SetToSeqs(placed) : PlaceCrates(order, enabled)
  \/ Skip
  \/ \E n \in 1..available : Draw(n)
  \/ NextKind

-----------------------------------------------------------------------------
(* Properties. *)

\* The scan never leaves the list, whatever is drawn: the crates available are
\* always enough for those needed.  When it ends, the level has all the
\* power-ups of the kinds drawn, as long as there were crates for them
\* (generate_power_up_spawners).
DrawsSucceed ==
  /\ needed > 0 => scanned < Len(crates) /\ needed <= available
  /\ crateCount = Len(SelectSeq(crates, LAMBDA c : c # Null))
  /\ \A c \in DOMAIN spawner : Suits(spawner[c], c) /\ c \notin ToSet(crates)
  /\ scanned >= 0 /\ kinds = <<>> =>
       \A k \in {spawner[c] : c \in DOMAIN spawner} :
         \/ Cardinality({c \in DOMAIN spawner : spawner[c] = k}) = CountOf[k]
         \/ crateCount = 0
=============================================================================
