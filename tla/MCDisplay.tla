----------------------------- MODULE MCDisplay -----------------------------
(***************************************************************************)
(* What happens to the bomb asked with the button, in an arena of two      *)
(* cells where the stick may ask for a bomb too.                           *)
(***************************************************************************)
EXTENDS Display

PoolSizes == [bomb |-> 2, static_wall |-> 1, fence |-> 1, animation |-> 2]
FogOf == (0 :> {1}) @@ (1 :> {2})
SomeLooks == {[cell |-> 1, shield |-> FALSE, invisible |-> i] : i \in BOOLEAN}
SomeWalls == {<<>>, <<[cell |-> 1], [cell |-> 2]>>}
SomeDrags == {<< <<0, 0>>, <<0, 0>> >>, << <<0, 0>>, <<2, 1>> >>}
=============================================================================
