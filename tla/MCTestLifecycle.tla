-------------------------- MODULE MCTestLifecycle --------------------------
(* Instances of TestLifecycle for TLC. *)
EXTENDS TestLifecycle, TLC

CONSTANT c1

(* All tests are taken by one candidate, who has one of them pending.      *)
MCCandidates  == {c1}
MCCandidateOf == [t \in Tests |-> c1]

(* No definition names a request or a device: their names do not matter.   *)
Symmetry == Permutations(Requests) \cup Permutations(Devices)
=============================================================================
