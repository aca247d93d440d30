------------------------------ MODULE MCChaos ------------------------------
(* Instances of Chaos for TLC. *)
EXTENDS Chaos, TLC

(* The shells the commands are typed in are interchangeable. *)
SlotSymmetry == Permutations(Slots)

=============================================================================
