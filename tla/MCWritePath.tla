---------------------------- MODULE MCWritePath ----------------------------
(* Instances of WritePath for TLC. *)
EXTENDS WritePath, TLC

CONSTANTS east1, west1

(* One tenant in each of two regions. *)
MCHomeRegion == [t \in Tenants |-> IF t = west1 THEN "us-west" ELSE "us-east"]

(* The rounds are interchangeable. *)
RoundSymmetry == Permutations(Rounds)

=============================================================================
