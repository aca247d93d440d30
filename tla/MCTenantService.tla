-------------------------- MODULE MCTenantService --------------------------
(* Instances of TenantService for TLC. *)
EXTENDS TenantService, TLC

CONSTANTS east1, west1

MCHomeRegion == [t \in Tenants |-> IF t = east1 THEN "us-east" ELSE "us-west"]
(* The writes are interchangeable. *)
WriteSymmetry == Permutations(Writes)

=============================================================================
