----------------------------- MODULE MCWorkload -----------------------------
(* Instances of Workload for TLC. *)
EXTENDS Workload

CONSTANT east1

MCHomeRegion == [t \in Tenants |-> "us-east"]

(* cfg.Regions, sorted as Run derives it from the regional DSNs.  The first has
   no tenants: the pool was seeded for another topology. *)
TwoRegions == <<"eu-central", "us-east">>

=============================================================================
