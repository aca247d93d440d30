-------------------------------- MODULE Geo --------------------------------
(***************************************************************************)
(* The vocabulary that the workload, its schema and its gRPC service share: *)
(* the three regions, the partitions of events_regional, and the four rows  *)
(* of event_counters.                                                       *)
(***************************************************************************)

(* The regions a tenant can be homed in.  The command line and the topology
   only ever produce these three names. *)
AllRegions == {"us-east", "us-west", "eu-central"}

(* The partitions of events_regional, one per region. *)
Partitions == {"east", "west", "eu"}

(* The rows migration 00003 inserts into event_counters. *)
CounterRows == {"global"} \cup Partitions

(* The metric label, partition and counter row of a region. *)
regionTarget(region) ==
  CASE region = "us-east"    -> "east"
    [] region = "us-west"    -> "west"
    [] region = "eu-central" -> "eu"
    [] OTHER                 -> region

=============================================================================
