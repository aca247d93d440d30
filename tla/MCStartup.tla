------------------------------ MODULE MCStartup ------------------------------
(* Instances of Startup for TLC. *)
EXTENDS Startup

(* Both topologies and several values of --tenants: a stop and a start may
   change both.  (A count of 0 reaches Run when the workload is started in
   process, with --dsn; StartWorkload would turn it into 10.) *)
MixedConfigs ==
  { [count |-> 5, regions |-> <<"eu-central", "us-east", "us-west">>],
    [count |-> 3, regions |-> <<"us-west">>],
    [count |-> 0, regions |-> <<"us-west">>] }

OneConfig == { [count |-> 5, regions |-> <<"eu-central", "us-east", "us-west">>] }

=============================================================================
