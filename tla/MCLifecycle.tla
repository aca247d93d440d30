---------------------------- MODULE MCLifecycle ----------------------------
(* Lifecycle is checked as it stands: its constants are numbers and sets of
   numbers.  Two sizes let a cluster be created again with more or with fewer
   nodes than the volumes that were left; a third node is added by scale. *)
EXTENDS Lifecycle

=============================================================================
