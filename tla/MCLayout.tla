------------------------------ MODULE MCLayout ------------------------------
(* Instances of Layout for TLC. *)
EXTENDS Layout

(* Every pool size up to thirty, and the largest that --tenants suggests. *)
ManyCounts == 0 .. 30 \cup {50}

=============================================================================
