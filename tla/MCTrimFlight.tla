---------------------------- MODULE MCTrimFlight ----------------------------
(* Small instances of the single-flight trim. *)
EXTENDS TrimFlight

CONSTANTS c1, c2, c3

=============================================================================
