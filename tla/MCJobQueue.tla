----------------------------- MODULE MCJobQueue -----------------------------
(***************************************************************************)
(* Small instances of the job queue: two slots of a pool that claims the   *)
(* kind "options".                                                         *)
(***************************************************************************)
EXTENDS JobQueue, TLC

CONSTANTS w1, w2

OnePool   == [w \in Workers |-> {"options"}]

=============================================================================
