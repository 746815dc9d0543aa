----------------------------- MODULE MCFailover -----------------------------
(* A small instance of Failover: two flight slots. *)
EXTENDS Failover

CONSTANTS f1, f2
=============================================================================
