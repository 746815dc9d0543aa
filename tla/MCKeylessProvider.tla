-------------------------- MODULE MCKeylessProvider --------------------------
(* Small instances of KeylessProvider. *)
EXTENDS KeylessProvider, TLC

CONSTANTS c1, c2, c3

\* The callers are interchangeable.
Permuted == Permutations(Callers)
=============================================================================
