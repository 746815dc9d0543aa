---------------------------- MODULE MCWorkerPool ----------------------------
(* Small instances of WorkerPool: two requests that look up the same names. *)
EXTENDS WorkerPool, TLC

CONSTANTS r1, r2, a, b

\* The first batch repeats a domain: the handler does not deduplicate TLDs.
OverlapBatch == (r1 :> <<a, b, a>>) @@ (r2 :> <<a>>)

\* The same domain from both requests, and one job more for the first.
CacheBatch == (r1 :> <<a, b>>) @@ (r2 :> <<a>>)
=============================================================================
