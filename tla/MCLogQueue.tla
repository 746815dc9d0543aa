----------------------------- MODULE MCLogQueue -----------------------------
(* Small instances of LogQueue: a queue shorter than what two requests send. *)
EXTENDS LogQueue, TLC

CONSTANTS h1, h2, w1, w2

TwoAndTwo == (h1 :> 2) @@ (h2 :> 2)
TwoAndOne == (h1 :> 2) @@ (h2 :> 1)
=============================================================================
