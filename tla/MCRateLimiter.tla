---------------------------- MODULE MCRateLimiter ----------------------------
(* Small instances of RateLimiter. *)
EXTENDS RateLimiter, TLC

CONSTANTS c1, c2, c3

\* Requests in progress are interchangeable.
Anyone == Permutations(Clients)
\* One subject's JWTs, with and without a claim; a client known by address.
JWTs == {[kind |-> "jwt", limit |-> 1], [kind |-> "jwt", limit |-> NoClaim]}
Public == {[kind |-> "none", limit |-> NoClaim]}
==============================================================================
