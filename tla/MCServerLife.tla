----------------------------- MODULE MCServerLife -----------------------------
(* Two processes of one deployment. *)
EXTENDS ServerLife

CONSTANTS s1, s2

\* Nothing set: the defaults, of which the one for Postgres leads nowhere.
Development == [prod |-> FALSE, secret |-> "unset", admin |-> "unset", origins |-> "unset",
                mock |-> "unset", gemini |-> FALSE,
                postgresURL |-> "wrong", redisURL |-> "right"]

\* Production: complete, without the origins that have no default there, and
\* with URLs that cannot be read.
Production == [prod |-> TRUE, secret |-> "own", admin |-> "own", origins |-> "own",
               mock |-> "false", gemini |-> TRUE,
               postgresURL |-> "right", redisURL |-> "right"]
Incomplete == [Production EXCEPT !.origins = "unset"]
Unreadable == [Production EXCEPT !.postgresURL = "refused", !.redisURL = "refused"]

Deployments == {Development, Production, Incomplete, Unreadable}
===============================================================================
