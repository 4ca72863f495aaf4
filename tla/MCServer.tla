------------------------------ MODULE MCServer ------------------------------
(* Instances of Server for TLC. *)
EXTENDS Server

CONSTANTS a, b

Env(events, servers, secret, demo) ==
    [events |-> events, servers |-> servers, secret |-> secret, demo |-> demo]

\* Two servers that boot together, beside a MinIO that comes and goes, killed at any step,
\* with administrators at work; one with all that can happen to it; one that lacks its
\* secret.
Days == {
    Env({}, {a, b}, "long", TRUE),
    Env({"storage"}, {a, b}, "long", FALSE),
    Env({"kill"}, {a, b}, "long", TRUE),
    Env({"manage", "kill"}, {a}, "long", TRUE),
    Env({"manage"}, {a, b}, "long", FALSE),
    Env({"outage", "commit"}, {a}, "long", TRUE),
    Env({"outage", "storage", "term", "port"}, {a}, "long", TRUE),
    Env({"outage"}, {a}, "short", FALSE) }

BucketComesAndGoes == { Env({"storage"}, {a, b}, "long", FALSE) }
=============================================================================
