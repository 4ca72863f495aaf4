-------------------------- MODULE MCProductImages --------------------------
(* Instances of ProductImages for TLC. *)
EXTENDS ProductImages, TLC

Interchangeable == Permutations(Keys) \cup Permutations(Products) \cup Permutations(Requests)

Env(ops, events, load, uploads) ==
    [ops |-> ops, events |-> events, load |-> load, uploads |-> uploads]

BucketFails == {"badinput", "put", "putlost", "remove"}

\* One at a time: with failures before which nothing was changed in the other
\* store, with removals that fail, and with galleries that only grow.  Two at a
\* time: without Saves; without deletions of products; without ambiguous
\* commits; with everything.
Everyday == {
    Env(AllOps, {"badinput", "db", "commit", "put", "nostorage"}, 1, 3),
    Env(AllOps, {"remove"}, 1, 3),
    Env({"create", "addimage", "upload"}, {"db", "commit", "put", "restart"}, 1, 3),
    Env(AllOps \ {"update", "upload"}, BucketFails, 2, 2),
    Env(AllOps \ {"delete"}, BucketFails, 2, 2),
    Env(AllOps \ {"delete", "delimage"}, {"db", "put", "remove", "restart"}, 2, 2),
    Env(AllOps, AllEvents, 2, 2) }

UpdateAndDelete == { Env({"create", "get", "update", "delete"}, {}, 2, 1) }
=============================================================================
