----------------------------- MODULE MCSessions -----------------------------
(* Instances of Sessions for TLC. *)
EXTENDS Sessions, TLC

Interchangeable == Permutations(Users) \cup Permutations(Tokens) \cup Permutations(Requests)

Env(ops, events, load) == [ops |-> ops, events |-> events, load |-> load]

\* What sessions are made of, without the rest of the account's life.
SessionOps == {"register", "login", "refresh", "logout", "logoutall", "setuser"}

\* One at a time with everything that can go wrong; two at a time, once with
\* logouts and failures, once with accounts that come and go.
Everyday == {
    Env(AllOps, AllEvents, 1),
    Env(SessionOps, {"db", "restart", "expire"}, 2),
    Env({"register", "login", "demo", "refresh", "updateme", "setuser", "deluser"}, {}, 2) }

TwoExchanges == { Env({"register", "refresh", "setuser"}, {}, 2) }
=============================================================================
