-------------------------- MODULE SessionLifecycle --------------------------
(***************************************************************************)
(* What a login session is to its user, whatever tokens carry it: it is    *)
(* opened by a login, stays open over any number of token exchanges, and   *)
(* once closed (logged out, expired, lost in a crash) it stays closed.     *)
(* Module Sessions implements this.                                        *)
(***************************************************************************)
CONSTANTS SessionIds, Owners, NoOwner

VARIABLE session

States == {"none", "open", "closed"}

Init == session = [s \in SessionIds |-> [st |-> "none", owner |-> NoOwner]]

Open(s) ==
    /\ session[s].st = "none"
    /\ \E u \in Owners : session' = [session EXCEPT ![s] = [st |-> "open", owner |-> u]]

\* Several close at once when a user logs out everywhere or the server dies.
Close(S) ==
    /\ \A s \in S : session[s].st = "open"
    /\ session' = [s \in SessionIds |-> IF s \in S THEN [session[s] EXCEPT !.st = "closed"]
                                                   ELSE session[s]]

Next == (\E S \in SUBSET SessionIds : Close(S)) \/ (\E s \in SessionIds : Open(s))

Spec == Init /\ [][Next]_session
=============================================================================
