------------------------------ MODULE Sessions ------------------------------
(***************************************************************************)
(* Accounts and login sessions: internal/services/auth_service.go with the *)
(* handlers that call it (internal/handlers/auth_handler.go, user_handler. *)
(* go), the refresh_tokens table, and the purge goroutine of main.go.      *)
(*                                                                         *)
(* Each database call of a handler is one action; requests interleave.  An *)
(* access token is stateless: middleware.AuthRequired checks its signature *)
(* and expiry and never asks the database.  Of a user row the model keeps  *)
(* whether it is live and its active flag.                                 *)
(*                                                                         *)
(* A definition just before another one and named after it with a suffix   *)
(* (FindTokenAny, FindToken) is a plausible slip in the same code; the     *)
(* mutants of PROJECT.json put it in the other's place.                    *)
(***************************************************************************)
EXTENDS Integers, FiniteSets

CONSTANTS
    Users,      \* user ids
    Tokens,     \* refresh tokens: |Tokens| bounds the logins and exchanges
    Requests,   \* slots for requests in flight at the same time
    NoUser, NoToken,
    Environments  \* the environments to consider

AllOps == {"register", "login", "demo", "refresh", "logout", "logoutall", "updateme",
           "createuser", "setuser", "deluser"}

(***************************************************************************)
(* "badinput" a wrong password or a malformed body                         *)
(* "db"       a database call fails and has no effect                      *)
(* "commit"   a database write takes effect but is reported as failed      *)
(* "restart"  the process dies and boots again                             *)
(* "expire"   the 30 days of a refresh token run out                       *)
(***************************************************************************)
AllEvents == {"badinput", "db", "commit", "restart", "expire"}

\* What surrounds the server: the operations clients issue, what may go wrong,
\* and how many requests may be in flight at the same time.
Environment == [ops : SUBSET AllOps, events : SUBSET AllEvents, load : Nat]

ASSUME SessionsAssumption ==
    /\ NoUser \notin Users
    /\ NoToken \notin Tokens
    /\ IsFiniteSet(Requests)
    /\ Environments \subseteq Environment

VARIABLES
    user,    \* rows of table users
    token,   \* rows of table refresh_tokens, and whether the client has the raw token
    access,  \* users some client holds an unexpired access token of
    req,     \* the state of each request slot
    ended,   \* history: the sessions a LogoutAll has ended
    env      \* the environment of this run

vars == <<user, token, access, req, ended, env>>

Ops == env.ops
Events == env.events

UserRow == [st : {"absent", "live", "deleted"}, active : BOOLEAN]

\* session (history): the token of the login this one descends from by exchanges.
TokenRow == [st : {"none", "live", "revoked", "purged"}, user : Users \cup {NoUser},
             session : Tokens \cup {NoToken}, expired : BOOLEAN, given : BOOLEAN]

PCs == {"idle", "create", "findtoken", "finduser", "revoke", "issue", "deliver",
        "revokeall", "saveuser", "delete"}

\* tok: the token presented; new: the one to be generated; active: the flag of
\* the user in memory (what setuser asks for, from the start).
Request == [op : AllOps \cup {"none"}, pc : PCs, u : Users \cup {NoUser},
            tok : Tokens \cup {NoToken}, new : Tokens \cup {NoToken},
            active : BOOLEAN]

Slot(op, pc, u, tok, new, active) ==
    [op |-> op, pc |-> pc, u |-> u, tok |-> tok, new |-> new, active |-> active]

Idle == Slot("none", "idle", NoUser, NoToken, NoToken, FALSE)

TypeOK ==
    /\ user \in [Users -> UserRow]
    /\ token \in [Tokens -> TokenRow]
    /\ access \subseteq Users
    /\ req \in [Requests -> Request]
    /\ ended \subseteq Tokens
    /\ env \in Environments

Init ==
    /\ env \in Environments
    /\ user = [u \in Users |-> [st |-> "absent", active |-> FALSE]]
    /\ token = [t \in Tokens |-> [st |-> "none", user |-> NoUser, session |-> NoToken,
                                  expired |-> FALSE, given |-> FALSE]]
    /\ access = {}
    /\ req = [r \in Requests |-> Idle]
    /\ ended = {}

-----------------------------------------------------------------------------
\* A user the repository finds, and one allowed in.
Found(u) == user[u].st = "live"

Enabled(u) == Found(u) /\ user[u].active

FreshAgain == {t \in Tokens : token[t].st # "live" /\ \A r \in Requests : req[r].new # t}
\* generateOpaqueToken: 32 random bytes nobody has seen.
Fresh == {t \in Tokens : token[t].st = "none" /\ \A r \in Requests : req[r].new # t}

Goto(r, pc) == req' = [req EXCEPT ![r] = [@ EXCEPT !.pc = pc]]

\* The handler writes its response: the slot is free.
Reply(r) == req' = [req EXCEPT ![r] = Idle]

\* A write that is reported as failed.
Fails(write, nothing) ==
    \/ "db" \in Events /\ nothing
    \/ "commit" \in Events /\ write

(***************************************************************************)
(* Requests arrive.  A new token is picked here, instead of when it is     *)
(* generated, so that a run starts nothing it has no token left for.       *)
(***************************************************************************)
CanStart(r, op) ==
    /\ req[r].pc = "idle"
    /\ op \in Ops
    /\ Cardinality({q \in Requests : req[q].pc # "idle"}) < env.load

Start(r, op, pc, u, tok, new, active) ==
    /\ CanStart(r, op)
    /\ req' = [req EXCEPT ![r] = Slot(op, pc, u, tok, new, active)]

ArriveRegister(r) ==
    /\ \E n \in Fresh : Start(r, "register", "create", NoUser, NoToken, n, FALSE)
    /\ UNCHANGED <<user, token, access, ended>>

ArriveLogin(r) ==
    /\ \E u \in Users :
          /\ user[u].st # "absent"
          /\ \/ \E n \in Fresh : Start(r, "login", "finduser", u, NoToken, n, FALSE)
             \/ Start(r, "demo", "finduser", u, NoToken, NoToken, FALSE)
    /\ UNCHANGED <<user, token, access, ended>>

\* Clients present refresh tokens they were given.
ArriveRefresh(r) ==
    /\ \E t \in Tokens, n \in Fresh :
          token[t].given /\ Start(r, "refresh", "findtoken", NoUser, t, n, FALSE)
    /\ UNCHANGED <<user, token, access, ended>>

\* Any access token will do: the body says which refresh token to revoke.
ArriveLogout(r) ==
    /\ access # {}
    /\ \E t \in Tokens :
          token[t].given /\ Start(r, "logout", "revoke", NoUser, t, NoToken, FALSE)
    /\ UNCHANGED <<user, token, access, ended>>

ArriveForMe(r) ==
    /\ \E u \in access :
          \/ Start(r, "logoutall", "revokeall", u, NoToken, NoToken, FALSE)
          \/ Start(r, "updateme", "finduser", u, NoToken, NoToken, FALSE)
    /\ UNCHANGED <<user, token, access, ended>>

\* An administrator creates a user, updates one (here: sets the active flag) or
\* deletes one.
ArriveAdmin(r) ==
    /\ \/ Start(r, "createuser", "create", NoUser, NoToken, NoToken, FALSE)
       \/ \E u \in Users :
             /\ user[u].st # "absent"
             /\ \/ \E a \in BOOLEAN : Start(r, "setuser", "finduser", u, NoToken, NoToken, a)
                \/ Start(r, "deluser", "delete", u, NoToken, NoToken, FALSE)
    /\ UNCHANGED <<user, token, access, ended>>

-----------------------------------------------------------------------------
\* The user is active.  Register goes on to log it in.  The name may be that of any
\* row, deleted ones included: the unique indexes cover those too.
CreateUser(r) ==
    /\ req[r].pc = "create"
    /\ \/ \E u \in Users :
             LET write == user' = [user EXCEPT ![u] = [st |-> "live", active |-> TRUE]] IN
             /\ user[u].st = "absent"
             /\ \/ /\ write /\ req[r].op = "register"
                   /\ req' = [req EXCEPT ![r] = [@ EXCEPT !.pc = "finduser", !.u = u]]
                \/ write /\ (req[r].op = "createuser" \/ "commit" \in Events) /\ Reply(r)
       \/ (\E u \in Users : user[u].st # "absent") /\ Reply(r) /\ UNCHANGED user
       \/ {"badinput", "db"} \cap Events # {} /\ Reply(r) /\ UNCHANGED user
    /\ UNCHANGED <<token, access, ended>>

\* FindByHash sees unrevoked rows; IsValid checks the expiry.
Valid(t) == token[t].st = "live" /\ ~token[t].expired

FindTokenAny(r) ==
    LET t == req[r].tok
        present == token[t].st \in {"live", "revoked"} /\ ~token[t].expired IN
    /\ req[r].pc = "findtoken"
    /\ \/ /\ present
          /\ req' = [req EXCEPT ![r] = [@ EXCEPT !.pc = "finduser", !.u = token[t].user]]
       \/ ~present /\ Reply(r)
    /\ UNCHANGED <<user, token, access, ended>>
FindTokenRevoking(r) ==
    LET t == req[r].tok IN
    /\ req[r].pc = "findtoken"
    /\ \/ /\ Valid(t)
          /\ req' = [req EXCEPT ![r] = [@ EXCEPT !.pc = "finduser", !.u = token[t].user]]
          /\ token' = [token EXCEPT ![t] = [@ EXCEPT !.st = "revoked"]]
       \/ ~Valid(t) /\ Reply(r) /\ UNCHANGED token
    /\ UNCHANGED <<user, access, ended>>
\* Refresh: the token is looked up, and not looked at again.
FindToken(r) ==
    LET t == req[r].tok IN
    /\ req[r].pc = "findtoken"
    /\ \/ /\ Valid(t)
          /\ req' = [req EXCEPT ![r] = [@ EXCEPT !.pc = "finduser", !.u = token[t].user]]
       \/ ~Valid(t) /\ Reply(r)
       \/ "db" \in Events /\ Reply(r)
    /\ UNCHANGED <<user, token, access, ended>>

\* Where a handler goes on when it has found its user.
AfterUser(op) ==
    CASE op = "refresh"               -> "revoke"
      [] op = "demo"                  -> "deliver"
      [] op \in {"register", "login"} -> "issue"
      [] OTHER                        -> "saveuser"

AdmitsInactive(op, u) == Found(u)
AdmitsDeleted(op, u) == IF op = "updateme" THEN user[u].st # "absent" ELSE Enabled(u)
\* Whom it lets in: only signing in and refreshing ask for an active account.
Admits(op, u) == IF op \in {"updateme", "setuser"} THEN Found(u) ELSE Enabled(u)

\* The flag the user in memory carries on: an administrator's overwrites it.
InHand(r) == IF req[r].op = "setuser" THEN req[r].active ELSE user[req[r].u].active

FindUser(r) ==
    LET u == req[r].u  op == req[r].op IN
    /\ req[r].pc = "finduser"
    /\ \/ /\ Admits(op, u)
          /\ req' = [req EXCEPT ![r] = [@ EXCEPT !.pc = AfterUser(op), !.active = InHand(r)]]
       \/ ~Admits(op, u) /\ Reply(r)
       \/ "badinput" \in Events /\ op \notin {"refresh", "demo"} /\ Reply(r)
       \/ "db" \in Events /\ Reply(r)
    /\ UNCHANGED <<user, token, access, ended>>

RevokedBySoftDelete(row) == [row EXCEPT !.st = "deleted"]
Revoked(row) == IF row.st = "live" THEN [row EXCEPT !.st = "revoked"] ELSE row

RevokeNothing(r) ==
    /\ req[r].pc = "revoke"
    /\ IF req[r].op = "refresh" THEN Goto(r, "issue") ELSE Reply(r)
    /\ UNCHANGED <<user, token, access, ended>>
\* RevokeByHash is one UPDATE; how many rows it changed is not asked.
RevokeByHash(r) ==
    LET write == token' = [token EXCEPT ![req[r].tok] = Revoked(@)] IN
    /\ req[r].pc = "revoke"
    /\ \/ write /\ IF req[r].op = "refresh" THEN Goto(r, "issue") ELSE Reply(r)
       \/ Fails(write, UNCHANGED token) /\ Reply(r)
    /\ UNCHANGED <<user, access, ended>>

\* issueTokenPair stores a fresh refresh token.
Issue(r) ==
    LET t == req[r].new
        session == IF req[r].op = "refresh" THEN token[req[r].tok].session ELSE t
        write == token' = [token EXCEPT ![t] =
                    [st |-> "live", user |-> req[r].u, session |-> session,
                     expired |-> FALSE, given |-> FALSE]] IN
    /\ req[r].pc = "issue"
    /\ \/ write /\ Goto(r, "deliver")
       \/ Fails(write, UNCHANGED token) /\ Reply(r)
    /\ UNCHANGED <<user, access, ended>>

\* The response carries the pair to the client; a demo has an access token only.
Deliver(r) ==
    /\ req[r].pc = "deliver"
    /\ token' = IF req[r].op = "demo" THEN token
                ELSE [token EXCEPT ![req[r].new] = [@ EXCEPT !.given = TRUE]]
    /\ access' = access \cup {req[r].u}
    /\ Reply(r)
    /\ UNCHANGED <<user, ended>>

SessionsOf(u) == {token[t].session : t \in {t \in Tokens : token[t].user = u}}

TheirsFromLogin(t, u) == token[t].user = u /\ token[t].session = t
Theirs(t, u) == token[t].user = u

RevokeAllForUser(r) ==
    LET u == req[r].u
        write == token' = [t \in Tokens |->
                     IF Theirs(t, u) THEN Revoked(token[t]) ELSE token[t]] IN
    /\ req[r].pc = "revokeall"
    /\ \/ write /\ ended' = ended \cup SessionsOf(u)
       \/ Fails(write, UNCHANGED token) /\ UNCHANGED ended
    /\ Reply(r)
    /\ UNCHANGED <<user, access>>

-----------------------------------------------------------------------------
\* GORM's Save writes the row as it was read.  If the row has been deleted
\* since, Save inserts it again over the old one, and an active flag of FALSE
\* becomes the column default, TRUE.
GormSave(u, active) ==
    user' = [user EXCEPT ![u] = [st |-> "live", active |-> active \/ user[u].st # "live"]]

SaveUser(r) ==
    LET write == GormSave(req[r].u, req[r].active) IN
    /\ req[r].pc = "saveuser"
    /\ \/ write
       \/ Fails(write, UNCHANGED user)
    /\ Reply(r)
    /\ UNCHANGED <<token, access, ended>>

\* DELETE of a user sets deleted_at; the user's tokens are left as they are.
DeleteUser(r) ==
    LET write == user' = [user EXCEPT ![req[r].u] =
                    IF @.st = "live" THEN [@ EXCEPT !.st = "deleted"] ELSE @] IN
    /\ req[r].pc = "delete"
    /\ \/ write
       \/ Fails(write, UNCHANGED user)
    /\ Reply(r)
    /\ UNCHANGED <<token, access, ended>>

-----------------------------------------------------------------------------
Dead(row) == row.st = "revoked" \/ (row.st = "live" /\ row.expired)

\* The purge goroutine, at a tick.
PurgeExpired ==
    /\ \E t \in Tokens : Dead(token[t])
    /\ token' = [t \in Tokens |-> IF Dead(token[t]) THEN [token[t] EXCEPT !.st = "purged"]
                                                    ELSE token[t]]
    /\ UNCHANGED <<user, access, req, ended>>

\* Time passes.
RefreshExpires(t) ==
    /\ "expire" \in Events
    /\ token[t].st \in {"live", "revoked"} /\ ~token[t].expired
    /\ token' = [token EXCEPT ![t] = [@ EXCEPT !.expired = TRUE]]
    /\ UNCHANGED <<user, access, req, ended>>

AccessExpires(u) ==
    /\ u \in access
    /\ access' = access \ {u}
    /\ UNCHANGED <<user, token, req, ended>>

\* The process dies; requests in flight are lost.
Restart ==
    /\ "restart" \in Events
    /\ \E r \in Requests : req[r].pc # "idle"
    /\ req' = [r \in Requests |-> Idle]
    /\ UNCHANGED <<user, token, access, ended>>

Arrive(r) == \/ ArriveRegister(r) \/ ArriveLogin(r) \/ ArriveRefresh(r) \/ ArriveLogout(r)
             \/ ArriveForMe(r) \/ ArriveAdmin(r)

Handle(r) == \/ CreateUser(r) \/ FindToken(r) \/ FindUser(r) \/ RevokeByHash(r) \/ Issue(r)
             \/ Deliver(r) \/ RevokeAllForUser(r) \/ SaveUser(r) \/ DeleteUser(r)

Next ==
    /\ \/ \E r \in Requests : Arrive(r) \/ Handle(r)
       \/ PurgeExpired
       \/ \E t \in Tokens : RefreshExpires(t)
       \/ \E u \in Users : AccessExpires(u)
       \/ Restart
    /\ UNCHANGED env

Spec == Init /\ [][Next]_vars

-----------------------------------------------------------------------------
(***************************************************************************)
(* Properties.                                                             *)
(***************************************************************************)
Opened(s) == token[s].session = s

\* A refresh that found a token of the session valid and will not look again.
InExchange(s) ==
    \E r \in Requests : /\ req[r].op = "refresh"
                        /\ req[r].pc \in {"finduser", "revoke", "issue"}
                        /\ token[req[r].tok].session = s

Alive(s) ==
    \/ InExchange(s)
    \/ \E t \in Tokens : token[t].session = s /\ Valid(t)

\* What a client knows of the session that began with each token.
SessionStates ==
    [s \in Tokens |->
        IF Opened(s) THEN [st |-> IF Alive(s) THEN "open" ELSE "closed", owner |-> token[s].user]
                     ELSE [st |-> "none", owner |-> NoUser]]

\* Every session is opened once, belongs to one user, and once no token of it
\* is valid and no exchange is under way none ever is again, whatever logins,
\* exchanges, logouts, purges, failures and crashes interleave.
Lifecycle == INSTANCE SessionLifecycle
    WITH SessionIds <- Tokens, Owners <- Users, NoOwner <- NoUser, session <- SessionStates

LifecycleImplemented == Lifecycle!Spec

\* A token that was revoked or purged is never accepted again, and a token
\* never changes hands.
RevocationPermanent ==
    [][\A t \in Tokens :
          /\ token[t].st \in {"revoked", "purged"} => token'[t].st \in {"revoked", "purged"}
          /\ token[t].st # "none" => /\ token'[t].user = token[t].user
                                     /\ token'[t].session = token[t].session]_vars

\* Requests come one at a time.
Serial == env.load = 1

\* "issues a new token pair (rotation)": the exchange replaces the token, so a
\* session never has two tokens that are both valid.
OneTokenPerSession ==
    \A t, v \in Tokens : Valid(t) /\ Valid(v) /\ token[t].session = token[v].session => t = v

\* Rotation holds where no two requests overlap, whatever calls fail and
\* wherever the process dies.
RotationOneAtATime == Serial => OneTokenPerSession

\* "All sessions revoked": where no two requests overlap, no session of the user
\* that existed at a LogoutAll has a valid token after it.
LogoutAllFinal == Serial => \A t \in Tokens : token[t].session \in ended => ~Valid(t)

\* An account that was deactivated or deleted becomes usable again only by an
\* administrator's update that says so, where no two requests overlap.
ActivationDeliberate ==
    [][Serial => \A u \in Users : user[u].st # "absent" /\ ~Enabled(u) /\ Enabled(u)' =>
          \E r \in Requests : req[r].pc = "saveuser" /\ req[r].op = "setuser" /\ req[r].active]_vars

\* Nobody logs out and nothing goes wrong.
Quiet == Ops \cap {"logout", "logoutall"} = {} /\ Events = {}

\* No session is lost by exchanging its token, whoever else exchanges it, and
\* whatever happens to the account meanwhile: without logouts, expiry, failures
\* and crashes every session stays open.
SessionsKept == [][Quiet => \A s \in Tokens : Alive(s) => Alive(s)']_vars

\* A sign-in or exchange that has passed its look at the account.
Pending(u) ==
    \E r \in Requests : /\ req[r].u = u
                        /\ req[r].op \in {"register", "login", "demo", "refresh"}
                        /\ req[r].pc \in {"revoke", "issue", "deliver"}

LockedOut(u) == ~Enabled(u) /\ u \notin access /\ ~Pending(u)

\* A user who is disabled, whose access tokens have expired and of whom no
\* sign-in is past its look at the account stays out until enabled again, with
\* however many unrevoked refresh tokens.
LockoutHolds == [][\A u \in Users : LockedOut(u) => LockedOut(u)' \/ Enabled(u)']_vars
=============================================================================
