------------------------------- MODULE Access -------------------------------
(***************************************************************************)
(* Roles: the role of an account, the role an access token was issued      *)
(* with, and the handlers that move one into the other                     *)
(* (internal/handlers/auth_handler.go, user_handler.go,                    *)
(* internal/services/auth_service.go).                                     *)
(*                                                                         *)
(* Sessions has the rest of an account's life; login, exchange and demo,   *)
(* which all read the account and then issue a token with the role they    *)
(* read, are one operation here, "signin".                                 *)
(***************************************************************************)
EXTENDS Traffic

CONSTANT Admin   \* the administrator seeded at the first boot

ASSUME AccessAssumption == Admin \in Users

VARIABLE account   \* rows of table users: status and role

\* "none": an absent row's; "keep": a body that names no role.
Account == [st : RowStatus, role : Roles \cup {"none"}]

AccountOps == {"signin", "register", "updateme", "createuser", "setuser", "deluser"}

\* role: the one asked for, then the one of the user in memory.
AccountRequest ==
    [op : AccountOps,
     pc : {"finduser", "deliver", "saveuser", "createuser", "deleteuser"},
     by : Token \cup {Nobody}, user : Users, role : Roles \cup {"keep"}]

AccountSlot(op, pc, by, u, role) ==
    [op |-> op, pc |-> pc, by |-> by, user |-> u, role |-> role]

AccessInit ==
    /\ account = [u \in Users |-> IF u = Admin THEN [st |-> "live", role |-> "admin"]
                                               ELSE [st |-> "absent", role |-> "none"]]
    /\ held = {[user |-> Admin, role |-> "admin"]}

Known(u) == account[u].st # "absent"

ArriveSignIn(r) ==
    /\ \E u \in Users :
          \/ Known(u) /\ Start(r, AccountSlot("signin", "finduser", Nobody, u, "keep"))
          \/ ~Known(u) /\ Start(r, AccountSlot("register", "createuser", Nobody, u, "viewer"))
    /\ UNCHANGED <<account, held>>

ArriveUpdateMe(r) ==
    /\ \E t \in Callers("updateme") :
          Start(r, AccountSlot("updateme", "finduser", t, t.user, "keep"))
    /\ UNCHANGED <<account, held>>

ArriveAdmin(r) ==
    /\ \E t \in Callers("createuser"), u \in Users :
          \/ \E role \in Varies("role", Roles, "manager") :
                ~Known(u) /\ Start(r, AccountSlot("createuser", "createuser", t, u, role))
          \/ \E role \in Varies("role", Roles, "manager") \cup {"keep"} :
                Known(u) /\ Start(r, AccountSlot("setuser", "finduser", t, u, role))
          \/ Known(u) /\ Start(r, AccountSlot("deluser", "deleteuser", t, u, "keep"))
    /\ UNCHANGED <<account, held>>

Write(u, role) == account' = [account EXCEPT ![u] = [st |-> "live", role |-> role]]

\* Register goes on to log the new user in.  A name may be another row's, deleted
\* ones included.
CreateAccount(r) ==
    LET u == req[r].user
        write == ~Known(u) /\ Write(u, req[r].role) IN
    /\ req[r].pc = "createuser"
    /\ \/ /\ write
          /\ IF req[r].op = "register"
             THEN req' = [req EXCEPT ![r] = [@ EXCEPT !.pc = "finduser", !.role = "keep"]]
             ELSE Reply(r)
       \/ Fails(write, UNCHANGED account) /\ Reply(r)
       \/ Reply(r) /\ UNCHANGED account
    /\ UNCHANGED held

\* Where a handler goes on when it has found its user.
AfterUser(op) == IF op \in {"signin", "register"} THEN "deliver" ELSE "saveuser"

LiveAccountUnscoped(u) == Known(u)
LiveAccount(u) == account[u].st = "live"

RoleUnresolved(r) == req[r].role
RoleDefaulted(r) == IF req[r].role = "keep" THEN "viewer" ELSE req[r].role
\* The role of the user in memory: as read, unless an administrator asks for another.
RoleInHand(r) ==
    IF req[r].role = "keep" THEN account[req[r].user].role ELSE req[r].role

FindAccount(r) ==
    /\ req[r].pc = "finduser"
    /\ \/ /\ LiveAccount(req[r].user)
          /\ req' = [req EXCEPT ![r] = [@ EXCEPT !.pc = AfterUser(req[r].op),
                                                 !.role = RoleInHand(r)]]
       \/ ~LiveAccount(req[r].user) /\ Reply(r)
       \/ "badinput" \in Events /\ Reply(r)
       \/ QueryFails(r)
    /\ UNCHANGED <<account, held>>

\* The token carries the role of the user in memory.
Deliver(r) ==
    /\ req[r].pc = "deliver"
    /\ \/ held' = held \cup {[user |-> req[r].user, role |-> req[r].role]}
       \/ "db" \in Events /\ UNCHANGED held
    /\ Reply(r)
    /\ UNCHANGED account

\* Save writes the row as it is in memory, and inserts it again if it was deleted.
SaveAccount(r) ==
    LET write == Write(req[r].user, req[r].role) IN
    /\ req[r].pc = "saveuser"
    /\ write \/ Fails(write, UNCHANGED account) \/ UNCHANGED account
    /\ Reply(r)
    /\ UNCHANGED held

DeleteAccount(r) ==
    LET write == account' = [account EXCEPT ![req[r].user] = SoftDeleted(@)] IN
    /\ req[r].pc = "deleteuser"
    /\ write \/ Fails(write, UNCHANGED account)
    /\ Reply(r)
    /\ UNCHANGED held

ArriveAccount(r) == ArriveSignIn(r) \/ ArriveUpdateMe(r) \/ ArriveAdmin(r)

HandleAccount(r) == \/ CreateAccount(r) \/ FindAccount(r) \/ Deliver(r) \/ SaveAccount(r)
                    \/ DeleteAccount(r)
=============================================================================
