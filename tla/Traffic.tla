------------------------------ MODULE Traffic ------------------------------
(***************************************************************************)
(* Requests in flight and the access tokens clients make them with:        *)
(* internal/middleware/auth_middleware.go and the routes of                *)
(* cmd/server/main.go.  Access, Catalogue, Contacts and Listing extend     *)
(* this module with the handlers of their routes; Inventory puts them      *)
(* together.                                                               *)
(*                                                                         *)
(* A request slot is a record.  Its fields op, pc and by are there in      *)
(* every slot; the module of the handler adds its own.                     *)
(***************************************************************************)
EXTENDS Integers, FiniteSets

CONSTANTS
    Users,       \* user ids
    Requests,    \* slots for requests in flight at the same time
    Nobody,      \* who makes a request without an access token
    Environments \* the environments to consider

Roles == {"admin", "manager", "viewer"}

PublicOps == {"signin", "register"}
ViewerOps == {"updateme", "list", "stats"}
ManagerOps == {"create", "update", "delete", "putcontact", "delcontact", "createcat",
               "updatecat"}
AdminOps == {"delcat", "createuser", "setuser", "deluser"}
AllOps == PublicOps \cup ViewerOps \cup ManagerOps \cup AdminOps

(***************************************************************************)
(* "badinput" a body the handler refuses                                   *)
(* "db"       a database call fails and has no effect                      *)
(* "commit"   a database write takes effect but is reported as failed      *)
(* "expire"   access tokens expire                                         *)
(***************************************************************************)
AllEvents == {"badinput", "db", "commit", "expire"}

\* Columns that bodies set.
Columns == {"category", "date", "status", "role"}

\* The operations clients issue, what may go wrong, how many requests may be in
\* flight at the same time; and two bounds, how many products clients create and
\* which columns their bodies set.
Environment == [ops : SUBSET AllOps, events : SUBSET AllEvents, load : Nat,
                stock : Nat, vary : SUBSET Columns]

ASSUME TrafficAssumption ==
    /\ IsFiniteSet(Users) /\ IsFiniteSet(Requests)
    /\ Nobody \notin [user : Users, role : Roles]
    /\ Environments \subseteq Environment

VARIABLES
    held,   \* the unexpired access tokens clients hold
    req,    \* the state of each request slot
    env     \* the environment of this run

Ops == env.ops
Events == env.events
Serial == env.load = 1

\* What bodies say of a column.
Varies(column, values, otherwise) == IF column \in env.vary THEN values ELSE {otherwise}

\* The claims of an access token, which AuthRequired puts in the request's context.
Token == [user : Users, role : Roles]

Idle == [op |-> "none", pc |-> "idle", by |-> Nobody]

\* RequireRole, for the group of routes op is in.
RolesFor(op) ==
    CASE op \in AdminOps   -> {"admin"}
      [] op \in ManagerOps -> {"admin", "manager"}
      [] OTHER             -> Roles

\* A request is let through with a token of one of the roles; the token alone is
\* asked, never the account.
Callers(op) ==
    IF op \in PublicOps THEN {Nobody} ELSE {t \in held : t.role \in RolesFor(op)}

Start(r, slot) ==
    /\ req[r].pc = "idle"
    /\ slot.op \in Ops
    /\ Cardinality({q \in Requests : req[q].pc # "idle"}) < env.load
    /\ req' = [req EXCEPT ![r] = slot]

Goto(r, pc) == req' = [req EXCEPT ![r] = [@ EXCEPT !.pc = pc]]

\* The handler writes its response: the slot is free.
Reply(r) == req' = [req EXCEPT ![r] = Idle]

\* A query that is reported as failed.
QueryFails(r) == "db" \in Events /\ Reply(r)

\* A write that is reported as failed.
Fails(write, nothing) ==
    \/ "db" \in Events /\ nothing
    \/ "commit" \in Events /\ write

\* What GORM does to a row it deletes.
RowStatus == {"absent", "live", "deleted"}

SoftDeleted(row) == IF row.st = "live" THEN [row EXCEPT !.st = "deleted"] ELSE row

AccessExpires(t) ==
    /\ "expire" \in Events
    /\ t \in held
    /\ held' = held \ {t}
    /\ UNCHANGED req
=============================================================================
