------------------------------- MODULE Server -------------------------------
(***************************************************************************)
(* The life of the server processes: cmd/server/main.go over               *)
(* internal/config, internal/database and NewMinIOService, with the probes *)
(* of internal/handlers/health_handler.go.                                 *)
(*                                                                         *)
(* Several replicas share a database and a bucket.  Each loads its         *)
(* configuration, connects, migrates, looks for its bucket, seeds the      *)
(* first accounts, starts the purge and the listener, and serves until it  *)
(* is told to stop; whoever runs it starts it again.  Of what a request    *)
(* does only what others can notice is kept: that it is under way, what it *)
(* makes of the accounts, that it leaves a dead refresh token.             *)
(***************************************************************************)
EXTENDS Integers, FiniteSets

CONSTANTS
    Servers,     \* replicas
    MaxRetries,  \* attempts to connect (maxRetries, 5 in the code)
    Tables,      \* how many tables AutoMigrate creates (6 in the code)
    MaxLoad,     \* bound: requests under way in one server
    Environments

(***************************************************************************)
(* "outage"  the database cannot be reached for a while                    *)
(* "commit"  a table is created but its creation reported as failed        *)
(* "storage" MinIO cannot be reached for a while                           *)
(* "term"    SIGTERM or SIGINT                                             *)
(* "kill"    SIGKILL or a crash                                            *)
(* "port"    the port cannot be listened on                                *)
(* "manage"  administrators change, delete and add accounts                *)
(***************************************************************************)
AllEvents == {"outage", "commit", "storage", "term", "kill", "port", "manage"}

\* secret: whether JWT_SECRET is long enough; demo: whether DEMO_USER_PASSWORD is set.
Environment == [events : SUBSET AllEvents, servers : SUBSET Servers,
                secret : {"short", "long"}, demo : BOOLEAN]

ASSUME ServerAssumption ==
    /\ MaxRetries \in Nat \ {0}
    /\ Tables \in Nat \ {0}
    /\ MaxLoad \in Nat
    /\ Environments \subseteq Environment

VARIABLES
    proc,     \* the state of each server process
    dbUp,     \* whether the database can be reached
    storeUp,  \* whether MinIO can
    bucket,   \* whether the bucket exists
    schema,   \* how many tables there are
    account,  \* the rows of users: the two that are seeded and a client's
    dead,     \* whether there are revoked or expired rows in refresh_tokens
    env

vars == <<proc, dbUp, storeUp, bucket, schema, account, dead, env>>

Events == env.events

Accounts == {"admin", "demo", "client"}

\* No row, a row with another role, a row with role admin, a soft-deleted row.
Rows == {"none", "user", "admin", "deleted"}

Boots == {"config", "connect", "migrate", "createtable", "bucket", "makebucket",
          "countusers", "createadmin", "finddemo", "createdemo", "launch"}

(***************************************************************************)
(* try: the attempt to connect; table: the table to migrate; storage:      *)
(* whether minioSvc is there; open: whether the listener accepts; ready:   *)
(* the last answer to the readiness probe; load: requests under way;       *)
(* expired: Shutdown's 15 seconds have passed; purge: the purge goroutine. *)
(***************************************************************************)
Process == [pc : Boots \cup {"down", "notify", "serve", "quit", "draining"},
            try : 0..MaxRetries, table : 0..Tables, storage : BOOLEAN, open : BOOLEAN,
            ready : BOOLEAN, load : 0..MaxLoad, expired : BOOLEAN,
            purge : {"off", "idle", "due"}]

Down == [pc |-> "down", try |-> 0, table |-> 0, storage |-> FALSE, open |-> FALSE,
         ready |-> FALSE, load |-> 0, expired |-> FALSE, purge |-> "off"]

TypeOK ==
    /\ proc \in [Servers -> Process]
    /\ dbUp \in BOOLEAN
    /\ storeUp \in BOOLEAN
    /\ bucket \in BOOLEAN
    /\ schema \in 0..Tables
    /\ account \in [Accounts -> Rows]
    /\ dead \in BOOLEAN
    /\ env \in Environments

\* The database and the bucket are empty.
Init ==
    /\ env \in Environments
    /\ proc = [s \in Servers |-> Down]
    /\ dbUp = TRUE /\ storeUp = TRUE
    /\ bucket = FALSE
    /\ schema = 0
    /\ account = [x \in Accounts |-> "none"]
    /\ dead = FALSE

Goto(s, pc) == proc' = [proc EXCEPT ![s] = [@ EXCEPT !.pc = pc]]

\* os.Exit, the end of main, or an end from outside: all that is in memory is lost.
Exit(s) == proc' = [proc EXCEPT ![s] = Down]

-----------------------------------------------------------------------------
(***************************************************************************)
(* Boot.                                                                   *)
(***************************************************************************)
Boot(s) ==
    /\ s \in env.servers
    /\ proc[s].pc = "down"
    /\ Goto(s, "config")
    /\ UNCHANGED <<bucket, schema, account, dead>>

LoadConfig(s) ==
    /\ proc[s].pc = "config"
    /\ IF env.secret = "short" THEN Exit(s)
       ELSE proc' = [proc EXCEPT ![s] = [@ EXCEPT !.pc = "connect", !.try = 1]]
    /\ UNCHANGED <<bucket, schema, account, dead>>

MoreTriesOneTooMany(try) == try <= MaxRetries
MoreTries(try) == try < MaxRetries

Connect(s) ==
    /\ proc[s].pc = "connect"
    /\ \/ dbUp /\ proc' = [proc EXCEPT ![s] = [@ EXCEPT !.pc = "migrate", !.try = 0]]
       \/ ~dbUp /\ IF MoreTries(proc[s].try)
                   THEN proc' = [proc EXCEPT ![s] = [@ EXCEPT !.try = proc[s].try + 1]]
                   ELSE Exit(s)
    /\ UNCHANGED <<bucket, schema, account, dead>>

\* AutoMigrate asks for each table whether it is there; that one of the statements
\* after it fails is only logged.
FindTable(s) ==
    LET table == proc[s].table IN
    /\ proc[s].pc = "migrate"
    /\ \/ table = Tables /\ Goto(s, "bucket")
       \/ table < Tables /\ ~dbUp /\ Exit(s)
       \/ /\ dbUp /\ table < schema
          /\ proc' = [proc EXCEPT ![s] = [@ EXCEPT !.table = table + 1]]
       \/ dbUp /\ table < Tables /\ table >= schema /\ Goto(s, "createtable")
    /\ UNCHANGED <<bucket, schema, account, dead>>

\* The table may be there by now: CREATE TABLE then fails, and so does the boot.
CreateTable(s) ==
    LET table == proc[s].table
        write == dbUp /\ schema = table /\ schema' = schema + 1 IN
    /\ proc[s].pc = "createtable"
    /\ \/ write /\ proc' = [proc EXCEPT ![s] = [@ EXCEPT !.pc = "migrate", !.table = table + 1]]
       \/ (~dbUp \/ schema # table) /\ UNCHANGED schema /\ Exit(s)
       \/ "commit" \in Events /\ write /\ Exit(s)
    /\ UNCHANGED <<bucket, account, dead>>

ThenDemoFirst == [storage |-> "finddemo", admin |-> "launch", demo |-> "countusers"]
\* main goes on from the storage to seedAdmin, to seedDemoUser, to its goroutines.
Then == [storage |-> "countusers", admin |-> "finddemo", demo |-> "launch"]

WithStorage(s, has) ==
    proc' = [proc EXCEPT ![s] = [@ EXCEPT !.pc = Then.storage, !.storage = has]]

WithoutStorageFatal(s) == Exit(s)
\* NewMinIOService has failed: main logs it and goes on.
WithoutStorage(s) == WithStorage(s, FALSE)

CheckBucket(s) ==
    /\ proc[s].pc = "bucket"
    /\ \/ storeUp /\ bucket /\ WithStorage(s, TRUE)
       \/ storeUp /\ ~bucket /\ Goto(s, "makebucket")
       \/ ~storeUp /\ WithoutStorage(s)
    /\ UNCHANGED <<bucket, schema, account, dead>>

\* Another server may have made the bucket: MakeBucket then fails, and this one
\* goes on without storage.
MakeBucket(s) ==
    /\ proc[s].pc = "makebucket"
    /\ \/ storeUp /\ ~bucket /\ bucket' = TRUE /\ WithStorage(s, TRUE)
       \/ (~storeUp \/ bucket) /\ UNCHANGED bucket /\ WithoutStorage(s)
    /\ UNCHANGED <<schema, account, dead>>

Live(x) == account[x] \in {"user", "admin"}

\* seedAdmin: if the query fails, as if there were users.
CountUsers(s) ==
    /\ proc[s].pc = "countusers"
    /\ Goto(s, IF dbUp /\ (\A x \in Accounts : ~Live(x)) THEN "createadmin" ELSE Then.admin)
    /\ UNCHANGED <<bucket, schema, account, dead>>

\* An administrator may have given that row another name and e-mail.
Renamed(x) == "manage" \in Events /\ account[x] # "none"

\* Where a row has the name, a deleted one too, the insertion fails and nothing
\* comes of it, as when the database is out.
Seed(x, role) ==
    \/ /\ dbUp /\ (account[x] = "none" \/ Renamed(x))
       /\ account' = [account EXCEPT ![x] = role]
    \/ (~dbUp \/ account[x] # "none") /\ UNCHANGED account

CreateAdmin(s) ==
    /\ proc[s].pc = "createadmin"
    /\ Seed("admin", "admin")
    /\ Goto(s, Then.admin)
    /\ UNCHANGED <<bucket, schema, dead>>

\* seedDemoUser: if the query fails, as if there were no such user.
FindDemo(s) ==
    /\ proc[s].pc = "finddemo"
    /\ \/ env.demo /\ (~dbUp \/ ~Live("demo") \/ Renamed("demo")) /\ Goto(s, "createdemo")
       \/ (env.demo => dbUp /\ Live("demo")) /\ Goto(s, Then.demo)
    /\ UNCHANGED <<bucket, schema, account, dead>>

CreateDemo(s) ==
    /\ proc[s].pc = "createdemo"
    /\ Seed("demo", "user")
    /\ Goto(s, Then.demo)
    /\ UNCHANGED <<bucket, schema, dead>>

\* The purge goroutine and the listener's are started.
Launch(s) ==
    /\ proc[s].pc = "launch"
    /\ proc' = [proc EXCEPT ![s] = [@ EXCEPT !.pc = "notify", !.purge = "idle"]]
    /\ UNCHANGED <<bucket, schema, account, dead>>

\* From here on a signal no longer ends the process at once.
Notify(s) ==
    /\ proc[s].pc = "notify"
    /\ Goto(s, "serve")
    /\ UNCHANGED <<bucket, schema, account, dead>>

-----------------------------------------------------------------------------
(***************************************************************************)
(* Service.                                                                *)
(***************************************************************************)
\* The listener's goroutine, which may get there before Notify or after it.
Listen(s) ==
    /\ proc[s].pc \in {"notify", "serve", "quit"}
    /\ ~proc[s].open
    /\ \/ proc' = [proc EXCEPT ![s] = [@ EXCEPT !.open = TRUE]]
       \/ "port" \in Events /\ Exit(s)
    /\ UNCHANGED <<bucket, schema, account, dead>>

Accept(s) ==
    /\ proc[s].open
    /\ proc[s].load < MaxLoad
    /\ proc' = [proc EXCEPT ![s] = [@ EXCEPT !.load = proc[s].load + 1]]
    /\ UNCHANGED <<bucket, schema, account, dead>>

\* Who holds an administrator's token, which outlives the role (its expiry is left
\* out), may create accounts, change any of them, bring one back that another is
\* deleting, and delete any: nothing asks whether it is the last administrator's.
Manage ==
    /\ "manage" \in Events
    /\ account["admin"] # "none"
    /\ \E x \in Accounts, row \in Rows \ {"none"} :
          /\ x = "client" \/ account[x] # "none"
          /\ account' = [account EXCEPT ![x] = row]

Register == account["client"] = "none" /\ account' = [account EXCEPT !["client"] = "user"]

\* A request ends; it has changed the accounts, or left a refresh token revoked.
Finish(s) ==
    /\ proc[s].load > 0
    /\ proc' = [proc EXCEPT ![s] = [@ EXCEPT !.load = proc[s].load - 1]]
    /\ \/ UNCHANGED <<account, dead>>
       \/ dbUp /\ (Register \/ Manage) /\ UNCHANGED dead
       \/ dbUp /\ dead' = TRUE /\ UNCHANGED account
    /\ UNCHANGED <<bucket, schema>>

\* /health: that MinIO is down, or was when the server booted, is no reason for a 503.
Healthy(s) == dbUp

\* The readiness probe.  The liveness probe, /livez, is always answered with 200.
Probe(s) ==
    /\ proc[s].open
    /\ proc' = [proc EXCEPT ![s] = [@ EXCEPT !.ready = Healthy(s)]]
    /\ UNCHANGED <<bucket, schema, account, dead>>

\* 24 hours have passed since the process started its ticker, or since the last tick.
Tick(s) ==
    /\ proc[s].purge = "idle"
    /\ proc' = [proc EXCEPT ![s] = [@ EXCEPT !.purge = "due"]]
    /\ UNCHANGED <<bucket, schema, account, dead>>

AfterFailureGiveUp == "off"
\* An error of PurgeExpired is logged and the loop goes on.
AfterFailure == "idle"

Purge(s) ==
    /\ proc[s].purge = "due"
    /\ dead' = (dead /\ ~dbUp)
    /\ proc' = [proc EXCEPT ![s] = [@ EXCEPT !.purge = IF dbUp THEN "idle" ELSE AfterFailure]]
    /\ UNCHANGED <<bucket, schema, account>>

-----------------------------------------------------------------------------
(***************************************************************************)
(* The end.                                                                *)
(***************************************************************************)
\* A signal ends the process unless Notify has been called; a second one has no effect.
Term(s) ==
    /\ "term" \in Events
    /\ \/ proc[s].pc = "serve" /\ Goto(s, "quit")
       \/ proc[s].pc \in Boots \cup {"notify"} /\ Exit(s)
    /\ UNCHANGED <<bucket, schema, account, dead>>

Kill(s) ==
    /\ "kill" \in Events
    /\ proc[s].pc # "down"
    /\ Exit(s)
    /\ UNCHANGED <<bucket, schema, account, dead>>

\* Shutdown closes the listener and then waits for the requests under way.
Shutdown(s) ==
    /\ proc[s].pc = "quit"
    /\ proc' = [proc EXCEPT ![s] = [@ EXCEPT !.pc = "draining", !.open = FALSE]]
    /\ UNCHANGED <<bucket, schema, account, dead>>

DeadlineNever(s) == FALSE /\ UNCHANGED <<proc, bucket, schema, account, dead>>
\* The context given to Shutdown is done after 15 seconds.
Deadline(s) ==
    /\ proc[s].pc = "draining"
    /\ proc' = [proc EXCEPT ![s] = [@ EXCEPT !.expired = TRUE]]
    /\ UNCHANGED <<bucket, schema, account, dead>>

\* main returns; requests still under way are cut off.
Return(s) ==
    /\ proc[s].pc = "draining"
    /\ proc[s].load = 0 \/ proc[s].expired
    /\ Exit(s)
    /\ UNCHANGED <<bucket, schema, account, dead>>

-----------------------------------------------------------------------------
\* The main goroutine's own steps: one is enabled wherever it does not wait.
Main(s) ==
    \/ LoadConfig(s) \/ Connect(s) \/ FindTable(s) \/ CreateTable(s)
    \/ CheckBucket(s) \/ MakeBucket(s)
    \/ CountUsers(s) \/ CreateAdmin(s) \/ FindDemo(s) \/ CreateDemo(s)
    \/ Launch(s) \/ Notify(s) \/ Shutdown(s) \/ Return(s)

Step(s) ==
    \/ Boot(s) \/ Main(s) \/ Listen(s) \/ Accept(s) \/ Finish(s) \/ Probe(s)
    \/ Tick(s) \/ Purge(s) \/ Term(s) \/ Kill(s) \/ Deadline(s)

\* What the servers depend on comes and goes.
Outage ==
    /\ \/ "outage" \in Events /\ dbUp' = ~dbUp /\ UNCHANGED storeUp
       \/ "storage" \in Events /\ storeUp' = ~storeUp /\ UNCHANGED dbUp
    /\ UNCHANGED <<proc, bucket, schema, account, dead>>

Next ==
    /\ \/ (\E s \in Servers : Step(s)) /\ UNCHANGED <<dbUp, storeUp>>
       \/ Outage
    /\ UNCHANGED env

Spec == Init /\ [][Next]_vars

Calm == UNCHANGED <<dbUp, storeUp, env>>

\* Goroutines and timers get their turn, a process that has ended is started
\* again; requests need never end, outages neither.
FairSpec ==
    /\ Spec
    /\ \A s \in Servers :
          /\ WF_vars(Boot(s) /\ Calm)
          /\ WF_vars(Main(s) /\ Calm)
          /\ WF_vars(Listen(s) /\ Calm)
          /\ WF_vars(Tick(s) /\ Calm)
          /\ WF_vars(Purge(s) /\ Calm)
          /\ WF_vars(Deadline(s) /\ Calm)

-----------------------------------------------------------------------------
\* The administrator has been seeded, and is one still unless administrators decide.
AdminSeeded ==
    /\ account["admin"] # "none"
    /\ "manage" \notin Events => account["admin"] = "admin"

\* "Seed default admin on first run": nobody is served before an administrator has
\* been seeded, and none is lost but by administrators' requests, though several
\* servers seed at once, are killed between any two steps of it and clients register
\* beside it, while the database answers.  (An administrator can delete or demote
\* the last one; no boot then need seed another.)
ServingHasAdmin ==
    "outage" \notin Events => \A s \in Servers : proc[s].open => AdminSeeded

\* Nothing ends a server for good.
Undisturbed == Events \cap {"term", "kill", "port"} = {} /\ env.secret = "long"

\* "MinIO — graceful degradation": when the database stays up, every server gets to
\* serve and goes on, however MinIO comes and goes, and though servers that boot
\* together fail each other's migrations and buckets.
EventuallyServing ==
    Undisturbed /\ <>[]dbUp => <>[](\A s \in env.servers : proc[s].open)

\* /health answers 200 for "All dependencies healthy", 503 for "One or more
\* dependencies down".
ReadyMeansHealthy ==
    [][\A s \in Servers : proc'[s].ready /\ ~proc[s].ready =>
          dbUp /\ storeUp /\ proc[s].storage]_vars

\* A server that has been told to stop ends, however long its requests take.
StopTerminates ==
    \A s \in Servers : proc[s].pc \in {"quit", "draining"} ~> proc[s].pc = "down"

\* Dead refresh tokens do not stay while some server stays up and the database
\* does from some time on, though purges failed before.
TokensPurged ==
    (\E s \in Servers : <>[](proc[s].pc = "serve")) /\ <>[]dbUp => []<>(~dead)
=============================================================================
