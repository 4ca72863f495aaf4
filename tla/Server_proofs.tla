--------------------------- MODULE Server_proofs ---------------------------
(***************************************************************************)
(* Proofs about Server, for any number of servers, tables and attempts and *)
(* any environments: types, and that nobody is served before an            *)
(* administrator has been seeded.                                          *)
(***************************************************************************)
EXTENDS Server, TLAPS

\* Where a server is once seedAdmin has returned.
Seeded == {"finddemo", "createdemo", "launch", "notify", "serve", "quit", "draining"}

\* Where it has a listener.
Listening == {"notify", "serve", "quit"}

\* ServingHasAdmin is not inductive: what a server that boots finds in the table
\* depends on what others put there, and clients register with those that serve.
\* While the database answers: where there is any row the administrator has been
\* seeded, from seedAdmin on it has been, and only a server past it listens or has
\* requests.
AdminFirst ==
    "outage" \notin Events =>
        /\ dbUp
        /\ (\E x \in Accounts : account[x] # "none") => AdminSeeded
        /\ \A s \in Servers :
              /\ proc[s].pc \in Seeded => AdminSeeded
              /\ proc[s].open => proc[s].pc \in Listening
              /\ proc[s].load > 0 => proc[s].pc \in Listening \cup {"draining"}

-----------------------------------------------------------------------------
\* A process that ends is a process; its fields are what they were at the start.
LEMMA DownIsProcess == Down \in Process
  BY ServerAssumption DEF Down, Process, Boots

PCs == Boots \cup {"down", "notify", "serve", "quit", "draining"}

\* A process with some of its fields replaced is a process.
LEMMA Fields ==
    ASSUME NEW p \in Process
    PROVE  /\ \A pc \in PCs : [p EXCEPT !.pc = pc] \in Process
           /\ \A pc \in PCs, n \in 0..MaxRetries : [p EXCEPT !.pc = pc, !.try = n] \in Process
           /\ \A n \in 0..MaxRetries : [p EXCEPT !.try = n] \in Process
           /\ \A n \in 0..Tables : [p EXCEPT !.table = n] \in Process
           /\ \A pc \in PCs, n \in 0..Tables : [p EXCEPT !.pc = pc, !.table = n] \in Process
           /\ \A pc \in PCs, x \in BOOLEAN : [p EXCEPT !.pc = pc, !.storage = x] \in Process
           /\ \A pc \in PCs, x \in BOOLEAN : [p EXCEPT !.pc = pc, !.open = x] \in Process
           /\ \A x \in BOOLEAN : /\ [p EXCEPT !.open = x] \in Process
                                 /\ [p EXCEPT !.ready = x] \in Process
                                 /\ [p EXCEPT !.expired = x] \in Process
           /\ \A n \in 0..MaxLoad : [p EXCEPT !.load = n] \in Process
           /\ \A pc \in PCs, q \in {"off", "idle", "due"} :
                 [p EXCEPT !.pc = pc, !.purge = q] \in Process
           /\ \A q \in {"off", "idle", "due"} : [p EXCEPT !.purge = q] \in Process
  BY DEF Process, PCs

\* The names of the places main can be at are names of places.
LEMMA Places == /\ Boots \subseteq PCs
                /\ {"down", "notify", "serve", "quit", "draining"} \subseteq PCs
                /\ {"config", "connect", "migrate", "createtable", "bucket", "makebucket",
                    "countusers", "createadmin", "finddemo", "createdemo", "launch"} \subseteq PCs
  BY DEF PCs, Boots

\* A server that creates a table has one to create.
Migrating == \A s \in Servers : proc[s].pc = "createtable" => proc[s].table < Tables

\* One process becomes another process.
Becomes(s) == \E p \in Process : proc' = [proc EXCEPT ![s] = p]

\* Every step of one server makes a process of it.
LEMMA StepTypes ==
    ASSUME TypeOK, Migrating, NEW s \in Servers, Step(s)
    PROVE  Becomes(s)
<1>1. proc[s] \in Process
  BY DEF TypeOK
<1>2. /\ 0 \in 0..MaxRetries /\ 1 \in 0..MaxRetries
      /\ proc[s].table \in 0..Tables /\ proc[s].load \in 0..MaxLoad
      /\ proc[s].try \in 0..MaxRetries
  BY <1>1, ServerAssumption DEF Process
<1>e. ASSUME Exit(s) PROVE Becomes(s)
  BY <1>e, DownIsProcess DEF Exit, Becomes
<1>g. ASSUME NEW pc \in PCs, Goto(s, pc) PROVE Becomes(s)
  BY <1>1, <1>g, Fields DEF Goto, Becomes
<1>w. ASSUME NEW has \in BOOLEAN, WithStorage(s, has) PROVE Becomes(s)
  <2>1. Then.storage \in PCs
    BY Places DEF Then
  <2> QED BY <1>1, <1>w, <2>1, Fields DEF WithStorage, Becomes
<1>3. CASE Boot(s)
  BY <1>3, <1>g, Places DEF Boot
<1>4. CASE LoadConfig(s)
  BY <1>1, <1>2, <1>4, <1>e, Fields, Places DEF LoadConfig, Becomes
<1>5. CASE Connect(s)
  <2>1. CASE dbUp /\ proc' = [proc EXCEPT ![s] = [@ EXCEPT !.pc = "migrate", !.try = 0]]
    BY <1>1, <1>2, <2>1, Fields, Places DEF Becomes
  <2>2. CASE /\ MoreTries(proc[s].try)
             /\ proc' = [proc EXCEPT ![s] = [@ EXCEPT !.try = proc[s].try + 1]]
    <3>1. proc[s].try + 1 \in 0..MaxRetries
      BY <1>2, <2>2, ServerAssumption DEF MoreTries
    <3>2. [proc[s] EXCEPT !.try = proc[s].try + 1] \in Process
      BY <1>1, <3>1, Fields
    <3> QED BY <2>2, <3>2 DEF Becomes
  <2>3. CASE Exit(s)
    BY <1>e, <2>3
  <2> QED BY <1>5, <2>1, <2>2, <2>3 DEF Connect
<1>6. CASE FindTable(s)
  <2>1. CASE /\ proc[s].table < schema
             /\ proc' = [proc EXCEPT ![s] = [@ EXCEPT !.table = proc[s].table + 1]]
    <3>1. proc[s].table + 1 \in 0..Tables
      BY <1>2, <2>1, ServerAssumption DEF TypeOK
    <3> QED BY <1>1, <2>1, <3>1, Fields DEF Becomes
  <2>2. CASE Exit(s) \/ Goto(s, "bucket") \/ Goto(s, "createtable")
    BY <1>e, <1>g, <2>2, Places
  <2> QED BY <1>6, <2>1, <2>2 DEF FindTable
<1>7. CASE CreateTable(s)
  <2>1. proc[s].table + 1 \in 0..Tables
    BY <1>2, <1>7, ServerAssumption DEF CreateTable, Migrating
  <2>2. CASE proc' = [proc EXCEPT ![s] = [@ EXCEPT !.pc = "migrate",
                                                   !.table = proc[s].table + 1]]
    BY <1>1, <2>1, <2>2, Fields, Places DEF Becomes
  <2>3. CASE Exit(s)
    BY <1>e, <2>3
  <2> QED BY <1>7, <2>2, <2>3 DEF CreateTable
<1>8. CASE CheckBucket(s)
  BY <1>8, <1>g, <1>w, Places DEF CheckBucket, WithoutStorage
<1>9. CASE MakeBucket(s)
  BY <1>9, <1>w DEF MakeBucket, WithoutStorage
<1>10. CASE CountUsers(s) \/ CreateAdmin(s) \/ FindDemo(s) \/ CreateDemo(s)
  BY <1>10, <1>g, Places DEF CountUsers, CreateAdmin, FindDemo, CreateDemo, Then
<1>11. CASE Launch(s)
  BY <1>1, <1>11, Fields, Places DEF Launch, Becomes
<1>12. CASE Notify(s) \/ Term(s) \/ Kill(s) \/ Return(s)
  BY <1>12, <1>e, <1>g, Places DEF Notify, Term, Kill, Return
<1>13. CASE Listen(s)
  BY <1>1, <1>13, <1>e, Fields DEF Listen, Becomes
<1>14. CASE Accept(s)
  <2>1. proc[s].load + 1 \in 0..MaxLoad
    BY <1>2, <1>14, ServerAssumption DEF Accept
  <2>2. [proc[s] EXCEPT !.load = proc[s].load + 1] \in Process
    BY <1>1, <2>1, Fields
  <2> QED BY <1>14, <2>2 DEF Accept, Becomes
<1>15. CASE Finish(s)
  <2>1. proc[s].load - 1 \in 0..MaxLoad
    BY <1>2, <1>15, ServerAssumption DEF Finish
  <2>2. [proc[s] EXCEPT !.load = proc[s].load - 1] \in Process
    BY <1>1, <2>1, Fields
  <2> QED BY <1>15, <2>2 DEF Finish, Becomes
<1>16. CASE Probe(s)
  <2>1. Healthy(s) \in BOOLEAN
    BY DEF Healthy, TypeOK
  <2> QED BY <1>1, <1>16, <2>1, Fields DEF Probe, Becomes
<1>17. CASE Tick(s)
  BY <1>1, <1>17, Fields DEF Tick, Becomes
<1>18. CASE Purge(s)
  <2>1. (IF dbUp THEN "idle" ELSE AfterFailure) \in {"off", "idle", "due"}
    BY DEF AfterFailure
  <2> QED BY <1>1, <1>18, <2>1, Fields DEF Purge, Becomes
<1>19. CASE Shutdown(s)
  BY <1>1, <1>19, Fields, Places DEF Shutdown, Becomes
<1>20. CASE Deadline(s)
  BY <1>1, <1>20, Fields DEF Deadline, Becomes
<1> QED
  BY <1>3, <1>4, <1>5, <1>6, <1>7, <1>8, <1>9, <1>10, <1>11, <1>12, <1>13, <1>14, <1>15,
     <1>16, <1>17, <1>18, <1>19, <1>20 DEF Step, Main

\* Nor does it take any other variable out of its type, or start a migration that
\* has no table left.
LEMMA StepTypesRest ==
    ASSUME TypeOK, Migrating, NEW s \in Servers, Step(s)
    PROVE  /\ bucket' \in BOOLEAN /\ dead' \in BOOLEAN
           /\ account' \in [Accounts -> Rows]
           /\ schema' \in 0..Tables
           /\ proc'[s].pc = "createtable" => proc'[s].table < Tables
<1>1. /\ proc[s].table \in 0..Tables /\ proc[s] \in Process
      /\ schema \in 0..Tables
      /\ proc[s].pc = "createtable" => proc[s].table < Tables
  BY DEF TypeOK, Process, Migrating
<1>2. bucket' \in BOOLEAN
  BY DEF TypeOK, Step, Main, Boot, LoadConfig, Connect, FindTable, CreateTable, CheckBucket,
         MakeBucket, CountUsers, CreateAdmin, FindDemo, CreateDemo, Launch, Notify, Listen,
         Accept, Finish, Probe, Tick, Purge, Term, Kill, Shutdown, Deadline, Return
<1>3. dead' \in BOOLEAN
  BY DEF TypeOK, Step, Main, Boot, LoadConfig, Connect, FindTable, CreateTable, CheckBucket,
         MakeBucket, CountUsers, CreateAdmin, FindDemo, CreateDemo, Launch, Notify, Listen,
         Accept, Finish, Probe, Tick, Purge, Term, Kill, Shutdown, Deadline, Return
<1>4. account' \in [Accounts -> Rows]
  BY DEF TypeOK, Accounts, Rows, Seed, Register, Manage, Step, Main, Boot, LoadConfig, Connect, FindTable,
         CreateTable, CheckBucket, MakeBucket, CountUsers, CreateAdmin, FindDemo,
         CreateDemo, Launch, Notify, Listen, Accept, Finish, Probe, Tick, Purge, Term, Kill,
         Shutdown, Deadline, Return
<1>5. schema' \in 0..Tables
  <2>1. CASE CreateTable(s)
    BY <1>1, <2>1, ServerAssumption DEF CreateTable
  <2>2. CASE ~CreateTable(s)
    <3>1. schema' = schema
      BY <2>2 DEF Step, Main, Boot, LoadConfig, Connect, FindTable, CheckBucket,
         MakeBucket, CountUsers, CreateAdmin, FindDemo, CreateDemo, Launch, Notify, Listen,
         Accept, Finish, Probe, Tick, Purge, Term, Kill, Shutdown, Deadline, Return
    <3> QED BY <1>1, <3>1
  <2> QED BY <2>1, <2>2
<1>6. proc'[s].pc = "createtable" => proc'[s].table < Tables
  <2> DEFINE Elsewhere == proc'[s].pc # "createtable"
             Same == proc'[s].pc = proc[s].pc /\ proc'[s].table = proc[s].table
  <2>1. proc \in [Servers -> Process]
    BY DEF TypeOK
  <2>e. Exit(s) => Elsewhere
    BY <2>1 DEF Exit, Down
  <2>g. \A pc \in PCs : Goto(s, pc) => proc'[s].pc = pc /\ proc'[s].table = proc[s].table
    BY <1>1, <2>1 DEF Goto, Process
  <2>w. /\ \A has \in BOOLEAN : WithStorage(s, has) => Elsewhere
        /\ WithoutStorage(s) => Elsewhere
    BY <1>1, <2>1 DEF WithStorage, WithoutStorage, Then, Process
  <2>2. CASE FindTable(s)
    <3>1. CASE Goto(s, "createtable") /\ proc[s].table < Tables
      BY <2>g, <3>1, Places
    <3>2. CASE Goto(s, "bucket") \/ Exit(s)
      BY <2>e, <2>g, <3>2, Places
    <3>3. CASE /\ proc[s].pc = "migrate"
               /\ proc' = [proc EXCEPT ![s] = [@ EXCEPT !.table = proc[s].table + 1]]
      BY <1>1, <2>1, <3>3 DEF Process
    <3> QED BY <2>2, <3>1, <3>2, <3>3 DEF FindTable
  <2>3. CASE CreateTable(s)
    <3>1. CASE proc' = [proc EXCEPT ![s] = [@ EXCEPT !.pc = "migrate",
                                                     !.table = proc[s].table + 1]]
      BY <1>1, <2>1, <3>1 DEF Process
    <3> QED BY <2>3, <2>e, <3>1 DEF CreateTable
  <2>4. CASE \/ Boot(s) \/ CheckBucket(s) \/ MakeBucket(s) \/ CountUsers(s) \/ CreateAdmin(s)
             \/ FindDemo(s) \/ CreateDemo(s) \/ Notify(s) \/ Term(s) \/ Kill(s) \/ Return(s)
    BY <2>4, <2>e, <2>g, <2>w, Places
       DEF Boot, CheckBucket, MakeBucket, CountUsers, CreateAdmin, FindDemo, CreateDemo, Then,
           Notify, Term, Kill, Return
  <2>5. CASE LoadConfig(s) \/ Connect(s) \/ Launch(s) \/ Shutdown(s)
    <3>1. Elsewhere \/ Same
      <4>1. CASE LoadConfig(s)
        BY <1>1, <2>1, <2>e, <4>1 DEF LoadConfig, Process
      <4>2. CASE Connect(s)
        BY <1>1, <2>1, <2>e, <4>2 DEF Connect, Process
      <4>3. CASE Launch(s)
        BY <1>1, <2>1, <4>3 DEF Launch, Process
      <4>4. CASE Shutdown(s)
        BY <1>1, <2>1, <4>4 DEF Shutdown, Process
      <4> QED BY <2>5, <4>1, <4>2, <4>3, <4>4
    <3> QED BY <1>1, <3>1
  <2>6. CASE \/ Listen(s) \/ Accept(s) \/ Finish(s) \/ Probe(s) \/ Tick(s) \/ Purge(s)
             \/ Deadline(s)
    <3>1. Elsewhere \/ Same
      BY <1>1, <2>1, <2>6, <2>e
         DEF Listen, Accept, Finish, Probe, Tick, Purge, Deadline, Process
    <3> QED BY <1>1, <3>1
  <2> QED BY <2>2, <2>3, <2>4, <2>5, <2>6 DEF Step, Main
<1> QED BY <1>2, <1>3, <1>4, <1>5, <1>6

\* Every variable of Server keeps its type, whatever fails, ends or comes back.
LEMMA TypesKept == TypeOK /\ Migrating /\ [Next]_vars => (TypeOK /\ Migrating)'
<1> SUFFICES ASSUME TypeOK, Migrating, [Next]_vars PROVE (TypeOK /\ Migrating)'
  OBVIOUS
<1>1. CASE UNCHANGED vars
  BY <1>1 DEF TypeOK, Migrating, vars
<1>2. CASE Outage /\ UNCHANGED env
  BY <1>2 DEF Outage, TypeOK, Migrating
<1>3. CASE (\E s \in Servers : Step(s)) /\ UNCHANGED <<dbUp, storeUp>> /\ UNCHANGED env
  <2>1. PICK s \in Servers : Step(s)
    BY <1>3
  <2>2. proc' \in [Servers -> Process]
    BY <2>1, StepTypes DEF Becomes, TypeOK
  <2>3. \A q \in Servers \ {s} : proc'[q] = proc[q]
    BY <2>1, StepTypes DEF Becomes, TypeOK
  <2>4. TypeOK'
    BY <1>3, <2>1, <2>2, StepTypesRest DEF TypeOK
  <2>5. Migrating'
    BY <2>1, <2>3, StepTypesRest DEF Migrating
  <2> QED BY <2>4, <2>5
<1> QED BY <1>1, <1>2, <1>3 DEF Next

LEMMA InitTypes == Init => TypeOK /\ Migrating
<1> SUFFICES ASSUME Init PROVE TypeOK /\ Migrating
  OBVIOUS
<1>1. 0 \in 0..Tables
  BY ServerAssumption
<1>2. \A s \in Servers : proc[s] = Down
  BY DEF Init
<1>3. TypeOK
  BY <1>1, DownIsProcess DEF Init, TypeOK, Rows
<1>4. Migrating
  BY <1>2 DEF Migrating, Down
<1> QED BY <1>3, <1>4

\* The type invariant of Server.
THEOREM TypeCorrect == Spec => []TypeOK
<1>1. TypeOK /\ Migrating => TypeOK
  OBVIOUS
<1> QED BY <1>1, InitTypes, TypesKept, PTL DEF Spec

-----------------------------------------------------------------------------
\* What the steps do to the fields AdminFirst is about.
LEMMA FieldsKept ==
    ASSUME TypeOK, NEW s \in Servers
    PROVE  /\ Exit(s) => proc'[s].pc = "down" /\ ~proc'[s].open /\ ~(proc'[s].load > 0)
           /\ \A pc \in PCs : Goto(s, pc) =>
                 proc'[s].pc = pc /\ proc'[s].open = proc[s].open /\ proc'[s].load = proc[s].load
           /\ \A has \in BOOLEAN : WithStorage(s, has) =>
                 /\ proc'[s].pc = "countusers"
                 /\ proc'[s].open = proc[s].open /\ proc'[s].load = proc[s].load
<1>1. proc \in [Servers -> Process] /\ proc[s] \in Process
  BY DEF TypeOK
<1>2. Exit(s) => proc'[s] = Down
  BY <1>1 DEF Exit
<1>3. Exit(s) => proc'[s].pc = "down" /\ ~proc'[s].open /\ ~(proc'[s].load > 0)
  BY <1>2 DEF Down
<1>4. \A pc \in PCs : Goto(s, pc) =>
         proc'[s].pc = pc /\ proc'[s].open = proc[s].open /\ proc'[s].load = proc[s].load
  BY <1>1 DEF Goto, Process
<1>5. \A has \in BOOLEAN : WithStorage(s, has) =>
         /\ proc'[s].pc = "countusers"
         /\ proc'[s].open = proc[s].open /\ proc'[s].load = proc[s].load
  BY <1>1 DEF WithStorage, Then, Process
<1> QED BY <1>3, <1>4, <1>5

\* While the database answers, a step of a server leaves an administrator that has
\* been seeded, and makes a row only beside one or as one.
LEMMA AccountsStep ==
    ASSUME TypeOK, AdminFirst, "outage" \notin Events, env' = env, NEW s \in Servers, Step(s)
    PROVE  /\ AdminSeeded => AdminSeeded'
           /\ (\E x \in Accounts : account'[x] # "none") => AdminSeeded'
<1>1. /\ dbUp
      /\ (\E x \in Accounts : account[x] # "none") => AdminSeeded
      /\ proc[s].pc \in Seeded => AdminSeeded
      /\ proc[s].load > 0 => proc[s].pc \in Listening \cup {"draining"}
  BY DEF AdminFirst
<1>2. /\ account \in [Accounts -> Rows] /\ Accounts = {"admin", "demo", "client"}
      /\ Events' = Events
  BY DEF TypeOK, Accounts, Events
<1>3. CASE CreateAdmin(s)
  <2>1. Seed("admin", "admin")
    BY <1>3 DEF CreateAdmin
  <2> QED BY <1>1, <1>2, <2>1 DEF Seed, AdminSeeded
<1>4. CASE CreateDemo(s)
  <2>1. AdminSeeded /\ Seed("demo", "user")
    BY <1>1, <1>4 DEF CreateDemo, Seeded
  <2> QED BY <1>1, <1>2, <2>1 DEF Seed, AdminSeeded
<1>5. CASE Finish(s)
  <2>1. AdminSeeded
    BY <1>1, <1>5 DEF Finish, Listening, Seeded
  <2>2. CASE Register
    BY <1>2, <2>1, <2>2 DEF Register, AdminSeeded
  <2>3. CASE Manage
    BY <1>2, <2>1, <2>3 DEF Manage, AdminSeeded
  <2>4. CASE UNCHANGED account
    BY <1>2, <2>1, <2>4 DEF AdminSeeded
  <2> QED BY <1>5, <2>2, <2>3, <2>4 DEF Finish
<1>6. CASE ~(CreateAdmin(s) \/ CreateDemo(s) \/ Finish(s))
  <2>1. account' = account
    BY <1>6 DEF Step, Main, Boot, LoadConfig, Connect, FindTable, CreateTable, CheckBucket,
                MakeBucket, CountUsers, FindDemo, Launch, Notify, Listen, Accept, Probe, Tick,
                Purge, Term, Kill, Shutdown, Deadline, Return
  <2> QED BY <1>1, <1>2, <2>1 DEF AdminSeeded
<1> QED BY <1>3, <1>4, <1>5, <1>6

\* A server passes seedAdmin only when an administrator has been seeded, and listens only
\* after it.
LEMMA AdminStep ==
    ASSUME TypeOK, AdminFirst, "outage" \notin Events, env' = env, NEW s \in Servers, Step(s)
    PROVE  /\ proc'[s].pc \in Seeded => AdminSeeded'
           /\ proc'[s].open => proc'[s].pc \in Listening
           /\ proc'[s].load > 0 => proc'[s].pc \in Listening \cup {"draining"}
<1> DEFINE Safe == /\ proc'[s].pc \in Seeded => AdminSeeded'
                   /\ proc'[s].open => proc'[s].pc \in Listening
                   /\ proc'[s].load > 0 => proc'[s].pc \in Listening \cup {"draining"}
<1> SUFFICES Safe
  OBVIOUS
<1>1. /\ dbUp
      /\ (\E x \in Accounts : account[x] # "none") => AdminSeeded
      /\ proc[s].pc \in Seeded => AdminSeeded
      /\ proc[s].open => proc[s].pc \in Listening
      /\ proc[s].load > 0 => proc[s].pc \in Listening \cup {"draining"}
  BY DEF AdminFirst
<1>2. AdminSeeded => AdminSeeded'
  BY AccountsStep
<1>t. proc \in [Servers -> Process] /\ proc[s] \in Process
  BY DEF TypeOK
<1>b. proc[s].pc \in Boots \cup {"down"} => ~proc[s].open /\ ~(proc[s].load > 0)
  BY <1>1 DEF Boots, Listening
<1>e. Exit(s) => Safe
  BY FieldsKept DEF Seeded
\* While it boots, a server has neither a listener nor requests.
<1>g. ASSUME proc[s].pc \in Boots \cup {"down"}, NEW pc \in PCs, Goto(s, pc),
             pc \in Seeded => AdminSeeded'
      PROVE  Safe
  BY <1>b, <1>g, FieldsKept
<1>w. ASSUME proc[s].pc \in Boots, NEW has \in BOOLEAN, WithStorage(s, has)
      PROVE  Safe
  BY <1>b, <1>w, FieldsKept DEF Seeded
<1>s. ASSUME proc'[s].pc = proc[s].pc, proc'[s].open = proc[s].open,
             proc'[s].load = proc[s].load
      PROVE  Safe
  BY <1>1, <1>2, <1>s
<1>3. CASE Boot(s)
  BY <1>3, <1>g, Places DEF Boot, Seeded
<1>4. CASE LoadConfig(s)
  <2>1. CASE /\ proc[s].pc = "config"
             /\ proc' = [proc EXCEPT ![s] = [@ EXCEPT !.pc = "connect", !.try = 1]]
    <3>1. /\ proc'[s].pc = "connect"
          /\ proc'[s].open = proc[s].open /\ proc'[s].load = proc[s].load
      BY <1>t, <2>1 DEF Process
    <3> QED BY <1>b, <2>1, <3>1 DEF Boots, Seeded
  <2> QED BY <1>4, <1>e, <2>1 DEF LoadConfig
<1>5. CASE Connect(s)
  <2>1. CASE /\ proc[s].pc = "connect"
             /\ proc' = [proc EXCEPT ![s] = [@ EXCEPT !.pc = "migrate", !.try = 0]]
    <3>1. /\ proc'[s].pc = "migrate"
          /\ proc'[s].open = proc[s].open /\ proc'[s].load = proc[s].load
      BY <1>t, <2>1 DEF Process
    <3> QED BY <1>b, <2>1, <3>1 DEF Boots, Seeded
  <2> QED BY <1>1, <1>5, <2>1 DEF Connect
<1>6. CASE FindTable(s)
  <2>1. CASE proc' = [proc EXCEPT ![s] = [@ EXCEPT !.table = proc[s].table + 1]]
    BY <1>t, <2>1, <1>s DEF Process
  <2>2. CASE Goto(s, "bucket") \/ Goto(s, "createtable")
    BY <1>6, <2>2, <1>g, Places DEF FindTable, Boots, Seeded
  <2> QED BY <1>6, <1>e, <2>1, <2>2 DEF FindTable
<1>7. CASE CreateTable(s)
  <2>1. CASE proc' = [proc EXCEPT ![s] = [@ EXCEPT !.pc = "migrate",
                                                   !.table = proc[s].table + 1]]
    <3>1. /\ proc'[s].pc = "migrate"
          /\ proc'[s].open = proc[s].open /\ proc'[s].load = proc[s].load
      BY <1>t, <2>1 DEF Process
    <3> QED BY <1>b, <1>7, <3>1 DEF CreateTable, Boots, Seeded
  <2> QED BY <1>7, <1>e, <2>1 DEF CreateTable
<1>8. CASE CheckBucket(s) \/ MakeBucket(s)
  <2>1. CASE Goto(s, "makebucket")
    BY <1>8, <2>1, <1>g, Places DEF CheckBucket, MakeBucket, Boots, Seeded
  <2>2. CASE \E has \in BOOLEAN : WithStorage(s, has)
    BY <1>8, <2>2, <1>w DEF CheckBucket, MakeBucket, Boots
  <2> QED BY <1>8, <2>1, <2>2 DEF CheckBucket, MakeBucket, WithoutStorage
<1>9. CASE CountUsers(s)
  <2>1. CASE Goto(s, "createadmin")
    BY <1>9, <2>1, <1>g, Places DEF CountUsers, Boots, Seeded
  <2>2. CASE (\E x \in Accounts : Live(x)) /\ Goto(s, "finddemo")
    <3>1. AdminSeeded'
      BY <1>1, <1>2, <2>2 DEF Live
    <3> QED BY <1>9, <2>2, <3>1, <1>g, Places DEF CountUsers, Boots
  <2> QED BY <1>1, <1>9, <2>1, <2>2 DEF CountUsers, Then
<1>10. CASE CreateAdmin(s)
  <2>1. AdminSeeded'
    <3>1. Seed("admin", "admin") /\ "admin" \in Accounts
      BY <1>10 DEF CreateAdmin, Accounts
    <3>2. account' # account => account'["admin"] = "admin"
      BY <3>1 DEF Seed, TypeOK
    <3>3. account' = account => account["admin"] # "none"
      BY <1>1, <3>1 DEF Seed, TypeOK
    <3> QED BY <1>1, <1>2, <3>1, <3>2, <3>3 DEF AdminSeeded
  <2> QED BY <1>10, <2>1, <1>g, Places DEF CreateAdmin, Then, Boots
<1>11. CASE FindDemo(s) \/ CreateDemo(s)
  <2>1. AdminSeeded'
    BY <1>1, <1>2, <1>11 DEF FindDemo, CreateDemo, Seeded
  <2>2. CASE Goto(s, "createdemo") \/ Goto(s, "launch")
    BY <1>11, <2>1, <2>2, <1>g, Places DEF FindDemo, CreateDemo, Boots
  <2> QED BY <1>11, <2>2 DEF FindDemo, CreateDemo, Then
<1>12. CASE Launch(s)
  <2>1. /\ proc'[s].pc = "notify"
        /\ proc'[s].open = proc[s].open /\ proc'[s].load = proc[s].load
    BY <1>t, <1>12 DEF Launch, Process
  <2>2. proc[s].pc = "launch"
    BY <1>12 DEF Launch
  <2> QED BY <1>1, <1>2, <2>1, <2>2 DEF Seeded, Listening
<1>13. CASE Notify(s)
  <2>1. /\ proc'[s].pc = "serve"
        /\ proc'[s].open = proc[s].open /\ proc'[s].load = proc[s].load
    BY <1>13, FieldsKept, Places DEF Notify
  <2>2. proc[s].pc = "notify"
    BY <1>13 DEF Notify
  <2> QED BY <1>1, <1>2, <2>1, <2>2 DEF Seeded, Listening
<1>14. CASE Listen(s)
  <2>1. CASE /\ proc[s].pc \in Listening
             /\ proc' = [proc EXCEPT ![s] = [@ EXCEPT !.open = TRUE]]
    <3>1. proc'[s].pc = proc[s].pc /\ proc'[s].load = proc[s].load
      BY <1>t, <2>1 DEF Process
    <3> QED BY <1>1, <1>2, <2>1, <3>1
  <2> QED BY <1>14, <1>e, <2>1 DEF Listen, Listening
<1>15. CASE Accept(s) \/ Finish(s)
  <2>1. proc[s].pc \in Listening \cup {"draining"}
    BY <1>1, <1>15 DEF Accept, Finish
  <2>2. proc'[s].pc = proc[s].pc /\ proc'[s].open = proc[s].open
    BY <1>t, <1>15 DEF Accept, Finish, Process
  <2> QED BY <1>1, <1>2, <2>1, <2>2
<1>16. CASE Probe(s) \/ Tick(s) \/ Purge(s) \/ Deadline(s)
  BY <1>t, <1>16, <1>s DEF Probe, Tick, Purge, Deadline, Process
<1>17. CASE Shutdown(s)
  <2>1. /\ proc'[s].pc = "draining" /\ proc[s].pc = "quit"
        /\ ~proc'[s].open
    BY <1>t, <1>17 DEF Shutdown, Process
  <2> QED BY <1>1, <1>2, <2>1 DEF Seeded
<1>18. CASE Term(s)
  <2>1. CASE proc[s].pc = "serve" /\ Goto(s, "quit")
    <3>1. /\ proc'[s].pc = "quit"
          /\ proc'[s].open = proc[s].open /\ proc'[s].load = proc[s].load
      BY <2>1, FieldsKept, Places
    <3> QED BY <1>1, <1>2, <2>1, <3>1 DEF Seeded, Listening
  <2> QED BY <1>18, <1>e, <2>1 DEF Term
<1>19. CASE Kill(s) \/ Return(s)
  BY <1>19, <1>e DEF Kill, Return
<1> QED
  BY <1>3, <1>4, <1>5, <1>6, <1>7, <1>8, <1>9, <1>10, <1>11, <1>12, <1>13, <1>14, <1>15,
     <1>16, <1>17, <1>18, <1>19 DEF Step, Main

\* Whatever the servers do, an administrator is seeded before any of them listens.
LEMMA AdminKept == TypeOK /\ Migrating /\ AdminFirst /\ [Next]_vars => AdminFirst'
<1> SUFFICES ASSUME TypeOK, Migrating, AdminFirst, [Next]_vars, "outage" \notin Events'
             PROVE  AdminFirst'
  BY DEF AdminFirst
<1>1. env' = env /\ "outage" \notin Events
  BY DEF Next, vars, Events
<1>2. CASE UNCHANGED vars
  BY <1>2 DEF AdminFirst, AdminSeeded, vars, Events
<1>3. CASE Outage
  BY <1>1, <1>3 DEF Outage, AdminFirst, AdminSeeded, Events
<1>4. CASE (\E s \in Servers : Step(s)) /\ UNCHANGED <<dbUp, storeUp>>
  <2>1. PICK s \in Servers : Step(s)
    BY <1>4
  <2>2. \A q \in Servers \ {s} : proc'[q] = proc[q]
    BY <2>1, StepTypes DEF Becomes, TypeOK
  <2> QED BY <1>1, <1>4, <2>1, <2>2, AccountsStep, AdminStep DEF AdminFirst
<1> QED BY <1>2, <1>3, <1>4 DEF Next

\* Nobody is served before an administrator has been seeded, and none is lost but by
\* administrators' requests, while the database answers: for any number of servers
\* that boot, seed, end and are started again together.
THEOREM AdminServed == Spec => []ServingHasAdmin
<1>1. Init => AdminFirst
  BY DEF Init, AdminFirst, Down, Seeded
<1>2. TypeOK /\ AdminFirst => ServingHasAdmin
  BY DEF AdminFirst, ServingHasAdmin, Listening, Seeded
<1> QED BY <1>1, <1>2, InitTypes, TypesKept, AdminKept, PTL DEF Spec
=============================================================================
