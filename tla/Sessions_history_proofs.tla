----------------------- MODULE Sessions_history_proofs -----------------------
(***************************************************************************)
(* Proofs about the sessions that tokens carry on from login to exchange   *)
(* to exchange: that Sessions implements SessionLifecycle, that quiet      *)
(* times lose no session, and what holds where requests come one at a      *)
(* time (rotation, LogoutAll, deliberate activation).                      *)
(***************************************************************************)
EXTENDS Sessions_proofs, FiniteSetTheorems

\* An exchange that has found its token valid and has not issued the next one.
Exchanging(r) == req[r].op = "refresh" /\ req[r].pc \in {"finduser", "revoke", "issue"}

SessionOf(r) == token[req[r].tok].session

-----------------------------------------------------------------------------
(***************************************************************************)
(* What a step does to a slot and to the rows of tokens.                   *)
(***************************************************************************)
\* The handler goes on from one place to another; the token it is about and the one it
\* is to store stay the same.
Moves(r, from, to) ==
    /\ req[r].pc = from /\ req'[r].pc = to
    /\ req'[r].op = req[r].op /\ req'[r].tok = req[r].tok /\ req'[r].new = req[r].new

\* A step of a slot: it is freed or taken, or its handler goes on.
Begins(r) ==
    /\ CanStart(r, req'[r].op)
    /\ ArrivesAs(req'[r].op, req'[r].pc, req'[r].u, req'[r].tok, req'[r].new)
    /\ UNCHANGED <<user, token, access, ended>>

Creates(r) ==
    /\ Moves(r, "create", "finduser") /\ req[r].op = "register"
    /\ UNCHANGED <<token, ended>>

Looks(r) ==
    /\ Moves(r, "findtoken", "finduser") /\ req[r].op = "refresh"
    /\ Valid(req[r].tok) /\ req'[r].u = token[req[r].tok].user
    /\ UNCHANGED <<user, token, ended>>

Enters(r) ==
    /\ Moves(r, "finduser", AfterUser(req[r].op)) /\ req'[r].u = req[r].u
    /\ Admits(req[r].op, req[r].u) /\ req'[r].active = InHand(r)
    /\ UNCHANGED <<user, token, ended>>

Revokes(r) ==
    /\ Moves(r, "revoke", "issue") /\ req'[r].u = req[r].u /\ req[r].op = "refresh"
    /\ token' = [token EXCEPT ![req[r].tok] = Revoked(token[req[r].tok])]
    /\ UNCHANGED <<user, ended>>

\* The row a handler stores.
Stores(r) ==
    /\ req[r].pc = "issue"
    /\ token[req[r].new].st = "none"
    /\ token' = [token EXCEPT ![req[r].new] =
                    [st |-> "live", user |-> req[r].u,
                     session |-> IF req[r].op = "refresh" THEN SessionOf(r) ELSE req[r].new,
                     expired |-> FALSE, given |-> FALSE]]
    /\ UNCHANGED <<user, ended>>

Issues(r) ==
    /\ Moves(r, "issue", "deliver") /\ req'[r].u = req[r].u
    /\ Stores(r)

\* What a request that arrives has in its slot.
LEMMA BeginsStep ==
    ASSUME TypeOK, Shape, NEW r \in Requests, Arrive(r)
    PROVE  Begins(r)
<1>1. PICK op \in AllOps, pc \in PCs, u \in Users \cup {NoUser}, t \in Tokens \cup {NoToken},
           n \in Tokens \cup {NoToken}, a \in BOOLEAN :
        /\ req' = [req EXCEPT ![r] = Slot(op, pc, u, t, n, a)]
        /\ ArrivesAs(op, pc, u, t, n)
  BY ArriveShape
<1>2. /\ req'[r].op = op /\ req'[r].pc = pc /\ req'[r].u = u /\ req'[r].tok = t
      /\ req'[r].new = n
  BY <1>1 DEF TypeOK, Slot
<1>3. \E o, p, v, k, m, b :
        CanStart(r, o) /\ req' = [req EXCEPT ![r] = Slot(o, p, v, k, m, b)]
  <2> USE DEF Start
  <2>1. CASE ArriveRegister(r)
    BY <2>1 DEF ArriveRegister
  <2>2. CASE ArriveLogin(r)
    BY <2>2 DEF ArriveLogin
  <2>3. CASE ArriveRefresh(r)
    BY <2>3 DEF ArriveRefresh
  <2>4. CASE ArriveLogout(r)
    BY <2>4 DEF ArriveLogout
  <2>5. CASE ArriveForMe(r)
    BY <2>5 DEF ArriveForMe
  <2>6. CASE ArriveAdmin(r)
    <3>1. CASE Start(r, "createuser", "create", NoUser, NoToken, NoToken, FALSE)
      BY <3>1
    <3>2. CASE \E v \in Users : Start(r, "deluser", "delete", v, NoToken, NoToken, FALSE)
      BY <3>2
    <3>3. CASE \E v \in Users, b \in BOOLEAN :
                  Start(r, "setuser", "finduser", v, NoToken, NoToken, b)
      <4>1. PICK v \in Users, b \in BOOLEAN :
              Start(r, "setuser", "finduser", v, NoToken, NoToken, b)
        BY <3>3
      <4> QED BY <4>1, Zenon
    <3>4. \/ Start(r, "createuser", "create", NoUser, NoToken, NoToken, FALSE)
          \/ \E v \in Users : Start(r, "deluser", "delete", v, NoToken, NoToken, FALSE)
          \/ \E v \in Users, b \in BOOLEAN :
                Start(r, "setuser", "finduser", v, NoToken, NoToken, b)
      <4> HIDE DEF Start
      <4> QED BY <2>6, Zenon DEF ArriveAdmin
    <3> HIDE DEF Start
    <3> QED BY <3>1, <3>2, <3>3, <3>4, Zenon
  <2> QED BY <2>1, <2>2, <2>3, <2>4, <2>5, <2>6 DEF Arrive
<1>4. CanStart(r, req'[r].op)
  BY <1>3 DEF TypeOK, Slot
<1>5. UNCHANGED <<user, token, access, ended>>
  BY DEF Arrive, ArriveRegister, ArriveLogin, ArriveRefresh, ArriveLogout, ArriveForMe,
         ArriveAdmin
<1> QED BY <1>1, <1>2, <1>4, <1>5 DEF Begins

\* What a handler that does not reply does to its slot.
LEMMA HandleStep ==
    ASSUME TypeOK, Shape, NEW r \in Requests, Handle(r), ~Reply(r)
    PROVE  Creates(r) \/ Looks(r) \/ Enters(r) \/ Revokes(r) \/ Issues(r)
<1>t. req[r] \in Request
  BY DEF TypeOK
<1>1. CASE CreateUser(r)
  <2>1. PICK u \in Users : /\ req' = [req EXCEPT ![r] = [@ EXCEPT !.pc = "finduser", !.u = u]]
                           /\ req[r].op = "register"
    BY <1>1 DEF CreateUser
  <2> QED BY <1>1, <1>t, <2>1 DEF CreateUser, Creates, Moves, TypeOK, Request
<1>2. CASE FindToken(r)
  <2>1. /\ Valid(req[r].tok)
        /\ req' = [req EXCEPT ![r] = [@ EXCEPT !.pc = "finduser", !.u = token[req[r].tok].user]]
    BY <1>2 DEF FindToken
  <2>2. req[r].op = "refresh"
    BY <1>2 DEF FindToken, Shape, ReqShape
  <2> QED BY <1>2, <1>t, <2>1, <2>2 DEF FindToken, Looks, Moves, TypeOK, Request
<1>3. CASE FindUser(r)
  <2>1. /\ Admits(req[r].op, req[r].u)
        /\ req' = [req EXCEPT ![r] = [@ EXCEPT !.pc = AfterUser(req[r].op), !.active = InHand(r)]]
    BY <1>3 DEF FindUser
  <2> QED BY <1>3, <1>t, <2>1 DEF FindUser, Enters, Moves, TypeOK, Request
<1>4. CASE RevokeByHash(r)
  <2>1. /\ req[r].op = "refresh" /\ Goto(r, "issue")
        /\ token' = [token EXCEPT ![req[r].tok] = Revoked(@)]
    BY <1>4 DEF RevokeByHash
  <2> QED BY <1>4, <1>t, <2>1 DEF RevokeByHash, Goto, Revokes, Moves, TypeOK, Request
<1>5. CASE Issue(r)
  <2>1. token[req[r].new].st = "none"
    BY <1>5 DEF Issue, Shape, ReqShape
  <2> QED BY <1>5, <1>t, <2>1
          DEF Issue, Goto, Issues, Stores, SessionOf, Moves, TypeOK, Request
<1>6. CASE Deliver(r) \/ RevokeAllForUser(r) \/ SaveUser(r) \/ DeleteUser(r)
  BY <1>6 DEF Deliver, RevokeAllForUser, SaveUser, DeleteUser
<1> QED BY <1>1, <1>2, <1>3, <1>4, <1>5, <1>6 DEF Handle

\* A slot keeps what it has, is freed, is taken, or its handler goes on.
Advances(r) ==
    Begins(r) \/ Creates(r) \/ Looks(r) \/ Enters(r) \/ Revokes(r) \/ Issues(r)

LEMMA SlotCases ==
    ASSUME TypeOK, Shape, [Next]_vars, NEW q \in Requests
    PROVE  \/ req'[q] = req[q]
           \/ req'[q] = Idle
           \/ Advances(q)
<1>1. CASE UNCHANGED req
  BY <1>1
<1>2. CASE Restart
  BY <1>2 DEF Restart
<1>3. ASSUME NEW r \in Requests, Arrive(r) \/ Handle(r)
      PROVE  req'[q] = req[q] \/ req'[q] = Idle \/ Advances(q)
  <2>1. \E s : req' = [req EXCEPT ![r] = s]
    <3>1. CASE Arrive(r)
      BY <3>1, ArriveShape
    <3>2. CASE Handle(r)
      BY <3>2 DEF Handle, CreateUser, FindToken, FindUser, RevokeByHash, Issue, Deliver,
                  RevokeAllForUser, SaveUser, DeleteUser, Reply, Goto
    <3> QED BY <1>3, <3>1, <3>2
  <2>2. q # r => req'[q] = req[q]
    BY <2>1 DEF TypeOK
  <2>3. CASE q = r /\ Arrive(r)
    BY <2>3, BeginsStep DEF Advances
  <2>4. CASE q = r /\ Handle(r) /\ Reply(r)
    BY <2>4 DEF Reply, TypeOK
  <2>5. CASE q = r /\ Handle(r) /\ ~Reply(r)
    BY <2>5, HandleStep DEF Advances
  <2> QED BY <1>3, <2>2, <2>3, <2>4, <2>5
<1> QED BY <1>1, <1>2, <1>3
     DEF Next, PurgeExpired, RefreshExpires, AccessExpires, vars

\* What a row of a token can go through once it is stored.
Aged(t) ==
    /\ (token'[t].st = "none") <=> (token[t].st = "none")
    /\ token'[t].user = token[t].user /\ token'[t].session = token[t].session
    /\ Valid(t)' => Valid(t)

\* A step stores one token or it only ages tokens.
LEMMA TokenRows ==
    ASSUME TypeOK, Shape, [Next]_vars
    PROVE  \/ \E r \in Requests : Issue(r) /\ Stores(r)
           \/ \A t \in Tokens : Aged(t)
<1> USE DEF Aged, Valid
<1>u. CASE UNCHANGED token
  BY <1>u
<1>p. CASE PurgeExpired
  BY <1>p DEF PurgeExpired, TypeOK, TokenRow, Dead
<1>x. ASSUME NEW v \in Tokens, RefreshExpires(v) PROVE \A t \in Tokens : Aged(t)
  BY <1>x DEF RefreshExpires, TypeOK, TokenRow
<1>h. ASSUME NEW r \in Requests, Handle(r)
      PROVE  (Issue(r) /\ Stores(r)) \/ \A t \in Tokens : Aged(t)
  <2>1. CASE RevokeByHash(r)
    BY <2>1 DEF RevokeByHash, Fails, Revoked, TypeOK, TokenRow
  <2>2. CASE Issue(r)
    <3>1. req[r].new \in Tokens /\ token[req[r].new].st = "none"
      BY <2>2 DEF Issue, Shape, ReqShape
    <3> QED BY <1>u, <2>2, <3>1 DEF Issue, Fails, Stores, SessionOf
  <2>3. CASE Deliver(r)
    BY <2>3 DEF Deliver, TypeOK, TokenRow
  <2>4. CASE RevokeAllForUser(r)
    BY <2>4 DEF RevokeAllForUser, Fails, Revoked, TypeOK, TokenRow
  <2>5. CASE \/ CreateUser(r) \/ FindToken(r) \/ FindUser(r) \/ SaveUser(r) \/ DeleteUser(r)
    BY <2>5, <1>u DEF CreateUser, FindToken, FindUser, SaveUser, DeleteUser
  <2> QED BY <1>h, <2>1, <2>2, <2>3, <2>4, <2>5 DEF Handle
<1>a. ASSUME NEW r \in Requests, Arrive(r) PROVE UNCHANGED token
  BY <1>a DEF Arrive, ArriveRegister, ArriveLogin, ArriveRefresh, ArriveLogout,
              ArriveForMe, ArriveAdmin
<1>o. (\E u \in Users : AccessExpires(u)) \/ Restart \/ UNCHANGED vars => UNCHANGED token
  BY DEF AccessExpires, Restart, vars
<1> QED BY <1>u, <1>p, <1>x, <1>h, <1>a, <1>o DEF Next

\* Storing a token changes no other row, and the new one is valid and as new.
LEMMA Stored ==
    ASSUME TypeOK, Shape, NEW r \in Requests, Stores(r)
    PROVE  LET n == req[r].new IN
           /\ n \in Tokens /\ token[n].st = "none"
           /\ \A t \in Tokens : t # n => token'[t] = token[t]
           /\ token'[n].user = req[r].u /\ req[r].u \in Users
           /\ token'[n].session = IF req[r].op = "refresh" THEN SessionOf(r) ELSE n
           /\ token'[n].st = "live" /\ ~token'[n].expired
<1>1. req[r].new \in Tokens /\ req[r].u \in Users
  BY DEF Stores, Shape, ReqShape
<1> DEFINE s == IF req[r].op = "refresh" THEN SessionOf(r) ELSE req[r].new
           row == [st |-> "live", user |-> req[r].u, session |-> s,
                   expired |-> FALSE, given |-> FALSE]
<1>2. token[req[r].new].st = "none" /\ token' = [token EXCEPT ![req[r].new] = row]
  BY DEF Stores
<1>3. row.st = "live" /\ row.user = req[r].u /\ row.session = s /\ ~row.expired
  OBVIOUS
<1> HIDE DEF row
<1>4. token'[req[r].new] = row /\ \A t \in Tokens : t # req[r].new => token'[t] = token[t]
  BY <1>1, <1>2 DEF TypeOK
<1> QED BY <1>1, <1>2, <1>3, <1>4

\* A LogoutAll revokes the user's tokens and records their sessions as ended, at once.
EndsAll(r) ==
    /\ req[r].pc = "revokeall" /\ req'[r] = Idle
    /\ token' = [t \in Tokens |-> IF Theirs(t, req[r].u) THEN Revoked(token[t]) ELSE token[t]]
    /\ ended' = ended \cup SessionsOf(req[r].u)

LEMMA EndedStep ==
    ASSUME TypeOK, [Next]_vars
    PROVE  UNCHANGED ended \/ \E r \in Requests : EndsAll(r)
<1>1. ASSUME NEW r \in Requests, RevokeAllForUser(r) PROVE UNCHANGED ended \/ EndsAll(r)
  BY <1>1 DEF RevokeAllForUser, Fails, EndsAll, Reply, TypeOK
<1>2. ASSUME NEW r \in Requests, Arrive(r) \/ Handle(r), ~RevokeAllForUser(r)
      PROVE  UNCHANGED ended
  BY <1>2 DEF Arrive, ArriveRegister, ArriveLogin, ArriveRefresh, ArriveLogout,
              ArriveForMe, ArriveAdmin, Handle, CreateUser, FindToken, FindUser, RevokeByHash,
              Issue, Deliver, SaveUser, DeleteUser
<1> QED BY <1>1, <1>2 DEF Next, PurgeExpired, RefreshExpires, AccessExpires, Restart, vars

-----------------------------------------------------------------------------
(***************************************************************************)
(* What tokens and requests remember.                                      *)
(***************************************************************************)
\* A stored token is of a session that was opened by a stored token of the same user.
Descent ==
    \A t \in Tokens :
        /\ token[t].st = "none" => token[t].session = NoToken
        /\ token[t].st # "none" => /\ Opened(token[t].session)
                                   /\ token[token[t].session].user = token[t].user

\* A slot is busy with an operation that is allowed; what it does fits its operation.
Errands(r) ==
    /\ req[r].pc = "idle" <=> req[r].op = "none"
    /\ req[r].op \in Ops \cup {"none"}
    /\ req[r].pc = "revokeall" => req[r].op = "logoutall"
    /\ req[r].pc = "saveuser" => req[r].op \in {"updateme", "setuser"}
    /\ Exchanging(r) => token[req[r].tok].user = req[r].u

History ==
    /\ Descent
    /\ \A r \in Requests : Errands(r)
    /\ \A s \in ended : token[s].st # "none"

LEMMA IdleErrands ==
    ASSUME NEW r \in Requests, req'[r] = Idle
    PROVE  Errands(r)' /\ ~Exchanging(r)'
BY DEF Errands, Exchanging, Idle, Slot

LEMMA DescentKept ==
    ASSUME TypeOK, Shape, History, [Next]_vars
    PROVE  Descent'
<1>1. CASE \A t \in Tokens : Aged(t)
  BY <1>1 DEF Aged, Shape, TokenShape, History, Descent, Opened
<1>2. ASSUME NEW r \in Requests, Stores(r) PROVE Descent'
  <2> DEFINE n == req[r].new
  <2>1. /\ n \in Tokens /\ token[n].st = "none"
        /\ \A t \in Tokens : t # n => token'[t] = token[t]
        /\ token'[n].user = req[r].u
        /\ token'[n].session = IF req[r].op = "refresh" THEN SessionOf(r) ELSE n
        /\ token'[n].st = "live"
    BY <1>2, Stored
  <2> HIDE DEF n
  <2>2. \A t \in Tokens : token[t].st # "none" => token[t].session # n
    BY <2>1, SessionsAssumption DEF History, Descent, Opened
  <2>3. ASSUME NEW t \in Tokens, t # n
        PROVE  /\ token'[t].st = "none" => token'[t].session = NoToken
               /\ token'[t].st # "none" => /\ Opened(token[t].session)'
                                           /\ token'[token[t].session].user = token[t].user
    BY <2>1, <2>2, <2>3 DEF History, Descent, Opened, Shape, TokenShape
  <2>4. CASE req[r].op # "refresh"
    BY <2>1, <2>3, <2>4 DEF Descent, Opened
  <2>5. CASE req[r].op = "refresh"
    <3>1. req[r].tok \in Tokens /\ token[req[r].tok].st # "none"
      BY <2>5 DEF Shape, ReqShape
    <3>2. token[req[r].tok].user = req[r].u
      BY <1>2, <2>5 DEF Stores, History, Errands, Exchanging
    <3>3. /\ SessionOf(r) \in Tokens /\ SessionOf(r) # n
          /\ Opened(SessionOf(r)) /\ token[SessionOf(r)].user = req[r].u
      BY <2>2, <3>1, <3>2 DEF SessionOf, History, Descent, Shape, TokenShape
    <3> QED BY <2>1, <2>3, <2>5, <3>3 DEF Descent, Opened
  <2> QED BY <2>4, <2>5
<1> QED BY <1>1, <1>2, TokenRows

LEMMA ErrandsKept ==
    ASSUME TypeOK, Shape, History, [Next]_vars, NEW r \in Requests
    PROVE  Errands(r)'
<1>e. Ops' = Ops /\ Ops \subseteq AllOps
  BY SessionsAssumption DEF TypeOK, Next, vars, Ops, Environment
<1>t. \A t \in Tokens : token[t].st # "none" => token'[t].user = token[t].user
  BY PermanentStep DEF Permanent
<1>r. Errands(r) /\ ReqShape(r)
  BY DEF History, Shape
<1>k. req[r].op = "refresh" => req[r].tok \in Tokens /\ token[req[r].tok].st # "none"
  BY <1>r DEF ReqShape
<1> USE <1>e, <1>t, <1>r
<1>1. CASE req'[r] = req[r]
  BY <1>1, <1>k DEF Errands, Exchanging
<1>2. CASE req'[r] = Idle
  BY <1>2, IdleErrands
<1>3. CASE Begins(r)
  BY <1>3 DEF Begins, ArrivesAs, CanStart, Errands, Exchanging, SignIns, AllOps
<1>4. CASE Creates(r)
  BY <1>4 DEF Creates, Moves, Errands, Exchanging
<1>5. CASE Looks(r)
  BY <1>5 DEF Looks, Moves, Errands, Exchanging
<1>6. CASE Enters(r)
  <2>1. AfterUser(req[r].op) \in {"revoke", "deliver", "issue", "saveuser"}
    BY DEF AfterUser
  <2>2. AfterUser(req[r].op) = "saveuser" => req[r].op \in {"updateme", "setuser"}
    BY <1>6 DEF AfterUser, Enters, Moves, ReqShape, SignIns
  <2> QED BY <1>6, <1>k, <2>1, <2>2 DEF Enters, Moves, Errands, Exchanging
<1>7. CASE Revokes(r)
  BY <1>7, <1>k DEF Revokes, Moves, Errands, Exchanging
<1>8. CASE Issues(r)
  BY <1>8 DEF Issues, Moves, Errands, Exchanging
<1> QED BY <1>1, <1>2, <1>3, <1>4, <1>5, <1>6, <1>7, <1>8, SlotCases DEF Advances

LEMMA HistoryKept ==
    ASSUME TypeOK, Shape, History, [Next]_vars
    PROVE  History'
<1>1. \A t \in Tokens : token[t].st # "none" => token'[t].st # "none"
  BY TokenRows, Stored DEF Aged
<1>2. \A s \in ended' : token[s].st # "none" /\ s \in Tokens
  <2>1. CASE UNCHANGED ended
    BY <2>1 DEF History, TypeOK
  <2>2. ASSUME NEW r \in Requests, EndsAll(r)
        PROVE  \A s \in ended' : token[s].st # "none" /\ s \in Tokens
    <3>1. req[r].u \in Users
      BY <2>2 DEF EndsAll, Shape, ReqShape
    <3>2. \A t \in Tokens : token[t].user = req[r].u =>
             token[t].session \in Tokens /\ token[token[t].session].st # "none"
      BY <3>1, SessionsAssumption DEF Shape, TokenShape, History, Descent, Opened
    <3>3. \A s \in SessionsOf(req[r].u) : token[s].st # "none" /\ s \in Tokens
      BY <3>2 DEF SessionsOf
    <3> QED BY <2>2, <3>3 DEF EndsAll, History, TypeOK
  <2> QED BY <2>1, <2>2, EndedStep
<1> QED BY <1>1, <1>2, DescentKept, ErrandsKept DEF History

-----------------------------------------------------------------------------
(***************************************************************************)
(* The life of a session.                                                  *)
(***************************************************************************)
\* An exchange is under way after a step if it was before or just found its token
\* valid; the session it is of stays the same.
LEMMA ExchangeStep ==
    ASSUME TypeOK, Shape, [Next]_vars, NEW r \in Requests, Exchanging(r)'
    PROVE  /\ Exchanging(r) \/ Looks(r)
           /\ req[r].tok \in Tokens /\ token[req[r].tok].st # "none"
           /\ req'[r].tok = req[r].tok
           /\ SessionOf(r)' = SessionOf(r)
<1>1. /\ Exchanging(r) \/ Looks(r)
      /\ req'[r].tok = req[r].tok /\ req[r].op = "refresh"
  <2>1. CASE req'[r] = req[r]
    BY <2>1 DEF Exchanging
  <2>2. CASE req'[r] = Idle
    BY <2>2, IdleErrands
  <2>3. CASE Begins(r)
    BY <2>3 DEF Begins, ArrivesAs, Exchanging
  <2>4. CASE Creates(r) \/ Looks(r) \/ Revokes(r) \/ Issues(r)
    BY <2>4 DEF Creates, Looks, Revokes, Issues, Moves, Exchanging
  <2>5. CASE Enters(r)
    BY <2>5 DEF Enters, Moves, Exchanging
  <2> QED BY <2>1, <2>2, <2>3, <2>4, <2>5, SlotCases DEF Advances
<1>2. req[r].tok \in Tokens /\ token[req[r].tok].st # "none"
  BY <1>1 DEF Shape, ReqShape
<1> QED BY <1>1, <1>2, PermanentStep DEF Permanent, SessionOf

\* An opened session is alive after a step only if it was before: the only new tokens
\* are of the session of an exchange, or of their own.
LEMMA AliveStep ==
    ASSUME TypeOK, Shape, History, [Next]_vars, NEW s \in Tokens, Opened(s), Alive(s)'
    PROVE  Alive(s)
<1>1. ASSUME NEW r \in Requests, Exchanging(r)', SessionOf(r)' = s PROVE Alive(s)
  <2>1. /\ Exchanging(r) \/ Looks(r)
        /\ req[r].tok \in Tokens /\ SessionOf(r) = s
    BY <1>1, ExchangeStep
  <2> QED BY <2>1 DEF Looks, Exchanging, SessionOf, Alive, InExchange
<1>2. ASSUME NEW t \in Tokens, token'[t].session = s, Valid(t)' PROVE Alive(s)
  <2>1. CASE Aged(t)
    BY <1>2, <2>1 DEF Aged, Alive
  <2>2. ASSUME NEW r \in Requests, Issue(r), Stores(r) PROVE Alive(s)
    <3>1. CASE t # req[r].new
      BY <1>2, <2>2, <3>1, Stored DEF Alive, Valid
    <3>2. CASE t = req[r].new /\ req[r].op = "refresh"
      BY <1>2, <2>2, <3>2, Stored DEF Issue, Alive, InExchange, SessionOf
    <3>3. CASE t = req[r].new /\ req[r].op # "refresh"
      <4>1. s = t /\ token[t].st = "none"
        BY <1>2, <2>2, <3>3, Stored
      <4> QED BY <4>1, SessionsAssumption DEF Opened, History, Descent
    <3> QED BY <3>1, <3>2, <3>3
  <2> QED BY <2>1, <2>2, TokenRows
<1> QED BY <1>1, <1>2 DEF Alive, InExchange, Exchanging, SessionOf

\* Sessions that were opened stay so, with their owner; any other that is now opened
\* is that of a login, which has just stored its token.
LEMMA OpenedStep ==
    ASSUME TypeOK, Shape, History, [Next]_vars, NEW s \in Tokens
    PROVE  /\ Opened(s) => Opened(s)' /\ token'[s].user = token[s].user
           /\ Opened(s)' /\ ~Opened(s) =>
                 \E r \in Requests : /\ Issue(r) /\ Stores(r)
                                     /\ req[r].op # "refresh" /\ req[r].new = s
<1>1. Opened(s) => token[s].st # "none"
  BY SessionsAssumption DEF Opened, History, Descent
<1>2. Opened(s) => Opened(s)' /\ token'[s].user = token[s].user
  BY <1>1, PermanentStep DEF Permanent, Opened
<1>3. ASSUME Opened(s)', ~Opened(s)
      PROVE  \E r \in Requests : /\ Issue(r) /\ Stores(r)
                                 /\ req[r].op # "refresh" /\ req[r].new = s
  <2>1. PICK r \in Requests : Issue(r) /\ Stores(r)
    BY <1>3, TokenRows DEF Aged, Opened
  <2>2. s = req[r].new
    BY <1>3, <2>1, Stored DEF Opened
  <2>3. ASSUME req[r].op = "refresh" PROVE FALSE
    <3>1. token[s].st = "none" /\ SessionOf(r) = s
      BY <1>3, <2>1, <2>2, <2>3, Stored DEF Opened
    <3>2. req[r].tok \in Tokens /\ token[req[r].tok].st # "none"
      BY <2>3 DEF Shape, ReqShape
    <3> QED BY <3>1, <3>2, SessionsAssumption DEF SessionOf, History, Descent, Opened
  <2> QED BY <2>1, <2>2, <2>3
<1> QED BY <1>2, <1>3

\* Storing the first token of a session ends no other.
LEMMA LoginSpares ==
    ASSUME TypeOK, Shape, History, [Next]_vars, NEW r \in Requests, Issue(r), Stores(r),
           req[r].op # "refresh", NEW s \in Tokens, Alive(s)
    PROVE  Alive(s)'
<1>1. CASE InExchange(s)
  <2>1. PICK q \in Requests : Exchanging(q) /\ SessionOf(q) = s
    BY <1>1 DEF InExchange, Exchanging, SessionOf
  <2>2. req'[q] = req[q]
    BY <2>1 DEF Exchanging, Issue, Goto, Reply, TypeOK
  <2>3. req[q].tok \in Tokens /\ token[req[q].tok].st # "none"
    BY <2>1 DEF Exchanging, Shape, ReqShape
  <2> QED BY <2>1, <2>2, <2>3, PermanentStep
          DEF Permanent, Alive, InExchange, Exchanging, SessionOf
<1>2. ASSUME NEW t \in Tokens, token[t].session = s, Valid(t) PROVE Alive(s)'
  BY <1>2, Stored DEF Alive, Valid
<1> QED BY <1>1, <1>2 DEF Alive

-----------------------------------------------------------------------------
(***************************************************************************)
(* Sessions implements SessionLifecycle.                                   *)
(***************************************************************************)
\* A login that stores its token opens a session; any other step closes those that are
\* no longer alive, none of them in most cases.
LEMMA LifecycleStep ==
    ASSUME TypeOK, Shape, History, [Next]_vars
    PROVE  Lifecycle!Next
<1>1. CASE \E r \in Requests : Issue(r) /\ Stores(r) /\ req[r].op # "refresh"
  <2>1. PICK r \in Requests : Issue(r) /\ Stores(r) /\ req[r].op # "refresh"
    BY <1>1
  <2> DEFINE n == req[r].new
  <2>2. /\ n \in Tokens /\ token[n].st = "none" /\ req[r].u \in Users
        /\ token'[n].user = req[r].u /\ token'[n].session = n
        /\ token'[n].st = "live" /\ ~token'[n].expired
    BY <2>1, Stored
  <2> HIDE DEF n
  <2>3. ~Opened(n)
    BY <2>2, SessionsAssumption DEF Opened, History, Descent
  <2>4. SessionStates'[n] = [st |-> "open", owner |-> req[r].u]
    BY <2>2 DEF SessionStates, Opened, Alive, Valid
  <2>5. ASSUME NEW s \in Tokens, s # n PROVE SessionStates'[s] = SessionStates[s]
    <3>1. Opened(s)' <=> Opened(s)
      <4>1. \A q \in Requests : Issue(q) /\ Stores(q) /\ req[q].new = s => FALSE
        BY <2>1, <2>2, <2>5, Stored
      <4> QED BY <4>1, OpenedStep
    <3>2. Opened(s) => (Alive(s)' <=> Alive(s)) /\ token'[s].user = token[s].user
      BY <2>1, AliveStep, LoginSpares, OpenedStep
    <3> QED BY <3>1, <3>2 DEF SessionStates
  <2>6. SessionStates' = [SessionStates EXCEPT ![n] = [st |-> "open", owner |-> req[r].u]]
    BY <2>2, <2>4, <2>5 DEF SessionStates
  <2>7. SessionStates[n].st = "none"
    BY <2>2, <2>3 DEF SessionStates
  <2> QED BY <2>2, <2>6, <2>7 DEF Lifecycle!Next, Lifecycle!Open
<1>2. CASE ~\E r \in Requests : Issue(r) /\ Stores(r) /\ req[r].op # "refresh"
  <2> DEFINE S == {s \in Tokens : Opened(s) /\ Alive(s) /\ ~Alive(s)'}
  <2>1. \A s \in S : SessionStates[s].st = "open"
    BY DEF SessionStates
  <2>2. ASSUME NEW s \in Tokens
        PROVE  SessionStates'[s] = IF s \in S THEN [SessionStates[s] EXCEPT !.st = "closed"]
                                              ELSE SessionStates[s]
    <3>1. /\ Opened(s)' <=> Opened(s)
          /\ Opened(s) => token'[s].user = token[s].user
          /\ Opened(s) /\ Alive(s)' => Alive(s)
      BY <1>2, OpenedStep, AliveStep
    <3> QED BY <3>1 DEF SessionStates
  <2>3. SessionStates' = [s \in Tokens |-> IF s \in S THEN [SessionStates[s] EXCEPT !.st = "closed"]
                                                      ELSE SessionStates[s]]
    BY <2>2 DEF SessionStates
  <2>4. S \in SUBSET Tokens
    OBVIOUS
  <2> QED BY <2>1, <2>3, <2>4 DEF Lifecycle!Next, Lifecycle!Close
<1> QED BY <1>1, <1>2

\* What the tables and requests remember, from the start and for ever.
LEMMA HistoryInvariant == Spec => [](TypeOK /\ Shape /\ History)
<1>1. Init => History
  <2> SUFFICES ASSUME Init PROVE History
    OBVIOUS
  <2>1. Idle.pc = "idle" /\ Idle.op = "none"
    BY DEF Idle, Slot
  <2>2. \A r \in Requests : req[r] = Idle
    BY DEF Init
  <2> HIDE DEF Idle
  <2> QED BY <2>1, <2>2 DEF Init, History, Descent, Errands, Exchanging
<1>2. TypeOK /\ Shape /\ History /\ [Next]_vars => History'
  BY HistoryKept
<1> QED BY <1>1, <1>2, ShapeInvariant, PTL DEF Spec

\* A session is opened once, belongs to one user and stays closed once it is, for any
\* number of users, tokens and requests, any failures and any crashes.
THEOREM LifecycleHolds == Spec => LifecycleImplemented
<1>1. Init => Lifecycle!Init
  <2> SUFFICES ASSUME Init PROVE Lifecycle!Init
    OBVIOUS
  <2>1. \A s \in Tokens : ~Opened(s)
    BY SessionsAssumption DEF Init, Opened
  <2> QED BY <2>1 DEF SessionStates, Lifecycle!Init
<1>2. TypeOK /\ Shape /\ History /\ [Next]_vars => [Lifecycle!Next]_SessionStates
  BY LifecycleStep
<1> QED BY <1>1, <1>2, HistoryInvariant, PTL DEF Spec, LifecycleImplemented, Lifecycle!Spec

-----------------------------------------------------------------------------
(***************************************************************************)
(* Quiet times: no logout, no expiry, no failure, no crash.                *)
(***************************************************************************)
\* Something carries the session on whatever becomes of its exchanges: a valid token,
\* or an exchange that has revoked its token and only has to store the next one.
Carried(s) ==
    \/ \E t \in Tokens : token[t].session = s /\ Valid(t)
    \/ \E r \in Requests : Exchanging(r) /\ req[r].pc = "issue" /\ SessionOf(r) = s

\* Two exchanges of one token do not lose the session between them.
CarriedOn == Quiet => \A r \in Requests : Exchanging(r) => Carried(SessionOf(r))

\* A valid token is lost only to an exchange that goes on to store another.
LEMMA QuietLoss ==
    ASSUME TypeOK, Shape, History, [Next]_vars, Quiet,
           NEW t \in Tokens, Valid(t), ~Valid(t)'
    PROVE  \E r \in Requests : Revokes(r) /\ req[r].tok = t
<1>e. "expire" \notin Events /\ "db" \notin Events /\ "commit" \notin Events
  BY DEF Quiet
<1>1. ~UNCHANGED token
  BY DEF Valid
<1>2. ASSUME PurgeExpired PROVE FALSE
  BY <1>2 DEF PurgeExpired, Dead, Valid
<1>3. ASSUME NEW v \in Tokens, RefreshExpires(v) PROVE FALSE
  BY <1>3, <1>e DEF RefreshExpires
<1>4. ASSUME NEW r \in Requests, Handle(r) PROVE Revokes(r) /\ req[r].tok = t
  <2>e. req[r].op \notin {"logout", "logoutall"}
    BY DEF Quiet, History, Errands
  <2>1. CASE RevokeByHash(r)
    <3>1. req[r].op = "refresh"
      BY <2>1, <2>e DEF RevokeByHash, Shape, ReqShape
    <3>2. /\ Goto(r, "issue")
          /\ token' = [token EXCEPT ![req[r].tok] = Revoked(token[req[r].tok])]
      BY <2>1, <3>1, <1>e DEF RevokeByHash, Fails
    <3>3. req[r] \in Request /\ req[r].pc = "revoke"
      BY <2>1 DEF TypeOK, RevokeByHash
    <3>4. Revokes(r)
      BY <2>1, <3>1, <3>2, <3>3 DEF RevokeByHash, Revokes, Moves, Goto, TypeOK, Request
    <3> QED BY <3>2, <3>4 DEF TypeOK, Valid
  <2>2. CASE Issue(r)
    <3>1. Stores(r)
      BY <1>1, <2>2, <1>e DEF Issue, Fails, Stores, SessionOf, Shape, ReqShape
    <3> QED BY <3>1, Stored DEF Valid
  <2>3. CASE Deliver(r)
    BY <2>3 DEF Deliver, TypeOK, TokenRow, Valid
  <2>4. CASE RevokeAllForUser(r)
    BY <2>4, <2>e DEF RevokeAllForUser, History, Errands
  <2>5. CASE \/ CreateUser(r) \/ FindToken(r) \/ FindUser(r) \/ SaveUser(r) \/ DeleteUser(r)
    BY <2>5, <1>1 DEF CreateUser, FindToken, FindUser, SaveUser, DeleteUser
  <2> QED BY <1>4, <2>1, <2>2, <2>3, <2>4, <2>5 DEF Handle
<1>a. ASSUME NEW r \in Requests, Arrive(r) PROVE UNCHANGED token
  BY <1>a DEF Arrive, ArriveRegister, ArriveLogin, ArriveRefresh, ArriveLogout,
              ArriveForMe, ArriveAdmin
<1>o. (\E u \in Users : AccessExpires(u)) \/ Restart \/ UNCHANGED vars => UNCHANGED token
  BY DEF AccessExpires, Restart, vars
<1> QED BY <1>1, <1>2, <1>3, <1>4, <1>a, <1>o DEF Next

\* Where nothing fails, what is to be stored is stored.
LEMMA QuietIssue ==
    ASSUME TypeOK, Shape, [Next]_vars, Quiet, NEW r \in Requests, req[r].pc = "issue"
    PROVE  req'[r] = req[r] \/ Stores(r)
<1>1. ASSUME NEW q \in Requests, Handle(q) PROVE req'[r] = req[r] \/ Stores(r)
  <2>1. CASE q # r
    BY <1>1, <2>1 DEF Handle, CreateUser, FindToken, FindUser, RevokeByHash, Issue, Deliver,
                      RevokeAllForUser, SaveUser, DeleteUser, Reply, Goto, TypeOK
  <2>2. CASE q = r
    <3>1. Issue(r)
      BY <1>1, <2>2 DEF Handle, CreateUser, FindToken, FindUser, RevokeByHash, Deliver,
                        RevokeAllForUser, SaveUser, DeleteUser
    <3>2. "db" \notin Events /\ "commit" \notin Events
      BY DEF Quiet
    <3> QED BY <3>1, <3>2 DEF Issue, Fails, Stores, SessionOf, Shape, ReqShape
  <2> QED BY <2>1, <2>2
<1>2. ASSUME NEW q \in Requests, Arrive(q) PROVE req'[r] = req[r]
  <2>1. q # r
    BY <1>2 DEF Arrive, ArriveRegister, ArriveLogin, ArriveRefresh, ArriveLogout, ArriveForMe,
                ArriveAdmin, Start, CanStart
  <2>2. \E s : req' = [req EXCEPT ![q] = s]
    BY <1>2, ArriveShape
  <2> QED BY <2>1, <2>2 DEF TypeOK
<1>3. ~Restart
  BY DEF Quiet, Restart
<1> QED BY <1>1, <1>2, <1>3 DEF Next, PurgeExpired, RefreshExpires, AccessExpires, vars

LEMMA CarriedKept ==
    ASSUME TypeOK, Shape, History, [Next]_vars, Quiet, NEW s \in Tokens, Carried(s)
    PROVE  Carried(s)'
<1>1. ASSUME NEW t \in Tokens, token[t].session = s, Valid(t) PROVE Carried(s)'
  <2>1. token'[t].session = s
    BY <1>1, PermanentStep DEF Permanent, Valid
  <2>2. CASE Valid(t)'
    BY <2>1, <2>2 DEF Carried
  <2>3. CASE ~Valid(t)'
    <3>1. PICK r \in Requests : Revokes(r) /\ req[r].tok = t
      BY <1>1, <2>3, QuietLoss
    <3> QED BY <2>1, <3>1 DEF Revokes, Moves, Carried, Exchanging, SessionOf
  <2> QED BY <2>2, <2>3
<1>2. ASSUME NEW r \in Requests, Exchanging(r), req[r].pc = "issue", SessionOf(r) = s
      PROVE  Carried(s)'
  <2>1. CASE req'[r] = req[r]
    <3>1. req[r].tok \in Tokens /\ token[req[r].tok].st # "none"
      BY <1>2 DEF Exchanging, Shape, ReqShape
    <3> QED BY <1>2, <2>1, <3>1, PermanentStep DEF Permanent, Carried, Exchanging, SessionOf
  <2>2. CASE Stores(r)
    <3>1. /\ req[r].new \in Tokens /\ token'[req[r].new].session = s
          /\ token'[req[r].new].st = "live" /\ ~token'[req[r].new].expired
      BY <1>2, <2>2, Stored DEF Exchanging
    <3> QED BY <3>1 DEF Carried, Valid
  <2> QED BY <1>2, <2>1, <2>2, QuietIssue
<1> QED BY <1>1, <1>2 DEF Carried

LEMMA CarriedOnKept ==
    ASSUME TypeOK, Shape, History, [Next]_vars, CarriedOn
    PROVE  CarriedOn'
<1> SUFFICES ASSUME Quiet', NEW r \in Requests, Exchanging(r)' PROVE Carried(SessionOf(r))'
  BY DEF CarriedOn
<1>1. Quiet
  BY DEF Quiet, Ops, Events, Next, vars
<1>2. /\ Exchanging(r) \/ Looks(r)
      /\ req[r].tok \in Tokens /\ token[req[r].tok].st # "none"
      /\ SessionOf(r)' = SessionOf(r)
  BY ExchangeStep
<1>3. SessionOf(r) \in Tokens
  BY <1>2 DEF SessionOf, Shape, TokenShape
<1>4. Carried(SessionOf(r))
  BY <1>1, <1>2 DEF CarriedOn, Looks, Carried, SessionOf
<1>5. PICK s \in Tokens : s = SessionOf(r)
  BY <1>3
<1>6. Carried(s)'
  BY <1>1, <1>4, <1>5, CarriedKept
<1> QED BY <1>2, <1>5, <1>6 DEF Carried

LEMMA CarriedInvariant == Spec => []CarriedOn
<1>1. Init => CarriedOn
  <2> SUFFICES ASSUME Init, NEW r \in Requests PROVE ~Exchanging(r)
    BY DEF CarriedOn
  <2> QED BY DEF Init, Exchanging, Idle, Slot
<1>2. TypeOK /\ Shape /\ History /\ CarriedOn /\ [Next]_vars => CarriedOn'
  BY CarriedOnKept
<1> QED BY <1>1, <1>2, HistoryInvariant, PTL DEF Spec

\* In quiet times no session is lost, for any number of concurrent exchanges of any
\* tokens, and whatever administrators do to the accounts meanwhile.
THEOREM SessionsKeptAlways == Spec => SessionsKept
<1>1. ASSUME TypeOK, Shape, History, CarriedOn, [Next]_vars, Quiet, NEW s \in Tokens, Alive(s)
      PROVE  Alive(s)'
  <2>1. Carried(s)
    BY <1>1 DEF Alive, InExchange, CarriedOn, Carried, Exchanging, SessionOf
  <2>2. Carried(s)'
    BY <1>1, <2>1, CarriedKept
  <2> QED BY <2>2 DEF Carried, Alive, InExchange, Exchanging, SessionOf
<1>2. TypeOK /\ Shape /\ History /\ CarriedOn /\ [Next]_vars =>
        [Quiet => \A s \in Tokens : Alive(s) => Alive(s)']_vars
  BY <1>1
<1> QED BY <1>2, HistoryInvariant, CarriedInvariant, PTL DEF Spec, SessionsKept

-----------------------------------------------------------------------------
(***************************************************************************)
(* Requests one at a time.                                                 *)
(***************************************************************************)
\* No two slots are busy.
Alone == Serial => \A q, r \in Requests : q # r => req[q].pc = "idle" \/ req[r].pc = "idle"

\* No request arrives while another is under way.
LEMMA NoneBusy ==
    ASSUME Serial, NEW r \in Requests, NEW op, CanStart(r, op)
    PROVE  \A q \in Requests : req[q].pc = "idle"
<1> DEFINE busy == {q \in Requests : req[q].pc # "idle"}
<1>1. IsFiniteSet(busy)
  BY SessionsAssumption, FS_Subset
<1>2. Cardinality(busy) \in Nat /\ Cardinality(busy) < 1
  BY <1>1, FS_CardinalityType DEF CanStart, Serial
<1>3. busy = {}
  BY <1>1, <1>2, FS_EmptySet
<1> QED BY <1>3

\* What a request does leaves the slots of the others alone; it is busy, or it arrives
\* and none is.
LEMMA Actor ==
    ASSUME TypeOK, Shape, NEW r \in Requests, Arrive(r) \/ Handle(r)
    PROVE  /\ \A q \in Requests : q # r => req'[q] = req[q]
           /\ \/ req[r].pc # "idle"
              \/ Serial => \A q \in Requests : req[q].pc = "idle"
<1>1. CASE Arrive(r)
  <2>1. Begins(r)
    BY <1>1, BeginsStep
  <2>2. Serial => \A q \in Requests : req[q].pc = "idle"
    BY <2>1, NoneBusy DEF Begins
  <2> QED BY <1>1, <2>2, ArriveShape DEF TypeOK
<1>2. CASE Handle(r)
  BY <1>2 DEF Handle, CreateUser, FindToken, FindUser, RevokeByHash, Issue, Deliver,
              RevokeAllForUser, SaveUser, DeleteUser, Reply, Goto, TypeOK
<1> QED BY <1>1, <1>2

LEMMA AloneKept ==
    ASSUME TypeOK, Shape, Alone, [Next]_vars
    PROVE  Alone'
<1>1. Serial' <=> Serial
  BY DEF Serial, Next, vars
<1>2. CASE UNCHANGED req
  BY <1>1, <1>2 DEF Alone
<1>3. CASE Restart
  BY <1>3 DEF Restart, Alone, Idle, Slot
<1>4. ASSUME NEW r \in Requests, Arrive(r) \/ Handle(r) PROVE Alone'
  <2>1. /\ \A q \in Requests : q # r => req'[q] = req[q]
        /\ \/ req[r].pc # "idle"
           \/ Serial => \A q \in Requests : req[q].pc = "idle"
    BY <1>4, Actor
  <2> QED BY <1>1, <2>1 DEF Alone
<1> QED BY <1>2, <1>3, <1>4 DEF Next, PurgeExpired, RefreshExpires, AccessExpires, vars

\* Where one slot is busy it is the one that acts.
LEMMA OnlyActor ==
    ASSUME TypeOK, Shape, Alone, Serial, NEW q \in Requests, req[q].pc # "idle",
           NEW r \in Requests, Arrive(r) \/ Handle(r)
    PROVE  q = r
BY Actor DEF Alone

\* An exchange that looked at its token: the session has not been ended since, and its
\* token is still the only valid one, if it is.
FreshExchange(r) ==
    Exchanging(r) =>
        /\ SessionOf(r) \notin ended
        /\ \A t \in Tokens : token[t].session = SessionOf(r) /\ Valid(t) =>
              t = req[r].tok /\ req[r].pc # "issue"

\* A user about to be saved is still as it was read.
FreshUser(r) ==
    req[r].pc = "saveuser" =>
        /\ Found(req[r].u)
        /\ req[r].op = "updateme" => req[r].active = user[req[r].u].active

EndedClosed == \A t \in Tokens : token[t].session \in ended => ~Valid(t)

Settled ==
    Serial => /\ OneTokenPerSession
              /\ EndedClosed
              /\ \A r \in Requests : FreshExchange(r) /\ FreshUser(r)

\* No other request changes the tokens of an exchange, or ends its session.
LEMMA FreshExchangeKept ==
    ASSUME TypeOK, Shape, History, Alone, Settled, Serial, [Next]_vars,
           NEW r \in Requests, Exchanging(r)'
    PROVE  FreshExchange(r)'
<1>1. /\ Exchanging(r) \/ Looks(r)
      /\ req[r].tok \in Tokens /\ token[req[r].tok].st # "none"
      /\ req'[r].tok = req[r].tok
      /\ SessionOf(r)' = SessionOf(r)
  BY ExchangeStep
<1>2. req[r].pc \in {"findtoken", "finduser", "revoke", "issue"}
  BY <1>1 DEF Exchanging, Looks, Moves
<1>3. \A t \in Tokens : Aged(t)
  <2>1. ASSUME NEW q \in Requests, Issue(q) PROVE FALSE
    <3>1. q = r
      BY <1>2, <2>1, OnlyActor DEF Handle
    <3>2. req'[r].pc \in {"deliver", "idle"}
      BY <2>1, <3>1 DEF Issue, Goto, Reply, TypeOK, Request, Idle, Slot
    <3> QED BY <3>2 DEF Exchanging
  <2> QED BY <2>1, TokenRows
<1>4. UNCHANGED ended
  <2>1. ASSUME NEW q \in Requests, EndsAll(q) PROVE FALSE
    <3>1. q # r
      BY <1>2, <2>1 DEF EndsAll
    <3> QED BY <1>2, <2>1, <3>1 DEF EndsAll, Alone
  <2> QED BY <2>1, EndedStep
<1>5. /\ SessionOf(r) \notin ended
      /\ \A t \in Tokens : token[t].session = SessionOf(r) /\ Valid(t) => t = req[r].tok
  BY <1>1 DEF Settled, FreshExchange, Looks, SessionOf, EndedClosed, OneTokenPerSession
<1>6. ASSUME req'[r].pc = "issue"
      PROVE  ~(token'[req[r].tok].st = "live" /\ ~token'[req[r].tok].expired)
  <2>1. CASE req'[r] = req[r]
    BY <1>1, <1>3, <1>6, <2>1 DEF Exchanging, Aged, Settled, FreshExchange, SessionOf,
                                         Valid
  <2>2. CASE Revokes(r)
    BY <1>1, <2>2 DEF Revokes, Revoked, Valid, TypeOK, TokenRow
  <2>3. CASE Creates(r) \/ Looks(r) \/ Issues(r)
    BY <1>6, <2>3 DEF Creates, Looks, Issues, Moves
  <2>4. CASE Enters(r)
    BY <1>1, <1>6, <2>4 DEF Enters, Moves, AfterUser, Exchanging, Looks
  <2>5. CASE Begins(r)
    BY <1>6, <2>5 DEF Begins, ArrivesAs
  <2>6. CASE req'[r] = Idle
    BY <2>6, IdleErrands
  <2> QED BY <2>1, <2>2, <2>3, <2>4, <2>5, <2>6, SlotCases DEF Advances
<1>7. \A t \in Tokens : token'[t].session = SessionOf(r) /\ Valid(t)' =>
         t = req[r].tok /\ req'[r].pc # "issue"
  BY <1>3, <1>5, <1>6 DEF Aged, Valid
<1> QED BY <1>1, <1>4, <1>5, <1>7 DEF FreshExchange

\* A user's row is changed by its creation, its save or its deletion.
LEMMA UserStep ==
    ASSUME [Next]_vars, ~UNCHANGED user
    PROVE  \E r \in Requests : CreateUser(r) \/ SaveUser(r) \/ DeleteUser(r)
<1>1. ASSUME NEW r \in Requests, Arrive(r) \/ Handle(r)
      PROVE  CreateUser(r) \/ SaveUser(r) \/ DeleteUser(r)
  BY <1>1 DEF Arrive, ArriveRegister, ArriveLogin, ArriveRefresh, ArriveLogout, ArriveForMe,
              ArriveAdmin, Handle, FindToken, FindUser, RevokeByHash, Issue, Deliver,
              RevokeAllForUser
<1> QED BY <1>1 DEF Next, PurgeExpired, RefreshExpires, AccessExpires, Restart, vars

LEMMA FreshUserKept ==
    ASSUME TypeOK, Shape, History, Alone, Settled, Serial, [Next]_vars,
           NEW r \in Requests, req'[r].pc = "saveuser"
    PROVE  FreshUser(r)'
<1>1. CASE req'[r] = req[r]
  <2>1. UNCHANGED user
    <3> SUFFICES ASSUME ~UNCHANGED user PROVE FALSE
      OBVIOUS
    <3>1. PICK q \in Requests : CreateUser(q) \/ SaveUser(q) \/ DeleteUser(q)
      BY UserStep
    <3>2. q = r
      BY <1>1, <3>1, OnlyActor DEF Handle
    <3>3. SaveUser(r)
      BY <1>1, <3>1, <3>2 DEF CreateUser, DeleteUser
    <3> QED BY <3>3 DEF SaveUser, Reply, TypeOK, Idle, Slot
  <2> QED BY <1>1, <2>1 DEF Settled, FreshUser, Found
<1>2. CASE Enters(r)
  <2>1. req[r].op \in {"updateme", "setuser"}
    BY <1>2 DEF Enters, Moves, AfterUser, Shape, ReqShape, SignIns
  <2> QED BY <1>2, <2>1 DEF Enters, Moves, Admits, InHand, FreshUser, Found
<1>3. CASE req'[r] = Idle \/ Begins(r) \/ Creates(r) \/ Looks(r) \/ Revokes(r) \/ Issues(r)
  BY <1>3 DEF Begins, ArrivesAs, Creates, Looks, Revokes, Issues, Moves, Idle, Slot
<1> QED BY <1>1, <1>2, <1>3, SlotCases DEF Advances

\* A new token finds no valid one in its session: the exchange revoked the last one, and
\* a login's session is new.
LEMMA OneTokenKept ==
    ASSUME TypeOK, Shape, History, Settled, Serial, [Next]_vars
    PROVE  OneTokenPerSession'
<1>1. CASE \A t \in Tokens : Aged(t)
  BY <1>1 DEF Aged, Settled, OneTokenPerSession
<1>2. ASSUME NEW r \in Requests, Issue(r), Stores(r) PROVE OneTokenPerSession'
  <2> DEFINE n == req[r].new
  <2>1. /\ n \in Tokens /\ token[n].st = "none"
        /\ \A t \in Tokens : t # n => token'[t] = token[t]
        /\ token'[n].session = IF req[r].op = "refresh" THEN SessionOf(r) ELSE n
    BY <1>2, Stored
  <2> HIDE DEF n
  <2>2. ASSUME NEW t \in Tokens, t # n, Valid(t) PROVE token[t].session # token'[n].session
    <3>1. CASE req[r].op = "refresh"
      BY <1>2, <2>1, <2>2, <3>1 DEF Issue, Exchanging, Settled, FreshExchange
    <3>2. CASE req[r].op # "refresh"
      BY <2>1, <2>2, <3>2, SessionsAssumption DEF History, Descent, Opened, Valid
    <3> QED BY <3>1, <3>2
  <2> QED BY <2>1, <2>2 DEF Settled, OneTokenPerSession, Valid
<1> QED BY <1>1, <1>2, TokenRows

\* Ended sessions stay without a valid token, and those that are ended lose theirs.
LEMMA EndedClosedKept ==
    ASSUME TypeOK, Shape, History, Settled, Serial, [Next]_vars
    PROVE  EndedClosed'
<1>1. ASSUME NEW r \in Requests, Issue(r), Stores(r) PROVE EndedClosed'
  <2> DEFINE n == req[r].new
  <2>1. /\ n \in Tokens /\ token[n].st = "none"
        /\ \A t \in Tokens : t # n => token'[t] = token[t]
        /\ token'[n].session = IF req[r].op = "refresh" THEN SessionOf(r) ELSE n
    BY <1>1, Stored
  <2> HIDE DEF n
  <2>2. UNCHANGED ended
    BY <1>1 DEF Stores
  <2>3. token'[n].session \notin ended
    <3>1. CASE req[r].op = "refresh"
      BY <1>1, <2>1, <3>1 DEF Issue, Exchanging, Settled, FreshExchange
    <3>2. CASE req[r].op # "refresh"
      BY <2>1, <3>2 DEF History
    <3> QED BY <3>1, <3>2
  <2> QED BY <2>1, <2>2, <2>3 DEF Settled, EndedClosed, Valid
<1>2. ASSUME \A t \in Tokens : Aged(t), UNCHANGED ended PROVE EndedClosed'
  BY <1>2 DEF Aged, Settled, EndedClosed
<1>3. ASSUME \A t \in Tokens : Aged(t), NEW r \in Requests, EndsAll(r) PROVE EndedClosed'
  <2>1. ASSUME NEW t \in Tokens, Valid(t)', token'[t].session \in ended' PROVE FALSE
    <3>1. Valid(t) /\ token[t].session \in ended' /\ token[t].st # "none"
      BY <1>3, <2>1 DEF Aged, Valid
    <3>2. token[t].session \in SessionsOf(req[r].u)
      BY <1>3, <3>1 DEF EndsAll, Settled, EndedClosed
    <3>3. PICK v \in Tokens : token[v].user = req[r].u /\ token[v].session = token[t].session
      BY <3>2 DEF SessionsOf
    <3>4. req[r].u \in Users
      BY <1>3 DEF EndsAll, Shape, ReqShape
    <3>5. token[v].st # "none"
      BY <3>3, <3>4, SessionsAssumption DEF Shape, TokenShape
    <3>6. token[t].user = req[r].u
      BY <3>1, <3>3, <3>5 DEF History, Descent
    <3> QED BY <1>3, <2>1, <3>6 DEF EndsAll, Theirs, Revoked, Valid, TypeOK, TokenRow
  <2> QED BY <2>1 DEF EndedClosed
<1> QED BY <1>1, <1>2, <1>3, TokenRows, EndedStep

\* Where requests come one at a time, what a request read holds until it is done.
LEMMA SettledInvariant == Spec => [](Alone /\ Settled)
<1>1. Init => Alone /\ Settled
  <2> SUFFICES ASSUME Init PROVE Alone /\ Settled
    OBVIOUS
  <2>1. \A r \in Requests : req[r].pc = "idle"
    BY DEF Init, Idle, Slot
  <2>2. \A t \in Tokens : ~Valid(t)
    BY DEF Init, Valid
  <2> QED BY <2>1, <2>2 DEF Alone, Settled, OneTokenPerSession, EndedClosed, FreshExchange,
                            FreshUser, Exchanging
<1>2. ASSUME TypeOK, Shape, History, Alone, Settled, [Next]_vars PROVE Settled'
  <2> SUFFICES ASSUME Serial' PROVE Settled'
    BY DEF Settled
  <2>1. Serial
    BY <1>2 DEF Serial, Next, vars
  <2>2. \A r \in Requests : FreshExchange(r)'
    BY <1>2, <2>1, FreshExchangeKept DEF FreshExchange
  <2>3. \A r \in Requests : FreshUser(r)'
    BY <1>2, <2>1, FreshUserKept DEF FreshUser
  <2> QED BY <1>2, <2>1, <2>2, <2>3, OneTokenKept, EndedClosedKept DEF Settled
<1>3. TypeOK /\ Shape /\ History /\ Alone /\ Settled /\ [Next]_vars => Alone' /\ Settled'
  BY <1>2, AloneKept
<1> QED BY <1>1, <1>3, HistoryInvariant, PTL DEF Spec

\* One request at a time, the exchange replaces the token: a session never has two that
\* are valid, for any calls that fail and any crash.
THEOREM RotationHolds == Spec => []RotationOneAtATime
<1>1. Settled => RotationOneAtATime
  BY DEF Settled, RotationOneAtATime
<1> QED BY <1>1, SettledInvariant, PTL

\* One request at a time, no session that existed at a LogoutAll has a valid token again.
THEOREM LogoutsFinal == Spec => []LogoutAllFinal
<1>1. Settled => LogoutAllFinal
  BY DEF Settled, EndedClosed, LogoutAllFinal
<1> QED BY <1>1, SettledInvariant, PTL

\* One request at a time, only an update that asks for it makes a disabled account
\* usable again.
THEOREM ActivationsDeliberate == Spec => ActivationDeliberate
<1>1. ASSUME TypeOK, Shape, History, Settled, [Next]_vars, Serial,
             NEW u \in Users, user[u].st # "absent", ~Enabled(u), Enabled(u)'
      PROVE  \E r \in Requests : req[r].pc = "saveuser" /\ req[r].op = "setuser" /\ req[r].active
  <2>1. ~UNCHANGED user
    BY <1>1 DEF Enabled, Found
  <2>2. PICK r \in Requests : CreateUser(r) \/ SaveUser(r) \/ DeleteUser(r)
    BY <1>1, <2>1, UserStep
  <2>3. SaveUser(r)
    BY <1>1, <2>2 DEF CreateUser, DeleteUser, Fails, Enabled, Found, TypeOK, UserRow
  <2>4. req[r].op \in {"updateme", "setuser"} /\ FreshUser(r) /\ req[r].pc = "saveuser"
    BY <1>1, <2>3 DEF SaveUser, History, Errands, Settled
  <2>5. user' = [user EXCEPT ![req[r].u] = [st |-> "live", active |-> req[r].active]]
    <3>1. Found(req[r].u) /\ req[r].active \in BOOLEAN
      BY <1>1, <2>4 DEF FreshUser, TypeOK, Request
    <3> QED BY <2>1, <2>3, <3>1 DEF SaveUser, GormSave, Fails, Found
  <2>6. u = req[r].u /\ req[r].active
    BY <1>1, <2>5 DEF Enabled, Found, TypeOK
  <2> QED BY <1>1, <2>4, <2>6 DEF FreshUser, Enabled, Found
<1>2. TypeOK /\ Shape /\ History /\ Settled /\ [Next]_vars =>
        [Serial => \A u \in Users : user[u].st # "absent" /\ ~Enabled(u) /\ Enabled(u)' =>
          \E r \in Requests : req[r].pc = "saveuser" /\ req[r].op = "setuser" /\ req[r].active]_vars
  BY <1>1
<1> QED BY <1>2, HistoryInvariant, SettledInvariant, PTL DEF Spec, ActivationDeliberate
=============================================================================
