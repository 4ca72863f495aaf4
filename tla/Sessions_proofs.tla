--------------------------- MODULE Sessions_proofs ---------------------------
(***************************************************************************)
(* Proofs about Sessions, for any number of users, tokens and requests,    *)
(* every operation and every unlucky event.                                *)
(***************************************************************************)
EXTENDS Sessions, TLAPS

SignIns == {"register", "login", "refresh"}

\* Stored tokens have an owner and a session; unstored ones have neither.
TokenShape ==
    \A t \in Tokens :
        /\ token[t].st # "none" => token[t].user \in Users /\ token[t].session \in Tokens
        /\ token[t].st = "none" => token[t].user = NoUser /\ ~token[t].given

\* What a handler has in hand at each place; the token it is to store is not
\* stored yet.
ReqShape(r) ==
    /\ req[r].pc = "create" => req[r].op \in SignIns \cup {"createuser"}
    /\ req[r].pc = "issue" => req[r].op \in SignIns
    /\ req[r].pc = "deliver" => req[r].op \in SignIns \cup {"demo"}
    /\ req[r].pc = "findtoken" => req[r].op = "refresh"
    /\ req[r].pc = "finduser" => req[r].op \in SignIns \cup {"demo", "updateme", "setuser"}
    /\ req[r].pc = "revoke" => req[r].op \in {"refresh", "logout"}
    /\ req[r].pc \in {"finduser", "issue", "deliver", "revokeall", "saveuser"} =>
          req[r].u \in Users
    /\ req[r].pc = "revoke" /\ req[r].op = "refresh" => req[r].u \in Users
    /\ req[r].op = "refresh" => req[r].tok \in Tokens /\ token[req[r].tok].st # "none"
    /\ req[r].op \in SignIns => req[r].new \in Tokens
    /\ req[r].op \in SignIns /\ req[r].pc # "deliver" => token[req[r].new].st = "none"
    /\ req[r].pc = "deliver" /\ req[r].op \in SignIns => token[req[r].new].st # "none"
    /\ req[r].op \notin SignIns => req[r].new = NoToken

NewDistinct ==
    \A r, s \in Requests : req[r].new = req[s].new /\ req[r].new # NoToken => r = s

Shape == TokenShape /\ NewDistinct /\ \A r \in Requests : ReqShape(r)

\* A step of slot r that leaves the table of tokens alone.
LEMMA SlotStep ==
    ASSUME TypeOK, Shape, NEW r \in Requests, NEW s \in Request, UNCHANGED token,
           req' = [req EXCEPT ![r] = s], ReqShape(r)',
           s.new \in {req[r].new, NoToken} \cup Fresh
    PROVE  req' \in [Requests -> Request] /\ Shape'
<1>1. req'[r] = s /\ \A q \in Requests : q # r => req'[q] = req[q]
  BY DEF TypeOK
<1>2. \A q \in Requests : ReqShape(q)'
  BY <1>1 DEF Shape, ReqShape
<1>3. NewDistinct'
  BY <1>1 DEF Shape, NewDistinct, Fresh
<1> QED BY <1>2, <1>3 DEF TypeOK, Shape, TokenShape

\* An idle slot has nothing in hand.
LEMMA IdleSlot ==
    ASSUME NEW r \in Requests, req'[r] = Idle
    PROVE  ReqShape(r)'
BY DEF ReqShape, Idle, Slot, SignIns

\* A handler that replies, having changed at most rows of tokens already stored.
LEMMA ReplyShape ==
    ASSUME TypeOK, Shape, NEW r \in Requests, Reply(r), TokenShape',
           \A t \in Tokens : (token'[t].st = "none") <=> (token[t].st = "none")
    PROVE  req' \in [Requests -> Request] /\ Shape'
<1>1. req'[r] = Idle /\ \A q \in Requests : q # r => req'[q] = req[q]
  BY DEF TypeOK, Reply
<1>2. req' \in [Requests -> Request] /\ Idle.new = NoToken
  BY DEF TypeOK, Reply, Idle, Slot, Request, PCs
<1>3. ReqShape(r)'
  BY <1>1, IdleSlot
<1>4. \A q \in Requests : q # r => ReqShape(q)'
  BY <1>1 DEF Shape, ReqShape
<1>5. NewDistinct'
  BY <1>1, <1>2 DEF Shape, NewDistinct
<1> QED BY <1>2, <1>3, <1>4, <1>5 DEF Shape

\* What a request that arrives has in hand.
ArrivesAs(op, pc, u, t, n) ==
    /\ pc \in {"create", "findtoken", "finduser", "revoke", "revokeall", "delete"}
    /\ pc = "create" => op \in SignIns \cup {"createuser"}
    /\ pc = "findtoken" => op = "refresh"
    /\ pc = "finduser" => u \in Users /\ op \in SignIns \cup {"demo", "updateme", "setuser"}
    /\ pc = "revoke" => op = "logout"
    /\ pc = "revokeall" => u \in Users /\ op = "logoutall"
    /\ op = "refresh" => pc = "findtoken" /\ t \in Tokens /\ token[t].st # "none"
    /\ op \in SignIns <=> n # NoToken
    /\ n = NoToken \/ n \in Fresh

\* Every way a request arrives fills its slot like that.
LEMMA ArriveShape ==
    ASSUME TypeOK, Shape, NEW r \in Requests, Arrive(r)
    PROVE  \E op \in AllOps, pc \in PCs, u \in Users \cup {NoUser},
              t \in Tokens \cup {NoToken}, n \in Tokens \cup {NoToken}, a \in BOOLEAN :
              /\ req' = [req EXCEPT ![r] = Slot(op, pc, u, t, n, a)]
              /\ ArrivesAs(op, pc, u, t, n)
<1>0. /\ NoToken \notin Fresh
      /\ {"register", "login", "demo", "refresh", "logout", "logoutall", "updateme",
          "createuser", "setuser", "deluser"} \subseteq AllOps
      /\ {"create", "findtoken", "finduser", "revoke", "revokeall", "delete"} \subseteq PCs
  BY SessionsAssumption DEF Fresh, AllOps, PCs
<1> USE <1>0 DEF Start, CanStart, ArrivesAs, SignIns
<1>1. CASE ArriveRegister(r)
  <2>1. PICK m \in Fresh :
          req' = [req EXCEPT ![r] = Slot("register", "create", NoUser, NoToken, m, FALSE)]
    BY <1>1 DEF ArriveRegister
  <2>n. m \in Tokens \cup {NoToken} /\ m \in Fresh /\ m # NoToken
    BY <2>1, SessionsAssumption DEF Fresh
  <2> USE <2>n
  <2> WITNESS "register" \in AllOps, "create" \in PCs, NoUser \in Users \cup {NoUser},
              NoToken \in Tokens \cup {NoToken}, m \in Tokens \cup {NoToken}, FALSE \in BOOLEAN
  <2> QED BY <2>1
<1>2. CASE ArriveLogin(r)
  <2>1. CASE \E v \in Users, m \in Fresh :
               req' = [req EXCEPT ![r] = Slot("login", "finduser", v, NoToken, m, FALSE)]
    <3>1. PICK v \in Users, m \in Fresh :
            req' = [req EXCEPT ![r] = Slot("login", "finduser", v, NoToken, m, FALSE)]
      BY <2>1
    <3>n. m \in Tokens \cup {NoToken} /\ m \in Fresh /\ m # NoToken
      BY <3>1, SessionsAssumption DEF Fresh
    <3> USE <3>n
    <3> WITNESS "login" \in AllOps, "finduser" \in PCs, v \in Users \cup {NoUser},
                NoToken \in Tokens \cup {NoToken}, m \in Tokens \cup {NoToken},
                FALSE \in BOOLEAN
    <3> QED BY <3>1
  <2>2. CASE \E v \in Users :
               req' = [req EXCEPT ![r] = Slot("demo", "finduser", v, NoToken, NoToken, FALSE)]
    <3>1. PICK v \in Users :
            req' = [req EXCEPT ![r] = Slot("demo", "finduser", v, NoToken, NoToken, FALSE)]
      BY <2>2
    <3> WITNESS "demo" \in AllOps, "finduser" \in PCs, v \in Users \cup {NoUser},
                NoToken \in Tokens \cup {NoToken}, NoToken \in Tokens \cup {NoToken},
                FALSE \in BOOLEAN
    <3> QED BY <3>1
  <2> QED BY <1>2, <2>1, <2>2 DEF ArriveLogin
<1>3. CASE ArriveRefresh(r)
  <2>1. PICK k \in Tokens, m \in Fresh :
          /\ token[k].given
          /\ req' = [req EXCEPT ![r] = Slot("refresh", "findtoken", NoUser, k, m, FALSE)]
    BY <1>3 DEF ArriveRefresh
  <2>2. token[k].st # "none"
    BY <2>1 DEF Shape, TokenShape
  <2>n. m \in Tokens \cup {NoToken} /\ m \in Fresh /\ m # NoToken
    BY <2>1, SessionsAssumption DEF Fresh
  <2> USE <2>n
  <2> WITNESS "refresh" \in AllOps, "findtoken" \in PCs, NoUser \in Users \cup {NoUser},
              k \in Tokens \cup {NoToken}, m \in Tokens \cup {NoToken}, FALSE \in BOOLEAN
  <2> QED BY <2>1, <2>2
<1>4. CASE ArriveLogout(r)
  <2>1. PICK k \in Tokens :
          req' = [req EXCEPT ![r] = Slot("logout", "revoke", NoUser, k, NoToken, FALSE)]
    BY <1>4 DEF ArriveLogout
  <2> WITNESS "logout" \in AllOps, "revoke" \in PCs, NoUser \in Users \cup {NoUser},
              k \in Tokens \cup {NoToken}, NoToken \in Tokens \cup {NoToken}, FALSE \in BOOLEAN
  <2> QED BY <2>1
<1>5. CASE ArriveForMe(r)
  <2>1. PICK v \in Users, o \in {"logoutall", "updateme"} :
          req' = [req EXCEPT ![r] =
            Slot(o, IF o = "logoutall" THEN "revokeall" ELSE "finduser", v, NoToken, NoToken,
                 FALSE)]
    BY <1>5 DEF ArriveForMe, TypeOK
  <2> DEFINE p == IF o = "logoutall" THEN "revokeall" ELSE "finduser"
  <2>2. req' = [req EXCEPT ![r] = Slot(o, p, v, NoToken, NoToken, FALSE)]
    BY <2>1
  <2>3. o \in AllOps /\ p \in PCs /\ ArrivesAs(o, p, v, NoToken, NoToken)
    OBVIOUS
  <2>4. v \in Users \cup {NoUser} /\ NoToken \in Tokens \cup {NoToken} /\ FALSE \in BOOLEAN
    BY <2>1
  <2> HIDE DEF p, Start, CanStart, ArrivesAs, SignIns
  <2> QED BY <2>2, <2>3, <2>4, Zenon
<1>6. CASE ArriveAdmin(r)
  <2>1. CASE req' = [req EXCEPT ![r] = Slot("createuser", "create", NoUser, NoToken, NoToken,
                                            FALSE)]
    <3> WITNESS "createuser" \in AllOps, "create" \in PCs, NoUser \in Users \cup {NoUser},
                NoToken \in Tokens \cup {NoToken}, NoToken \in Tokens \cup {NoToken},
                FALSE \in BOOLEAN
    <3> QED BY <2>1
  <2>2. CASE \E v \in Users, o \in {"setuser", "deluser"}, b \in BOOLEAN :
               req' = [req EXCEPT ![r] =
                 Slot(o, IF o = "setuser" THEN "finduser" ELSE "delete", v, NoToken, NoToken, b)]
    <3>1. PICK v \in Users, o \in {"setuser", "deluser"}, b \in BOOLEAN :
            req' = [req EXCEPT ![r] =
              Slot(o, IF o = "setuser" THEN "finduser" ELSE "delete", v, NoToken, NoToken, b)]
      BY <2>2
    <3> DEFINE p == IF o = "setuser" THEN "finduser" ELSE "delete"
    <3>2. req' = [req EXCEPT ![r] = Slot(o, p, v, NoToken, NoToken, b)]
      BY <3>1
    <3>3. o \in AllOps /\ p \in PCs /\ ArrivesAs(o, p, v, NoToken, NoToken)
      OBVIOUS
    <3>4. v \in Users \cup {NoUser} /\ NoToken \in Tokens \cup {NoToken} /\ b \in BOOLEAN
      BY <3>1
    <3> HIDE DEF p, Start, CanStart, ArrivesAs, SignIns
    <3> QED BY <3>2, <3>3, <3>4, Zenon
  <2> QED BY <1>6, <2>1, <2>2 DEF ArriveAdmin
<1> QED BY <1>1, <1>2, <1>3, <1>4, <1>5, <1>6 DEF Arrive

\* A step of slot r that changes at most rows of tokens already stored.
LEMMA TokenStep ==
    ASSUME TypeOK, Shape, NEW r \in Requests, NEW s \in Request,
           req' = [req EXCEPT ![r] = s], ReqShape(r)', s.new = req[r].new, TokenShape',
           \A t \in Tokens : (token'[t].st = "none") <=> (token[t].st = "none")
    PROVE  req' \in [Requests -> Request] /\ Shape'
<1>1. req'[r] = s /\ \A q \in Requests : q # r => req'[q] = req[q]
  BY DEF TypeOK
<1>2. \A q \in Requests : ReqShape(q)'
  BY <1>1 DEF Shape, ReqShape
<1>3. NewDistinct'
  BY <1>1 DEF Shape, NewDistinct
<1> QED BY <1>2, <1>3 DEF TypeOK, Shape

\* Every step keeps the invariant: one case per action.
LEMMA ShapeNext ==
    ASSUME TypeOK, Shape, [Next]_vars
    PROVE  TypeOK' /\ Shape'
<1>e. env' = env
  BY DEF Next, vars
<1> USE <1>e
<1>u. CASE UNCHANGED vars
  BY <1>u DEF vars, TypeOK, Shape, TokenShape, NewDistinct, ReqShape
<1>p. CASE PurgeExpired
  <2>1. token' \in [Tokens -> TokenRow] /\ TokenShape'
    BY <1>p DEF PurgeExpired, TypeOK, TokenRow, Shape, TokenShape, Dead
  <2>2. \A t \in Tokens : (token'[t].st = "none") <=> (token[t].st = "none")
    BY <1>p DEF PurgeExpired, TypeOK, TokenRow, Dead
  <2>3. \A r \in Requests : ReqShape(r)'
    BY <1>p, <2>2 DEF PurgeExpired, Shape, ReqShape
  <2> QED BY <1>p, <2>1, <2>3 DEF PurgeExpired, TypeOK, Shape, NewDistinct
<1>x. ASSUME NEW t \in Tokens, RefreshExpires(t) PROVE TypeOK' /\ Shape'
  <2>1. token' \in [Tokens -> TokenRow] /\ TokenShape'
    BY <1>x DEF RefreshExpires, TypeOK, TokenRow, Shape, TokenShape
  <2>2. \A v \in Tokens : (token'[v].st = "none") <=> (token[v].st = "none")
    BY <1>x DEF RefreshExpires, TypeOK, TokenRow
  <2>3. \A r \in Requests : ReqShape(r)'
    BY <1>x, <2>2 DEF RefreshExpires, Shape, ReqShape
  <2> QED BY <1>x, <2>1, <2>3 DEF RefreshExpires, TypeOK, Shape, NewDistinct
<1>a. ASSUME NEW u \in Users, AccessExpires(u) PROVE TypeOK' /\ Shape'
  BY <1>a DEF AccessExpires, TypeOK, Shape, TokenShape, NewDistinct, ReqShape
<1>r. CASE Restart
  <2>1. req' \in [Requests -> Request] /\ \A r \in Requests : req'[r] = Idle
    BY <1>r DEF Restart, Idle, Slot, Request, PCs
  <2>2. Idle.new = NoToken
    BY DEF Idle, Slot
  <2> QED BY <1>r, <2>1, <2>2, IdleSlot DEF Restart, TypeOK, Shape, TokenShape, NewDistinct
<1>h. ASSUME NEW r \in Requests, Arrive(r) \/ Handle(r) PROVE TypeOK' /\ Shape'
  <2>s. \A s \in Request : req' = [req EXCEPT ![r] = s] => req'[r] = s
    BY DEF TypeOK
  <2>r. Reply(r) /\ UNCHANGED token => req' \in [Requests -> Request] /\ Shape'
    BY ReplyShape DEF Shape, TokenShape
  <2>1. CASE Arrive(r)
    <3>1. PICK op \in AllOps, pc \in PCs, u \in Users \cup {NoUser}, t \in Tokens \cup {NoToken},
               n \in Tokens \cup {NoToken}, a \in BOOLEAN :
            /\ req' = [req EXCEPT ![r] = Slot(op, pc, u, t, n, a)]
            /\ ArrivesAs(op, pc, u, t, n)
      BY <2>1, ArriveShape
    <3>2. UNCHANGED <<user, token, access, ended>>
      BY <2>1 DEF Arrive, ArriveRegister, ArriveLogin, ArriveRefresh, ArriveLogout,
                  ArriveForMe, ArriveAdmin
    <3> DEFINE s == Slot(op, pc, u, t, n, a)
    <3>3. /\ s \in Request /\ s.op = op /\ s.pc = pc /\ s.u = u /\ s.tok = t /\ s.new = n
      BY DEF Slot, Request, Fresh
    <3>4. req' = [req EXCEPT ![r] = s]
      BY <3>1
    <3> HIDE DEF s
    <3>5. ReqShape(r)'
      BY <2>s, <3>1, <3>2, <3>3, <3>4, SessionsAssumption DEF ArrivesAs, ReqShape, Fresh
    <3>6. s.new \in {req[r].new, NoToken} \cup Fresh
      BY <3>1, <3>3 DEF ArrivesAs
    <3>7. req' \in [Requests -> Request] /\ Shape'
      BY <3>2, <3>3, <3>4, <3>5, <3>6, SlotStep
    <3> QED BY <3>2, <3>7 DEF TypeOK
  <2>2. CASE CreateUser(r)
    <3>0. UNCHANGED <<token, access, ended>>
      BY <2>2 DEF CreateUser
    <3>1. user' \in [Users -> UserRow]
      <4>1. [st |-> "live", active |-> TRUE] \in UserRow
        BY DEF UserRow
      <4> DEFINE row == [st |-> "live", active |-> TRUE]
      <4>2. UNCHANGED user \/ \E u \in Users : user' = [user EXCEPT ![u] = row]
        BY <2>2 DEF CreateUser
      <4> HIDE DEF row
      <4>3. row \in UserRow
        BY <4>1 DEF row
      <4> QED BY <4>2, <4>3 DEF TypeOK
    <3>2. CASE Reply(r)
      BY <2>2, <2>r, <3>1, <3>2 DEF CreateUser, TypeOK
    <3>3. CASE ~Reply(r)
      <4>1. PICK u \in Users :
              /\ req' = [req EXCEPT ![r] = [@ EXCEPT !.pc = "finduser", !.u = u]]
              /\ req[r].op = "register"
        BY <2>2, <3>3 DEF CreateUser
      <4> DEFINE s == [req[r] EXCEPT !.pc = "finduser", !.u = u]
      <4>2. /\ s \in Request /\ s.op = req[r].op /\ s.pc = "finduser" /\ s.u = u
            /\ s.tok = req[r].tok /\ s.new = req[r].new
        BY DEF TypeOK, Request, PCs
      <4>3. req' = [req EXCEPT ![r] = s]
        BY <4>1
      <4> HIDE DEF s
      <4>4. ReqShape(r)'
        <5>1. req[r].op \in SignIns /\ req[r].pc = "create" /\ req'[r] = s
          BY <2>2, <2>s, <4>1, <4>2, <4>3 DEF CreateUser, SignIns
        <5> QED BY <3>0, <4>2, <5>1 DEF Shape, ReqShape
      <4>5. req' \in [Requests -> Request] /\ Shape'
        BY <3>0, <4>2, <4>3, <4>4, SlotStep
      <4> QED BY <3>0, <3>1, <4>5 DEF TypeOK
    <3> QED BY <3>2, <3>3
  <2>3. CASE FindToken(r)
    <3>1. CASE Reply(r)
      BY <2>3, <2>r, <3>1 DEF FindToken, TypeOK
    <3>2. CASE ~Reply(r)
      <4> DEFINE s == [req[r] EXCEPT !.pc = "finduser", !.u = token[req[r].tok].user]
      <4>1. req[r].op \in SignIns /\ req[r].tok \in Tokens /\ token[req[r].tok].user \in Users
        BY <2>3, <3>2 DEF FindToken, Valid, Shape, ReqShape, TokenShape, SignIns
      <4>2. /\ s \in Request /\ s.op = req[r].op /\ s.pc = "finduser" /\ s.u \in Users
            /\ s.tok = req[r].tok /\ s.new = req[r].new
        BY <4>1 DEF TypeOK, Request, PCs
      <4>3. req' = [req EXCEPT ![r] = s]
        BY <2>3, <3>2 DEF FindToken
      <4> HIDE DEF s
      <4>4. ReqShape(r)'
        BY <2>3, <2>s, <4>1, <4>2, <4>3 DEF FindToken, Shape, ReqShape
      <4> QED BY <2>3, <4>2, <4>3, <4>4, SlotStep DEF FindToken, TypeOK
    <3> QED BY <3>1, <3>2
  <2>4. CASE FindUser(r)
    <3>1. CASE Reply(r)
      BY <2>4, <2>r, <3>1 DEF FindUser, TypeOK
    <3>2. CASE ~Reply(r)
      <4>a. InHand(r) \in BOOLEAN
        BY <2>4 DEF FindUser, InHand, TypeOK, Request, UserRow, Shape, ReqShape
      <4>0. req' = [req EXCEPT ![r] = [@ EXCEPT !.pc = AfterUser(req[r].op),
                                               !.active = InHand(r)]]
        BY <2>4, <3>2 DEF FindUser
      <4> DEFINE s == [req[r] EXCEPT !.pc = AfterUser(req[r].op), !.active = InHand(r)]
      <4>1. AfterUser(req[r].op) \in {"revoke", "issue", "deliver", "saveuser"}
        BY DEF AfterUser
      <4>2. /\ s \in Request /\ s.op = req[r].op /\ s.pc = AfterUser(req[r].op)
            /\ s.u = req[r].u /\ s.tok = req[r].tok /\ s.new = req[r].new
        BY <4>a, <4>1 DEF TypeOK, Request, PCs
      <4>3. req' = [req EXCEPT ![r] = s]
        BY <4>0
      <4> HIDE DEF s
      <4>4. /\ req[r].op \in SignIns \cup {"demo", "updateme", "setuser"}
            /\ req[r].u \in Users
            /\ AfterUser(req[r].op) = "deliver" => req[r].op = "demo" /\ "demo" \notin SignIns
            /\ AfterUser(req[r].op) = "issue" => req[r].op \in SignIns
            /\ AfterUser(req[r].op) = "revoke" => req[r].op = "refresh"
        BY <2>4 DEF FindUser, Shape, ReqShape, AfterUser, SignIns
      <4>5. ReqShape(r)'
        BY <2>4, <2>s, <4>1, <4>2, <4>3, <4>4 DEF FindUser, Shape, ReqShape
      <4> QED BY <2>4, <4>2, <4>3, <4>5, SlotStep DEF FindUser, TypeOK
    <3> QED BY <3>1, <3>2
  <2>5. CASE RevokeByHash(r)
    <3>1. token' \in [Tokens -> TokenRow] /\ TokenShape'
      BY <2>5 DEF RevokeByHash, Fails, Revoked, TypeOK, TokenRow, Shape, TokenShape
    <3>2. \A t \in Tokens : (token'[t].st = "none") <=> (token[t].st = "none")
      BY <2>5 DEF RevokeByHash, Fails, Revoked, TypeOK, TokenRow
    <3>3. CASE Reply(r)
      BY <2>5, <3>1, <3>2, <3>3, ReplyShape DEF RevokeByHash, TypeOK
    <3>4. CASE ~Reply(r)
      <4> DEFINE s == [req[r] EXCEPT !.pc = "issue"]
      <4>1. req[r].op = "refresh"
        BY <2>5, <3>4 DEF RevokeByHash
      <4>2. /\ s \in Request /\ s.op = req[r].op /\ s.pc = "issue"
            /\ s.u = req[r].u /\ s.tok = req[r].tok /\ s.new = req[r].new
        BY DEF TypeOK, Request, PCs
      <4>3. req' = [req EXCEPT ![r] = s]
        BY <2>5, <3>4 DEF RevokeByHash, Goto
      <4> HIDE DEF s
      <4>4. ReqShape(r)'
        BY <2>5, <2>s, <3>2, <4>1, <4>2, <4>3 DEF RevokeByHash, Shape, ReqShape, SignIns
      <4> QED BY <2>5, <3>1, <3>2, <4>2, <4>3, <4>4, TokenStep DEF RevokeByHash, TypeOK
    <3> QED BY <3>3, <3>4
  <2>6. CASE Issue(r)
    <3>0. /\ req[r].op \in SignIns /\ req[r].u \in Users /\ req[r].new \in Tokens
          /\ token[req[r].new].st = "none"
      BY <2>6 DEF Issue, Shape, ReqShape
    <3>1. CASE Reply(r) /\ UNCHANGED token
      BY <2>6, <2>r, <3>1 DEF Issue, TypeOK
    <3>2. CASE ~(Reply(r) /\ UNCHANGED token)
      <4>1. PICK e \in Tokens : token' = [token EXCEPT ![req[r].new] =
                    [st |-> "live", user |-> req[r].u, session |-> e,
                     expired |-> FALSE, given |-> FALSE]]
        BY <2>6, <3>0, <3>2 DEF Issue, Fails, Shape, ReqShape, TokenShape
      <4>2. token' \in [Tokens -> TokenRow] /\ TokenShape'
        BY <3>0, <4>1 DEF TypeOK, TokenRow, Shape, TokenShape
      <4>3. /\ token'[req[r].new].st # "none"
            /\ \A t \in Tokens : t # req[r].new => token'[t].st = token[t].st
        BY <3>0, <4>1 DEF TypeOK
      <4>4. /\ \A q \in Requests : q # r => req'[q] = req[q]
            /\ \/ req'[r] = [req[r] EXCEPT !.pc = "deliver"]
               \/ req'[r] = Idle
            /\ req' \in [Requests -> Request]
        <5>1. Reply(r) \/ Goto(r, "deliver")
          BY <2>6 DEF Issue
        <5>2. Idle \in Request /\ [req[r] EXCEPT !.pc = "deliver"] \in Request
          BY DEF TypeOK, Request, PCs, Idle, Slot
        <5> QED BY <5>1, <5>2 DEF Goto, Reply, TypeOK
      <4>5. \A q \in Requests : q # r => ReqShape(q)'
        <5> SUFFICES ASSUME NEW q \in Requests, q # r PROVE ReqShape(q)'
          OBVIOUS
        <5>1. req[q].new # req[r].new
          BY <3>0, SessionsAssumption DEF Shape, NewDistinct
        <5>2. req'[q] = req[q] /\ ReqShape(q)
          BY <4>4 DEF Shape
        <5>3. \A t \in Tokens : token[t].st # "none" => token'[t].st # "none"
          BY <4>3
        <5> QED BY <4>3, <5>1, <5>2, <5>3 DEF ReqShape, SignIns
      <4>6. ReqShape(r)'
        <5>1. CASE req'[r] = Idle
          BY <5>1, IdleSlot
        <5>2. CASE req'[r] = [req[r] EXCEPT !.pc = "deliver"]
          <6>1. /\ req'[r].pc = "deliver" /\ req'[r].op = req[r].op /\ req'[r].u = req[r].u
                /\ req'[r].tok = req[r].tok /\ req'[r].new = req[r].new
            BY <5>2 DEF TypeOK, Request
          <6> QED BY <3>0, <4>3, <6>1 DEF Shape, ReqShape
        <5> QED BY <4>4, <5>1, <5>2
      <4>7. NewDistinct'
        <5>1. req'[r].new \in {req[r].new, NoToken}
          BY <4>4 DEF Idle, Slot, TypeOK, Request
        <5> QED BY <4>4, <5>1 DEF Shape, NewDistinct
      <4> QED BY <2>6, <4>2, <4>4, <4>5, <4>6, <4>7 DEF Issue, TypeOK, Shape
    <3> QED BY <3>1, <3>2
  <2>7. CASE Deliver(r)
    <3>a. /\ req[r].u \in Users
          /\ req[r].op # "demo" => /\ req[r].new \in Tokens /\ token[req[r].new].st # "none"
      BY <2>7 DEF Deliver, Shape, ReqShape
    <3>0. req[r].op # "demo" => [token[req[r].new] EXCEPT !.given = TRUE] \in TokenRow
      BY <3>a DEF TypeOK, TokenRow
    <3>1. \/ UNCHANGED token
          \/ /\ req[r].op # "demo"
             /\ token' = [token EXCEPT ![req[r].new] = [@ EXCEPT !.given = TRUE]]
      BY <2>7 DEF Deliver
    <3>2. token' \in [Tokens -> TokenRow]
      BY <3>a, <3>0, <3>1 DEF TypeOK
    <3>3. TokenShape' /\ \A t \in Tokens : (token'[t].st = "none") <=> (token[t].st = "none")
      BY <3>a, <3>1, <3>2 DEF TypeOK, TokenRow, Shape, TokenShape
    <3> QED BY <2>7, <3>a, <3>2, <3>3, ReplyShape DEF Deliver, TypeOK
  <2>8. CASE RevokeAllForUser(r)
    <3>1. token' \in [Tokens -> TokenRow] /\ TokenShape'
      BY <2>8 DEF RevokeAllForUser, Fails, Revoked, TypeOK, TokenRow, Shape, TokenShape
    <3>2. \A t \in Tokens : (token'[t].st = "none") <=> (token[t].st = "none")
      BY <2>8 DEF RevokeAllForUser, Fails, Revoked, TypeOK, TokenRow
    <3>3. ended' \subseteq Tokens
      <4>1. UNCHANGED ended \/ ended' = ended \cup SessionsOf(req[r].u)
        BY <2>8 DEF RevokeAllForUser
      <4>2. req[r].u \in Users
        BY <2>8 DEF RevokeAllForUser, Shape, ReqShape
      <4>3. SessionsOf(req[r].u) \subseteq Tokens
        BY <4>2, SessionsAssumption DEF SessionsOf, Shape, TokenShape
      <4> QED BY <4>1, <4>3 DEF TypeOK
    <3> QED BY <2>8, <3>1, <3>2, <3>3, ReplyShape DEF RevokeAllForUser, TypeOK
  <2>9. CASE SaveUser(r)
    <3> DEFINE b == req[r].active \/ user[req[r].u].st # "live"
    <3>1. b \in BOOLEAN
      OBVIOUS
    <3>2. UNCHANGED user \/ user' = [user EXCEPT ![req[r].u] = [st |-> "live", active |-> b]]
      BY <2>9 DEF SaveUser, GormSave, Fails
    <3> HIDE DEF b
    <3>3. user' \in [Users -> UserRow]
      BY <3>1, <3>2 DEF TypeOK, UserRow
    <3> QED BY <2>9, <2>r, <3>3 DEF SaveUser, TypeOK
  <2>10. CASE DeleteUser(r)
    <3>1. user' \in [Users -> UserRow]
      BY <2>10 DEF DeleteUser, Fails, TypeOK, UserRow
    <3> QED BY <2>10, <2>r, <3>1 DEF DeleteUser, TypeOK
  <2> QED BY <1>h, <2>1, <2>2, <2>3, <2>4, <2>5, <2>6, <2>7, <2>8, <2>9, <2>10 DEF Handle
<1> QED BY <1>u, <1>p, <1>x, <1>a, <1>r, <1>h DEF Next

\* TypeOK and Shape, the inductive invariant, hold from the start and for ever.
LEMMA ShapeInvariant == Spec => [](TypeOK /\ Shape)
<1>1. Init => TypeOK /\ Shape
  <2> SUFFICES ASSUME Init PROVE TypeOK /\ Shape
    OBVIOUS
  <2>1. Idle \in Request /\ Idle.op = "none" /\ Idle.pc = "idle" /\ Idle.new = NoToken
    BY DEF Idle, Slot, Request, PCs
  <2>2. TypeOK
    BY <2>1 DEF Init, TypeOK, UserRow, TokenRow
  <2>3. \A r \in Requests : req[r] = Idle
    BY DEF Init
  <2> HIDE DEF Idle
  <2> QED BY <2>1, <2>2, <2>3 DEF Init, Shape, TokenShape, NewDistinct, ReqShape, SignIns
<1>2. TypeOK /\ Shape /\ [Next]_vars => TypeOK' /\ Shape'
  BY ShapeNext
<1> QED BY <1>1, <1>2, PTL DEF Spec

\* The tables and the requests stay well-formed.
THEOREM TypeCorrect == Spec => []TypeOK
BY ShapeInvariant, PTL

-----------------------------------------------------------------------------
\* What RevocationPermanent says of one step, for one token.
Permanent(t) ==
    /\ token[t].st \in {"revoked", "purged"} => token'[t].st \in {"revoked", "purged"}
    /\ token[t].st # "none" => /\ token'[t].user = token[t].user
                               /\ token'[t].session = token[t].session

\* Every statement that touches a stored row leaves its owner and session alone
\* and never puts it back; the only INSERT is of a row not stored before.
LEMMA PermanentStep ==
    ASSUME TypeOK, Shape, [Next]_vars
    PROVE  \A t \in Tokens : Permanent(t)
<1> USE DEF Permanent
<1>u. CASE UNCHANGED token
  BY <1>u
<1>p. CASE PurgeExpired
  BY <1>p DEF PurgeExpired, TypeOK, TokenRow, Dead
<1>x. ASSUME NEW v \in Tokens, RefreshExpires(v) PROVE \A t \in Tokens : Permanent(t)
  BY <1>x DEF RefreshExpires, TypeOK, TokenRow
<1>h. ASSUME NEW r \in Requests, Handle(r) PROVE \A t \in Tokens : Permanent(t)
  <2>1. CASE RevokeByHash(r)
    BY <2>1 DEF RevokeByHash, Fails, Revoked, TypeOK, TokenRow
  <2>2. CASE Issue(r)
    <3>1. req[r].new \in Tokens /\ token[req[r].new].st = "none"
      BY <2>2 DEF Issue, Shape, ReqShape
    <3>2. \A t \in Tokens : t # req[r].new => token'[t] = token[t]
      BY <2>2, <3>1 DEF Issue, Fails, TypeOK
    <3> QED BY <3>1, <3>2
  <2>3. CASE Deliver(r)
    BY <2>3 DEF Deliver, TypeOK, TokenRow
  <2>4. CASE RevokeAllForUser(r)
    BY <2>4 DEF RevokeAllForUser, Fails, Revoked, TypeOK, TokenRow
  <2>5. CASE \/ CreateUser(r) \/ FindToken(r) \/ FindUser(r) \/ SaveUser(r) \/ DeleteUser(r)
    BY <2>5, <1>u DEF CreateUser, FindToken, FindUser, SaveUser, DeleteUser
  <2> QED BY <1>h, <2>1, <2>2, <2>3, <2>4, <2>5 DEF Handle
<1>a. ASSUME NEW r \in Requests, Arrive(r) PROVE UNCHANGED token
  BY <1>a DEF Arrive, ArriveRegister, ArriveLogin, ArriveRefresh, ArriveLogout,
              ArriveForMe, ArriveAdmin
<1>o. (\E u \in Users : AccessExpires(u)) \/ Restart \/ UNCHANGED vars => UNCHANGED token
  BY DEF AccessExpires, Restart, vars
<1> QED BY <1>u, <1>p, <1>x, <1>h, <1>a, <1>o DEF Next

\* Revocation is for good and tokens do not change hands, whatever the
\* interleaving, the failures and the crashes.
THEOREM RevocationsPermanent == Spec => RevocationPermanent
<1>1. TypeOK /\ Shape /\ [Next]_vars =>
        [\A t \in Tokens :
          /\ token[t].st \in {"revoked", "purged"} => token'[t].st \in {"revoked", "purged"}
          /\ token[t].st # "none" => /\ token'[t].user = token[t].user
                                     /\ token'[t].session = token[t].session]_vars
  BY PermanentStep DEF Permanent
<1> QED BY <1>1, ShapeInvariant, PTL DEF Spec, RevocationPermanent

-----------------------------------------------------------------------------
\* One slot holds a sign-in of u that is past its look at the account.
PendingIn(r, u) ==
    /\ req[r].u = u
    /\ req[r].op \in SignIns \cup {"demo"}
    /\ req[r].pc \in {"revoke", "issue", "deliver"}

\* An idle slot holds none.
LEMMA IdleNotPending ==
    ASSUME NEW r \in Requests, NEW u, req'[r] = Idle
    PROVE  ~PendingIn(r, u)'
BY DEF PendingIn, Idle, Slot, SignIns

\* A sign-in gets past its look only by finding the account enabled.
LEMMA PendingStep ==
    ASSUME TypeOK, Shape, [Next]_vars, NEW q \in Requests, NEW u \in Users, PendingIn(q, u)'
    PROVE  PendingIn(q, u) \/ Enabled(u)
<1>s. req'[q] = req[q] => PendingIn(q, u)
  BY DEF PendingIn
<1>i. req'[q] # Idle
  BY IdleNotPending
<1>1. CASE Restart
  BY <1>1, <1>i DEF Restart
<1>2. CASE UNCHANGED req
  BY <1>2, <1>s
<1>3. ASSUME NEW r \in Requests, Arrive(r) \/ Handle(r), req'[q] # req[q]
      PROVE  PendingIn(q, u) \/ Enabled(u)
  <2>1. CASE Arrive(r)
    <3>1. PICK op \in AllOps, pc \in PCs, v \in Users \cup {NoUser}, t \in Tokens \cup {NoToken},
               n \in Tokens \cup {NoToken}, a \in BOOLEAN :
            /\ req' = [req EXCEPT ![r] = Slot(op, pc, v, t, n, a)]
            /\ ArrivesAs(op, pc, v, t, n)
      BY <2>1, ArriveShape
    <3>2. req'[q].op = op /\ req'[q].pc = pc
      BY <1>3, <3>1 DEF TypeOK, Slot
    <3> QED BY <3>1, <3>2 DEF ArrivesAs, PendingIn, SignIns
  <2>2. CASE Reply(r)
    BY <1>3, <1>i, <2>2 DEF Reply, TypeOK
  <2>3. CASE Handle(r) /\ ~Reply(r)
    <3>1. CASE CreateUser(r)
      <4>1. PICK v \in Users : req' = [req EXCEPT ![r] = [@ EXCEPT !.pc = "finduser", !.u = v]]
        BY <2>3, <3>1 DEF CreateUser
      <4>2. req'[q].pc = "finduser"
        BY <1>3, <4>1 DEF TypeOK, Request
      <4> QED BY <4>2 DEF PendingIn
    <3>2. CASE FindToken(r)
      BY <1>3, <2>3, <3>2 DEF FindToken, PendingIn, TypeOK, Request
    <3>3. CASE FindUser(r)
      <4>1. /\ Admits(req[r].op, req[r].u)
            /\ req' = [req EXCEPT ![r] = [@ EXCEPT !.pc = AfterUser(req[r].op),
                                                  !.active = InHand(r)]]
        BY <2>3, <3>3 DEF FindUser
      <4>2. q = r /\ req'[q].op = req[r].op /\ req'[q].u = req[r].u
        BY <1>3, <4>1 DEF TypeOK, Request
      <4> QED BY <4>1, <4>2 DEF Admits, PendingIn, SignIns
    <3>4. CASE RevokeByHash(r)
      BY <1>3, <2>3, <3>4 DEF RevokeByHash, Goto, PendingIn, TypeOK, Request
    <3>5. CASE Issue(r)
      BY <1>3, <2>3, <3>5 DEF Issue, Goto, PendingIn, TypeOK, Request
    <3>6. CASE Deliver(r) \/ RevokeAllForUser(r) \/ SaveUser(r) \/ DeleteUser(r)
      BY <2>3, <3>6 DEF Deliver, RevokeAllForUser, SaveUser, DeleteUser
    <3> QED BY <2>3, <3>1, <3>2, <3>3, <3>4, <3>5, <3>6 DEF Handle
  <2> QED BY <1>3, <2>1, <2>2, <2>3
<1> QED BY <1>1, <1>2, <1>3, <1>s
      DEF Next, PurgeExpired, RefreshExpires, AccessExpires, vars

\* Access tokens go only to a user a pending sign-in is of.
LEMMA AccessStep ==
    ASSUME TypeOK, Shape, [Next]_vars, NEW u \in Users, u \in access'
    PROVE  u \in access \/ \E r \in Requests : PendingIn(r, u)
<1>1. ASSUME NEW r \in Requests, Deliver(r) PROVE u \in access \/ PendingIn(r, u)
  BY <1>1 DEF Deliver, PendingIn, Shape, ReqShape
<1>2. ASSUME NEW r \in Requests, Arrive(r) \/ Handle(r), ~Deliver(r) PROVE UNCHANGED access
  BY <1>2 DEF Arrive, ArriveRegister, ArriveLogin, ArriveRefresh, ArriveLogout,
              ArriveForMe, ArriveAdmin, Handle, CreateUser, FindToken, FindUser, RevokeByHash,
              Issue, RevokeAllForUser, SaveUser, DeleteUser
<1>3. (\E r \in Requests : Deliver(r)) \/ access' \subseteq access
  BY <1>2 DEF Next, PurgeExpired, RefreshExpires, AccessExpires, Restart, vars
<1> QED BY <1>1, <1>3

\* Who is locked out stays out until enabled again, for any number of tokens,
\* requests, failures and crashes.
THEOREM LockoutsHold == Spec => LockoutHolds
<1>1. ASSUME TypeOK, Shape, [Next]_vars, NEW u \in Users, LockedOut(u), ~Enabled(u)'
      PROVE  LockedOut(u)'
  <2>1. \A r \in Requests : ~PendingIn(r, u)
    BY <1>1 DEF LockedOut, Pending, PendingIn, SignIns
  <2>2. u \notin access'
    BY <1>1, <2>1, AccessStep DEF LockedOut
  <2>3. \A r \in Requests : ~PendingIn(r, u)'
    BY <1>1, <2>1, PendingStep DEF LockedOut
  <2>4. ~Pending(u)'
    BY <2>3 DEF Pending, PendingIn, SignIns
  <2> QED BY <1>1, <2>2, <2>4 DEF LockedOut
<1>2. TypeOK /\ Shape /\ [Next]_vars =>
        [\A u \in Users : LockedOut(u) => LockedOut(u)' \/ Enabled(u)']_vars
  BY <1>1
<1> QED BY <1>2, ShapeInvariant, PTL DEF Spec, LockoutHolds
=============================================================================
