------------------------- MODULE RateLimiter_proofs -------------------------
(***************************************************************************)
(* Proofs about RateLimiter, for any number of requests and IPs, any limit *)
(* and window, and any Lag.                                                *)
(***************************************************************************)
EXTENDS RateLimiter, FiniteSetTheorems, TLAPS

\* No more attempts than the limit.
Bounded ==
    \A w \in Requests : IsFiniteSet(attempts[w]) /\ Cardinality(attempts[w]) <= MaxHits

\* A request takes the lock at most Lag after its time stamp.
Prompt ==
    \A r \in Requests :
        /\ req[r].pc = "lock" => req[r].now <= clock /\ clock <= req[r].now + Lag
        /\ req[r].pc = "admitted" => req[r].at <= clock /\ req[r].at <= req[r].now + Lag

\* A window still remembers whom it let through recently.
Remembered == \A w \in Requests : Recent(w) \subseteq attempts[w]

IInv == TypeOK /\ Bounded /\ Prompt /\ Remembered

\* The sets of the arithmetic.
LEMMA Numbers ==
    /\ \A t \in Time : t \in Int
    /\ MaxHits \in Int /\ Window \in Int /\ Lag \in Int /\ Window - Lag \in Int /\ 0 <= Lag
BY LimiterAssumption DEF Time

\* The initial states satisfy the invariant: nothing is admitted or remembered.
LEMMA InvInit == Init => IInv
<1> SUFFICES ASSUME Init PROVE IInv
  OBVIOUS
<1>1. TypeOK
  <2>1. PICK f \in [Requests -> IPs] :
          req = [r \in Requests |-> [pc |-> "new", ip |-> f[r], sw |-> NoWindow,
                                     now |-> 0, at |-> 0]]
    BY DEF Init
  <2>2. 0 \in Time
    BY LimiterAssumption DEF Time
  <2>3. req \in [Requests -> Request] /\ \A r \in Requests : req[r].pc = "new"
    BY <2>1, <2>2 DEF Request, PCs
  <2> QED BY <2>2, <2>3 DEF Init, TypeOK
<1>2. \A r \in Requests : req[r].pc = "new"
  BY DEF Init
<1>3. Bounded
  BY FS_EmptySet, LimiterAssumption DEF Init, Bounded
<1> QED BY <1>1, <1>2, <1>3 DEF IInv, Prompt, Remembered, Recent, Admitted

\* Whatever leaves the requests and the windows alone, and does not turn the
\* clock back, keeps what the windows remember.
LEMMA QuietStep ==
    ASSUME IInv, UNCHANGED <<attempts, req>>, clock' \in Time, clock' >= clock,
           \A r \in Requests : req[r].pc = "lock" => clock' <= req[r].now + Lag
    PROVE  Bounded' /\ Prompt' /\ Remembered'
<1>1. Bounded'
  BY DEF IInv, Bounded
<1>n. /\ clock \in Int /\ clock' \in Int /\ Window - Lag \in Int /\ Lag \in Int
      /\ \A r \in Requests : req[r].now \in Int /\ req[r].at \in Int
  BY Numbers DEF IInv, TypeOK, Request
<1>2. Prompt'
  <2> SUFFICES ASSUME NEW r \in Requests
               PROVE  /\ req[r].pc = "lock" => req[r].now <= clock' /\ clock' <= req[r].now + Lag
                      /\ req[r].pc = "admitted" =>
                            req[r].at <= clock' /\ req[r].at <= req[r].now + Lag
    BY DEF Prompt
  <2> QED BY <1>n DEF IInv, Prompt
<1>3. \A w \in Requests : Recent(w)' \subseteq Recent(w)
  <2> SUFFICES ASSUME NEW w \in Requests, NEW q \in Requests, req[q].pc = "admitted",
                      req[q].sw = w, req[q].at > clock' - (Window - Lag)
               PROVE  req[q].at > clock - (Window - Lag)
    BY DEF Recent, Admitted
  <2> QED BY <1>n
<1> QED BY <1>1, <1>2, <1>3 DEF IInv, Remembered

\* allow() keeps the invariant: what it forgets is no longer recent, and it lets
\* a request through only below the limit.
LEMMA AllowStep ==
    ASSUME IInv, NEW r \in Requests, Allow(r)
    PROVE  IInv'
<1> DEFINE w == req[r].sw
           valid == Unexpired(w, req[r].now)
           pc == IF Full(valid) THEN "denied" ELSE "admitted"
<1>0. /\ w \in Requests /\ clock \in Time /\ req[r].now \in Time
      /\ req[r].now <= clock /\ clock <= req[r].now + Lag
  BY DEF IInv, TypeOK, Prompt, Request, Allow
<1>1. valid \subseteq attempts[w]
  BY DEF Unexpired
<1>2. IsFiniteSet(valid) /\ Cardinality(valid) \in Nat /\ Cardinality(valid) <= MaxHits
  <2>1. IsFiniteSet(attempts[w]) /\ Cardinality(attempts[w]) <= MaxHits
    BY <1>0 DEF IInv, Bounded
  <2>2. /\ IsFiniteSet(valid) /\ Cardinality(valid) <= Cardinality(attempts[w])
    BY <1>1, <2>1, FS_Subset
  <2>3. Cardinality(valid) \in Nat /\ Cardinality(attempts[w]) \in Nat
    BY <2>1, <2>2, FS_CardinalityType
  <2> HIDE DEF valid
  <2> QED BY <2>1, <2>2, <2>3, Numbers
<1>3. /\ attempts' = [attempts EXCEPT ![w] = IF Full(valid) THEN valid ELSE valid \cup {r}]
      /\ req' = [req EXCEPT ![r] = [@ EXCEPT !.pc = pc, !.at = clock]]
      /\ UNCHANGED <<clock, entries, tick, sweeping, todo>>
  BY DEF Allow
<1>4. /\ [req[r] EXCEPT !.pc = pc, !.at = clock] \in Request
      /\ req'[r].pc = pc /\ req'[r].at = clock /\ req'[r].now = req[r].now
      /\ req'[r].sw = w /\ pc \in {"denied", "admitted"}
  BY <1>0, <1>3 DEF IInv, TypeOK, Request, PCs
<1>5. \A q \in Requests : q # r => req'[q] = req[q]
  BY <1>3 DEF IInv, TypeOK
<1>6. /\ attempts'[w] = IF Full(valid) THEN valid ELSE valid \cup {r}
      /\ \A v \in Requests : v # w => attempts'[v] = attempts[v]
  BY <1>0, <1>3 DEF IInv, TypeOK
<1>7. TypeOK'
  <2>1. req' \in [Requests -> Request]
    BY <1>3, <1>4 DEF IInv, TypeOK
  <2>2. attempts' \in [Requests -> SUBSET Requests]
    BY <1>1, <1>3 DEF IInv, TypeOK
  <2> HIDE DEF w, pc, valid
  <2> QED BY <1>0, <1>3, <1>4, <1>5, <2>1, <2>2 DEF IInv, TypeOK
<1>8. Bounded'
  <2>1. CASE Full(valid)
    BY <1>2, <1>6, <2>1 DEF IInv, Bounded
  <2>2. CASE ~Full(valid)
    <3>1. Cardinality(valid) < MaxHits
      BY <1>2, <2>2, Numbers DEF Full
    <3>2. /\ IsFiniteSet(valid \cup {r})
          /\ \/ Cardinality(valid \cup {r}) = Cardinality(valid)
             \/ Cardinality(valid \cup {r}) = Cardinality(valid) + 1
      BY <1>2, FS_AddElement
    <3> HIDE DEF valid
    <3>3. Cardinality(valid \cup {r}) <= MaxHits
      BY <1>2, <3>1, <3>2, Numbers
    <3> QED BY <1>6, <2>2, <3>2, <3>3 DEF IInv, Bounded
  <2> QED BY <2>1, <2>2
<1>9. Prompt'
  <2> HIDE DEF w, pc, valid
  <2> QED BY <1>0, <1>3, <1>4, <1>5, Numbers DEF IInv, Prompt, TypeOK, Request
<1>10. Remembered'
  <2> SUFFICES ASSUME NEW v \in Requests, NEW q \in Recent(v)' PROVE q \in attempts'[v]
    BY DEF Remembered
  <2>1. CASE q = r
    BY <1>4, <1>6, <2>1 DEF Recent, Admitted
  <2>2. CASE q # r
    <3>1. q \in Recent(v)
      BY <1>3, <1>5, <2>2 DEF Recent, Admitted
    <3>2. q \in attempts[v]
      BY <3>1 DEF IInv, Remembered
    <3>3. CASE v = w
      <4>1. /\ req[q].at > clock - (Window - Lag) /\ req[q].at <= req[q].now + Lag
            /\ req[q].at \in Int /\ req[q].now \in Int
        BY <3>1, Numbers DEF Recent, Admitted, IInv, Prompt, TypeOK, Request
      <4>n. clock \in Int /\ req[r].now \in Int /\ Window \in Int /\ Lag \in Int
        BY <1>0, Numbers
      <4>2. req[q].now > req[r].now - Window
        BY <1>0, <4>n, <4>1
      <4> QED BY <1>6, <3>2, <3>3, <4>2 DEF Unexpired
    <3> QED BY <1>6, <3>2, <3>3
  <2> QED BY <2>1, <2>2
<1> QED BY <1>7, <1>8, <1>9, <1>10 DEF IInv

\* Every step keeps the invariant.
LEMMA InvNext ==
    ASSUME IInv, [Next]_vars
    PROVE  IInv'
<1>n. /\ clock \in Int /\ Lag \in Int
      /\ \A r \in Requests : req[r].pc = "lock" => clock <= req[r].now + Lag
  BY Numbers DEF IInv, TypeOK, Prompt
\* Of a step that leaves the requests, the windows and the clock alone, the types
\* remain to be seen.
<1>q. UNCHANGED <<clock, attempts, req>> => Bounded' /\ Prompt' /\ Remembered'
  BY <1>n, QuietStep DEF IInv, TypeOK
<1>u. CASE UNCHANGED vars
  BY <1>u, <1>q DEF vars, IInv, TypeOK
<1>g. ASSUME NEW r \in Requests, Get(r) PROVE IInv'
  <2> DEFINE ip == req[r].ip
             sw == IF entries[ip] = NoWindow THEN r ELSE entries[ip]
  <2>0. ip \in IPs /\ sw \in Requests
    BY DEF IInv, TypeOK, Request
  <2>1. /\ req[r].pc = "new"
        /\ entries' = [entries EXCEPT ![ip] = sw]
        /\ req' = [req EXCEPT ![r] = [@ EXCEPT !.pc = "now", !.sw = sw]]
        /\ UNCHANGED <<clock, attempts, tick, sweeping, todo>>
    BY <1>g DEF Get
  <2> HIDE DEF sw
  <2>2. /\ [req[r] EXCEPT !.pc = "now", !.sw = sw] \in Request
        /\ req'[r].pc = "now" /\ req'[r].sw = sw
        /\ \A q \in Requests : q # r => req'[q] = req[q]
    BY <2>0, <2>1 DEF IInv, TypeOK, Request, PCs
  <2>3. TypeOK'
    BY <2>0, <2>1, <2>2 DEF IInv, TypeOK
  <2>4. Prompt' /\ Bounded'
    BY <2>1, <2>2 DEF IInv, Prompt, Bounded
  <2>5. \A w \in Requests : Recent(w)' \subseteq Recent(w)
    BY <2>1, <2>2 DEF Recent, Admitted
  <2> QED BY <2>1, <2>3, <2>4, <2>5 DEF IInv, Remembered
<1>s. ASSUME NEW r \in Requests, Stamp(r) PROVE IInv'
  <2>1. /\ req[r].pc = "now"
        /\ req' = [req EXCEPT ![r] = [@ EXCEPT !.pc = "lock", !.now = clock]]
        /\ UNCHANGED <<clock, entries, attempts, tick, sweeping, todo>>
    BY <1>s DEF Stamp
  <2>2. /\ [req[r] EXCEPT !.pc = "lock", !.now = clock] \in Request
        /\ req'[r].pc = "lock" /\ req'[r].now = clock /\ req'[r].sw = req[r].sw
        /\ \A q \in Requests : q # r => req'[q] = req[q]
    BY <2>1 DEF IInv, TypeOK, Request, PCs
  <2>3. TypeOK'
    BY <2>1, <2>2 DEF IInv, TypeOK
  <2>4. Prompt' /\ Bounded'
    <3>1. clock <= clock /\ clock <= clock + Lag
      BY Numbers DEF IInv, TypeOK
    <3> QED BY <2>1, <2>2, <3>1 DEF IInv, Prompt, Bounded
  <2>5. \A w \in Requests : Recent(w)' \subseteq Recent(w)
    BY <2>1, <2>2 DEF Recent, Admitted
  <2> QED BY <2>1, <2>3, <2>4, <2>5 DEF IInv, Remembered
<1>b. CASE SweepBegin
  BY <1>b, <1>q DEF SweepBegin, IInv, TypeOK
<1>o. ASSUME NEW ip \in IPs, SweepOne(ip) PROVE IInv'
  <2>1. entries' \in [IPs -> Requests \cup {NoWindow}]
    BY <1>o DEF SweepOne, IInv, TypeOK
  <2> QED BY <1>o, <1>q, <2>1 DEF SweepOne, IInv, TypeOK
<1>e. CASE SweepEnd
  BY <1>e, <1>q DEF SweepEnd, IInv, TypeOK
<1>a. CASE Advance
  <2>1. clock' \in Time /\ clock' >= clock /\ clock' = clock + 1
    BY <1>a, LimiterAssumption DEF Advance, IInv, TypeOK, Time
  <2>2. \A r \in Requests : req[r].pc = "lock" => clock' <= req[r].now + Lag
    <3> SUFFICES ASSUME NEW r \in Requests, req[r].pc = "lock"
                 PROVE  clock' <= req[r].now + Lag
      OBVIOUS
    <3>1. clock < req[r].now + Lag /\ req[r].now \in Int
      BY <1>a, Numbers DEF Advance, IInv, TypeOK, Request
    <3> QED BY <1>n, <2>1, <3>1
  <2>3. Bounded' /\ Prompt' /\ Remembered'
    BY <1>a, <2>1, <2>2, QuietStep DEF Advance
  <2>4. tick' \in BOOLEAN
    BY <1>a DEF Advance
  <2> QED BY <1>a, <2>1, <2>3, <2>4 DEF Advance, IInv, TypeOK
<1> QED BY <1>u, <1>g, <1>s, <1>b, <1>o, <1>e, <1>a, AllowStep DEF Next

\* The invariant holds for ever.
LEMMA Invariant == Spec => []IInv
BY InvInit, InvNext, PTL DEF Spec

\* Whatever the interleaving of requests and cleanup, every request that has been
\* given a window has one, and times are times.
THEOREM TypeCorrect == Spec => []TypeOK
<1>1. IInv => TypeOK
  BY DEF IInv
<1> QED BY <1>1, Invariant, PTL

\* A window lets through at most MaxHits requests in any Window - Lag ticks, for
\* any number of requests and however they interleave.
THEOREM WindowsBounded == Spec => []RateBounded
<1>1. IInv => RateBounded
  <2> SUFFICES ASSUME IInv, NEW w \in Requests PROVE Cardinality(Recent(w)) <= MaxHits
    BY DEF RateBounded
  <2>1. /\ IsFiniteSet(attempts[w]) /\ Cardinality(attempts[w]) <= MaxHits
        /\ Recent(w) \subseteq attempts[w]
    BY DEF IInv, Bounded, Remembered
  <2>2. IsFiniteSet(Recent(w)) /\ Cardinality(Recent(w)) <= Cardinality(attempts[w])
    BY <2>1, FS_Subset
  <2>3. Cardinality(Recent(w)) \in Nat /\ Cardinality(attempts[w]) \in Nat
    BY <2>1, <2>2, FS_CardinalityType
  <2> QED BY <2>1, <2>2, <2>3, Numbers
<1> QED BY <1>1, Invariant, PTL

\* The cleanup leaves alone every window that still counts.
THEOREM UsedWindowsKept == Spec => UsedWindowKept
<1>1. ASSUME IInv, [Next]_vars, NEW ip \in IPs, entries[ip] # NoWindow,
             Unexpired(entries[ip], clock) # {}
      PROVE  entries'[ip] = entries[ip]
  <2>1. ASSUME NEW r \in Requests, Get(r) PROVE entries'[ip] = entries[ip]
    BY <1>1, <2>1 DEF Get, IInv, TypeOK
  <2>2. ASSUME NEW i \in IPs, SweepOne(i) PROVE entries'[ip] = entries[ip]
    <3>1. CASE i = ip
      BY <1>1, <2>2, <3>1 DEF SweepOne, Unused, Unexpired
    <3>2. CASE i # ip
      BY <2>2, <3>2 DEF SweepOne, IInv, TypeOK
    <3> QED BY <3>1, <3>2
  <2> QED BY <1>1, <2>1, <2>2 DEF Next, Stamp, Allow, SweepBegin, SweepEnd, Advance, vars
<1>2. IInv /\ [Next]_vars =>
        [\A ip \in IPs : entries[ip] # NoWindow /\ Unexpired(entries[ip], clock) # {} =>
           entries'[ip] = entries[ip]]_vars
  BY <1>1
<1> QED BY <1>2, Invariant, PTL DEF Spec, UsedWindowKept

-----------------------------------------------------------------------------
\* A window is one address's: the address of the request it is named after is that of
\* its entry and of every request that holds it, and it remembers requests it let
\* through, of which there are only finitely many so far.
Attributed ==
    /\ IsFiniteSet(Admitted)
    /\ \A ip \in IPs : entries[ip] # NoWindow => req[entries[ip]].ip = ip
    /\ \A r \in Requests : req[r].pc # "new" => req[req[r].sw].ip = req[r].ip
    /\ \A w \in Requests : \A q \in attempts[w] : req[q].pc = "admitted" /\ req[q].sw = w

\* No request changes its address; one that is admitted or refused was about to be
\* decided, and keeps its window and its time stamp.
LEMMA RequestStep ==
    ASSUME IInv, [Next]_vars, NEW q \in Requests
    PROVE  /\ req'[q].ip = req[q].ip
           /\ req'[q].pc = "new" => req[q].pc = "new"
           /\ req[q].pc \in {"admitted", "denied"} => req'[q] = req[q]
           /\ req[q].pc # "new" => req'[q].sw = req[q].sw
           /\ req'[q].pc \in {"admitted", "denied"} /\ req'[q] # req[q] =>
                 Allow(q) /\ req'[q].now = req[q].now
<1>1. ASSUME NEW r \in Requests, Get(r) \/ Stamp(r) \/ Allow(r), req'[q] # req[q]
      PROVE  /\ q = r /\ req'[q].ip = req[q].ip /\ req'[q].pc # "new"
             /\ req[q].pc \in {"new", "now", "lock"}
             /\ req[q].pc # "new" => req'[q].sw = req[q].sw
             /\ req'[q].pc \in {"admitted", "denied"} => Allow(q) /\ req'[q].now = req[q].now
  <2>t. req \in [Requests -> Request]
    BY DEF IInv, TypeOK
  <2>1. CASE Get(r)
    BY <1>1, <2>t, <2>1 DEF Get, Request
  <2>2. CASE Stamp(r)
    BY <1>1, <2>t, <2>2 DEF Stamp, Request
  <2>3. CASE Allow(r)
    BY <1>1, <2>t, <2>3 DEF Allow, Request
  <2> QED BY <1>1, <2>1, <2>2, <2>3
<1>2. (~\E r \in Requests : Get(r) \/ Stamp(r) \/ Allow(r)) => req' = req
  BY DEF Next, SweepBegin, SweepOne, SweepEnd, Advance, vars
<1> QED BY <1>1, <1>2

\* An entry is the window of its address, whether it was there or has just been made.
LEMMA EntryStep ==
    ASSUME IInv, Attributed, [Next]_vars
    PROVE  /\ \A ip \in IPs : entries'[ip] # NoWindow => req'[entries'[ip]].ip = ip
           /\ \A r \in Requests : req[r].pc = "new" /\ req'[r].pc # "new" =>
                 req'[req'[r].sw].ip = req[r].ip
<1>t. /\ req \in [Requests -> Request] /\ NoWindow \notin Requests
      /\ entries \in [IPs -> Requests \cup {NoWindow}]
  BY LimiterAssumption DEF IInv, TypeOK
<1>i. \A q \in Requests : req'[q].ip = req[q].ip
  BY RequestStep
<1>e. \A ip \in IPs : entries[ip] # NoWindow => req[entries[ip]].ip = ip
  BY DEF Attributed
<1>1. ASSUME NEW r \in Requests, Get(r)
      PROVE  /\ \A ip \in IPs : entries'[ip] # NoWindow => req'[entries'[ip]].ip = ip
             /\ req'[req'[r].sw].ip = req[r].ip
             /\ \A q \in Requests : q # r => req'[q] = req[q]
  <2> DEFINE ip == req[r].ip
             sw == IF entries[ip] = NoWindow THEN r ELSE entries[ip]
  <2>1. ip \in IPs /\ sw \in Requests /\ req[sw].ip = ip
    BY <1>t, <1>e DEF Request
  <2>2. /\ entries' = [entries EXCEPT ![ip] = sw]
        /\ req' = [req EXCEPT ![r] = [@ EXCEPT !.pc = "now", !.sw = sw]]
    BY <1>1 DEF Get
  <2> HIDE DEF sw
  <2>3. req'[r].sw = sw /\ \A q \in Requests : q # r => req'[q] = req[q]
    BY <1>t, <2>2 DEF Request
  <2>4. \A i \in IPs : entries'[i] = IF i = ip THEN sw ELSE entries[i]
    BY <1>t, <2>2
  <2> QED BY <1>t, <1>i, <1>e, <2>1, <2>3, <2>4
<1>2. ASSUME \A r \in Requests : ~Get(r)
      PROVE  /\ \A ip \in IPs : entries'[ip] \in {entries[ip], NoWindow}
             /\ \A q \in Requests : req[q].pc = "new" => req'[q].pc = "new"
  <2>1. ASSUME NEW ip \in IPs, SweepOne(ip)
        PROVE  req' = req /\ \A i \in IPs : entries'[i] \in {entries[i], NoWindow}
    BY <1>t, <2>1 DEF SweepOne
  <2>2. ASSUME NEW r \in Requests, Stamp(r) \/ Allow(r)
        PROVE  entries' = entries /\ \A q \in Requests : req[q].pc = "new" => req'[q] = req[q]
    BY <1>t, <2>2 DEF Stamp, Allow
  <2> QED BY <1>2, <2>1, <2>2 DEF Next, SweepBegin, SweepEnd, Advance, vars
<1> QED BY <1>t, <1>i, <1>e, <1>1, <1>2

LEMMA AttributedNext ==
    ASSUME IInv, Attributed, [Next]_vars
    PROVE  Attributed'
<1>t. /\ \A r \in Requests : req[r].pc # "new" => req[r].sw \in Requests
      /\ attempts \in [Requests -> SUBSET Requests]
  BY DEF IInv, TypeOK
<1>1. /\ IsFiniteSet(Admitted')
      /\ \A w \in Requests : \A q \in attempts'[w] : req'[q].pc = "admitted" /\ req'[q].sw = w
  <2>1. ASSUME NEW r \in Requests, Allow(r)
        PROVE  /\ Admitted' \subseteq Admitted \cup {r}
               /\ \A w \in Requests : \A q \in attempts'[w] :
                    req'[q].pc = "admitted" /\ req'[q].sw = w
    <3> DEFINE valid == Unexpired(req[r].sw, req[r].now)
    <3>1. valid \subseteq attempts[req[r].sw]
      BY DEF Unexpired
    <3>2. /\ attempts' = [attempts EXCEPT ![req[r].sw] =
                             IF Full(valid) THEN valid ELSE valid \cup {r}]
          /\ req[r].pc = "lock"
          /\ req' = [req EXCEPT ![r] = [@ EXCEPT !.pc = IF Full(valid) THEN "denied"
                                                                     ELSE "admitted",
                                                 !.at = clock]]
      BY <2>1 DEF Allow
    <3> HIDE DEF valid
    <3>3. /\ req'[r].pc = (IF Full(valid) THEN "denied" ELSE "admitted")
          /\ req'[r].sw = req[r].sw
          /\ \A q \in Requests : q # r => req'[q] = req[q]
      BY <3>2 DEF IInv, TypeOK, Request
    <3>4. \A w \in Requests : \A q \in attempts[w] : q \in Requests /\ q # r
      BY <1>t, <3>2 DEF Attributed
    <3>5. \A w \in Requests : \A q \in attempts'[w] :
             q \in attempts[w] \/ (~Full(valid) /\ q = r /\ w = req[r].sw)
      BY <1>t, <3>1, <3>2
    <3> QED BY <3>3, <3>4, <3>5 DEF Attributed, Admitted
  <2>2. ASSUME \A r \in Requests : ~Allow(r)
        PROVE  Admitted' \subseteq Admitted /\ attempts' = attempts
    <3>1. attempts' = attempts
      BY <2>2 DEF Next, Get, Stamp, SweepBegin, SweepOne, SweepEnd, Advance, vars
    <3> QED BY <2>2, <3>1, RequestStep DEF Admitted
  <2>3. \A r \in Requests : IsFiniteSet(Admitted \cup {r})
    BY FS_AddElement DEF Attributed
  <2>4. \A w \in Requests : \A q \in attempts[w] : req'[q] = req[q]
    BY <1>t, RequestStep DEF Attributed
  <2>5. IsFiniteSet(Admitted')
    BY <2>1, <2>2, <2>3, FS_Subset DEF Attributed
  <2> QED BY <2>1, <2>2, <2>4, <2>5 DEF Attributed
<1>2. ASSUME NEW r \in Requests, req'[r].pc # "new" PROVE req'[req'[r].sw].ip = req'[r].ip
  <2>1. CASE req[r].pc = "new"
    BY <1>2, <2>1, EntryStep, RequestStep
  <2>2. CASE req[r].pc # "new"
    BY <1>t, <2>2, RequestStep DEF Attributed
  <2> QED BY <2>1, <2>2
<1> QED BY <1>1, <1>2, EntryStep DEF Attributed

LEMMA AttributedInvariant == Spec => []Attributed
<1>1. Init => Attributed
  <2> SUFFICES ASSUME Init PROVE Attributed
    OBVIOUS
  <2>1. \A r \in Requests : req[r].pc = "new"
    BY DEF Init
  <2>2. Admitted = {}
    BY <2>1 DEF Admitted
  <2> QED BY <2>1, <2>2, FS_EmptySet DEF Init, Attributed
<1>2. IInv /\ Attributed /\ [Next]_vars => Attributed'
  BY AttributedNext
<1> QED BY <1>1, <1>2, Invariant, PTL DEF Spec

\* A request is refused only where MaxHits others of its address count against it, for
\* any number of requests and addresses and however the cleanup interleaves.
THEOREM DenialsJustified == Spec => DenialJustified
<1>1. ASSUME IInv, Attributed, [Next]_vars, NEW r \in Requests,
             req[r].pc = "lock", req'[r].pc = "denied"
      PROVE  Cardinality({q \in Admitted : /\ req[q].ip = req[r].ip
                                           /\ req[q].now > req[r].now - Window}) >= MaxHits
  <2> DEFINE valid == Unexpired(req[r].sw, req[r].now)
             counted == {q \in Admitted : /\ req[q].ip = req[r].ip
                                          /\ req[q].now > req[r].now - Window}
  <2>1. Allow(r) /\ req[r].sw \in Requests
    BY <1>1, RequestStep DEF IInv, TypeOK
  <2>2. Full(valid)
    BY <1>1, <2>1 DEF Allow, IInv, TypeOK, Request
  <2>3. valid \subseteq counted
    <3> SUFFICES ASSUME NEW q \in valid PROVE q \in counted
      OBVIOUS
    <3>1. q \in Requests /\ q \in attempts[req[r].sw] /\ req[q].now > req[r].now - Window
      BY <1>1, <2>1 DEF Unexpired, IInv, TypeOK
    <3>2. req[q].pc = "admitted" /\ req[q].sw = req[r].sw
      BY <1>1, <2>1, <3>1 DEF Attributed
    <3>3. req[q].ip = req[r].ip
      BY <1>1, <3>1, <3>2 DEF Attributed
    <3> QED BY <3>1, <3>2, <3>3 DEF Admitted
  <2>4. IsFiniteSet(counted)
    BY <1>1, FS_Subset DEF Attributed
  <2>5. Cardinality(valid) <= Cardinality(counted) /\ IsFiniteSet(valid)
    BY <2>3, <2>4, FS_Subset
  <2>6. Cardinality(valid) \in Nat /\ Cardinality(counted) \in Nat
    BY <2>4, <2>5, FS_CardinalityType
  <2>7. Cardinality(valid) >= MaxHits
    BY <2>2 DEF Full
  <2> HIDE DEF valid, counted
  <2>8. Cardinality(counted) >= MaxHits
    BY <2>5, <2>6, <2>7, Numbers
  <2> QED BY <2>8 DEF counted
<1>2. IInv /\ Attributed /\ [Next]_vars =>
        [\A r \in Requests : req[r].pc = "lock" /\ req[r].pc' = "denied" =>
          Cardinality({q \in Admitted : /\ req[q].ip = req[r].ip
                                        /\ req[q].now > req[r].now - Window}) >= MaxHits]_vars
  BY <1>1
<1> QED BY <1>2, Invariant, AttributedInvariant, PTL DEF Spec, DenialJustified
=============================================================================
