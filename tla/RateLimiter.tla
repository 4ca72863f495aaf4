---------------------------- MODULE RateLimiter ----------------------------
(***************************************************************************)
(* internal/middleware/rate_limiter.go: one ipLimiter (the API has three   *)
(* of them, each with its own map), the requests that pass through it, and *)
(* its cleanup goroutine.                                                  *)
(*                                                                         *)
(* Requests are the requests of a run, each served once.  A slidingWindow  *)
(* is named after the request that created it; its attempts are the        *)
(* requests it remembers, whose time stamps are theirs.  The critical      *)
(* section of allow() is one action, that of get() another; the cleanup    *)
(* keeps l.mu over its whole loop and takes each window's lock in turn.    *)
(*                                                                         *)
(* A definition just before another one and named after it with a suffix   *)
(* is a plausible slip in the same code, used by the mutants.              *)
(***************************************************************************)
EXTENDS Integers, FiniteSets

CONSTANTS
    Requests, IPs, NoWindow,
    MaxHits, Window,   \* the limit, and the length of a window in ticks of the clock
    Lag,       \* the ticks a request may lose between time.Now() and the lock
    MaxTime    \* bound: the clock stops here

ASSUME LimiterAssumption ==
    /\ NoWindow \notin Requests
    /\ MaxHits \in Nat \ {0}
    /\ Window \in Nat \ {0}
    /\ Lag \in Nat
    /\ MaxTime \in Nat

VARIABLES
    clock,
    entries,   \* l.entries: the window of each IP
    attempts,  \* sw.attempts of each window
    req,       \* the requests
    tick,      \* the ticker's channel holds a tick
    sweeping,  \* the cleanup goroutine holds l.mu
    todo       \* the entries its loop has still to visit

vars == <<clock, entries, attempts, req, tick, sweeping, todo>>

Time == 0..MaxTime

PCs == {"new", "now", "lock", "admitted", "denied"}

\* now: the time read by allow(); at (history): the time of the decision.
Request == [pc : PCs, ip : IPs, sw : Requests \cup {NoWindow}, now : Time, at : Time]

TypeOK ==
    /\ clock \in Time
    /\ entries \in [IPs -> Requests \cup {NoWindow}]
    /\ attempts \in [Requests -> SUBSET Requests]
    /\ req \in [Requests -> Request]
    /\ \A r \in Requests : req[r].pc # "new" => req[r].sw \in Requests
    /\ tick \in BOOLEAN /\ sweeping \in BOOLEAN
    /\ todo \subseteq IPs

Init ==
    /\ clock = 0
    /\ entries = [ip \in IPs |-> NoWindow]
    /\ attempts = [w \in Requests |-> {}]
    /\ \E f \in [Requests -> IPs] :
          req = [r \in Requests |-> [pc |-> "new", ip |-> f[r], sw |-> NoWindow,
                                     now |-> 0, at |-> 0]]
    /\ tick = FALSE /\ sweeping = FALSE /\ todo = {}

-----------------------------------------------------------------------------
GetForgetsNew(r) ==
    LET ip == req[r].ip IN
    /\ req[r].pc = "new" /\ ~sweeping
    /\ entries' = [entries EXCEPT ![ip] = IF @ = NoWindow THEN r ELSE @]
    /\ req' = [req EXCEPT ![r] = [@ EXCEPT !.pc = "now", !.sw = entries[ip]]]
    /\ UNCHANGED <<clock, attempts, tick, sweeping, todo>>
\* get: the window of the request's IP, created when there is none.
Get(r) ==
    LET ip == req[r].ip
        sw == IF entries[ip] = NoWindow THEN r ELSE entries[ip] IN
    /\ req[r].pc = "new" /\ ~sweeping
    /\ entries' = [entries EXCEPT ![ip] = sw]
    /\ req' = [req EXCEPT ![r] = [@ EXCEPT !.pc = "now", !.sw = sw]]
    /\ UNCHANGED <<clock, attempts, tick, sweeping, todo>>

\* allow() reads the clock before it takes the window's lock.
Stamp(r) ==
    /\ req[r].pc = "now"
    /\ req' = [req EXCEPT ![r] = [@ EXCEPT !.pc = "lock", !.now = clock]]
    /\ UNCHANGED <<clock, entries, attempts, tick, sweeping, todo>>

UnexpiredTooLong(w, now) == {q \in attempts[w] : req[q].now >= now - Window}
UnexpiredTooShort(w, now) == {q \in attempts[w] : req[q].now > now - Window + 1}
Unexpired(w, now) == {q \in attempts[w] : req[q].now > now - Window}

FullLate(hits) == Cardinality(hits) > MaxHits
Full(hits) == Cardinality(hits) >= MaxHits

\* allow() forgets what the window has outlived; a full window refuses.
Allow(r) ==
    LET w == req[r].sw
        valid == Unexpired(w, req[r].now) IN
    /\ req[r].pc = "lock"
    /\ attempts' = [attempts EXCEPT ![w] = IF Full(valid) THEN valid ELSE valid \cup {r}]
    /\ req' = [req EXCEPT ![r] = [@ EXCEPT !.pc = IF Full(valid) THEN "denied" ELSE "admitted",
                                           !.at = clock]]
    /\ UNCHANGED <<clock, entries, tick, sweeping, todo>>

-----------------------------------------------------------------------------
\* The cleanup goroutine receives a tick and takes l.mu ...
SweepBegin ==
    /\ tick /\ ~sweeping
    /\ tick' = FALSE /\ sweeping' = TRUE
    /\ todo' = {ip \in IPs : entries[ip] # NoWindow}
    /\ UNCHANGED <<clock, entries, attempts, req>>

UnusedIfNotFull(w) == ~Full(attempts[w])
Unused(w) == attempts[w] = {}

\* ... looks at every entry, with its lock held, and removes the empty ones ...
SweepOne(ip) ==
    /\ sweeping /\ ip \in todo
    /\ entries' = IF Unused(entries[ip]) THEN [entries EXCEPT ![ip] = NoWindow] ELSE entries
    /\ todo' = todo \ {ip}
    /\ UNCHANGED <<clock, attempts, req, tick, sweeping>>

\* ... and lets go of l.mu.
SweepEnd ==
    /\ sweeping /\ todo = {}
    /\ sweeping' = FALSE
    /\ UNCHANGED <<clock, entries, attempts, req, tick, todo>>

\* Time passes, but no request loses more than Lag on its way to the lock.  The
\* ticker fires every Window; a tick nobody has received yet takes the place of
\* the next one.
Advance ==
    /\ clock < MaxTime
    /\ \A r \in Requests : req[r].pc = "lock" => clock < req[r].now + Lag
    /\ clock' = clock + 1
    /\ tick' = (tick \/ (clock + 1) % Window = 0)
    /\ UNCHANGED <<entries, attempts, req, sweeping, todo>>

Next == \/ \E r \in Requests : Get(r) \/ Stamp(r) \/ Allow(r)
        \/ SweepBegin
        \/ \E ip \in IPs : SweepOne(ip)
        \/ SweepEnd
        \/ Advance

Spec == Init /\ [][Next]_vars

-----------------------------------------------------------------------------
Admitted == {r \in Requests : req[r].pc = "admitted"}

\* The requests a window has let through in the last Window - Lag ticks.
Recent(w) == {r \in Admitted : req[r].sw = w /\ req[r].at > clock - (Window - Lag)}

\* A window lets through at most MaxHits requests in any Window - Lag ticks,
\* however late the requests take its lock: a time stamp older than others
\* already in the window does not open it for more.
RateBounded == \A w \in Requests : Cardinality(Recent(w)) <= MaxHits

\* A request is refused only if MaxHits others of the same IP were let through
\* in the window that ends at its own time stamp, or later.
DenialJustified ==
    [][\A r \in Requests : req[r].pc = "lock" /\ req[r].pc' = "denied" =>
          Cardinality({q \in Admitted : /\ req[q].ip = req[r].ip
                                        /\ req[q].now > req[r].now - Window}) >= MaxHits]_vars

\* The cleanup never takes away a window that remembers a request of its last
\* Window ticks, so an IP gets no new allowance from it.
UsedWindowKept ==
    [][\A ip \in IPs : entries[ip] # NoWindow /\ Unexpired(entries[ip], clock) # {} =>
          entries'[ip] = entries[ip]]_vars

\* An entry whose requests are all over and older than a window.
Stale(ip) ==
    /\ entries[ip] # NoWindow
    /\ Unexpired(entries[ip], clock) = {}
    /\ \A r \in Requests : req[r].pc \in {"now", "lock"} => req[r].ip # ip

\* "limits all API requests to maxHits per window per IP".
LimitPerIP ==
    \A ip \in IPs :
        Cardinality({r \in Admitted : req[r].ip = ip /\ req[r].at > clock - Window}) <= MaxHits

\* "Periodic cleanup of stale entries": the cleanup removes a stale entry when
\* it comes to it.
StaleRemoved ==
    [][\A ip \in todo : Stale(ip) /\ ip \notin todo' => entries'[ip] = NoWindow]_vars
=============================================================================
