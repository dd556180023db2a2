----------------------------- MODULE RateLimit -----------------------------
(***************************************************************************)
(* Throttling of the login and registration endpoints: the fixed-window    *)
(* counter per endpoint and address bucket that middleware.RateLimit asks, *)
(* and the exponential backoff per identifier around the password check.   *)
(*                                                                         *)
(* The counters live in Redis and are shared by every instance of goauth.  *)
(* A step of a request is one Redis command, so other requests come between*)
(* an INCR and the EXPIRE that follows it.  Each command may also fail, by *)
(* an outage or because the client went away and the request's context was *)
(* cancelled; Redis may have executed it all the same, and go-redis sends a*)
(* command again when no reply came.  A time unit is one second, the       *)
(* resolution of TTL.                                                      *)
(***************************************************************************)
EXTENDS BackoffDelay

CONSTANTS
    LoginKey, RegisterKey,   \* "<endpoint>:ip:<bucket>" keys of the two endpoints
    Ident,                   \* normalised identifiers
    Req,                     \* slots for concurrent requests
    None,                    \* the locals of an idle slot
    LoginLimit, LoginWindow, RegisterLimit, RegisterWindow,   \* the two rules
    BackoffAfter, BackoffBase, BackoffMax, FailureWindow,
    MaxFails                 \* bound: failure counts from here on are one value

ASSUME KeysDiffer == LoginKey \cap RegisterKey = {} /\ None \notin Ident
ASSUME RulesAreNaturals == {LoginLimit, LoginWindow, RegisterLimit, RegisterWindow} \subseteq Nat
ASSUME DelaysArePositive ==
    /\ BackoffAfter \in Nat \ {0} /\ BackoffBase \in Nat \ {0} /\ FailureWindow \in Nat \ {0}
    /\ BackoffMax \in BackoffBase .. MaxInt
\* Past MaxFails failures every power of two is out of range.
ASSUME FailsReachTheWidth == MaxFails \in Nat /\ MaxFails >= BackoffAfter + IntWidth - 1

VARIABLES
    rl,          \* rl:<key>: count and remaining life, 0 for a key without expiry
    fail,        \* fail:<identifier>: the same
    backoff,     \* backoff:<identifier>: remaining life, 0 when absent
    failClosed,  \* the configuration's FailClosed
    pc, loc,     \* where each request is, and its locals
    lost,        \* history: keys whose first INCR got no EXPIRE
    ages         \* history: of the last 2 * Limit + 1 requests admitted since one was
                 \* waved through uncounted, newest first, the units since, up to Window

vars == <<rl, fail, backoff, failClosed, pc, loc, lost, ages>>
redis == <<rl, fail, backoff>>
history == <<lost, ages>>

Key == LoginKey \cup RegisterKey
Limit(k) == IF k \in LoginKey THEN LoginLimit ELSE RegisterLimit
Window(k) == IF k \in LoginKey THEN LoginWindow ELSE RegisterWindow

\* The requests that ages looks back on.
Latest(k) == 1 .. 2 * Limit(k) + 1
LongAgo(k) == [i \in Latest(k) |-> Window(k)]

\* Rule.Enabled.
Enabled(k) == Limit(k) > 0 /\ Window(k) > 0

PC == {"idle", "expire",                          \* Limiter.Allow
       "check", "verify",                         \* passwordGrant
       "fail_expire", "fail_set"}                 \* RegisterFailure

Locals == [key: Key, id: Ident, n: Nat]

NoCounter == [n |-> 0, ttl |-> 0]

TypeOK ==
    /\ \A k \in Key : rl[k].n \in 0 .. Limit(k) + 2 /\ rl[k].ttl \in 0 .. Window(k)
    /\ \A a \in Ident : fail[a].n \in 0 .. MaxFails /\ fail[a].ttl \in 0 .. FailureWindow
    /\ backoff \in [Ident -> 0 .. BackoffMax]
    /\ failClosed \in BOOLEAN
    /\ pc \in [Req -> PC] /\ \A r \in Req : loc[r] \in Locals \cup {None}
    /\ lost \subseteq Key

Init ==
    /\ rl = [k \in Key |-> NoCounter]
    /\ fail = [a \in Ident |-> NoCounter]
    /\ backoff = [a \in Ident |-> 0]
    /\ failClosed \in BOOLEAN
    /\ pc = [r \in Req |-> "idle"]
    /\ loc = [r \in Req |-> None]
    /\ lost = {}
    /\ ages = [k \in Key |-> LongAgo(k)]

Goto(r, label) == pc' = [pc EXCEPT ![r] = label]
Continue(r, label, locals) == Goto(r, label) /\ loc' = [loc EXCEPT ![r] = locals]
Finish(r) == Continue(r, "idle", None)

-----------------------------------------------------------------------------
(* Redis commands *)

\* INCR.  Nothing tells counts above the cap apart, so they are one value.
Incremented(c, cap) == [c EXCEPT !.n = IF @ < cap THEN @ + 1 ELSE @]

\* EXPIRE, a no-op when the key is gone.
ExpiringIn(c, d) == IF c.n = 0 THEN c ELSE [c EXCEPT !.ttl = d]

\* One second passes for a counter.
Aged(c) == IF c.ttl = 1 THEN NoCounter ELSE [c EXCEPT !.ttl = IF @ = 0 THEN 0 ELSE @ - 1]

Tick ==
    /\ rl' = [k \in Key |-> Aged(rl[k])]
    /\ fail' = [a \in Ident |-> Aged(fail[a])]
    /\ backoff' = [a \in Ident |-> IF backoff[a] = 0 THEN 0 ELSE backoff[a] - 1]
    /\ ages' = [k \in Key |-> [i \in Latest(k) |->
                 IF ages[k][i] < Window(k) THEN ages[k][i] + 1 ELSE ages[k][i]]]
    /\ UNCHANGED <<failClosed, pc, loc, lost>>

-----------------------------------------------------------------------------
(* middleware.RateLimit and Limiter.Allow *)

AdmitsOneMore(k, n) == n <= Limit(k) + 1   \* fault: off by one
Admits(k, n) == n <= Limit(k)

StartsEveryTime(n) == TRUE   \* fault: every request starts the window anew
StartsWindow(n) == n = 1

\* A request of now before the others; the oldest drops out.
OneMore(k) == [i \in Latest(k) |-> IF i = 1 THEN 0 ELSE ages[k][i - 1]]

Request(k, a, count) == [key |-> k, id |-> a, n |-> count]

\* Past the limiter: the login endpoint goes on to the password grant, the
\* registration has no more to do with Redis.
Admit(r, q) == IF q.key \in LoginKey THEN Continue(r, "check", [q EXCEPT !.n = 0]) ELSE Finish(r)

\* A request arrives and increments its counter; a later one is judged by the
\* count alone.  (The TTL that Allow reads for a refused request is not sent on.)
Incr(r, k, a) ==
    LET c == Incremented(rl[k], Limit(k) + 2)
        q == Request(k, a, c.n) IN
    /\ pc[r] = "idle" /\ Enabled(k)
    /\ rl' = [rl EXCEPT ![k] = c]
    /\ ages' = IF Admits(k, c.n) THEN [ages EXCEPT ![k] = OneMore(k)] ELSE ages
    /\ \/ StartsWindow(c.n) /\ Continue(r, "expire", q)
       \/ ~StartsWindow(c.n) /\ Admits(k, c.n) /\ Admit(r, q)
       \/ ~StartsWindow(c.n) /\ ~Admits(k, c.n) /\ Finish(r)
    /\ UNCHANGED <<fail, backoff, failClosed, lost>>

\* Redis executes an INCR whose reply never arrives.  The request sends it again
\* (Incr), gives up (IncrFails), or its instance is gone; a counter that began
\* here shows 1 to nobody, and nobody sends its EXPIRE.
UnheardIncr(k) ==
    /\ Enabled(k)
    /\ rl' = [rl EXCEPT ![k] = Incremented(@, Limit(k) + 2)]
    /\ lost' = IF rl[k].n = 0 THEN lost \cup {k} ELSE lost
    /\ UNCHANGED <<fail, backoff, failClosed, pc, loc, ages>>

\* The first request of a window gives the counter its life.
Expire(r) ==
    LET k == loc[r].key IN
    /\ pc[r] = "expire"
    /\ rl' = [rl EXCEPT ![k] = ExpiringIn(@, Window(k))]
    /\ IF Admits(k, loc[r].n) THEN Admit(r, loc[r]) ELSE Finish(r)
    /\ UNCHANGED <<fail, backoff, failClosed, history>>

\* INCR or EXPIRE fails: 503, or the request is waved through.
Unavailable(r, q) == IF failClosed THEN Finish(r) ELSE Admit(r, q)

IncrFails(r, k, a) ==
    /\ pc[r] = "idle" /\ Enabled(k)
    /\ Unavailable(r, Request(k, a, 0))
    /\ ages' = IF failClosed THEN ages ELSE [ages EXCEPT ![k] = LongAgo(k)]
    /\ UNCHANGED <<redis, failClosed, lost>>

\* The EXPIRE may have been executed.
ExpireFails(r) ==
    LET k == loc[r].key IN
    /\ pc[r] = "expire"
    /\ \/ lost' = lost \cup {k} /\ UNCHANGED rl
       \/ rl' = [rl EXCEPT ![k] = ExpiringIn(@, Window(k))] /\ UNCHANGED lost
    /\ Unavailable(r, loc[r])
    /\ UNCHANGED <<fail, backoff, failClosed, ages>>

\* A rule without a limit or a window lets everyone pass.
Unlimited(r, k, a) ==
    /\ pc[r] = "idle" /\ ~Enabled(k)
    /\ Admit(r, Request(k, a, 0))
    /\ UNCHANGED <<redis, failClosed, history>>

-----------------------------------------------------------------------------
(* passwordGrant *)

NeverWaits(a) == FALSE   \* fault: the backoff is recorded and not consulted
\* Limiter.Backoff, read before the password is looked at.
MustWait(a) == backoff[a] > 0

CheckBackoff(r) ==
    /\ pc[r] = "check"
    /\ \/ MustWait(loc[r].id) /\ Finish(r)
       \/ ~MustWait(loc[r].id) /\ Goto(r, "verify") /\ UNCHANGED loc
    /\ UNCHANGED <<redis, failClosed, history>>

CheckFails(r) ==
    /\ pc[r] = "check"
    /\ \/ failClosed /\ Finish(r)
       \/ ~failClosed /\ Goto(r, "verify") /\ UNCHANGED loc
    /\ UNCHANGED <<redis, failClosed, history>>

\* The identifier is unknown or the password wrong: penalise.
FailIncr(r) ==
    LET a == loc[r].id
        c == Incremented(fail[a], MaxFails) IN
    /\ pc[r] = "verify"
    /\ fail' = [fail EXCEPT ![a] = c]
    /\ Continue(r, "fail_expire", [loc[r] EXCEPT !.n = c.n])
    /\ UNCHANGED <<rl, backoff, failClosed, history>>

FailExpire(r) ==
    LET a == loc[r].id IN
    /\ pc[r] = "fail_expire"
    /\ fail' = [fail EXCEPT ![a] = ExpiringIn(@, FailureWindow)]
    /\ \/ loc[r].n >= BackoffAfter /\ Goto(r, "fail_set") /\ UNCHANGED loc
       \/ loc[r].n < BackoffAfter /\ Finish(r)
    /\ UNCHANGED <<rl, backoff, failClosed, history>>

FailSet(r) ==
    /\ pc[r] = "fail_set"
    /\ \E d \in Delays(loc[r].n - BackoffAfter, BackoffBase, BackoffMax) :
         backoff' = [backoff EXCEPT ![loc[r].id] = d]
    /\ Finish(r)
    /\ UNCHANGED <<rl, fail, failClosed, history>>

\* The password is right and a pair was issued: Reset deletes both keys with
\* one command.
Reset(r) ==
    /\ pc[r] = "verify"
    /\ fail' = [fail EXCEPT ![loc[r].id] = NoCounter]
    /\ backoff' = [backoff EXCEPT ![loc[r].id] = 0]
    /\ Finish(r)
    /\ UNCHANGED <<rl, failClosed, history>>

\* The request ends without another command: a refresh grant or an unusable
\* identifier, a database error, an unreadable hash, an account that is not
\* active, or a failed command of penalise or Reset, whose errors are dropped
\* (whether it was executed or not).
End(r) ==
    /\ pc[r] \in {"check", "verify", "fail_expire", "fail_set"}
    /\ Finish(r)
    /\ UNCHANGED <<redis, failClosed, history>>

-----------------------------------------------------------------------------
Step(r) ==
    \/ Expire(r) \/ ExpireFails(r) \/ CheckBackoff(r) \/ CheckFails(r)
    \/ FailIncr(r) \/ FailExpire(r) \/ FailSet(r) \/ Reset(r) \/ End(r)

Next ==
    \/ Tick
    \/ \E r \in Req : Step(r)
    \/ \E k \in Key : UnheardIncr(k)
    \/ \E r \in Req, k \in Key, a \in Ident :
         Incr(r, k, a) \/ IncrFails(r, k, a) \/ Unlimited(r, k, a)

\* Time passes, and a request that started goes on: every command has a
\* timeout, so it answers or fails.
Spec == Init /\ [][Next]_vars /\ WF_vars(Tick) /\ \A r \in Req : WF_vars(Step(r))

-----------------------------------------------------------------------------
(* Properties *)

\* However the requests of one bucket are spread over the windows, and whatever
\* commands fail or are executed unheard, no stretch of one window's length admits
\* more than two windows' worth: of 2 * Limit + 1 requests admitted in a row, the
\* first is a window's length past.  Only a request waved through uncounted, as Redis
\* fails and FailClosed is off, breaks the row (RateLimit, Limiter.Allow).
BurstBound ==
    \A k \in Key : Enabled(k) => ages[k][2 * Limit(k) + 1] >= Window(k)

\* The arithmetic of RegisterFailure is that of unbounded integers for every
\* failure count, past the width of the Duration too: no delay is shorter than
\* the doubling promises and none is longer than BackoffMax.
DelayIsExact ==
    \A r \in Req : pc[r] = "fail_set" =>
        LET steps == loc[r].n - BackoffAfter IN
        Delays(steps, BackoffBase, BackoffMax) = {IntendedDelay(steps, BackoffBase, BackoffMax)}

\* A bucket over its limit is admitted again although requests keep coming in, are
\* cut off or are sent twice, unless the first INCR got no EXPIRE, because it failed
\* or because the reply to the INCR was lost: the window is fixed and not pushed on
\* by traffic (Limiter.Allow).
WindowEnds ==
    \A k \in Key : rl[k].n > Limit(k) ~> (rl[k].n <= Limit(k) \/ k \in lost)

\* The backoff is no lockout: with FailClosed an account in backoff gets out of
\* it, although wrong passwords keep arriving and requests that were checked
\* before the key was set extend it (Backoff, RegisterFailure).
BackoffEnds ==
    failClosed => \A a \in Ident : backoff[a] > 0 ~> backoff[a] = 0
=============================================================================
