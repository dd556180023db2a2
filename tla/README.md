# goauth: TLA+ models, model checking and proofs

goauth is an authentication service: accounts with a password, refresh-token
sessions, a hierarchy of administrators, and webhooks that announce changes.
Everything durable is in PostgreSQL, counters are in Redis, and several
instances may run against the same database. Its hard part is that nearly every
operation is a *series* of SQL statements, and requests of several users, of
several administrators and of several instances interleave between them.

This directory models the parts that carry that logic, checks them with TLC on
small instances, and proves their safety properties with TLAPS for every number of
accounts, sessions, requests, instances, events, roles, proxies and keys.

## Inventory

| component | state | operations | hard behaviour | what makes it correct |
|---|---|---|---|---|
| token grants, refresh rotation (`auth_token`, `service/tokens`, `session_repo`) | `ga_sessions`, tokens at clients | register, password grant, refresh grant | same token presented twice at once, expiry between two clocks, rollback, stale user row | a token is exchanged once; a family has one live token |
| revocation (`auth_revoke`, `auth_logout_all`, `auth_password_change`, `admin_user_*`) | `ga_sessions`, `ga_users.status`, `password_hash` | logout, logout everywhere, password change, block, delete | DELETE against a rotation in flight, circles of row locks | what a finished DELETE covered never comes back; every request ends |
| session cleaner | `ga_sessions` | delete expired rows | runs against rotations | removes nothing a rotation needs |
| webhook outbox (`insertEvent`, `webhook_dispatcher`, `pkg/webhook`) | `ga_outbox` | emit, claim, post, mark | leases that run out, crashed and stale dispatchers, retries | no early give-up, no false delivery, every event is settled |
| outbox cleaner | `ga_outbox` | two DELETEs | webhooks switched off | the table stays bounded, owed rows stay |
| administration (`roleguard`, `domain/role.go`, `admin_user_*`, `admin_role_*`) | `ga_users.role/status`, `ga_roles`, `ga_role_permissions` | create, update, delete users and roles | authorisation by many reads, one unconditional write | nobody reaches above the own rank, nobody combines new powers, a superadmin remains |
| access middleware, routes (`middleware`, `http_v1`, `admin_v1`) | none | verify token, require permission, machine token, recent auth | guards from several groups, their order, a role that changes meanwhile | the admin handlers are reached by nobody else |
| bootstrap (`bootstrap`, `seed_*`, `dbschema`) | schema, first roles, first admin | ensure schema, seed | several instances start at once, crash in between | one complete floor of roles, one admin |
| rate limiter, login backoff (`pkg/ratelimit`) | Redis counters | allow, backoff, failure, reset | INCR and EXPIRE are two commands, either may fail; stale checks; overflow of the delay | bursts are bounded, windows end, the backoff is no lockout |
| cron runner, process life cycle (`orchestrators/cron`, `cmd/app.go`) | running loops | start, tick, stop | shutdown during jobs and requests, one deadline for two listeners | nothing is torn down under what uses it; the shutdown ends |
| client library (`pkg/authclient`) | cached key set | verify, refresh keys | rotation, outages, answers installed out of order | a cached key keeps verifying, the cache catches up, refreshes are bounded |
| audit log and cleaner | `ga_audit_log` | append, delete old | best effort | nothing depends on it |
| client address, CORS (`pkg/realip`, `pkg/cors`) | none | resolve, bucket, match | forged and unreadable hops, mapped addresses; labels at the edge of a wildcard | every client has its own bucket; exactly the configured origins are allowed |
| tokens and hashing, HTTP surface, configuration, wiring, read-only lists | none | | | not modelled |

`PROJECT.json` lists the same parts with their sources, and the hazards of this
code at the lines where they bite.

## Modules

    RefreshChain   what refresh tokens promise, abstractly
      ^ implemented by
    Sessions       ga_sessions, accounts, and every request on them
      MCSessions     instances      SessionsClaims  auth_time, and a claim about it
    Outbox         ga_outbox, dispatchers, receiver, cleaner
      MCOutbox       instances
    Admin          accounts, roles, ranks, permissions, admin requests
      MCAdmin        instances
    Bootstrap      database, schema, seeds, instances that start
      MCBootstrap    instance
    RateLimit      the Redis counters of login and registration
    AuthClient     the key cache of the client library
    Ingress        a request between the socket and its handler
      MCIngress      instance
    Lifecycle      listeners, background jobs and the shutdown
    BackoffDelay   the delay arithmetic, used by Outbox and RateLimit

Each of the eight modules from `Sessions` to `Lifecycle` has its theorems in a
module of its own, `SessionsProofs` and so on, which extends it.

### Sessions

`status` and `pw` are the account columns, with the password as the number of its
changes; `sess` keeps the columns of every session row ever inserted, `rows` says
which are in the table, `used` which have `used_at`; `held` is what clients
were handed. A request is a slot `r` with a program counter `pc[r]` and locals
`loc[r]`. One action is one SQL statement together with the Go code up to the next
one, or the commit that publishes a transaction:

| code | actions |
|---|---|
| `auth_register`, `passwordGrant` | `Register`, `PasswordGrant`, `Issue`, `TouchUserLogin`, `Reply` |
| `refreshGrant`, `Issuer.Rotate`, `RotateSession` | `RefreshReused`, `RefreshLive`, `LoadUser`, `RefuseUser`, `BeginRotation`, `Spend`, `SpendNoRows`, `Rotate`, `Reply` |
| `DeleteSessionFamily` (reuse, `auth_revoke`) | `Revoke`, `DestroyBegin`, `DeleteRow`, `DestroyEnd` |
| `DeleteUserSessions` alone, with a status, with a password | `LogoutAll`, `AdminRevokeSessions`, `PasswordChange`, `AdminSetPassword`, `AdminBlock`, `AdminDelete`, `RevokeBegin`, `DeleteRow`, `LogoutEnd`, `StatusEnd`, `PasswordEnd` |
| `UpdateUser` of a status without revocation | `AdminSetStatus`, `SetStatus` |
| `session_cleaner` | `Sweep`, `DeleteRow`, `DestroyEnd` |
| lost connections, cancelled requests, crashes | `Abort` at any step |

PostgreSQL is modelled as the code uses it (READ COMMITTED). The conditional UPDATE of a
rotation locks its row until the transaction ends. A DELETE fixes the rows it is
about when it begins (`DeleteTargets`), locks them one by one in whatever order
its scan finds them, waiting for those that are locked and passing over those that are gone
(`DeleteRow`), and removes them when it commits (`DeleteSnapshot`); so a DELETE part way through
holds the rows it has taken. The UPDATE of a user row locks it (`UserLocked`), for which
`TouchUserLogin` of a login waits too, and the one of a soft delete, which changes unique columns, also holds off
the foreign-key check of an INSERT (`KeyLocked`). Who holds these locks is `HoldsRow`, `HoldsUser` and
`HoldsKey`, who waits for whom `WaitsFor`. Two lock orders close circles (`Deadlocked`): a rotation and a soft
delete want each other's session row and user row, and two DELETEs want rows the other one has taken. The database
aborts one of them (`BreakDeadlock`). The expiry of a row counts from the
application's `now`, taken when the request began; the UPDATE compares it with
the database's `now()`, taken when the transaction began (`BeginRotation`).

Left out: wrong passwords and unknown identifiers (they change none of these
tables), login backoff, audit entries, and a PATCH that changes an identifier in the same
transaction as a block, which would take the stronger lock of a soft delete.

### Outbox

A row counts the ticks since it was created and until it is due, both
saturating, so that time never stops in a finite model and liveness is meaningful.
A dispatcher is a phase, a claimed batch, the attempts as claimed, the event in
hand, and the ticks since its claim (`since`). `Claim` is the leasing UPDATE,
`Send`/`Accept`/`Refuse` the POST, `MarkDelivered`/`MarkFailed` the unconditional
UPDATEs by id, `Die` a crash, a shutdown or a failed UPDATE. `webhook` is the configuration: with a url and an interval ("on"),
with `webhook.interval` 0, where events are written and nobody delivers them ("unscheduled"), or without `webhook.url`,
where neither happens ("unset"); `SwitchOff` is a restart with either of the latter. `SweepSettled` and `SweepStuck` are the two DELETEs of the
cleaner; `maxAge` is the `outbox.max_age` of the installation, either 0 (never) or
`MaxAge`, so that one run covers both configurations. `Stalls` says whether time
may pass between two deliveries of a batch. Two histories serve the properties
only: `tries` counts the POSTs of an event, and `overrun` remembers that a
dispatcher once went on working after its lease had run out.

### Admin

A request reads the target, the actor's rank, the actor's permissions, the ranks
involved and the number of superadmins in separate statements (`ReadUser` ...
`CountHolders`) and then issues one write. The scopes for accounts, passwords and
sessions are one permission, `roles:manage` is another; `ReplaceAccess` stands for
`admin_user_set_password` and `admin_user_sessions_revoke`, which authorise themselves
alike and whose effect is in `Sessions`; ranks keep their order and the reserved ends. Unique
ranks and names, and the foreign key from accounts to roles, are the database's and
refuse a write; `WriteFails` is every other failure of it. The guard in front of the handler (`HasScope`) is one step
here; its two reads, and what may change between them, are in `Ingress`. Two histories serve `LastSuperadminStays`:
`stale` has the requests whose count of superadmins another one has outdated by taking one away, or whose account
another one has made a superadmin since its row was read; `raced` remembers that such a request went on to take a superadmin away.

### Bootstrap

Each instance walks through `postgres.New` (`Open`, `OpenMissing`, `CreateBegin`, `CreateEnd`,
`CreateFails`, `CheckExists`, `Reopen`), `dbschema.Ensure` (`Lock`, `Apply`, `Unlock`),
`seed_roles` (`SeedRole`, `SeedPermission`, `NextRole`, `RolesDone`) and
`seed_super_admin` (`CountAdmins`, `CreateAdmin`), and then serves. `Stop` ends a process
at any step: a crash, a failed statement, the 30 seconds of the boot, or a
shutdown. Once an instance serves, operators create, edit and delete custom roles
and change accounts through it (`Operator...`), each as the one write that `Admin` refines
into its reads. A setting that is asked for once in a boot (`auto_create`, `auto_schema`,
`seed.username`) is a free choice at that point. `CREATE DATABASE` may fail at any time (`CreateFails`), with the
database there or not, and is tried again while it is not. `torn` and `edited` are histories
for the properties. Nothing is bounded but the number of other superadmins.

### RateLimit

`rl`, `fail` and `backoff` are the three kinds of Redis keys, each with its
remaining life; `rl` and `fail` carry a count. One action is one Redis command:

| code | actions |
|---|---|
| `middleware.RateLimit`, `Limiter.Allow` | `Incr`, `Expire`, and when they fail `IncrFails`, `ExpireFails`, `UnheardIncr`; `Unlimited` for a rule without limit |
| `passwordGrant`, `Limiter.Backoff` | `CheckBackoff`, `CheckFails` |
| `penalise`, `Limiter.RegisterFailure` | `FailIncr`, `FailExpire`, `FailSet` |
| `Limiter.Reset` after a login | `Reset` |
| a request that ends otherwise, or whose command fails | `End` |

A password is right or wrong by choice. `failClosed` is either value of
`fail_closed`. Counts above what any comparison tells apart are one value. A command that fails at the client, by a timeout
or a cancelled request, may have been executed: `ExpireFails` has both outcomes, and `UnheardIncr` is the INCR that Redis counted and
nobody was told of, because its reply was lost or because go-redis sent the command once more; it is an action of its own, which comes at any time.
`lost` (keys whose first INCR got no EXPIRE, for one reason or the other) and `ages` (how long ago the last
`2 * Limit + 1` admissions of a key were, up to the window's length) are histories; `BurstBound` says that the oldest of them is a
window past. With `fail_closed` off a request whose command failed is waved through uncounted (`IncrFails`): no bound holds for
those, since every request of an outage is, so `ages` starts anew there, and the property is about the stretches between them.

`BackoffDelay` is `time.Duration(math.Pow(2, steps)) * base` with its cap, in integers
of `IntWidth` bits: the product wraps, and a float out of range becomes the smallest
or the largest integer, depending on the processor. `Outbox` uses it for
`webhook_dispatcher.backoff`. `DelayIsExact` compares it with the delay over unbounded
integers, up to and past the width. It is a property of the settings, and the run's
are chosen like the defaults: a product that no longer fits is a multiple of a power of two above the
cap. (For logins, one second up to a minute, the first such product is 2^34 s, a multiple of 2^43 ns; for
webhooks, ten seconds up to an hour, it is 2^30 times ten seconds, and the remainders modulo 2^64 below the
hour, 2^40 ns to 3 * 2^40 ns, do not occur.) With an odd base near the cap a wrapped product can land inside
the range; `BackoffBase = 5`, `BackoffMax = 5` in four bits shows it.

### AuthClient

A step of `Verify` is one critical section of the verifier's mutex or the HTTP exchange
between two. `answer` is a key set on its way: fixed when goauth sent it (`Fetch`) and
installed later (`Install`), so answers overtake each other. The two clocks are flags, the
age of the cache and the budget's minute. goauth's keys are numbered in the order of their
use and published from `oldest` to `newest`; key id 0 is made up. `known` is a history: the
call's key was cached ever since it began.

### Ingress

A request walks through CORS, the resolution of its address and the guards of its
route. Each step chooses what it reads and drops what is not looked at again, which keeps
the three concerns from multiplying. Addresses are model values, with IPv4 also in
IPv6-mapped form and the IPv6 clients in one /64; the header a client forged is a
sequence of any hops, to which the proxies in front append what called them, any part of them trusted; a single-valued header
is set by the edge or left out (`Edges`), and without it `ClientIP` falls back to the peer. `OwnBucket` asks for the nearest address that the
trusted proxies next to goauth vouch for (`Vouched`), which is the client's when all are trusted. Origins are
sequences of fragments, so that `evilexample` and `evil.example` differ as they do
in strings. A wildcard entry of `cors.allow_domains` is accepted with anything behind its `*.`, a path or another `*`
("pathed"); no origin a browser sends ends like that. Configurations that `realip.New` or `cors.New` refuse are not initial states.
`RoleChanges` is an administrator at work in between, who changes the status of the caller or what the caller's role permits. The scope guard
reads by two statements: the role of an active account (`RequireScope`), then the permissions of whatever role the account has by then, without a look at its
status (`GetUserRolePermissions`). `AdminSurface` says what remains of a snapshot: the account was seen active during the request, and the
permission was held then or later in it (`wasActive`, `held`).

### Lifecycle

`main` is where `App.Run` is. Requests and jobs hold a connection or none; `Signal`,
`DrainAdmin`, `StopCron`, `ClosePool` and `Exit` are the shutdown sequence,
`Deadline` the end of its 15 seconds, `Fatal` a listener that fails. A job that waits
in the `select` with both branches ready takes either (`RunJob`, `JobStops`). The start
before the listeners is `Bootstrap`. Redis is closed after the pool and has no other part here.

## Runs

All runs but `lifecycle`, whose process exits, check for deadlock. Every property of a passing run has a mutant in
`PROJECT.json`: a plausible fault of the code (defined beside the definition it
replaces, marked `fault:`) under which TLC finds the property violated.

| run | instance | shows |
|---|---|---|
| `sessions_rotation` | 1 account, 3 sessions, 2 requests, time 0..2 with lifetimes of 1 | types; `ExchangedOnce`, `ReuseHasCause`, `OneLiveToken`, `DeadFamilyStaysDead`; refinement of `RefreshChain` |
| `sessions_revocation` | 1 account, 2 sessions, 2 requests, one password change, fair | `EvictedStaysOut`; `RequestsEnd`, through both kinds of circles of two |
| `outbox_safety` | 2 dispatchers, 2 events, batch of 2, one crash, stalls, short retention | types; until a lease is overrun `OneHolder`: one holder, whose copy of the row is up to date; and even after that `GivenUpAtTheLimit`, `DeliveredWasAccepted`, `RemovedWithCause` |
| `outbox_liveness` | 2 dispatchers, 1 event, 2 attempts, one crash, each mode of the webhook, fair | `EventuallyClosed`, `EventuallyRemoved` |
| `admin_supers` | 2 superadmins who are edited, the machine caller, 2 requests | types; `LastSuperadminStays` |
| `admin_ceiling` | an editor of roles, an editor of accounts, an account yet to be created that then acts too, 2 requests | `BeyondIsOutOfReach`, `NoNewPowers` |
| `bootstrap` | 2 instances, 2 built-in roles and a configured one, 1 role of operators, 2 attempts to create the database, fair | types; `OneApplier`, `FloorBeforeTraffic`, `FloorComplete`, `RuntimeChangesStand`; `BootEnds` |
| `ratelimit` | 1 address, 1 identifier, 2 requests, limit 1 in a window of 2, backoff from 2 failures, 4-bit integers, failure counts up to 5, fair | types; `BurstBound`, `DelayIsExact`; `WindowEnds`, `BackoffEnds` |
| `authclient` | 2 calls, 2 keys, a budget of 1 and a memo of 1, fair | types and bounds; `OutageHarmless`; `CatchesUp` |
| `ingress` | an IPv4 and an IPv6 client, 2 proxies of which any are trusted, 2 forged hops, hosts of up to 4 fragments, every configuration | `OwnBucket`, `OnlyConfiguredOrigins`, `AdminSurface` |
| `lifecycle` | 2 public requests, 1 admin request, 2 jobs, with and without the private listener, fair | `TornDownInOrder`; `ShutdownEnds` |

Why the bounds suffice. A race over one refresh token needs two requests, and
so does a rotation against a deletion of its family; the proofs cover any number of
both. Two requests close the circles of two; longer ones are made of the same waits, and `BreakDeadlock` breaks them alike,
but no run has them. A chain of three sessions has a first, a middle and a last token; one
account is enough because no statement relates sessions of two accounts. The clock
of `sessions_rotation` passes a lifetime of 1 twice, so that both the application's
and the database's test of expiry are met on either side. A lease is contended by two
dispatchers, and a batch of two has a second event whose lease is older than its
POST. In `Admin` a ceiling needs a role above, two different administrators and
somebody below; Top = 4 leaves three custom ranks. Locking everybody out takes two superadmins and two requests;
who sends those makes no difference to the count, so in `admin_supers` it is the machine, which no rank holds up. What follows the race that `LastSuperadminStays` excepts is not explored there (`UpToTheRace`): the invariant says nothing of those states. In `Bootstrap` a second instance is
what a first one can race with; one custom rank is where a seed and an operator collide, and a role
with two permissions can be torn in the middle. `ratelimit` needs two requests for one
to come between another's two commands, a limit that is exceeded, windows that meet, and failure counts
past the width of the integer; the registration rule is disabled there, so that
both kinds of rules occur. In `authclient` two answers can overtake each other, and a budget
and a memo of one are full at once. In `ingress` a hop of each kind fits left and right of
a proxy, and four fragments make a label before a dot, a label too long and an empty one.
In `lifecycle` a second request and a second job are what another one can outlast. `MaxTime`, `MaxPw`, `MaxSeq`,
`MaxDeaths` bound the clock, the password changes, the events and the crashes;
`IdsLeft` lets a request that will mint start only while an id is left for it.

### A sentence of the repository that does not hold

`claim_auth_time` states a sentence of a comment as a property, and TLC shows the
behaviour that contradicts it: auth_time "is carried from the original login, not reset", but
it is the `created_at` of the presented row, which every rotation renews, so the second
rotation moves it past the login. The two times are variables of `SessionsClaims` and not of
`Sessions`, because no other statement looks at them. The finding in `PROJECT.json` quotes both lines.

### Further observations

Behaviours of the models that contradict a comment, found with TLC in the same way and told here
without a run of their own:

- `auth_token/usecase.go:167`, a reused token means "the whole family is destroyed": the DELETE
  waits for the row a rotation has locked, and the successor that rotation commits is outside its
  snapshot and stays (`DestroyBegin`, `Rotate`, `DestroyEnd`);
- `user_repo.go:146`, a block and its revocation "must not be observable apart": a login that read
  the account before the block stores its session after it (`PasswordGrant`, `StatusEnd`, `Issue`);
- `outbox_repo.go:80`, giveUp closes an event "for good": a dispatcher with an expired lease writes
  `failed_at = NULL` over it (`MarkFailed`); as long as none does, the sentence holds (`VerdictsStand`);
- `domain/user.go:76` and `domain/role.go:127`, ErrLastAdmin and its guard keep the installation from being locked out: two requests
  that demote, block or delete the last two superadmins both count two before either writes (`CountAdmins` twice, then both
  writes), and a request that read its account before another made it the only superadmin does not count at all. `LastSuperadminStays` says
  that nothing else locks the installation out: it holds until a request takes a superadmin away on a count or a row outdated like that (`raced`);
- `authclient.go:326`, the memo is forgotten "so a rotated-in kid is not rejected from cache": an answer from
  before the rotation, installed after the one that brought the new key, takes that key away again, and the
  call that asked for it remembers it as unknown until the next refresh (`Install`, `HasKey`, `rememberUnknown`);
- `src/README.md:124-127`, on the admin surface an expired token answers 401 and "Every other rejection answers a bodiless `404`", and
  `middleware.go:149`, "a valid token without the permission still gets 404": on destructive routes the recent-auth guard runs before the scope guard, so any
  verified token with an old login gets a 403 there, with or without the permission. `AdminSurface` says that this is the only exception, and that the 403 does not
  depend on the permission: it tells of the surface, not of who may use it;
- `role_repo.go:136`, ActorRole is "the authorisation snapshot", and `queries/roles.sql:43`, "in one round trip": it is two statements, and an account that is blocked
  between them, or moved to another role, is authorised by the permissions of the second (`RequireScope`, `RoleChanges`, `GetUserRolePermissions`).

Met while modelling:

- an EXPIRE that fails after its INCR, also because the client hung up, or a first INCR whose reply is lost, leaves a counter without an
  expiry; once it exceeds the limit that address is refused until somebody deletes the key (`lost` in `WindowEnds`);
- `login_pair` is configured and documented (`ratelimit/config.go`), and no code asks it;
- of two failures in flight the one that counted fewer may SET last and shorten the backoff; a `Reset`
  between another request's INCR and SET leaves a backoff without a count;
- every refresh forgets all unknown key ids, so two made-up ids in turn cost a fetch each, up to the
  budget, although `authclient.go:105` says that a repeated forged token "costs nothing after the first";
  made-up ids can also use up the budget that a rotated-in key needs, until the cache ages;
- `realip` reads the first `X-Forwarded-For` line only, so proxies must append to it rather than add a line; a single-valued header must be set by the
  edge on every request, or removed, since goauth cannot tell the edge's from the client's (both assumed in `Ingress`);
- a wildcard rule also admits hosts with empty labels, which browsers do not send;
- a wildcard entry of `allow_domains` with a path is accepted and never matches (`config.go:73`), where an exact one is refused;
- a login whose `TouchUserLogin` fails, or is aborted as it waits, is answered with an error and leaves a session nobody holds the token of;
- with `webhook.interval` 0 events pile up in the outbox, and without `outbox.max_age` nothing removes them;
- a request that outlasts the deadline finds the pool closing and fails;
- a login that checked the old password before a password change stores its session
  after it, as with the block above;
- `auth_password_change` does not look at the status of the account;
- a conditional UPDATE of a rotation that touches no row is reported as a reused token,
  also when the row expired or was deleted in between;
- `Spent` is tested before `Expired`, so an expired spent token still deletes its family;
- a retried event reaches the receiver after later ones;
- the lease covers two POSTs at their timeout, a batch holds more;
- an event whose attempts reach `max_attempts` is not delivered;
- a PATCH that repeats the caller's own role passes the self-reassignment test and writes
  that role, which may by then be another one than the account has;
- the rank of a role can be raised between the ceiling check and the write that assigns it;
- assigning a role compares ranks only; `HoldsAll` is asked when permissions are edited;
- a deleted account can be given a role;
- an instance that skips a role because another one has just inserted it may serve before
  that role has its permissions, and a crash in between leaves it without them: no later
  start adds them, and the API protects built-in roles from edits (`torn` and `Making` in
  `FloorComplete`);
- permissions of a seed still being inserted are added to a role that an operator has edited
  meanwhile through another instance (the exception in `RuntimeChangesStand`);
- a configured role that operators deleted is seeded again, and when its rank has been given
  to another role meanwhile, no instance starts any more;
- the unique violation that `seed_super_admin` takes for another instance's success is the same
  when an ordinary or blocked account holds the configured name; the instance then
  serves without an administrator.

## Fairness

`Sessions`: a running handler goes on and the row-lock queue of PostgreSQL is first
come, first served, so a step that keeps becoming possible is taken (SF of `Proceed`); the
deadlock detector runs (WF of `BreakDeadlock`). Nothing makes clients send requests,
sessions expire or requests abort.

`Outbox`: time passes, the cron loops of dispatcher and cleaner come round, and a POST
ends at its timeout at the latest (WF). Nothing is assumed of the receiver, and
crashes are finite in number. Without that last bound a dispatcher that always crashes
before recording the outcome retries for ever.

`Bootstrap`: a booting process goes on (WF of `Boot`), and the waiters for the advisory lock are
served in their order (SF of `Lock`). Crashes are unrestricted: a boot that crashes has ended.

`RateLimit`: time passes, and a request that started goes on, since every Redis command answers or times
out (WF). Nothing makes requests come, or passwords be right. `BackoffEnds` is stated for `fail_closed`, the
default: without it an outage lets requests past the check, and wrong passwords extend the backoff for ever.

`AuthClient`: calls keep coming and go on, and time passes (WF); a fetch tried again and again is
answered at some point (SF). Outages of any finite length remain possible.

`Lifecycle`: the shutdown sequence goes on when what it waits for has happened, time passes, statements come
back, and a job under a done context returns (WF); a job that keeps finding the context done in its
`select` takes that branch in the end, since each run sets its timer anew (SF of `JobStops`). A request may hang.

## Proofs

The theorems hold for every value of the constants that meets the assumptions stated beside
their declaration: that sets which must not meet do not, that sizes, delays and limits are
naturals (positive where zero would be refused or meaningless), that seeds are roles. No theorem
needs a set to be finite unless it is said here. Each proof goes through an
inductive invariant; TLC has checked each of them on the constants of the component's run.

| module | theorem | statement |
|---|---|---|
| `SessionsProofs` | `TypeCorrect` | `Spec => [](TypeOK /\ LocalsOK)` |
| | `SessionSafety` | `Spec => []SessionInv` |
| | `RotationIsOneTime` | `Spec => [](ExchangedOnce /\ SpentIsExchanged /\ OneLiveToken)`, and the last by itself (`OneTokenPerFamily`) |
| | `FamiliesDieWithCause` | `Spec => []ReuseHasCause` |
| | `RevocationIsFinal` | `Spec => []EvictedStaysOut` |
| | `FamilyDeathIsFinal` | `Spec => DeadFamilyStaysDead` |
| | `ImplementsChain` | `Spec => ChainSpec` |
| `OutboxProofs` | `OutboxTyped` | `Spec => [](TypeOK /\ Hands)` |
| | `LeaseHolds` | `Spec => []OneHolder` |
| | `NotGivenUpLate` | `Spec => []LimitIsKept` |
| | `VerdictsStand` | `Spec => ClosedForGood` |
| | `GivesUpAtTheLimit` | `Spec => []GivenUpAtTheLimit` |
| | `DeliveredIsAccepted` | `Spec => []DeliveredWasAccepted` |
| | `RemovalHasACause` | `Spec => RemovedWithCause` |
| `AdminProofs` | `AdminTyped` | `Spec => []TypeOK` |
| | `CeilingHolds` | `LowActors` implies `Spec => []BeyondIsOutOfReach` |
| | `PowersDoNotAddUp` | `LowActors` implies `Spec => []NoNewPowers` |
| | `LockOutTakesARace` | `Founded` implies `Spec => []LastSuperadminStays` |
| `BootstrapProofs` | `BootstrapTyped` | `Spec => []TypeOK` |
| | `SchemaHasOneApplier` | `Spec => []OneApplier` |
| | `FloorIsLaid` | `Spec => []FloorBeforeTraffic` |
| | `FloorLacksNothing` | `Spec => []FloorComplete` |
| | `SeedingOverwritesNothing` | `Spec => RuntimeChangesStand` |
| `RateLimitProofs` | `ThrottleTyped` | `Spec => []TypeOK` |
| | `DelaysAreExact` | `FitsTheWidth` implies `Spec => []DelayIsExact` |
| | `BurstsAreBounded` | `Spec => []BurstBound` |
| | `CountersEnd` | `Spec => []CounterEnds` |
| `AuthClientProofs` | `VerifierTyped` | `Spec => []TypeOK` |
| | `OutageIsHarmless` | `Spec => []OutageHarmless` |
| `IngressProofs` | `CountedUnderOwnAddress` | `Spec => []OwnBucket` |
| | `OriginsAreConfigured` | `Spec => []OnlyConfiguredOrigins` |
| | `AdminSurfaceHolds` | `Spec => []AdminSurface` |
| `LifecycleProofs` | `ShutdownInOrder` | `Spec => []TornDownInOrder` |

**Sessions.** None of the properties is inductive alone: that a token is not exchanged
twice needs to know that the row a rotation holds is present, unspent and held by nobody else,
and that revocation is final needs to know that a running DELETE has locked, or still has in its snapshot, whatever
is left of the sessions it is meant for. `LocksOK` says both, `LocalsOK` that locals
name real rows, `Lineage` that families and parents do. `SessionInv` is their
conjunction with the properties. The argument goes through one lemma, `TableStep`: as far as the session
tables are concerned every step either *shrinks* them, *begins* a family, or *exchanges* an unspent present
row for a fresh one of its family. Each property, and each step of the
refinement, is then shown for these three cases instead of for every action.
`ReuseHasCause` needs more than the lock: what the conditional UPDATE did not match was exchanged, deleted or expired *then*, and each of these
lasts. Tokens are not given back (`CauseStays`): a successor stays on record, a deleted row does not return, and a row expired at the `now()` of a
transaction is expired by the clock, which that `now()` does not run ahead of (`BeganBefore`).

**Outbox.** `OneHolder` is a race of two clocks. `Leased` says that what is left of the wait on a row and the
time its holder has spent add up to the lease at least; so a row that is due has no holder within its lease,
and `Claim` takes only rows that are due. `Fresh` adds what a sole holder may rely on: the row of an event in hand is
open and its count is the one that was claimed, since only the holder records outcomes. From it follow, as long as no lease
is overrun, that the attempt which reaches `max_attempts` closes the event (`LimitIsKept`) and that a verdict is never written
over (`ClosedForGood`); both are stated in `OutboxProofs`. Without that condition they fail, which is why they are
no more than this. `GivenUpAtTheLimit` compares a counter that several dispatchers
overwrite with the deliveries really started: `Counted` says that the row's count and the deliveries not yet
recorded never exceed the history, `CountsFromBelow` that a dispatcher's copy does not either. `Taken` says
that a success about to be recorded is one. `OutboxTyped` includes that the overflowing backoff stays within its cap.

**Admin.** Handlers check and write in separate statements, so what a check found may be gone at the write. `Base`
is what the foreign keys and the protected names keep for any requests at once. `Ceiling` adds for every request in
flight what its checks have established (`Restrained`): a rank it read may be stale, but it was never above
the ceiling, and roles beyond the ceiling have not changed, so a stale check still refuses to touch them.
`LowActors`, the hypothesis, is the situation the property speaks of: the administrators at work are below superadmin,
at least one is more than a plain user, and the machine, which the code exempts from ranks, is not among them.
`LockOutTakesARace` assumes that there are finitely many accounts and that one is a superadmin (`Founded`). Its invariant, `Guarded`, says of every
request that is not stale what it may rely on: if its account is an active superadmin the row it read says so, and if it counted more than one, there is
more than one. So the write of such a request leaves one, and that of a stale request that takes one away is the race.

**Bootstrap.** `Locked` ties the advisory lock to the one instance between `Lock` and `Unlock`; `Laid` says which seeds an
instance has behind it at each step, and that roles of the floor stay in the table; `OneMaker` that a role being seeded
has one maker.

**RateLimit.** `DelaysAreExact` is about `time.Duration(math.Pow(2, steps)) * base` for every count of failures. A
product that does not fit is `odd * 2^(z + steps)` with the base `odd * 2^z`: past the width it wraps to zero; before that
it is a multiple of a power of two, and if it wraps to something positive, that is at least this
power. `FitsTheWidth`, that `odd * BackoffMax` is representable, makes the power exceed the cap (or the product not wrap),
so the cap applies either way. The defaults meet it: one second is `5^9 * 2^9` ns, and `5^9` minutes are about `1.2 * 10^17` ns. The
default of the webhooks, ten seconds up to an hour, does not, and rests on the case by case argument above.
`BurstsAreBounded` goes through `Spread`, what a counter says of the ages of the last admissions: the newest are its own, at
most `Limit` of them; once it has its expiry, every older one will be a window past when the counter ends; and beyond the
allowance of the counter before all are a window past already. When a counter ends, its own admissions take the second place. A
counter that got no EXPIRE never ends and admits no more than its limit, and an INCR nobody heard of admits nobody. `CountersEnd` is the safety half of `WindowEnds`:
whatever comes between INCR and EXPIRE, a counter without an expiry has a request about to set one, or its EXPIRE failed, or its first INCR went unheard.

**AuthClient.** While a call has its key in the cache (`known`), it is at none of the steps that lead to a refusal (`Spared`).

**Ingress.** `OwnBucket` is proved from the walk over the header: what a client forged is to the left of the address the
outermost proxy appended; of the hops the proxies appended the rightmost that is not trusted is the address they vouch for (`StopsAtVouched`), and
there is always one, the client's if no other. `OnlyConfiguredOrigins` compares two definitions of "subdomain": the suffix with its dot and
something before it, and the labels between the dots; `SuffixIsBelow` shows them equal for hosts of any length. `AdminSurface`
needs what the guards already passed have established (`Passed`), for each chain that `RegisterRoutes` builds, and for the request between the two
reads that its account has been active (`Remembered`).

**Lifecycle.** `Staged` says for every stage of the shutdown what it has left behind.

Only model-checked:

- all liveness (`RequestsEnd`, `EventuallyClosed`, `EventuallyRemoved`, `BootEnds`, `WindowEnds`, `BackoffEnds`, `CatchesUp`,
  `ShutdownEnds`): fairness and ENABLED are out of the prover's reach.

Every invariant and every action property of a run is proved.

## Not modelled, and the plan

Next: the delay of the webhooks'
defaults; a refinement of the outbox (an event is owed, handed over, settled) as `RefreshChain` is for sessions, and its proof.

Left out for good: cryptography, token formats and password hashing (taken as perfect), decoding and
encoding of HTTP and the cookies of answers, the reading of configuration files, dependency wiring,
read-only lists, and the audit log with its cleaner, which is append-only, best effort, and read by
nothing that decides.
