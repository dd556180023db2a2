------------------------------- MODULE Outbox -------------------------------
(***************************************************************************)
(* Webhook delivery in goauth: the ga_outbox table, the dispatcher loop of *)
(* every running instance, the receiver, and the cleaner that bounds the   *)
(* table.                                                                  *)
(*                                                                         *)
(* A dispatcher leases a batch with one UPDATE, posts the events one after *)
(* the other, and records each outcome with an UPDATE by id that asks      *)
(* nothing about who holds the lease.  Time is relative: a row counts the  *)
(* ticks since it was created and the ticks until it is due, both          *)
(* saturating, so that time runs on for ever in a finite model.  The       *)
(* instances and the database read one clock.                              *)
(***************************************************************************)
EXTENDS BackoffDelay, FiniteSets

CONSTANTS
    Worker,        \* dispatcher loops, one per instance
    MaxSeq,        \* bound: events emitted
    BatchSize,     \* webhook.batch_size
    Timeout,       \* webhook.timeout, the longest one delivery takes
    Slack,         \* the 30 seconds added to the lease
    MaxAttempts,   \* webhook.max_attempts
    BackoffBase,   \* webhook.backoff_base
    BackoffMax,    \* webhook.backoff_max
    Retention,     \* outbox.retention, 0 for never
    MaxAge,        \* outbox.max_age, where one is configured
    MaxDeaths,     \* bound: runs of the dispatcher that end early
    Stalls         \* whether time may pass between two deliveries of a batch

ASSUME SizesArePositive == /\ MaxSeq \in Nat \ {0} /\ BatchSize \in Nat \ {0}
                           /\ Timeout \in Nat \ {0} /\ MaxAttempts \in Nat \ {0}
ASSUME DelaysAreNaturals == /\ Slack \in Nat /\ BackoffBase \in Nat /\ BackoffMax \in Nat
                            /\ Retention \in Nat /\ MaxAge \in Nat /\ MaxDeaths \in Nat
ASSUME StallsIsBoolean == Stalls \in BOOLEAN

VARIABLES
    row,       \* ga_outbox, by seq
    emitted,   \* the last seq handed out
    webhook,   \* "on", "unscheduled" (webhook.interval is 0) or "unset" (no webhook.url)
    wk,        \* each dispatcher: its phase, its batch, the event in hand
    maxAge,    \* outbox.max_age of this installation, 0 for never
    cleaner,   \* "settled" or "stuck": the DELETE the cleaner issues next
    accepted,  \* events the receiver took
    tries,     \* history: deliveries started for each event, up to MaxAttempts
    overrun,   \* history: a dispatcher once worked on past its lease
    deaths

vars == <<row, emitted, webhook, wk, maxAge, cleaner, accepted, tries, overrun, deaths>>
aside == <<maxAge, tries, overrun>>   \* configuration and histories

Seq1 == 1..MaxSeq
Queued == DOMAIN row

Lease == 2 * Timeout + Slack

AgeCap == IF Retention > MaxAge THEN Retention + 1 ELSE MaxAge + 1
WaitCap == IF Lease > BackoffMax THEN Lease ELSE BackoffMax

Upto(n, cap) == IF n > cap THEN cap ELSE n

Row == [age: 0..AgeCap,            \* ticks since created_at
        wait: 0..WaitCap,          \* ticks until next_attempt_at
        attempts: 0..MaxAttempts,  \* saturates where every decision is the same
        delivered: BOOLEAN, failed: BOOLEAN]

Settled(e) == row[e].delivered \/ row[e].failed

Phase == {"idle", "next", "sending", "accepted", "refused"}

Dispatcher == [phase: Phase,
               batch: SUBSET Seq1,                  \* claimed, not yet tried
               seen: [Seq1 -> 0..MaxAttempts],      \* their attempts as claimed
               cur: 0..MaxSeq,                      \* the event in hand
               left: 0..Timeout,                    \* ticks before its POST times out
               since: 0..Lease]                     \* ticks since its claim, while that matters

Resting == [phase |-> "idle", batch |-> {}, seen |-> [e \in Seq1 |-> 0],
            cur |-> 0, left |-> 0, since |-> 0]

TypeOK ==
    /\ Queued \subseteq 1..emitted /\ row \in [Queued -> Row]
    /\ emitted \in 0..MaxSeq
    /\ webhook \in {"on", "unscheduled", "unset"}
    /\ wk \in [Worker -> Dispatcher]
    /\ maxAge \in {0, MaxAge}
    /\ cleaner \in {"settled", "stuck"}
    /\ accepted \subseteq 1..emitted
    /\ tries \in [Seq1 -> 0..MaxAttempts]
    /\ overrun \in BOOLEAN
    /\ deaths \in 0..MaxDeaths

Init ==
    /\ row = [e \in {} |-> e]
    /\ emitted = 0
    /\ webhook = "on"
    /\ wk = [w \in Worker |-> Resting]
    /\ maxAge \in {0, MaxAge}
    /\ cleaner = "settled"
    /\ accepted = {}
    /\ tries = [e \in Seq1 |-> 0]
    /\ overrun = FALSE
    /\ deaths = 0

-----------------------------------------------------------------------------
(* Writing events *)

\* A change to an account commits together with its event.  Without a webhook
\* no event is written; whether one is delivered makes no difference.
Emit ==
    /\ webhook # "unset" /\ emitted < MaxSeq
    /\ emitted' = emitted + 1
    /\ row' = [e \in Queued \cup {emitted'} |->
                 IF e = emitted' THEN [age |-> 0, wait |-> 0, attempts |-> 0,
                                       delivered |-> FALSE, failed |-> FALSE]
                 ELSE row[e]]
    /\ UNCHANGED <<webhook, wk, cleaner, accepted, deaths, aside>>

-----------------------------------------------------------------------------
(* The dispatcher *)

\* CronJob.Interval: the job is scheduled when both settings are there.
Dispatching == webhook = "on"

DueAnyTime(e) == ~Settled(e)   \* fault: next_attempt_at is not tested
Due(e) == ~Settled(e) /\ row[e].wait = 0

\* ClaimDueOutboxEvents: the BatchSize due rows with the lowest seq are leased.
Claim(w) ==
    LET due == {e \in Queued : Due(e)}
        batch == {e \in due : Cardinality({d \in due : d < e}) < BatchSize} IN
    /\ Dispatching /\ wk[w].phase = "idle" /\ batch # {}
    /\ row' = [e \in Queued |-> IF e \in batch THEN [row[e] EXCEPT !.wait = Lease] ELSE row[e]]
    /\ wk' = [wk EXCEPT ![w].phase = "next", ![w].batch = batch,
                        ![w].seen = [e \in Seq1 |-> IF e \in batch THEN row[e].attempts ELSE 0]]
    /\ UNCHANGED <<emitted, webhook, cleaner, accepted, deaths, aside>>

\* The next POST of the batch.  The rows of UPDATE ... RETURNING come in no
\* particular order.
Send(w) ==
    /\ wk[w].phase = "next"
    /\ \E e \in wk[w].batch :
         /\ wk' = [wk EXCEPT ![w].phase = "sending", ![w].batch = @ \ {e},
                             ![w].cur = e, ![w].left = Timeout]
         /\ tries' = [tries EXCEPT ![e] = Upto(@ + 1, MaxAttempts)]
    /\ UNCHANGED <<row, emitted, webhook, cleaner, accepted, deaths, maxAge, overrun>>

\* The receiver takes the event and its 2xx arrives in time.
Accept(w) ==
    /\ wk[w].phase = "sending"
    /\ accepted' = accepted \cup {wk[w].cur}
    /\ wk' = [wk EXCEPT ![w].phase = "accepted", ![w].left = 0]
    /\ UNCHANGED <<row, emitted, webhook, cleaner, deaths, aside>>

\* A POST that is cut short may or may not have reached the receiver.
InFlight(w) == {wk[w].cur} \cap (IF wk[w].phase = "sending" THEN Seq1 ELSE {})
Reaches(S) == \E got \in SUBSET S : accepted' = accepted \cup got

\* fault: a status other than 2xx is taken for success
RefuseAsSuccess(w) ==
    /\ wk[w].phase = "sending"
    /\ Reaches(InFlight(w))
    /\ wk' = [wk EXCEPT ![w].phase = "accepted", ![w].left = 0]
    /\ UNCHANGED <<row, emitted, webhook, cleaner, deaths, aside>>

\* Send returns an error: no connection, a status other than 2xx, or a timeout.
Refuse(w) ==
    /\ wk[w].phase = "sending"
    /\ Reaches(InFlight(w))
    /\ wk' = [wk EXCEPT ![w].phase = "refused", ![w].left = 0]
    /\ UNCHANGED <<row, emitted, webhook, cleaner, deaths, aside>>

\* After an event the loop goes on with its batch, or is done.
Carry(w) ==
    wk' = [wk EXCEPT ![w] = IF @.batch = {} THEN Resting
                            ELSE [@ EXCEPT !.phase = "next", !.cur = 0, !.seen[wk[w].cur] = 0]]

\* The UPDATE by id matches nothing when the cleaner removed the row meanwhile.
MarkDelivered(w) ==
    LET new(r) == [r EXCEPT !.delivered = TRUE, !.attempts = Upto(@ + 1, MaxAttempts)] IN
    /\ wk[w].phase = "accepted"
    /\ row' = [e \in Queued |-> IF e = wk[w].cur THEN new(row[e]) ELSE row[e]]
    /\ Carry(w)
    /\ UNCHANGED <<emitted, webhook, cleaner, accepted, deaths, aside>>

UncappedBackoff(attempt) == {2^(attempt - 1) * BackoffBase}   \* fault: BackoffMax ignored

\* math.Pow(2, attempt-1) * BackoffBase, at most BackoffMax.
Backoff(attempt) == Delays(attempt - 1, BackoffBase, BackoffMax)

GivesUpEarly(attempt) == attempt + 1 >= MaxAttempts   \* fault: off by one
NeverGivesUp(attempt) == FALSE                         \* fault: the limit is ignored
GivesUp(attempt) == attempt >= MaxAttempts

\* The attempt number comes from the row as it was claimed.
MarkFailed(w) ==
    LET attempt == wk[w].seen[wk[w].cur] + 1
        new(r, d) == [r EXCEPT !.attempts = Upto(@ + 1, MaxAttempts),
                               !.wait = d,
                               !.failed = GivesUp(attempt)] IN
    /\ wk[w].phase = "refused"
    /\ \E d \in Backoff(attempt) :
         row' = [e \in Queued |-> IF e = wk[w].cur THEN new(row[e], d) ELSE row[e]]
    /\ Carry(w)
    /\ UNCHANGED <<emitted, webhook, cleaner, accepted, deaths, aside>>

\* The run ends early: the instance crashed or is shutting down, which cancels
\* the POST and the UPDATE, or an UPDATE failed and Execute returned.
Die(w) ==
    /\ deaths < MaxDeaths /\ wk[w].phase # "idle"
    /\ deaths' = deaths + 1
    /\ Reaches(InFlight(w))
    /\ wk' = [wk EXCEPT ![w] = Resting]
    /\ UNCHANGED <<row, emitted, webhook, cleaner, aside>>

\* A restart with webhook.interval 0, after which events are written and not
\* delivered any more, or without webhook.url, after which neither is done.
SwitchOff ==
    /\ webhook # "unset"
    /\ webhook' \in {"unscheduled", "unset"} \ {webhook}
    /\ Reaches(UNION {InFlight(w) : w \in Worker})
    /\ wk' = [w \in Worker |-> Resting]
    /\ UNCHANGED <<row, emitted, cleaner, deaths, aside>>

-----------------------------------------------------------------------------
(* The cleaner and the clock *)

Keep(S) == row' = [e \in S |-> row[e]]

ExpiredUnsettled(e) == Retention > 0 /\ row[e].age > Retention   \* fault: pending rows too
PastRetention(e) == Retention > 0 /\ Settled(e) /\ row[e].age > Retention

NothingIsStuck(e) == FALSE   \* fault: only settled rows are ever removed
PastMaxAge(e) == maxAge > 0 /\ ~Settled(e) /\ row[e].age > maxAge

\* outbox_cleaner: DeleteOutboxEventsBefore, then DeleteStuckOutboxEvents.
SweepSettled ==
    /\ cleaner = "settled"
    /\ Keep({e \in Queued : ~PastRetention(e)})
    /\ cleaner' = "stuck"
    /\ UNCHANGED <<emitted, webhook, wk, accepted, deaths, aside>>

SweepStuck ==
    /\ cleaner = "stuck"
    /\ Keep({e \in Queued : ~PastMaxAge(e)})
    /\ cleaner' = "settled"
    /\ UNCHANGED <<emitted, webhook, wk, accepted, deaths, aside>>

\* The second DELETE fails; the next run starts over.
SweepFails ==
    /\ deaths < MaxDeaths /\ cleaner = "stuck"
    /\ deaths' = deaths + 1
    /\ cleaner' = "settled"
    /\ UNCHANGED <<row, emitted, webhook, wk, accepted, aside>>

\* A POST takes at most Timeout; other steps of a dispatcher take time only
\* when Stalls says so.
Tick ==
    /\ \A w \in Worker : \/ wk[w].phase = "idle"
                         \/ wk[w].phase = "sending" /\ wk[w].left > 0
                         \/ wk[w].phase # "sending" /\ Stalls
    /\ row' = [e \in Queued |-> [row[e] EXCEPT !.age = Upto(@ + 1, AgeCap),
                                               !.wait = IF @ = 0 THEN 0 ELSE @ - 1]]
    /\ wk' = [w \in Worker |->
                [wk[w] EXCEPT !.left = IF @ = 0 THEN 0 ELSE @ - 1,
                              !.since = IF overrun \/ wk[w].phase = "idle" THEN 0 ELSE @ + 1]]
    /\ overrun' = (overrun \/ \E w \in Worker : wk'[w].since = Lease)
    /\ UNCHANGED <<emitted, webhook, maxAge, cleaner, accepted, tries, deaths>>

-----------------------------------------------------------------------------

Step(w) == Claim(w) \/ Send(w) \/ Accept(w) \/ Refuse(w) \/ MarkDelivered(w) \/ MarkFailed(w)

Next ==
    \/ Emit
    \/ \E w \in Worker : Step(w) \/ Die(w)
    \/ SwitchOff
    \/ SweepSettled \/ SweepStuck \/ SweepFails
    \/ Tick

Spec == Init /\ [][Next]_vars

\* Time passes, the cron loops of dispatcher and cleaner come round, and a POST
\* ends at its timeout at the latest.
Fairness ==
    /\ WF_vars(Tick) /\ WF_vars(SweepSettled) /\ WF_vars(SweepStuck)
    /\ \A w \in Worker : WF_vars(Step(w))

FairSpec == Spec /\ Fairness
-----------------------------------------------------------------------------
(* Properties *)

\* The events a dispatcher has claimed and not yet recorded an outcome for.
Holds(w) == wk[w].batch \cup ({wk[w].cur} \cap Seq1)

\* Claim's lease: "no other worker sees it", and "if a worker dies mid-delivery,
\* the row simply becomes due again".  Until some dispatcher works on past its
\* lease, no event is in the hands of two of them, whatever crashes and retries,
\* and the row of an event in hand is open and counts the attempts that its
\* holder read: no outcome is recorded over another one.
OneHolder ==
    ~overrun =>
        /\ \A w, v \in Worker : w # v => Holds(w) \cap Holds(v) = {}
        /\ \A w \in Worker : \A e \in Holds(w) \cap Queued :
              ~Settled(e) /\ wk[w].seen[e] = row[e].attempts

\* "Giving up loses the event permanently, so it must happen only at the limit":
\* a row is closed as failed only after MaxAttempts deliveries were started,
\* also when stale dispatchers count from an old claim.
GivenUpAtTheLimit == \A e \in Queued : row[e].failed => tries[e] = MaxAttempts

\* A row is marked delivered only if the receiver has the event, whichever of
\* several dispatchers recorded the outcome, and in whatever order.
DeliveredWasAccepted == \A e \in Queued : row[e].delivered => e \in accepted

\* "Pending events are never touched, however old" by the retention sweep: a row
\* leaves the table only when the receiver has it, when its attempts are used
\* up, or past max_age.
RemovedWithCause ==
    [][\A e \in Queued : e \notin Queued' =>
            \/ e \in accepted \/ tries[e] = MaxAttempts
            \/ maxAge > 0 /\ row[e].age > maxAge]_vars

\* "A receiver that is down delays events": while the dispatcher runs, every event
\* ends up delivered or given up on, for good, despite crashes, stale leases and
\* dispatchers that reopen a closed row.
EventuallyClosed ==
    \A e \in Seq1 : e <= emitted ~> [](~Dispatching \/ e \notin Queued \/ Settled(e))

\* outbox_cleaner "keeps ga_outbox bounded": every row leaves the table, also
\* after webhooks were switched off or their dispatcher was, if there is a max_age.
EventuallyRemoved ==
    \A e \in Seq1 : e \in Queued ~> e \notin Queued \/ (~Dispatching /\ maxAge = 0)
=============================================================================
