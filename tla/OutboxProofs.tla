---------------------------- MODULE OutboxProofs ----------------------------
(***************************************************************************)
(* Proofs about Outbox, for any number of dispatchers, events, attempts.   *)
(*                                                                         *)
(* OneHolder is a race between two clocks, the lease on the row and the    *)
(* time a dispatcher has spent on its batch: Leased says that together     *)
(* they always make up a lease, so a row that is due again is in nobody's  *)
(* hands.  Fresh adds that its holder's copy of a row is up to date, hence *)
(* that verdicts stand and come in time, until a lease is overrun.         *)
(* GivenUpAtTheLimit compares a counter that several dispatchers overwrite *)
(* with the deliveries that were really started; Counted and               *)
(* CountsFromBelow bound the row and each dispatcher's copy of it by that  *)
(* history.  DeliveredWasAccepted needs what a dispatcher is about to      *)
(* record (Taken).                                                         *)
(***************************************************************************)
EXTENDS Outbox, FiniteSetTheorems, TLAPS

\* A dispatcher with an event in its hands.
Busy == {"sending", "accepted", "refused"}

\* What a dispatcher holds has been emitted, the event it delivers is out of its
\* batch, and while nobody has outlived a lease its own is not over.
Hand(w) ==
    /\ wk[w].phase = "idle" => wk[w] = Resting
    /\ wk[w].phase = "next" => wk[w].cur = 0
    /\ wk[w].phase \in Busy => wk[w].cur \in 1..emitted /\ wk[w].cur \notin wk[w].batch
    /\ wk[w].batch \subseteq 1..emitted
    /\ ~overrun => wk[w].since < Lease
\* Of every dispatcher.
Hands == \A w \in Worker : Hand(w)

\* While nobody has outlived its lease, what a dispatcher holds is nobody else's,
\* and the row does not become due before the lease is over.
Leased ==
    ~overrun =>
        /\ \A w, v \in Worker : w # v => Holds(w) \cap Holds(v) = {}
        /\ \A w \in Worker : \A e \in Holds(w) \cap Queued : row[e].wait + wk[w].since >= Lease

\* While nobody has outlived its lease, nothing is recorded in the row of an event
\* in hand: it is open, and the holder's copy of its attempts is up to date.
Fresh ==
    ~overrun =>
        \A w \in Worker : \A e \in Holds(w) \cap Queued :
            ~Settled(e) /\ wk[w].seen[e] = row[e].attempts

\* While nobody has outlived its lease, an event is closed once the attempts
\* recorded for it reach the limit: it is not given up on late either.
LimitIsKept == ~overrun => \A e \in Queued : Settled(e) \/ row[e].attempts < MaxAttempts

\* While nobody has outlived its lease, giving up closes an event "for good", and
\* so does a delivery: no step reopens a row or changes its verdict
\* (MarkOutboxDelivered, MarkOutboxFailed).
ClosedForGood ==
    [][~overrun => \A e \in Queued \cap Queued' :
          Settled(e) => /\ row'[e].delivered = row[e].delivered
                        /\ row'[e].failed = row[e].failed]_vars

\* The dispatchers that have started a delivery of e and not recorded it.
Delivering(e) == {w \in Worker : wk[w].cur = e}

\* Recorded and unrecorded deliveries together are those that were started,
\* up to where the history saturates.
Counted ==
    \A e \in Seq1 :
        /\ IsFiniteSet(Delivering(e))
        /\ e \in Queued => \/ tries[e] = MaxAttempts
                           \/ row[e].attempts + Cardinality(Delivering(e)) <= tries[e]

\* A dispatcher counts from the row as it claimed it, which is never ahead of
\* the deliveries started.
CountsFromBelow ==
    \A w \in Worker :
        /\ \A e \in wk[w].batch : wk[w].seen[e] <= tries[e]
        /\ wk[w].phase \in Busy =>
             Upto(wk[w].seen[wk[w].cur] + 1, MaxAttempts) <= tries[wk[w].cur]

\* An outcome about to be recorded as a success is one.
Taken == \A w \in Worker : wk[w].phase = "accepted" => wk[w].cur \in accepted

\* Only the dispatcher w does anything.
Only(w) ==
    /\ wk' \in [Worker -> Dispatcher]
    /\ \A v \in Worker \ {w} : wk'[v] = wk[v]

\* A dispatcher at rest is well typed.
LEMMA RestingTyped == Resting \in Dispatcher
<1>1. [e \in Seq1 |-> 0] \in [Seq1 -> 0..MaxAttempts]
  BY SizesArePositive
<1>2. 0 \in 0..MaxSeq /\ 0 \in 0..Timeout /\ 0 \in 0..Lease
  BY SizesArePositive, DelaysAreNaturals DEF Lease
<1> QED BY <1>1, <1>2 DEF Resting, Dispatcher, Phase

\* It holds nothing.
LEMMA RestingIsEmpty ==
    /\ Resting.phase = "idle" /\ Resting.batch = {}
    /\ Resting.cur = 0 /\ Resting.left = 0 /\ Resting.since = 0
  BY DEF Resting

\* One dispatcher changes; the others stay.
LEMMA Moved ==
    ASSUME TypeOK, NEW w \in Worker, NEW f \in Dispatcher, wk' = [wk EXCEPT ![w] = f]
    PROVE  wk'[w] = f /\ Only(w)
  BY DEF Only, TypeOK

\* Claim, field by field: the batch and the attempts it read.
LEMMA ClaimMoves ==
    ASSUME TypeOK, NEW w \in Worker, NEW batch \in SUBSET Seq1,
           NEW seen \in [Seq1 -> 0..MaxAttempts],
           wk' = [wk EXCEPT ![w].phase = "next", ![w].batch = batch, ![w].seen = seen]
    PROVE  /\ Only(w)
           /\ wk'[w].phase = "next" /\ wk'[w].batch = batch /\ wk'[w].seen = seen
           /\ wk'[w].cur = wk[w].cur /\ wk'[w].since = wk[w].since
  BY DEF Only, Dispatcher, Phase, TypeOK

\* Send, field by field: the event moves from the batch into the hands.
LEMMA SendMoves ==
    ASSUME TypeOK, NEW w \in Worker, NEW e \in wk[w].batch,
           wk' = [wk EXCEPT ![w].phase = "sending", ![w].batch = @ \ {e},
                            ![w].cur = e, ![w].left = Timeout]
    PROVE  /\ Only(w)
           /\ wk'[w].phase = "sending" /\ wk'[w].batch = wk[w].batch \ {e}
           /\ wk'[w].cur = e /\ wk'[w].seen = wk[w].seen /\ wk'[w].since = wk[w].since
<1> DEFINE d == wk[w]
           f == [d EXCEPT !.phase = "sending", !.batch = @ \ {e}, !.cur = e, !.left = Timeout]
<1>0. d \in Dispatcher /\ wk \in [Worker -> Dispatcher]
  BY DEF TypeOK
<1>1. wk' = [wk EXCEPT ![w] = f]
  BY <1>0
<1>2. f \in Dispatcher
  BY <1>0, SizesArePositive DEF Dispatcher, Phase, Seq1
<1>3. /\ f.phase = "sending" /\ f.batch = d.batch \ {e}
      /\ f.cur = e /\ f.seen = d.seen /\ f.since = d.since
  BY <1>0 DEF Dispatcher
<1> HIDE DEF f
<1>4. wk'[w] = f /\ Only(w)
  BY <1>1, <1>2, Moved
<1> QED BY <1>3, <1>4

\* Accept and Refuse, field by field.
LEMMA AnswerMoves ==
    ASSUME TypeOK, NEW w \in Worker, NEW phase \in Phase,
           wk' = [wk EXCEPT ![w].phase = phase, ![w].left = 0]
    PROVE  /\ Only(w)
           /\ wk'[w].phase = phase /\ wk'[w].batch = wk[w].batch
           /\ wk'[w].cur = wk[w].cur /\ wk'[w].seen = wk[w].seen /\ wk'[w].since = wk[w].since
<1> DEFINE d == wk[w]
           f == [d EXCEPT !.phase = phase, !.left = 0]
<1>0. d \in Dispatcher /\ wk \in [Worker -> Dispatcher]
  BY DEF TypeOK
<1>1. wk' = [wk EXCEPT ![w] = f]
  BY <1>0
<1>2. f \in Dispatcher
  <2>1. 0 \in 0..Timeout
    BY SizesArePositive
  <2> QED BY <1>0, <2>1 DEF Dispatcher
<1>3. /\ f.phase = phase /\ f.batch = d.batch
      /\ f.cur = d.cur /\ f.seen = d.seen /\ f.since = d.since
  BY <1>0 DEF Dispatcher
<1> HIDE DEF f
<1>4. wk'[w] = f /\ Only(w)
  BY <1>1, <1>2, Moved
<1> QED BY <1>3, <1>4

\* Carry, field by field: on to the next event, or to rest.
LEMMA CarryMoves ==
    ASSUME TypeOK, NEW w \in Worker, wk[w].cur \in Seq1, Carry(w)
    PROVE  /\ Only(w)
           /\ \/ wk[w].batch = {} /\ wk'[w] = Resting
              \/ /\ wk'[w].phase = "next" /\ wk'[w].batch = wk[w].batch
                 /\ wk'[w].cur = 0 /\ wk'[w].since = wk[w].since
                 /\ \A e \in Seq1 \ {wk[w].cur} : wk'[w].seen[e] = wk[w].seen[e]
<1> DEFINE d == wk[w]
<1>0. d \in Dispatcher /\ wk \in [Worker -> Dispatcher]
  BY DEF TypeOK
<1>1. CASE d.batch = {}
  BY <1>0, <1>1, RestingTyped DEF Carry, Only
<1>2. CASE d.batch # {}
  <2> DEFINE f == [d EXCEPT !.phase = "next", !.cur = 0, !.seen[d.cur] = 0]
  <2>1. wk' = [wk EXCEPT ![w] = f]
    BY <1>0, <1>2 DEF Carry
  <2>2. f \in Dispatcher
    <3>1. [d.seen EXCEPT ![d.cur] = 0] \in [Seq1 -> 0..MaxAttempts] /\ 0 \in 0..MaxSeq
      BY <1>0, SizesArePositive DEF Dispatcher
    <3> QED BY <1>0, <3>1 DEF Dispatcher, Phase
  <2>3. /\ f.phase = "next" /\ f.batch = d.batch /\ f.cur = 0 /\ f.since = d.since
        /\ \A e \in Seq1 \ {d.cur} : f.seen[e] = d.seen[e]
    BY <1>0 DEF Dispatcher
  <2> HIDE DEF f
  <2>4. wk'[w] = f /\ Only(w)
    BY <2>1, <2>2, Moved
  <2> QED BY <2>3, <2>4
<1> QED BY <1>1, <1>2
-----------------------------------------------------------------------------
(* The delays *)

\* Powers of two, by counting the subsets of an interval.
LEMMA PowerIsPositive ==
    ASSUME NEW n \in Nat
    PROVE  2 ^ n \in Nat \ {0}
<1>1. IsFiniteSet(1..n) /\ Cardinality(1..n) = n
  BY FS_Interval
<1>2. IsFiniteSet(SUBSET (1..n)) /\ Cardinality(SUBSET (1..n)) = 2 ^ n
  BY <1>1, FS_SUBSET
<1>3. SUBSET (1..n) # {}
  OBVIOUS
<1> QED BY <1>2, <1>3, FS_CardinalityType, FS_EmptySet

\* No delay is longer than BackoffMax, whatever the shift overflows to.
LEMMA BackoffCapped ==
    ASSUME NEW attempt \in Nat \ {0}, NEW d \in Backoff(attempt)
    PROVE  d \in 0..BackoffMax
<1>0. IntWidth \in Nat \ {0, 1} /\ BackoffBase \in Nat /\ BackoffMax \in Nat
  BY WidthIsUseful, DelaysAreNaturals
<1>1. 2 ^ IntWidth \in Nat \ {0} /\ 2 ^ (IntWidth - 1) \in Nat \ {0}
  BY <1>0, PowerIsPositive
<1>2. MinInt \in Int /\ MaxInt \in Int
  BY <1>1 DEF MinInt, MaxInt
<1>3. ASSUME NEW x \in Int
      PROVE  Wrapped(x) \in Int
  <2>1. (x - MinInt) % 2 ^ IntWidth \in Int
    BY <1>1, <1>2
  <2> QED BY <2>1, <1>2 DEF Wrapped
<1>4. PICK p \in PowerOfTwo(attempt - 1) : d = Capped(Wrapped(p * BackoffBase), BackoffMax)
  BY DEF Backoff, Delays
<1>5. p \in Int
  <2>1. 2 ^ (attempt - 1) \in Nat \ {0}
    BY PowerIsPositive
  <2> QED BY <1>2, <2>1 DEF PowerOfTwo
<1>6. p * BackoffBase \in Int
  BY <1>0, <1>5
<1>7. Wrapped(p * BackoffBase) \in Int
  BY <1>3, <1>6
<1> QED BY <1>0, <1>4, <1>7 DEF Capped
-----------------------------------------------------------------------------
(* Typing *)

\* The constants, as numbers.
LEMMA Sizes ==
    /\ MaxSeq \in Nat \ {0} /\ MaxAttempts \in Nat \ {0} /\ Timeout \in Nat \ {0}
    /\ Lease \in Nat \ {0} /\ WaitCap \in Nat /\ AgeCap \in Nat
    /\ Lease <= WaitCap /\ BackoffMax <= WaitCap
    /\ Retention \in Nat /\ MaxAge \in Nat /\ BackoffMax \in Nat /\ MaxDeaths \in Nat
  BY SizesArePositive, DelaysAreNaturals DEF Lease, WaitCap, AgeCap

\* A statement that updates rows one by one.
LEMMA RowsUpdated ==
    ASSUME TypeOK, NEW f, row' = [e \in Queued |-> f[e]], UNCHANGED emitted,
           \A e \in Queued : f[e] \in Row
    PROVE  Queued' = Queued /\ Queued' \subseteq 1..emitted' /\ row' \in [Queued' -> Row]
  BY DEF TypeOK, Queued

\* A step of one dispatcher leaves the hands of the others alone.
LEMMA HandsKept ==
    ASSUME Hands, NEW w \in Worker, Only(w), Hand(w)', UNCHANGED <<emitted, overrun>>
    PROVE  Hands'
  BY DEF Hands, Hand, Only

\* A transaction appends an event.
LEMMA EmitTyped == TypeOK /\ Hands /\ Emit => TypeOK' /\ Hands'
<1> SUFFICES ASSUME TypeOK, Hands, Emit PROVE TypeOK' /\ Hands'
  OBVIOUS
<1>1. emitted' \in 0..MaxSeq /\ emitted' = emitted + 1 /\ emitted \in Nat
  BY Sizes DEF Emit, TypeOK
<1> DEFINE new == [age |-> 0, wait |-> 0, attempts |-> 0, delivered |-> FALSE, failed |-> FALSE]
<1>2. new \in Row
  BY Sizes DEF Row
<1>3. Queued' = Queued \cup {emitted'} /\ row' \in [Queued' -> Row]
  BY <1>1, <1>2 DEF Emit, TypeOK, Queued
<1>4. 1..emitted \subseteq 1..emitted'
  BY <1>1
<1>5. TypeOK'
  BY <1>1, <1>3, <1>4 DEF Emit, TypeOK, aside
<1>6. Hands'
  BY <1>4 DEF Emit, Hands, Hand, aside
<1> QED BY <1>5, <1>6

\* A claim takes rows that are due and puts them off by the lease.
LEMMA ClaimTyped ==
    ASSUME TypeOK, Hands, NEW w \in Worker, Claim(w)
    PROVE  TypeOK' /\ Hands'
<1> DEFINE due == {e \in Queued : Due(e)}
           batch == {e \in due : Cardinality({d \in due : d < e}) < BatchSize}
           seen == [e \in Seq1 |-> IF e \in batch THEN row[e].attempts ELSE 0]
           f == [e \in Queued |-> IF e \in batch THEN [row[e] EXCEPT !.wait = Lease] ELSE row[e]]
<1>1. batch \subseteq Queued /\ Queued \subseteq 1..emitted /\ 1..emitted \subseteq Seq1
  BY Sizes DEF TypeOK, Seq1
<1>2. /\ row' = f /\ wk[w].phase = "idle"
      /\ wk' = [wk EXCEPT ![w].phase = "next", ![w].batch = batch, ![w].seen = seen]
      /\ UNCHANGED <<emitted, webhook, cleaner, accepted, deaths, aside>>
  BY DEF Claim
<1> HIDE DEF batch
<1>3. \A e \in Queued : row[e] \in Row /\ row[e].attempts \in 0..MaxAttempts
  BY DEF TypeOK, Row
<1>4. seen \in [Seq1 -> 0..MaxAttempts]
  <2>1. 0 \in 0..MaxAttempts
    BY Sizes
  <2> QED BY <1>1, <1>3, <2>1
<1>5. \A e \in Queued : f[e] \in Row
  BY <1>3, Sizes DEF Row
<1> HIDE DEF f, seen
<1>6. Queued' = Queued /\ Queued' \subseteq 1..emitted' /\ row' \in [Queued' -> Row]
  <2>1. row' = [e \in Queued |-> f[e]]
    BY <1>2 DEF f
  <2> QED BY <1>2, <1>5, <2>1, RowsUpdated
<1>7. /\ Only(w)
      /\ wk'[w].phase = "next" /\ wk'[w].batch = batch
      /\ wk'[w].cur = wk[w].cur /\ wk'[w].since = wk[w].since
  BY <1>1, <1>2, <1>4, ClaimMoves
<1>8. wk[w].cur = 0
  BY <1>2 DEF Hands, Hand, Resting
<1>9. Hand(w)'
  BY <1>1, <1>2, <1>7, <1>8 DEF Hands, Hand, aside, Busy
<1> QED BY <1>2, <1>6, <1>7, <1>9, HandsKept DEF TypeOK, Only, aside

\* The saturating count stays in range.
LEMMA UptoTyped ==
    ASSUME NEW n \in 0..MaxAttempts
    PROVE  /\ Upto(n + 1, MaxAttempts) \in 0..MaxAttempts
           /\ n <= Upto(n + 1, MaxAttempts) /\ Upto(n + 1, MaxAttempts) <= n + 1
  BY Sizes DEF Upto

\* A delivery begins.
LEMMA SendTyped ==
    ASSUME TypeOK, Hands, NEW w \in Worker, Send(w)
    PROVE  TypeOK' /\ Hands'
<1>1. PICK e \in wk[w].batch :
        /\ wk' = [wk EXCEPT ![w].phase = "sending", ![w].batch = @ \ {e},
                            ![w].cur = e, ![w].left = Timeout]
        /\ tries' = [tries EXCEPT ![e] = Upto(@ + 1, MaxAttempts)]
  BY DEF Send
<1>2. /\ Only(w)
      /\ wk'[w].phase = "sending" /\ wk'[w].batch = wk[w].batch \ {e}
      /\ wk'[w].cur = e /\ wk'[w].since = wk[w].since
  BY <1>1, SendMoves
<1>3. UNCHANGED <<row, emitted, webhook, cleaner, accepted, deaths, maxAge, overrun>>
  BY DEF Send
<1>4. tries' \in [Seq1 -> 0..MaxAttempts]
  <2>1. e \in Seq1 /\ tries \in [Seq1 -> 0..MaxAttempts]
    BY DEF TypeOK, Dispatcher
  <2>2. Upto(tries[e] + 1, MaxAttempts) \in 0..MaxAttempts
    BY <2>1, UptoTyped
  <2> QED BY <1>1, <2>1, <2>2
<1>5. Hand(w)'
  BY <1>2, <1>3 DEF Hands, Hand, Busy
<1> QED BY <1>2, <1>3, <1>4, <1>5, HandsKept DEF TypeOK, Only, Queued

\* The event in flight was emitted, and what a POST brings to the receiver too.
LEMMA FlyingEmitted ==
    ASSUME Hands, NEW w \in Worker
    PROVE  InFlight(w) \subseteq 1..emitted
  BY DEF Hands, Hand, InFlight, Busy

\* The receiver can only get what was emitted.
LEMMA ReachedTyped ==
    ASSUME TypeOK, NEW S, S \subseteq 1..emitted, Reaches(S)
    PROVE  accepted' \subseteq 1..emitted /\ accepted \subseteq accepted'
  BY DEF Reaches, TypeOK

\* The receiver answers 2xx.
LEMMA AcceptTyped ==
    ASSUME TypeOK, Hands, NEW w \in Worker, Accept(w)
    PROVE  TypeOK' /\ Hands'
<1>1. /\ Only(w)
      /\ wk'[w].phase = "accepted" /\ wk'[w].batch = wk[w].batch
      /\ wk'[w].cur = wk[w].cur /\ wk'[w].since = wk[w].since
  BY AnswerMoves DEF Accept, Phase
<1>2. wk[w].cur \in 1..emitted
  BY DEF Accept, Hands, Hand, Busy
<1>3. /\ UNCHANGED <<row, emitted, webhook, cleaner, deaths, aside>>
      /\ accepted' \subseteq 1..emitted
  BY <1>2 DEF Accept, TypeOK
<1>4. Hand(w)'
  <2>1. wk[w].phase = "sending"
    BY DEF Accept
  <2> QED BY <1>1, <1>3, <2>1 DEF Hands, Hand, Busy, aside
<1> QED BY <1>1, <1>3, <1>4, HandsKept DEF TypeOK, Only, Queued, aside

\* It answers something else, or not in time.
LEMMA RefuseTyped ==
    ASSUME TypeOK, Hands, NEW w \in Worker, Refuse(w)
    PROVE  TypeOK' /\ Hands'
<1>1. /\ Only(w)
      /\ wk'[w].phase = "refused" /\ wk'[w].batch = wk[w].batch
      /\ wk'[w].cur = wk[w].cur /\ wk'[w].since = wk[w].since
  BY AnswerMoves DEF Refuse, Phase
<1>3. /\ UNCHANGED <<row, emitted, webhook, cleaner, deaths, aside>>
      /\ accepted' \subseteq 1..emitted
  BY FlyingEmitted, ReachedTyped DEF Refuse
<1>4. Hand(w)'
  <2>1. wk[w].phase = "sending"
    BY DEF Refuse
  <2> QED BY <1>1, <1>3, <2>1 DEF Hands, Hand, Busy, aside
<1> QED BY <1>1, <1>3, <1>4, HandsKept DEF TypeOK, Only, Queued, aside

\* After an outcome is recorded.
LEMMA CarryTyped ==
    ASSUME TypeOK, Hands, NEW w \in Worker, wk[w].phase \in Busy, Carry(w),
           UNCHANGED <<emitted, overrun>>
    PROVE  Only(w) /\ Hands'
<1>1. wk[w].cur \in Seq1
  BY Sizes DEF Hands, Hand, TypeOK, Seq1
<1>2. Only(w) /\ Hand(w)'
  BY <1>1, CarryMoves, Sizes DEF Hands, Hand, Resting, Busy
<1> QED BY <1>2, HandsKept

\* A success is recorded.
LEMMA MarkDeliveredTyped ==
    ASSUME TypeOK, Hands, NEW w \in Worker, MarkDelivered(w)
    PROVE  TypeOK' /\ Hands'
<1> DEFINE new(r) == [r EXCEPT !.delivered = TRUE, !.attempts = Upto(@ + 1, MaxAttempts)]
           f == [e \in Queued |-> IF e = wk[w].cur THEN new(row[e]) ELSE row[e]]
<1>1. /\ row' = f /\ wk[w].phase = "accepted" /\ Carry(w)
      /\ UNCHANGED <<emitted, webhook, cleaner, accepted, deaths, aside>>
  BY DEF MarkDelivered
<1>2. \A e \in Queued : row[e] \in Row
  BY DEF TypeOK
<1>3. \A r \in Row : new(r) \in Row
  <2> TAKE r \in Row
  <2>1. Upto(r.attempts + 1, MaxAttempts) \in 0..MaxAttempts
    BY UptoTyped DEF Row
  <2> QED BY <2>1 DEF Row
<1> HIDE DEF new
<1>4. \A e \in Queued : f[e] \in Row
  BY <1>2, <1>3
<1>5. Queued' = Queued /\ Queued' \subseteq 1..emitted' /\ row' \in [Queued' -> Row]
  <2>1. row' = [e \in Queued |-> f[e]]
    BY <1>1
  <2> HIDE DEF f
  <2> QED BY <1>1, <1>4, <2>1, RowsUpdated
<1>6. Only(w) /\ Hands'
  BY <1>1, CarryTyped DEF Busy, aside
<1> QED BY <1>1, <1>5, <1>6 DEF TypeOK, Only, aside

\* A failure is recorded, with the delay or for good.
LEMMA MarkFailedTyped ==
    ASSUME TypeOK, Hands, NEW w \in Worker, MarkFailed(w)
    PROVE  TypeOK' /\ Hands'
<1> DEFINE attempt == wk[w].seen[wk[w].cur] + 1
           new(r, d) == [r EXCEPT !.attempts = Upto(@ + 1, MaxAttempts), !.wait = d,
                                  !.failed = GivesUp(attempt)]
<1>1. /\ wk[w].phase = "refused" /\ Carry(w)
      /\ UNCHANGED <<emitted, webhook, cleaner, accepted, deaths, aside>>
  BY DEF MarkFailed
<1>2. PICK d \in Backoff(attempt) :
        row' = [e \in Queued |-> IF e = wk[w].cur THEN new(row[e], d) ELSE row[e]]
  BY DEF MarkFailed
<1>3. attempt \in Nat \ {0}
  <2>1. wk[w].cur \in Seq1 /\ wk[w].seen \in [Seq1 -> 0..MaxAttempts]
    BY <1>1, Sizes DEF Hands, Hand, TypeOK, Seq1, Busy, Dispatcher
  <2> QED BY <2>1, Sizes
<1>4. d \in 0..WaitCap
  BY <1>3, BackoffCapped, Sizes
<1>5. GivesUp(attempt) \in BOOLEAN
  BY DEF GivesUp
<1> HIDE DEF attempt
<1>6. \A r \in Row : new(r, d) \in Row
  <2> TAKE r \in Row
  <2>1. Upto(r.attempts + 1, MaxAttempts) \in 0..MaxAttempts
    BY UptoTyped DEF Row
  <2> QED BY <1>4, <1>5, <2>1 DEF Row
<1> HIDE DEF new
<1> DEFINE f == [e \in Queued |-> IF e = wk[w].cur THEN new(row[e], d) ELSE row[e]]
<1>7. \A e \in Queued : f[e] \in Row
  BY <1>6 DEF TypeOK
<1>8. Queued' = Queued /\ Queued' \subseteq 1..emitted' /\ row' \in [Queued' -> Row]
  <2>1. row' = [e \in Queued |-> f[e]]
    BY <1>2
  <2> HIDE DEF f
  <2> QED BY <1>1, <1>7, <2>1, RowsUpdated
<1>9. Only(w) /\ Hands'
  BY <1>1, CarryTyped DEF Busy, aside
<1> QED BY <1>1, <1>8, <1>9 DEF TypeOK, Only, aside

\* A dispatcher dies and drops what it holds.
LEMMA DieTyped ==
    ASSUME TypeOK, Hands, NEW w \in Worker, Die(w)
    PROVE  TypeOK' /\ Hands'
<1>2. /\ UNCHANGED <<row, emitted, webhook, cleaner, aside>>
      /\ accepted' \subseteq 1..emitted
  BY FlyingEmitted, ReachedTyped DEF Die
<1>3. wk'[w] = Resting /\ Only(w)
  BY RestingTyped, Moved DEF Die
<1>4. Hand(w)'
  BY <1>2, <1>3, Sizes DEF Hand, Resting, Busy
<1>5. deaths' \in 0..MaxDeaths
  BY Sizes DEF Die, TypeOK
<1> QED BY <1>2, <1>3, <1>4, <1>5, HandsKept DEF TypeOK, Only, Queued, aside

\* Webhooks are switched off.
LEMMA SwitchOffTyped ==
    ASSUME TypeOK, Hands, SwitchOff
    PROVE  TypeOK' /\ Hands'
<1>1. /\ UNCHANGED <<row, emitted, cleaner, deaths, aside>> /\ webhook' \in {"unscheduled", "unset"}
      /\ accepted' \subseteq 1..emitted
  <2>1. UNION {InFlight(w) : w \in Worker} \subseteq 1..emitted
    BY FlyingEmitted
  <2> QED BY <2>1, ReachedTyped DEF SwitchOff
<1>2. wk' = [w \in Worker |-> Resting] /\ wk' \in [Worker -> Dispatcher]
  BY RestingTyped DEF SwitchOff
<1>3. Hands'
  BY <1>1, <1>2, Sizes DEF Hands, Hand, Resting, Busy
<1> QED BY <1>1, <1>2, <1>3 DEF TypeOK, Queued, aside

\* The cleaner only removes rows.
LEMMA SweepTyped ==
    ASSUME TypeOK, Hands, SweepSettled \/ SweepStuck \/ SweepFails
    PROVE  TypeOK' /\ Hands' /\ Queued' \subseteq Queued /\ (\A e \in Queued' : row'[e] = row[e])
<1>1. ASSUME NEW S \in SUBSET Queued, Keep(S)
      PROVE  /\ Queued' = S /\ Queued' \subseteq Queued /\ row' \in [Queued' -> Row]
             /\ \A e \in Queued' : row'[e] = row[e]
  BY <1>1 DEF Keep, TypeOK, Queued
<1>2. UNCHANGED <<emitted, webhook, wk, accepted, aside>> /\ cleaner' \in {"settled", "stuck"}
  BY DEF SweepSettled, SweepStuck, SweepFails
<1>3. deaths' \in 0..MaxDeaths
  BY Sizes DEF SweepSettled, SweepStuck, SweepFails, TypeOK
<1>4. /\ Queued' \subseteq Queued /\ row' \in [Queued' -> Row]
      /\ \A e \in Queued' : row'[e] = row[e]
  BY <1>1 DEF SweepSettled, SweepStuck, SweepFails, TypeOK, Queued
<1>5. Hands'
  BY <1>2 DEF Hands, Hand, aside
<1> QED BY <1>2, <1>3, <1>4, <1>5 DEF TypeOK, aside

\* What a tick does to one dispatcher.
LEMMA TickMoves ==
    ASSUME TypeOK, Hands, Tick, NEW w \in Worker
    PROVE  /\ wk'[w] \in Dispatcher
           /\ wk'[w].phase = wk[w].phase /\ wk'[w].batch = wk[w].batch
           /\ wk'[w].cur = wk[w].cur /\ wk'[w].seen = wk[w].seen
           /\ wk'[w].since = IF overrun \/ wk[w].phase = "idle" THEN 0 ELSE wk[w].since + 1
           /\ wk[w].phase = "idle" => wk'[w] = Resting
<1> DEFINE d == wk[w]
           l == IF d.left = 0 THEN 0 ELSE d.left - 1
           s == IF overrun \/ d.phase = "idle" THEN 0 ELSE d.since + 1
           f == [d EXCEPT !.left = l, !.since = s]
<1>1. d \in Dispatcher
  BY DEF TypeOK
<1>2. wk'[w] = f
  BY DEF Tick
<1>3. l \in 0..Timeout
  BY <1>1, Sizes DEF Dispatcher
<1>4. s \in 0..Lease
  BY <1>1, Sizes DEF Dispatcher, Hands, Hand
<1>5. f.since = s
  BY <1>1 DEF Dispatcher
<1>6. d.phase = "idle" => l = 0 /\ s = 0 /\ d = Resting
  <2>1. d.phase = "idle" => d = Resting
    BY DEF Hands, Hand
  <2>2. Resting.left = 0 /\ Resting.since = 0
    BY DEF Resting
  <2> QED BY <2>1, <2>2
<1> HIDE DEF l, s
<1>7. f \in Dispatcher
  BY <1>1, <1>3, <1>4 DEF Dispatcher
<1>8. d.phase = "idle" => f = Resting
  <2>1. [Resting EXCEPT !.left = 0, !.since = 0] = Resting
    <3>1. Resting \in Dispatcher /\ Resting.left = 0 /\ Resting.since = 0
      BY RestingTyped DEF Resting
    <3> QED BY <3>1 DEF Dispatcher
  <2> QED BY <1>6, <2>1
<1>9. f.phase = d.phase /\ f.batch = d.batch /\ f.cur = d.cur /\ f.seen = d.seen
  BY <1>1 DEF Dispatcher
<1> HIDE DEF f
<1> QED BY <1>2, <1>5, <1>7, <1>8, <1>9 DEF s

\* Time passes: leases and delays run down.
LEMMA TickTyped ==
    ASSUME TypeOK, Hands, Tick
    PROVE  TypeOK' /\ Hands'
<1> DEFINE f == [e \in Queued |-> [row[e] EXCEPT !.age = Upto(@ + 1, AgeCap),
                                                 !.wait = IF @ = 0 THEN 0 ELSE @ - 1]]
<1>1. /\ row' = f
      /\ overrun' = (overrun \/ \E w \in Worker : wk'[w].since = Lease)
      /\ UNCHANGED <<emitted, webhook, maxAge, cleaner, accepted, tries, deaths>>
  BY DEF Tick
<1>2. \A e \in Queued : f[e] \in Row
  <2> TAKE e \in Queued
  <2>1. row[e] \in Row
    BY DEF TypeOK
  <2>2. Upto(row[e].age + 1, AgeCap) \in 0..AgeCap
    BY <2>1, Sizes DEF Row, Upto
  <2>3. (IF row[e].wait = 0 THEN 0 ELSE row[e].wait - 1) \in 0..WaitCap
    BY <2>1, Sizes DEF Row
  <2> QED BY <2>1, <2>2, <2>3 DEF Row
<1>3. Queued' = Queued /\ Queued' \subseteq 1..emitted' /\ row' \in [Queued' -> Row]
  <2>1. row' = [e \in Queued |-> f[e]]
    BY <1>1
  <2> HIDE DEF f
  <2> QED BY <1>1, <1>2, <2>1, RowsUpdated
<1>4. wk' \in [Worker -> Dispatcher]
  <2>1. DOMAIN wk' = Worker /\ wk' = [w \in Worker |-> wk'[w]]
    BY DEF Tick
  <2> QED BY <2>1, TickMoves
<1>5. overrun' \in BOOLEAN
  BY <1>1
<1>6. Hands'
  <2> SUFFICES ASSUME NEW w \in Worker PROVE Hand(w)'
    BY DEF Hands
  <2>1. wk'[w].since \in 0..Lease
    BY <1>4 DEF Dispatcher
  <2>2. ~overrun' => wk'[w].since < Lease
    <3>1. ~overrun' => wk'[w].since # Lease
      BY <1>1
    <3> QED BY <2>1, <3>1, Sizes
  <2> QED BY <1>1, <2>2, TickMoves DEF Hands, Hand, Busy
<1> QED BY <1>1, <1>3, <1>4, <1>5, <1>6 DEF TypeOK

\* The table starts empty.
LEMMA InitTyped == Init => TypeOK /\ Hands
<1> SUFFICES ASSUME Init PROVE TypeOK /\ Hands
  OBVIOUS
<1>1. wk \in [Worker -> Dispatcher]
  BY RestingTyped DEF Init
<1>2. tries \in [Seq1 -> 0..MaxAttempts] /\ 0 \in 0..MaxSeq /\ 0 \in 0..MaxDeaths
  BY Sizes DEF Init
<1>3. Queued = {} /\ row \in [Queued -> Row]
  BY DEF Init, Queued
<1>4. Hands
  BY Sizes DEF Init, Hands, Hand, Resting, Busy
<1> QED BY <1>1, <1>2, <1>3, <1>4 DEF Init, TypeOK

\* Every step.
LEMMA NextTyped == TypeOK /\ Hands /\ [Next]_vars => TypeOK' /\ Hands'
<1> SUFFICES ASSUME TypeOK, Hands, [Next]_vars PROVE TypeOK' /\ Hands'
  OBVIOUS
<1>1. CASE UNCHANGED vars
  BY <1>1 DEF vars, TypeOK, Hands, Hand, Queued
<1>2. CASE Next
  BY <1>2, EmitTyped, ClaimTyped, SendTyped, AcceptTyped, RefuseTyped, MarkDeliveredTyped,
     MarkFailedTyped, DieTyped, SwitchOffTyped, SweepTyped, TickTyped DEF Next, Step
<1> QED BY <1>1, <1>2

\* TypeOK of Outbox, with what the dispatchers hold: no delay, count or lease
\* leaves its range, and a dispatcher holds only what was emitted.
THEOREM OutboxTyped == Spec => [](TypeOK /\ Hands)
  BY InitTyped, NextTyped, PTL DEF Spec
-----------------------------------------------------------------------------
(* What the actions do, as far as the invariants care *)

\* A claim takes rows that are due, and starts a lease on each.
LEMMA ClaimEffect ==
    ASSUME TypeOK, Hands, NEW w \in Worker, Claim(w)
    PROVE  /\ Only(w) /\ wk[w] = Resting
           /\ wk'[w].phase = "next" /\ wk'[w].cur = 0 /\ wk'[w].since = 0
           /\ wk'[w].batch \subseteq Queued
           /\ \A e \in wk'[w].batch : /\ row[e].wait = 0 /\ row'[e].wait = Lease
                                      /\ wk'[w].seen[e] = row[e].attempts /\ ~Settled(e)
           /\ Queued' = Queued
           /\ \A e \in Queued : /\ e \notin wk'[w].batch => row'[e] = row[e]
                                /\ row'[e].attempts = row[e].attempts
                                /\ row'[e].delivered = row[e].delivered
                                /\ row'[e].failed = row[e].failed
           /\ UNCHANGED <<emitted, accepted, tries, overrun>>
<1> DEFINE due == {e \in Queued : Due(e)}
           batch == {e \in due : Cardinality({d \in due : d < e}) < BatchSize}
           seen == [e \in Seq1 |-> IF e \in batch THEN row[e].attempts ELSE 0]
<1>1. /\ batch \subseteq Queued /\ Queued \subseteq Seq1
      /\ \A e \in batch : row[e].wait = 0 /\ ~Settled(e)
  BY Sizes DEF TypeOK, Seq1, Due
<1>2. /\ row' = [e \in Queued |-> IF e \in batch THEN [row[e] EXCEPT !.wait = Lease] ELSE row[e]]
      /\ wk[w].phase = "idle"
      /\ wk' = [wk EXCEPT ![w].phase = "next", ![w].batch = batch, ![w].seen = seen]
      /\ UNCHANGED <<emitted, accepted, tries, overrun>>
  BY DEF Claim, aside
<1> HIDE DEF batch
<1>3. \A e \in Queued : row[e] \in Row
  BY DEF TypeOK
<1>4. seen \in [Seq1 -> 0..MaxAttempts]
  <2>1. 0 \in 0..MaxAttempts
    BY Sizes
  <2> QED BY <1>1, <1>3, <2>1 DEF Row
<1>5. \A e \in batch : seen[e] = row[e].attempts
  BY <1>1
<1> HIDE DEF seen
<1>6. /\ Only(w)
      /\ wk'[w].phase = "next" /\ wk'[w].batch = batch /\ wk'[w].seen = seen
      /\ wk'[w].cur = wk[w].cur /\ wk'[w].since = wk[w].since
  BY <1>1, <1>2, <1>4, ClaimMoves
<1>7. wk[w] = Resting /\ wk[w].cur = 0 /\ wk[w].since = 0
  BY <1>2, RestingIsEmpty DEF Hands, Hand
<1>8. \A e \in Queued :
        /\ e \notin batch => row'[e] = row[e]
        /\ e \in batch => row'[e].wait = Lease
        /\ row'[e].attempts = row[e].attempts
        /\ row'[e].delivered = row[e].delivered /\ row'[e].failed = row[e].failed
  BY <1>2, <1>3 DEF Row
<1>9. Queued' = Queued
  BY <1>2 DEF Queued
<1>10. \A e \in wk'[w].batch : /\ row[e].wait = 0 /\ row'[e].wait = Lease
                               /\ wk'[w].seen[e] = row[e].attempts /\ ~Settled(e)
  BY <1>1, <1>5, <1>6, <1>8
<1> QED BY <1>1, <1>2, <1>6, <1>7, <1>8, <1>9, <1>10, Zenon

\* Recording an outcome lets go of the event in hand and touches only its row.
LEMMA MarkEffect ==
    ASSUME TypeOK, Hands, NEW w \in Worker, MarkDelivered(w) \/ MarkFailed(w)
    PROVE  /\ wk[w].phase \in Busy /\ wk[w].cur \in Seq1 /\ wk[w].cur \notin wk[w].batch
           /\ Only(w)
           /\ wk'[w].batch = wk[w].batch /\ wk'[w].cur = 0 /\ wk'[w].phase \in {"idle", "next"}
           /\ wk'[w].phase = "next" => wk'[w].since = wk[w].since
           /\ \A e \in wk'[w].batch : wk'[w].seen[e] = wk[w].seen[e]
           /\ Queued' = Queued
           /\ \A e \in Queued \ {wk[w].cur} : row'[e] = row[e]
           /\ wk[w].cur \in Queued =>
                row'[wk[w].cur].attempts = Upto(row[wk[w].cur].attempts + 1, MaxAttempts)
           /\ UNCHANGED <<emitted, accepted, tries, overrun>>
<1>1. wk[w].phase \in Busy /\ Carry(w)
  BY DEF MarkDelivered, MarkFailed, Busy
<1>2. wk[w].cur \in Seq1 /\ wk[w].cur \notin wk[w].batch
  BY <1>1, Sizes DEF Hands, Hand, TypeOK, Seq1
<1>3. /\ Only(w) /\ wk'[w].batch = wk[w].batch /\ wk'[w].cur = 0
      /\ wk'[w].phase \in {"idle", "next"}
      /\ wk'[w].phase = "next" => wk'[w].since = wk[w].since
  BY <1>1, <1>2, CarryMoves, RestingIsEmpty
<1>4. \A e \in wk'[w].batch : wk'[w].seen[e] = wk[w].seen[e]
  <2>1. wk[w].batch \subseteq Seq1 \ {wk[w].cur}
    BY <1>2 DEF TypeOK, Dispatcher
  <2> QED BY <1>1, <1>2, <1>3, <2>1, CarryMoves DEF Resting
<1>5. \A e \in Queued : row[e] \in Row
  BY DEF TypeOK
<1>6. /\ Queued' = Queued
      /\ \A e \in Queued \ {wk[w].cur} : row'[e] = row[e]
  BY DEF MarkDelivered, MarkFailed, Queued
<1>7. wk[w].cur \in Queued =>
        row'[wk[w].cur].attempts = Upto(row[wk[w].cur].attempts + 1, MaxAttempts)
  BY <1>5 DEF MarkDelivered, MarkFailed, Row
<1>8. UNCHANGED <<emitted, accepted, tries, overrun>>
  BY DEF MarkDelivered, MarkFailed, aside
<1> QED BY <1>1, <1>2, <1>3, <1>4, <1>6, <1>7, <1>8

\* An answer, or the end of a run, changes no row and only lets go.
LEMMA AnswerEffect ==
    ASSUME TypeOK, Hands, NEW w \in Worker, Accept(w) \/ Refuse(w)
    PROVE  /\ Only(w) /\ wk[w].phase = "sending" /\ wk'[w].phase \in {"accepted", "refused"}
           /\ wk'[w].batch = wk[w].batch /\ wk'[w].cur = wk[w].cur
           /\ wk'[w].seen = wk[w].seen /\ wk'[w].since = wk[w].since
           /\ accepted \subseteq accepted'
           /\ wk'[w].phase = "accepted" => wk[w].cur \in accepted'
           /\ UNCHANGED <<row, emitted, tries, overrun>>
<1>1. wk[w].phase = "sending" /\ UNCHANGED <<row, emitted, tries, overrun>>
  BY DEF Accept, Refuse, aside
<1>2. CASE Accept(w)
  BY <1>1, <1>2, AnswerMoves DEF Accept, Phase
<1>3. CASE Refuse(w)
  <2>1. accepted \subseteq accepted'
    BY <1>3, FlyingEmitted, ReachedTyped DEF Refuse
  <2> QED BY <1>1, <1>3, <2>1, AnswerMoves DEF Refuse, Phase
<1> QED BY <1>2, <1>3

\* Death and switching off touch no row.
LEMMA EndEffect ==
    ASSUME TypeOK, Hands, (\E w \in Worker : Die(w)) \/ SwitchOff
    PROVE  /\ \A w \in Worker : wk'[w] = wk[w] \/ wk'[w] = Resting
           /\ accepted \subseteq accepted'
           /\ UNCHANGED <<row, emitted, tries, overrun>>
<1>1. CASE \E w \in Worker : Die(w)
  <2>1. PICK w \in Worker : Die(w)
    BY <1>1
  <2>2. wk'[w] = Resting /\ Only(w)
    BY <2>1, RestingTyped, Moved DEF Die
  <2>3. accepted \subseteq accepted'
    BY <2>1, FlyingEmitted, ReachedTyped DEF Die
  <2> QED BY <2>1, <2>2, <2>3 DEF Die, Only, aside
<1>2. CASE SwitchOff
  <2>1. UNION {InFlight(w) : w \in Worker} \subseteq 1..emitted
    BY FlyingEmitted
  <2> QED BY <1>2, <2>1, ReachedTyped DEF SwitchOff, aside
<1> QED BY <1>1, <1>2
-----------------------------------------------------------------------------
(* The lease *)

\* Nobody takes an event and no row comes closer to being due than the lease of
\* its holder does to its end.
LEMMA LeaseShrinks ==
    ASSUME Leased, ~overrun' => ~overrun,
           \A w \in Worker : Holds(w)' \subseteq Holds(w),
           \A w \in Worker : \A e \in Holds(w)' \cap Queued' :
              /\ e \in Queued
              /\ row[e].wait + wk[w].since >= Lease => row'[e].wait + wk'[w].since >= Lease
    PROVE  Leased'
<1> SUFFICES ASSUME ~overrun' PROVE Leased'
  BY DEF Leased
<1>1. \A w, v \in Worker : w # v => Holds(w)' \cap Holds(v)' = {}
  BY DEF Leased
<1>2. \A w \in Worker : \A e \in Holds(w)' \cap Queued' : row'[e].wait + wk'[w].since >= Lease
  BY DEF Leased
<1> QED BY <1>1, <1>2 DEF Leased

\* A claimed row was due, and who holds a row that is due has outlived its lease.
LEMMA ClaimLeased ==
    ASSUME TypeOK, Hands, Leased, NEW w \in Worker, Claim(w)
    PROVE  Leased'
<1> DEFINE batch == wk'[w].batch
<1> SUFFICES ASSUME ~overrun' PROVE Leased'
  BY DEF Leased
<1>0. /\ Only(w) /\ wk'[w].cur = 0 /\ wk'[w].since = 0
      /\ batch \subseteq Queued /\ Queued' = Queued
      /\ \A e \in batch : row[e].wait = 0 /\ row'[e].wait = Lease
      /\ \A e \in Queued : e \notin batch => row'[e] = row[e]
      /\ overrun' = overrun
  BY ClaimEffect
<1>1. Holds(w)' = batch
  BY <1>0 DEF Holds, Seq1
<1>2. ASSUME NEW v \in Worker \ {w}
      PROVE  Holds(v)' = Holds(v) /\ wk'[v] = wk[v]
  BY <1>0 DEF Holds, Only
\* A row that is due is in nobody's hands.
<1>3. ASSUME NEW v \in Worker
      PROVE  batch \cap Holds(v) = {}
  <2> SUFFICES ASSUME NEW e \in batch, e \in Holds(v) PROVE FALSE
    OBVIOUS
  <2>1. row[e].wait + wk[v].since >= Lease /\ row[e].wait = 0
    BY <1>0 DEF Leased
  <2>2. wk[v].since < Lease /\ wk[v].since \in Nat
    BY <1>0, Sizes DEF Hands, Hand, TypeOK, Dispatcher
  <2> QED BY <2>1, <2>2, Sizes
<1>4. \A u, v \in Worker : u # v => Holds(u)' \cap Holds(v)' = {}
  BY <1>0, <1>1, <1>2, <1>3 DEF Leased
<1>5. ASSUME NEW v \in Worker, NEW e \in Holds(v)' \cap Queued'
      PROVE  row'[e].wait + wk'[v].since >= Lease
  <2>1. CASE v = w
    BY <1>0, <1>1, <2>1, Sizes
  <2>2. CASE v # w
    <3>1. e \in Holds(v) /\ e \in Queued /\ e \notin batch /\ wk'[v] = wk[v]
      BY <1>0, <1>2, <1>3, <2>2
    <3> QED BY <1>0, <3>1 DEF Leased
  <2> QED BY <2>1, <2>2
<1> QED BY <1>4, <1>5 DEF Leased

\* A record ends the hold on its row and touches no other.
LEMMA MarkLeased ==
    ASSUME TypeOK, Hands, Leased, NEW w \in Worker, MarkDelivered(w) \/ MarkFailed(w)
    PROVE  Leased'
<1> DEFINE c == wk[w].cur
<1> SUFFICES ASSUME ~overrun' PROVE Leased'
  BY DEF Leased
<1>0. /\ c \in Seq1 /\ c \notin wk[w].batch
      /\ Only(w) /\ wk'[w].batch = wk[w].batch /\ wk'[w].cur = 0
      /\ wk'[w].phase \in {"idle", "next"}
      /\ wk'[w].phase = "next" => wk'[w].since = wk[w].since
      /\ Queued' = Queued /\ \A e \in Queued \ {c} : row'[e] = row[e]
      /\ overrun' = overrun
  BY MarkEffect
<1>1. Holds(w)' = wk[w].batch /\ Holds(w) = wk[w].batch \cup {c}
  BY <1>0 DEF Holds, Seq1
<1>2. ASSUME NEW v \in Worker \ {w}
      PROVE  Holds(v)' = Holds(v) /\ wk'[v] = wk[v] /\ c \notin Holds(v)
  BY <1>0, <1>1 DEF Holds, Only, Leased
<1>3. ASSUME NEW e \in Holds(w)'
      PROVE  wk'[w].since = wk[w].since
  <2>1. wk'[w].batch # {} /\ Hands'
    BY <1>0, <1>1, MarkDeliveredTyped, MarkFailedTyped
  <2>2. wk'[w].phase # "idle"
    BY <2>1, RestingIsEmpty DEF Hands, Hand
  <2> QED BY <1>0, <2>2
<1>4. \A v \in Worker : Holds(v)' \subseteq Holds(v)
  BY <1>1, <1>2
<1>5. ASSUME NEW v \in Worker, NEW e \in Holds(v)' \cap Queued'
      PROVE  e \in Queued /\ row'[e] = row[e] /\ wk'[v].since = wk[v].since
  BY <1>0, <1>1, <1>2, <1>3
<1> QED BY <1>0, <1>4, <1>5, LeaseShrinks

\* Every step keeps the leases apart.
LEMMA NextLeased ==
    ASSUME TypeOK, Hands, Leased, [Next]_vars
    PROVE  Leased'
<1>1. CASE UNCHANGED vars
  BY <1>1 DEF vars, Leased, Holds, Queued
<1>2. CASE Emit
  <2>1. UNCHANGED <<wk, overrun>> /\ emitted' = emitted + 1 /\ emitted \in Nat
    BY <1>2, Sizes DEF Emit, aside, TypeOK
  <2>2. \A w \in Worker : Holds(w)' = Holds(w)
    BY <2>1 DEF Holds
  <2>3. \A w \in Worker : emitted + 1 \notin Holds(w)
    <3> SUFFICES ASSUME NEW w \in Worker PROVE emitted + 1 \notin Holds(w)
      OBVIOUS
    <3>1. wk[w].cur \in 0..emitted /\ wk[w].batch \subseteq 1..emitted
      BY <2>1, RestingIsEmpty DEF Hands, Hand, Busy, TypeOK, Dispatcher, Phase
    <3> QED BY <2>1, <3>1 DEF Holds
  <2>4. \A e \in Queued' : e # emitted + 1 => e \in Queued /\ row'[e] = row[e]
    BY <1>2, <2>1 DEF Emit, Queued
  <2> QED BY <2>1, <2>2, <2>3, <2>4, LeaseShrinks
<1>3. ASSUME NEW w \in Worker, Claim(w)
      PROVE  Leased'
  BY <1>3, ClaimLeased
<1>4. ASSUME NEW w \in Worker, Send(w)
      PROVE  Leased'
  <2>1. PICK e \in wk[w].batch :
          wk' = [wk EXCEPT ![w].phase = "sending", ![w].batch = @ \ {e},
                           ![w].cur = e, ![w].left = Timeout]
    BY <1>4 DEF Send
  <2>2. /\ Only(w) /\ wk'[w].batch = wk[w].batch \ {e} /\ wk'[w].cur = e
        /\ wk'[w].since = wk[w].since
    BY <2>1, SendMoves
  <2>3. UNCHANGED <<row, overrun>>
    BY <1>4 DEF Send
  <2>4. \A v \in Worker : Holds(v)' \subseteq Holds(v) /\ wk'[v].since = wk[v].since
    BY <2>2 DEF Holds, Only
  <2> QED BY <2>3, <2>4, LeaseShrinks DEF Queued
<1>5. ASSUME NEW w \in Worker, Accept(w) \/ Refuse(w)
      PROVE  Leased'
  <2>1. \A v \in Worker : Holds(v)' \subseteq Holds(v) /\ wk'[v].since = wk[v].since
    BY <1>5, AnswerEffect DEF Holds, Only
  <2>2. UNCHANGED <<row, overrun>>
    BY <1>5, AnswerEffect
  <2> QED BY <2>1, <2>2, LeaseShrinks DEF Queued
<1>6. ASSUME NEW w \in Worker, MarkDelivered(w) \/ MarkFailed(w)
      PROVE  Leased'
  BY <1>6, MarkLeased
<1>7. CASE (\E w \in Worker : Die(w)) \/ SwitchOff
  <2>1. \A w \in Worker : wk'[w] = wk[w] \/ wk'[w] = Resting
    BY <1>7, EndEffect
  <2>2. UNCHANGED <<row, overrun>>
    BY <1>7, EndEffect
  <2>3. \A w \in Worker : \/ Holds(w)' = {}
                          \/ Holds(w)' = Holds(w) /\ wk'[w].since = wk[w].since
    BY <2>1, RestingIsEmpty DEF Holds, Seq1
  <2> QED BY <2>2, <2>3, LeaseShrinks DEF Queued
<1>8. CASE SweepSettled \/ SweepStuck \/ SweepFails
  <2>1. Queued' \subseteq Queued /\ \A e \in Queued' : row'[e] = row[e]
    BY <1>8, SweepTyped
  <2>2. UNCHANGED <<wk, overrun>>
    BY <1>8 DEF SweepSettled, SweepStuck, SweepFails, aside
  <2> QED BY <2>1, <2>2, LeaseShrinks DEF Holds
\* The row and the lease lose a tick each.
<1>9. CASE Tick
  <2>1. \A w \in Worker : Holds(w)' = Holds(w)
    BY <1>9, TickMoves DEF Holds
  <2>2. ~overrun' => ~overrun
    BY <1>9 DEF Tick
  <2>3. Queued' = Queued
    BY <1>9 DEF Tick, Queued
  <2>4. ASSUME NEW w \in Worker, NEW e \in Holds(w)' \cap Queued',
               row[e].wait + wk[w].since >= Lease, ~overrun
        PROVE  row'[e].wait + wk'[w].since >= Lease
    <3>1. row[e].wait \in Nat /\ wk[w].since \in Nat /\ wk[w].since < Lease
      <4>1. row[e] \in Row /\ wk[w] \in Dispatcher
        BY <2>3 DEF TypeOK
      <4>2. wk[w].since < Lease
        BY <2>4 DEF Hands, Hand
      <4> QED BY <4>1, <4>2, Sizes DEF Row, Dispatcher
    <3>2. row'[e].wait = IF row[e].wait = 0 THEN 0 ELSE row[e].wait - 1
      <4>1. row[e] \in Row
        BY <2>3 DEF TypeOK
      <4> QED BY <1>9, <2>3, <4>1 DEF Tick, Row
    <3>3. wk[w].phase # "idle"
      BY <2>1, RestingIsEmpty DEF Hands, Hand, Holds, Seq1
    <3>4. wk'[w].since = wk[w].since + 1
      BY <1>9, <2>4, <3>3, TickMoves
    <3> QED BY <2>4, <3>1, <3>2, <3>4, Sizes
  <2>5. CASE overrun
    BY <1>9, <2>5 DEF Tick, Leased
  <2>6. CASE ~overrun
    BY <2>1, <2>2, <2>3, <2>4, <2>6, LeaseShrinks
  <2> QED BY <2>5, <2>6
<1> QED BY <1>1, <1>2, <1>3, <1>4, <1>5, <1>6, <1>7, <1>8, <1>9 DEF Next, Step
-----------------------------------------------------------------------------
(* What is recorded in a row while it is in hand *)

\* Only MarkDelivered and MarkFailed record anything.
LEMMA RecordsKept ==
    ASSUME TypeOK, Hands, [Next]_vars, \A w \in Worker : ~MarkDelivered(w) /\ ~MarkFailed(w)
    PROVE  \A e \in Queued \cap Queued' :
              /\ row'[e].attempts = row[e].attempts
              /\ row'[e].delivered = row[e].delivered /\ row'[e].failed = row[e].failed
<1>1. CASE row' = row
  BY <1>1
<1>2. CASE Emit
  <2>1. emitted \in Nat /\ emitted' = emitted + 1 /\ Queued \subseteq 1..emitted
    BY <1>2, Sizes DEF Emit, TypeOK
  <2>2. \A e \in Queued : row'[e] = row[e]
    BY <1>2, <2>1 DEF Emit
  <2> QED BY <2>2
<1>3. ASSUME NEW w \in Worker, Claim(w)
      PROVE  \A e \in Queued : /\ row'[e].attempts = row[e].attempts
                               /\ row'[e].delivered = row[e].delivered
                               /\ row'[e].failed = row[e].failed
  BY <1>3, ClaimEffect
<1>4. CASE SweepSettled \/ SweepStuck \/ SweepFails
  BY <1>4, SweepTyped
<1>5. CASE Tick
  <2> SUFFICES ASSUME NEW e \in Queued
               PROVE  /\ row'[e].attempts = row[e].attempts
                      /\ row'[e].delivered = row[e].delivered /\ row'[e].failed = row[e].failed
    OBVIOUS
  <2>1. row[e] \in Row
    BY DEF TypeOK
  <2> QED BY <1>5, <2>1 DEF Tick, Row
<1>6. ASSUME NEW w \in Worker, Send(w) \/ Accept(w) \/ Refuse(w) \/ Die(w) PROVE row' = row
  BY <1>6 DEF Send, Accept, Refuse, Die
<1>7. CASE SwitchOff
  BY <1>1, <1>7 DEF SwitchOff
<1>8. CASE UNCHANGED vars
  BY <1>1, <1>8 DEF vars
<1> QED BY <1>1, <1>2, <1>3, <1>4, <1>5, <1>6, <1>7, <1>8 DEF Next, Step

\* Nobody takes an event, and nothing is recorded in the rows of those in hand.
LEMMA FreshKept ==
    ASSUME Fresh, ~overrun' => ~overrun,
           \A w \in Worker : \A e \in Holds(w)' \cap Queued' :
              /\ e \in Holds(w) \cap Queued
              /\ wk'[w].seen[e] = wk[w].seen[e]
              /\ row'[e].attempts = row[e].attempts
              /\ row'[e].delivered = row[e].delivered /\ row'[e].failed = row[e].failed
    PROVE  Fresh'
  BY DEF Fresh, Settled

\* A record is made in the row of an event that nobody else holds, and its
\* holder lets go of it.
LEMMA MarkFresh ==
    ASSUME TypeOK, Hands, Leased, Fresh, NEW w \in Worker, MarkDelivered(w) \/ MarkFailed(w)
    PROVE  Fresh'
<1> DEFINE c == wk[w].cur
<1> SUFFICES ASSUME ~overrun' PROVE Fresh'
  BY DEF Fresh
<1>0. /\ c \in Seq1 /\ c \notin wk[w].batch
      /\ Only(w) /\ wk'[w].batch = wk[w].batch /\ wk'[w].cur = 0
      /\ \A e \in wk'[w].batch : wk'[w].seen[e] = wk[w].seen[e]
      /\ Queued' = Queued /\ \A e \in Queued \ {c} : row'[e] = row[e]
      /\ overrun' = overrun
  BY MarkEffect
<1>1. Holds(w)' = wk[w].batch /\ Holds(w) = wk[w].batch \cup {c}
  BY <1>0 DEF Holds, Seq1
<1>2. ASSUME NEW v \in Worker \ {w}
      PROVE  Holds(v)' = Holds(v) /\ wk'[v] = wk[v] /\ c \notin Holds(v)
  BY <1>0, <1>1 DEF Holds, Only, Leased
<1>3. ASSUME NEW v \in Worker, NEW e \in Holds(v)' \cap Queued'
      PROVE  e \in Holds(v) \cap Queued /\ row'[e] = row[e] /\ wk'[v].seen[e] = wk[v].seen[e]
  <2>1. CASE v = w
    BY <1>0, <1>1, <2>1
  <2>2. CASE v # w
    BY <1>0, <1>2, <2>2
  <2> QED BY <2>1, <2>2
<1> QED BY <1>0, <1>3, FreshKept

\* A claim reads the rows it takes; every other step keeps what is in hand.
LEMMA NextFresh ==
    ASSUME TypeOK, Hands, Leased, Fresh, [Next]_vars
    PROVE  Fresh'
<1>0. CASE \E w \in Worker : MarkDelivered(w) \/ MarkFailed(w)
  BY <1>0, MarkFresh
<1> SUFFICES ASSUME \A w \in Worker : ~MarkDelivered(w) /\ ~MarkFailed(w) PROVE Fresh'
  BY <1>0
<1>r. \A e \in Queued \cap Queued' :
        /\ row'[e].attempts = row[e].attempts
        /\ row'[e].delivered = row[e].delivered /\ row'[e].failed = row[e].failed
  BY RecordsKept
<1>h. ASSUME ~overrun' => ~overrun,
             \A w \in Worker : \A e \in Holds(w)' \cap Queued' :
                e \in Holds(w) \cap Queued /\ wk'[w].seen[e] = wk[w].seen[e]
      PROVE  Fresh'
  <2>1. \A w \in Worker : \A e \in Holds(w)' \cap Queued' :
              /\ e \in Holds(w) \cap Queued
              /\ wk'[w].seen[e] = wk[w].seen[e]
              /\ row'[e].attempts = row[e].attempts
              /\ row'[e].delivered = row[e].delivered /\ row'[e].failed = row[e].failed
    BY <1>r, <1>h
  <2> QED BY <1>h, <2>1, FreshKept
<1>1. CASE UNCHANGED vars
  BY <1>1 DEF vars, Fresh, Holds, Queued, Settled
<1>2. CASE Emit
  <2>1. UNCHANGED <<wk, overrun>> /\ emitted' = emitted + 1 /\ emitted \in Nat
    BY <1>2, Sizes DEF Emit, aside, TypeOK
  <2>2. \A w \in Worker : Holds(w)' = Holds(w)
    BY <2>1 DEF Holds
  <2>3. \A w \in Worker : emitted + 1 \notin Holds(w)
    <3> SUFFICES ASSUME NEW w \in Worker PROVE emitted + 1 \notin Holds(w)
      OBVIOUS
    <3>1. wk[w].cur \in 0..emitted /\ wk[w].batch \subseteq 1..emitted
      BY <2>1, RestingIsEmpty DEF Hands, Hand, Busy, TypeOK, Dispatcher, Phase
    <3> QED BY <2>1, <3>1 DEF Holds
  <2>4. \A e \in Queued' : e # emitted + 1 => e \in Queued
    BY <1>2, <2>1 DEF Emit, Queued
  <2> QED BY <1>h, <2>1, <2>2, <2>3, <2>4
<1>3. ASSUME NEW w \in Worker, Claim(w)
      PROVE  Fresh'
  <2>1. /\ Only(w) /\ wk'[w].cur = 0 /\ wk'[w].batch \subseteq Queued /\ Queued' = Queued
        /\ \A e \in wk'[w].batch : wk'[w].seen[e] = row[e].attempts /\ ~Settled(e)
        /\ overrun' = overrun
    BY <1>3, ClaimEffect
  <2>2. Holds(w)' = wk'[w].batch
    BY <2>1 DEF Holds, Seq1
  <2>3. ASSUME NEW v \in Worker \ {w} PROVE Holds(v)' = Holds(v) /\ wk'[v] = wk[v]
    BY <2>1 DEF Holds, Only
  <2>4. ASSUME ~overrun', NEW v \in Worker, NEW e \in Holds(v)' \cap Queued'
        PROVE  ~Settled(e)' /\ wk'[v].seen[e] = row'[e].attempts
    <3>1. ~Settled(e) /\ wk'[v].seen[e] = row[e].attempts
      BY <2>1, <2>2, <2>3, <2>4 DEF Fresh
    <3> QED BY <1>r, <2>1, <2>4, <3>1 DEF Settled
  <2> QED BY <2>4 DEF Fresh
<1>4. ASSUME NEW w \in Worker, Send(w)
      PROVE  Fresh'
  <2>1. PICK e \in wk[w].batch :
          wk' = [wk EXCEPT ![w].phase = "sending", ![w].batch = @ \ {e},
                           ![w].cur = e, ![w].left = Timeout]
    BY <1>4 DEF Send
  <2>2. /\ Only(w) /\ wk'[w].batch = wk[w].batch \ {e} /\ wk'[w].cur = e
        /\ wk'[w].seen = wk[w].seen
    BY <2>1, SendMoves
  <2>3. UNCHANGED <<row, overrun>>
    BY <1>4 DEF Send
  <2>4. \A v \in Worker : Holds(v)' \subseteq Holds(v) /\ wk'[v].seen = wk[v].seen
    BY <2>2 DEF Holds, Only
  <2> QED BY <1>h, <2>3, <2>4 DEF Queued
<1>5. ASSUME NEW w \in Worker, Accept(w) \/ Refuse(w)
      PROVE  Fresh'
  <2>1. \A v \in Worker : Holds(v)' \subseteq Holds(v) /\ wk'[v].seen = wk[v].seen
    BY <1>5, AnswerEffect DEF Holds, Only
  <2>2. UNCHANGED <<row, overrun>>
    BY <1>5, AnswerEffect
  <2> QED BY <1>h, <2>1, <2>2 DEF Queued
<1>6. CASE (\E w \in Worker : Die(w)) \/ SwitchOff
  <2>1. \A w \in Worker : wk'[w] = wk[w] \/ wk'[w] = Resting
    BY <1>6, EndEffect
  <2>2. UNCHANGED <<row, overrun>>
    BY <1>6, EndEffect
  <2>3. \A w \in Worker : \/ Holds(w)' = {}
                          \/ Holds(w)' = Holds(w) /\ wk'[w].seen = wk[w].seen
    BY <2>1, RestingIsEmpty DEF Holds, Seq1
  <2> QED BY <1>h, <2>2, <2>3 DEF Queued
<1>7. CASE SweepSettled \/ SweepStuck \/ SweepFails
  <2>1. Queued' \subseteq Queued
    BY <1>7, SweepTyped
  <2>2. UNCHANGED <<wk, overrun>>
    BY <1>7 DEF SweepSettled, SweepStuck, SweepFails, aside
  <2> QED BY <1>h, <2>1, <2>2 DEF Holds
<1>8. CASE Tick
  <2>1. \A w \in Worker : Holds(w)' = Holds(w) /\ wk'[w].seen = wk[w].seen
    BY <1>8, TickMoves DEF Holds
  <2>2. (~overrun' => ~overrun) /\ Queued' = Queued
    BY <1>8 DEF Tick, Queued
  <2> QED BY <1>h, <2>1, <2>2
<1> QED BY <1>1, <1>2, <1>3, <1>4, <1>5, <1>6, <1>7, <1>8 DEF Next, Step

\* OneHolder: while every dispatcher keeps within its lease, no two of them hold
\* one event and what one holds is as it was claimed, for any number of
\* instances (ClaimDueOutboxEvents).
THEOREM LeaseHolds == Spec => []OneHolder
<1>1. Init => Leased /\ Fresh
  BY RestingIsEmpty DEF Init, Leased, Fresh, Holds, Seq1
<1>2. Leased /\ Fresh => OneHolder
  BY DEF Leased, Fresh, OneHolder
<1>3. TypeOK /\ Hands /\ Leased /\ Fresh /\ [Next]_vars => Leased' /\ Fresh'
  BY NextLeased, NextFresh
<1> QED BY <1>1, <1>2, <1>3, OutboxTyped, PTL DEF Spec

\* What MarkDelivered and MarkFailed write into the row of the event in hand.
LEMMA MarkWrites ==
    ASSUME TypeOK, Hands, NEW w \in Worker, MarkDelivered(w) \/ MarkFailed(w), wk[w].cur \in Queued
    PROVE  \/ row'[wk[w].cur].delivered = TRUE
           \/ row'[wk[w].cur].failed = GivesUp(wk[w].seen[wk[w].cur] + 1)
<1>1. row[wk[w].cur] \in Row
  BY DEF TypeOK
<1>2. CASE MarkDelivered(w)
  BY <1>1, <1>2 DEF MarkDelivered, Row
<1>3. CASE MarkFailed(w)
  BY <1>1, <1>3 DEF MarkFailed, Row
<1> QED BY <1>2, <1>3

\* Every step keeps the limit.
LEMMA NextLimit ==
    ASSUME TypeOK, Hands, Fresh, LimitIsKept, [Next]_vars, overrun => overrun'
    PROVE  LimitIsKept'
<1> SUFFICES ASSUME ~overrun', NEW e \in Queued'
             PROVE  Settled(e)' \/ row'[e].attempts < MaxAttempts
  BY DEF LimitIsKept
<1>0. MaxAttempts \in Nat \ {0} /\ ~overrun
  BY Sizes
<1>1. CASE e \notin Queued
  <2>1. Emit \/ row' = row \/ Queued' \subseteq Queued
    <3>1. ASSUME NEW w \in Worker, Claim(w) PROVE Queued' = Queued
      BY <3>1, ClaimEffect
    <3>2. ASSUME NEW w \in Worker, MarkDelivered(w) \/ MarkFailed(w) PROVE Queued' = Queued
      BY <3>2, MarkEffect
    <3>3. ASSUME NEW w \in Worker, Send(w) \/ Accept(w) \/ Refuse(w) \/ Die(w) PROVE row' = row
      BY <3>3 DEF Send, Accept, Refuse, Die
    <3>4. SweepSettled \/ SweepStuck \/ SweepFails => Queued' \subseteq Queued
      BY SweepTyped
    <3>5. Tick => Queued' = Queued
      BY DEF Tick, Queued
    <3>6. SwitchOff \/ UNCHANGED vars => row' = row
      BY DEF SwitchOff, vars
    <3> QED BY <3>1, <3>2, <3>3, <3>4, <3>5, <3>6 DEF Next, Step
  <2>2. Emit
    BY <1>1, <2>1 DEF Queued
  <2>3. row'[e].attempts = 0
    BY <1>1, <2>2 DEF Emit, Queued
  <2> QED BY <1>0, <2>3
<1>2. CASE e \in Queued /\ \E w \in Worker : (MarkDelivered(w) \/ MarkFailed(w)) /\ e = wk[w].cur
  <2>1. PICK w \in Worker : (MarkDelivered(w) \/ MarkFailed(w)) /\ e = wk[w].cur
    BY <1>2
  <2>2. row'[e].attempts = Upto(row[e].attempts + 1, MaxAttempts) /\ e \in Seq1
    BY <1>2, <2>1, MarkEffect
  <2>3. wk[w].seen[e] = row[e].attempts
    BY <1>0, <1>2, <2>1, <2>2 DEF Fresh, Holds
  <2>4. row'[e].delivered = TRUE \/ row'[e].failed = GivesUp(row[e].attempts + 1)
    BY <1>2, <2>1, <2>3, MarkWrites
  <2>5. row[e].attempts \in Nat
    BY <1>2, Sizes DEF TypeOK, Row
  <2>6. CASE row[e].attempts + 1 >= MaxAttempts
    <3>1. GivesUp(row[e].attempts + 1) = TRUE
      BY <2>6 DEF GivesUp
    <3>2. row'[e].delivered = TRUE \/ row'[e].failed = TRUE
      BY <2>4, <3>1
    <3> QED BY <3>2 DEF Settled
  <2>7. CASE ~(row[e].attempts + 1 >= MaxAttempts)
    <3>1. row'[e].attempts < MaxAttempts
      BY <1>0, <2>2, <2>5, <2>7 DEF Upto
    <3> QED BY <3>1
  <2> QED BY <2>6, <2>7
<1>3. CASE e \in Queued /\ ~\E w \in Worker : (MarkDelivered(w) \/ MarkFailed(w)) /\ e = wk[w].cur
  <2>1. /\ row'[e].attempts = row[e].attempts
        /\ row'[e].delivered = row[e].delivered /\ row'[e].failed = row[e].failed
    <3>1. CASE \E w \in Worker : MarkDelivered(w) \/ MarkFailed(w)
      <4>1. PICK w \in Worker : MarkDelivered(w) \/ MarkFailed(w)
        BY <3>1
      <4>2. e \in Queued \ {wk[w].cur}
        BY <1>3, <4>1
      <4> QED BY <4>1, <4>2, MarkEffect
    <3>2. CASE ~\E w \in Worker : MarkDelivered(w) \/ MarkFailed(w)
      BY <1>3, <3>2, RecordsKept
    <3> QED BY <3>1, <3>2
  <2> QED BY <1>0, <1>3, <2>1 DEF LimitIsKept, Settled
<1> QED BY <1>1, <1>2, <1>3

\* An overrun is remembered.
LEMMA OverrunStays ==
    ASSUME [Next]_vars, overrun
    PROVE  overrun'
  BY DEF Next, Step, vars, Emit, Claim, Send, Accept, Refuse, MarkDelivered, MarkFailed, Die,
       SwitchOff, SweepSettled, SweepStuck, SweepFails, Tick, aside

\* LimitIsKept: an event is closed with the attempt that reaches max_attempts.
\* With GivesUpAtTheLimit, giving up is neither early nor late.
THEOREM NotGivenUpLate == Spec => []LimitIsKept
<1>1. Init => Leased /\ Fresh /\ LimitIsKept
  BY RestingIsEmpty DEF Init, Leased, Fresh, LimitIsKept, Holds, Queued, Seq1
<1>2. TypeOK /\ Hands /\ Leased /\ Fresh /\ LimitIsKept /\ [Next]_vars
        => Leased' /\ Fresh' /\ LimitIsKept'
  BY NextLeased, NextFresh, NextLimit, OverrunStays
<1> QED BY <1>1, <1>2, OutboxTyped, PTL DEF Spec

\* ClosedForGood: only a dispatcher past its lease writes over a verdict.
THEOREM VerdictsStand == Spec => ClosedForGood
<1> DEFINE A == ~overrun => \A e \in Queued \cap Queued' :
                  Settled(e) => /\ row'[e].delivered = row[e].delivered
                                /\ row'[e].failed = row[e].failed
<1>1. TypeOK /\ Hands /\ Fresh /\ [Next]_vars => A
  <2> SUFFICES ASSUME TypeOK, Hands, Fresh, [Next]_vars, ~overrun,
                      NEW e \in Queued \cap Queued', Settled(e)
               PROVE  row'[e].delivered = row[e].delivered /\ row'[e].failed = row[e].failed
    OBVIOUS
  <2>1. CASE \E w \in Worker : MarkDelivered(w) \/ MarkFailed(w)
    <3>1. PICK w \in Worker : MarkDelivered(w) \/ MarkFailed(w)
      BY <2>1
    <3>2. wk[w].cur \in Seq1
      BY <3>1, MarkEffect
    <3>3. e # wk[w].cur
      BY <3>2 DEF Fresh, Holds
    <3> QED BY <3>1, <3>3, MarkEffect
  <2>2. CASE ~\E w \in Worker : MarkDelivered(w) \/ MarkFailed(w)
    BY <2>2, RecordsKept
  <2> QED BY <2>1, <2>2
<1>2. Init => Leased /\ Fresh
  BY RestingIsEmpty DEF Init, Leased, Fresh, Holds, Seq1
<1>3. TypeOK /\ Hands /\ Leased /\ Fresh /\ [Next]_vars => Leased' /\ Fresh'
  BY NextLeased, NextFresh
<1>4. TypeOK /\ Hands /\ Fresh /\ [Next]_vars => [A]_vars
  BY <1>1
<1> QED BY <1>2, <1>3, <1>4, OutboxTyped, PTL DEF Spec, ClosedForGood
-----------------------------------------------------------------------------
(* Counting attempts *)

\* Nothing is started, and nothing recorded.
LEMMA CountKept ==
    ASSUME TypeOK, Counted,
           \A e \in Seq1 : Delivering(e)' \subseteq Delivering(e),
           \A e \in Queued' : e \in Queued /\ row'[e].attempts = row[e].attempts,
           tries' = tries
    PROVE  Counted'
<1> SUFFICES ASSUME NEW e \in Seq1
             PROVE  /\ IsFiniteSet(Delivering(e)')
                    /\ e \in Queued' => \/ tries'[e] = MaxAttempts
                                        \/ row'[e].attempts + Cardinality(Delivering(e)') <= tries'[e]
  BY DEF Counted
<1>1. IsFiniteSet(Delivering(e)) /\ Delivering(e)' \in SUBSET Delivering(e)
  BY DEF Counted
<1>2. /\ IsFiniteSet(Delivering(e)') /\ Cardinality(Delivering(e)') \in Nat
      /\ Cardinality(Delivering(e)') <= Cardinality(Delivering(e))
      /\ Cardinality(Delivering(e)) \in Nat
  BY <1>1, FS_Subset, FS_CardinalityType
<1>3. ASSUME e \in Queued', tries[e] # MaxAttempts
      PROVE  row'[e].attempts + Cardinality(Delivering(e)') <= tries'[e]
  <2>1. e \in Queued /\ row[e].attempts + Cardinality(Delivering(e)) <= tries[e]
    BY <1>3 DEF Counted
  <2>2. row[e].attempts \in Nat /\ tries[e] \in Nat
    <3>1. row[e] \in Row
      BY <2>1 DEF TypeOK
    <3> QED BY <3>1, Sizes DEF Row, TypeOK
  <2> QED BY <1>2, <1>3, <2>1, <2>2
<1> QED BY <1>2, <1>3

\* A delivery that starts is counted by the history and by Delivering.
LEMMA SendCounted ==
    ASSUME TypeOK, Hands, Counted, NEW w \in Worker, Send(w)
    PROVE  Counted'
<1>1. PICK s \in wk[w].batch :
        /\ wk' = [wk EXCEPT ![w].phase = "sending", ![w].batch = @ \ {s},
                            ![w].cur = s, ![w].left = Timeout]
        /\ tries' = [tries EXCEPT ![s] = Upto(@ + 1, MaxAttempts)]
  BY DEF Send
<1>2. Only(w) /\ wk'[w].cur = s
  BY <1>1, SendMoves
<1>3. wk[w].cur = 0 /\ UNCHANGED row
  BY DEF Send, Hands, Hand
<1>4. s \in Seq1 /\ tries \in [Seq1 -> 0..MaxAttempts]
  BY DEF TypeOK, Dispatcher
<1> SUFFICES ASSUME NEW e \in Seq1
             PROVE  /\ IsFiniteSet(Delivering(e)')
                    /\ e \in Queued' => \/ tries'[e] = MaxAttempts
                                        \/ row'[e].attempts + Cardinality(Delivering(e)') <= tries'[e]
  BY DEF Counted
<1>5. CASE e # s
  <2>1. Delivering(e)' = Delivering(e) /\ tries'[e] = tries[e]
    BY <1>1, <1>2, <1>3, <1>4, <1>5 DEF Delivering, Only, Seq1
  <2> QED BY <1>3, <2>1 DEF Counted, Queued
<1>6. CASE e = s
  <2>1. Delivering(e)' = Delivering(e) \cup {w} /\ w \notin Delivering(e)
    BY <1>2, <1>3, <1>4, <1>6 DEF Delivering, Only, Seq1
  <2>2. IsFiniteSet(Delivering(e)) /\ Cardinality(Delivering(e)) \in Nat
    BY FS_CardinalityType DEF Counted
  <2>3. IsFiniteSet(Delivering(e)') /\ Cardinality(Delivering(e)') = Cardinality(Delivering(e)) + 1
    BY <2>1, <2>2, FS_AddElement
  <2>4. /\ tries'[e] = Upto(tries[e] + 1, MaxAttempts) /\ tries[e] \in 0..MaxAttempts
    BY <1>1, <1>4, <1>6
  <2>5. tries'[e] = MaxAttempts \/ (tries'[e] = tries[e] + 1 /\ tries[e] # MaxAttempts)
    BY <2>4, Sizes DEF Upto
  <2>6. ASSUME e \in Queued, tries[e] # MaxAttempts
        PROVE  row[e].attempts + (Cardinality(Delivering(e)) + 1) <= tries[e] + 1
    <3>1. row[e] \in Row
      BY <2>6 DEF TypeOK
    <3>2. row[e].attempts \in Nat
      BY <3>1, Sizes DEF Row
    <3>3. row[e].attempts + Cardinality(Delivering(e)) <= tries[e]
      BY <2>6 DEF Counted
    <3> QED BY <2>2, <2>4, <3>2, <3>3, Sizes
  <2> QED BY <1>3, <2>3, <2>5, <2>6 DEF Queued
<1> QED BY <1>5, <1>6

\* One that is recorded moves from Delivering to the row.
LEMMA MarkCounted ==
    ASSUME TypeOK, Hands, Counted, NEW w \in Worker, MarkDelivered(w) \/ MarkFailed(w)
    PROVE  Counted'
<1> DEFINE c == wk[w].cur
<1>1. /\ c \in Seq1 /\ Only(w) /\ wk'[w].cur = 0
      /\ Queued' = Queued /\ \A e \in Queued \ {c} : row'[e] = row[e]
      /\ c \in Queued => row'[c].attempts = Upto(row[c].attempts + 1, MaxAttempts)
      /\ tries' = tries
  BY MarkEffect
<1> SUFFICES ASSUME NEW e \in Seq1
             PROVE  /\ IsFiniteSet(Delivering(e)')
                    /\ e \in Queued' => \/ tries'[e] = MaxAttempts
                                        \/ row'[e].attempts + Cardinality(Delivering(e)') <= tries'[e]
  BY DEF Counted
<1>2. CASE e # c
  <2>1. Delivering(e)' = Delivering(e)
    BY <1>1, <1>2 DEF Delivering, Only, Seq1
  <2> QED BY <1>1, <1>2, <2>1 DEF Counted
<1>3. CASE e = c
  <2>1. Delivering(e)' = Delivering(e) \ {w} /\ w \in Delivering(e)
    BY <1>1, <1>3 DEF Delivering, Only, Seq1
  <2>2. IsFiniteSet(Delivering(e)) /\ Cardinality(Delivering(e)) \in Nat
    BY FS_CardinalityType DEF Counted
  <2>3. /\ IsFiniteSet(Delivering(e)') /\ Cardinality(Delivering(e)') = Cardinality(Delivering(e)) - 1
        /\ Cardinality(Delivering(e)') \in Nat
    BY <2>1, <2>2, FS_RemoveElement, FS_CardinalityType
  <2>4. ASSUME e \in Queued, tries[e] # MaxAttempts
        PROVE  row'[e].attempts + Cardinality(Delivering(e)') <= tries[e]
    <3>1. row[e] \in Row
      BY <2>4 DEF TypeOK
    <3>2. row[e].attempts \in 0..MaxAttempts /\ tries[e] \in Nat
      BY <3>1, Sizes DEF Row, TypeOK
    <3>3. row[e].attempts + Cardinality(Delivering(e)) <= tries[e]
      BY <2>4 DEF Counted
    <3>4. row'[e].attempts \in Nat /\ row'[e].attempts <= row[e].attempts + 1
      BY <1>1, <1>3, <2>4, <3>2, UptoTyped
    <3> QED BY <2>2, <2>3, <3>2, <3>3, <3>4
  <2> QED BY <1>1, <2>3, <2>4
<1> QED BY <1>2, <1>3

\* Every step keeps the count.
LEMMA NextCounted ==
    ASSUME TypeOK, Hands, Counted, [Next]_vars
    PROVE  Counted'
<1>1. CASE UNCHANGED vars
  BY <1>1 DEF vars, Counted, Delivering, Queued
<1>2. CASE Emit
  <2>1. UNCHANGED <<wk, tries>> /\ emitted' = emitted + 1 /\ emitted \in Nat
    BY <1>2, Sizes DEF Emit, aside, TypeOK
  <2>2. \A e \in Seq1 : Delivering(e)' = Delivering(e)
    BY <2>1 DEF Delivering
  <2>3. Delivering(emitted + 1) = {}
    <3> SUFFICES ASSUME NEW w \in Worker PROVE wk[w].cur # emitted + 1
      BY DEF Delivering
    <3>1. wk[w].cur \in 0..emitted
      BY <2>1, RestingIsEmpty DEF Hands, Hand, Busy, TypeOK, Dispatcher, Phase
    <3> QED BY <2>1, <3>1
  <2>4. \A e \in Queued' : e # emitted + 1 => e \in Queued /\ row'[e] = row[e]
    BY <1>2, <2>1 DEF Emit, Queued
  <2>5. row'[emitted + 1].attempts = 0
    BY <1>2, <2>1 DEF Emit
  <2>6. \A e \in Seq1 : tries[e] \in Nat
    BY Sizes DEF TypeOK
  <2>7. 0 + Cardinality({}) = 0
    BY FS_EmptySet
  <2> QED BY <2>1, <2>2, <2>3, <2>4, <2>5, <2>6, <2>7 DEF Counted
<1>3. ASSUME NEW w \in Worker, Claim(w)
      PROVE  Counted'
  <2>1. wk'[w].cur = 0 /\ Only(w) /\ wk[w].cur = 0
    BY <1>3, ClaimEffect, RestingIsEmpty
  <2>2. \A e \in Seq1 : Delivering(e)' = Delivering(e)
    BY <2>1 DEF Delivering, Only, Seq1
  <2>3. Queued' = Queued /\ (\A e \in Queued : row'[e].attempts = row[e].attempts) /\ tries' = tries
    BY <1>3, ClaimEffect
  <2> QED BY <2>2, <2>3, CountKept
<1>4. ASSUME NEW w \in Worker, Send(w)
      PROVE  Counted'
  BY <1>4, SendCounted
<1>5. ASSUME NEW w \in Worker, Accept(w) \/ Refuse(w)
      PROVE  Counted'
  <2>1. \A e \in Seq1 : Delivering(e)' = Delivering(e)
    BY <1>5, AnswerEffect DEF Delivering, Only
  <2>2. UNCHANGED <<row, tries>>
    BY <1>5, AnswerEffect
  <2> QED BY <2>1, <2>2, CountKept DEF Queued
<1>6. ASSUME NEW w \in Worker, MarkDelivered(w) \/ MarkFailed(w)
      PROVE  Counted'
  BY <1>6, MarkCounted
<1>7. CASE (\E w \in Worker : Die(w)) \/ SwitchOff
  <2>1. \A e \in Seq1 : Delivering(e)' \subseteq Delivering(e)
    BY <1>7, EndEffect, RestingIsEmpty DEF Delivering, Seq1
  <2>2. UNCHANGED <<row, tries>>
    BY <1>7, EndEffect
  <2> QED BY <2>1, <2>2, CountKept DEF Queued
<1>8. CASE SweepSettled \/ SweepStuck \/ SweepFails
  <2>1. Queued' \subseteq Queued /\ \A e \in Queued' : row'[e] = row[e]
    BY <1>8, SweepTyped
  <2>2. UNCHANGED <<wk, tries>>
    BY <1>8 DEF SweepSettled, SweepStuck, SweepFails, aside
  <2> QED BY <2>1, <2>2, CountKept DEF Delivering
<1>9. CASE Tick
  <2>1. \A e \in Seq1 : Delivering(e)' = Delivering(e)
    BY <1>9, TickMoves DEF Delivering
  <2>2. Queued' = Queued /\ tries' = tries
    BY <1>9 DEF Tick, Queued
  <2>3. \A e \in Queued : row'[e].attempts = row[e].attempts
    <3>1. \A e \in Queued : row[e] \in Row
      BY DEF TypeOK
    <3> QED BY <1>9, <3>1 DEF Tick, Row
  <2> QED BY <2>1, <2>2, <2>3, CountKept
<1> QED BY <1>1, <1>2, <1>3, <1>4, <1>5, <1>6, <1>7, <1>8, <1>9 DEF Next, Step

\* The history of deliveries only grows, and so does what the receiver has.
LEMMA HistoryGrows ==
    ASSUME TypeOK, Hands, [Next]_vars
    PROVE  /\ accepted \subseteq accepted'
           /\ \A e \in Seq1 : tries[e] <= tries'[e] /\ tries'[e] \in 0..MaxAttempts
<1>1. \A e \in Seq1 : tries'[e] \in 0..MaxAttempts /\ tries[e] \in 0..MaxAttempts
  BY NextTyped DEF TypeOK
<1>2. ASSUME NEW w \in Worker, Send(w)
      PROVE  accepted \subseteq accepted' /\ \A e \in Seq1 : tries[e] <= tries'[e]
  <2>1. PICK s \in wk[w].batch : tries' = [tries EXCEPT ![s] = Upto(@ + 1, MaxAttempts)]
    BY <1>2 DEF Send
  <2>2. s \in Seq1 /\ tries \in [Seq1 -> 0..MaxAttempts]
    BY DEF TypeOK, Dispatcher
  <2>3. tries[s] <= Upto(tries[s] + 1, MaxAttempts)
    BY <2>2, UptoTyped
  <2>4. \A e \in Seq1 : tries[e] <= tries'[e]
    BY <1>1, <2>1, <2>2, <2>3, Sizes
  <2> QED BY <1>2, <2>4 DEF Send
<1>3. ASSUME ~\E w \in Worker : Send(w)
      PROVE  accepted \subseteq accepted' /\ tries' = tries
  <2>1. ASSUME NEW w \in Worker, Step(w)
        PROVE  accepted \subseteq accepted' /\ tries' = tries
    BY <1>3, <2>1, ClaimEffect, AnswerEffect, MarkEffect DEF Step
  <2>2. CASE (\E w \in Worker : Die(w)) \/ SwitchOff
    BY <2>2, EndEffect
  <2>3. CASE Emit \/ SweepSettled \/ SweepStuck \/ SweepFails \/ Tick \/ UNCHANGED vars
    BY <2>3 DEF Emit, SweepSettled, SweepStuck, SweepFails, Tick, vars, aside
  <2> QED BY <2>1, <2>2, <2>3 DEF Next
<1>4. tries' = tries => \A e \in Seq1 : tries[e] <= tries'[e]
  BY <1>1, Sizes
<1> QED BY <1>1, <1>2, <1>3, <1>4

\* No dispatcher starts on anything it has not counted.
LEMMA BelowKept ==
    ASSUME TypeOK, Hands, CountsFromBelow,
           \A e \in Seq1 : tries[e] <= tries'[e] /\ tries'[e] \in 0..MaxAttempts,
           NEW w \in Worker,
           wk'[w].batch \subseteq wk[w].batch,
           \A e \in wk'[w].batch : wk'[w].seen[e] = wk[w].seen[e],
           wk'[w].phase \in Busy => /\ wk[w].phase \in Busy /\ wk'[w].cur = wk[w].cur
                                    /\ wk'[w].seen = wk[w].seen
    PROVE  /\ \A e \in wk'[w].batch : wk'[w].seen[e] <= tries'[e]
           /\ wk'[w].phase \in Busy =>
                Upto(wk'[w].seen[wk'[w].cur] + 1, MaxAttempts) <= tries'[wk'[w].cur]
<1>1. wk[w] \in Dispatcher /\ tries \in [Seq1 -> 0..MaxAttempts]
  BY DEF TypeOK
<1>2. wk[w].batch \subseteq Seq1 /\ wk[w].seen \in [Seq1 -> 0..MaxAttempts]
  BY <1>1 DEF Dispatcher
<1>3. \A e \in wk'[w].batch : wk'[w].seen[e] <= tries'[e]
  BY <1>1, <1>2, Sizes DEF CountsFromBelow
<1>4. ASSUME wk'[w].phase \in Busy
      PROVE  Upto(wk'[w].seen[wk'[w].cur] + 1, MaxAttempts) <= tries'[wk'[w].cur]
  <2> DEFINE c == wk[w].cur
  <2>1. c \in Seq1
    BY <1>4, Sizes DEF Hands, Hand, TypeOK, Seq1
  <2>2. Upto(wk[w].seen[c] + 1, MaxAttempts) <= tries[c]
    BY <1>4 DEF CountsFromBelow
  <2>3. Upto(wk[w].seen[c] + 1, MaxAttempts) \in 0..MaxAttempts
    BY <1>2, <2>1, UptoTyped
  <2> QED BY <1>1, <1>4, <2>1, <2>2, <2>3, Sizes
<1> QED BY <1>3, <1>4

\* Every step keeps the counts that dispatchers carry below the history.
LEMMA NextBelow ==
    ASSUME TypeOK, Hands, Counted, CountsFromBelow, [Next]_vars
    PROVE  CountsFromBelow'
<1>0. \A e \in Seq1 : tries[e] <= tries'[e] /\ tries'[e] \in 0..MaxAttempts
  BY HistoryGrows
<1> DEFINE Below(w) == /\ \A e \in wk'[w].batch : wk'[w].seen[e] <= tries'[e]
                       /\ wk'[w].phase \in Busy =>
                            Upto(wk'[w].seen[wk'[w].cur] + 1, MaxAttempts) <= tries'[wk'[w].cur]
<1> SUFFICES ASSUME NEW v \in Worker PROVE Below(v)
  BY DEF CountsFromBelow
<1>1. CASE wk'[v] = wk[v]
  BY <1>0, <1>1, BelowKept
<1>2. ASSUME NEW w \in Worker, Claim(w)
      PROVE  Below(v)
  <2>1. CASE v # w
    BY <1>1, <1>2, <2>1, ClaimEffect DEF Only
  <2>2. CASE v = w
    <3>1. wk'[w].phase \notin Busy
      BY <1>2, ClaimEffect DEF Busy
    <3>2. ASSUME NEW e \in wk'[w].batch
          PROVE  wk'[w].seen[e] <= tries'[e]
      <4>1. e \in Queued /\ wk'[w].seen[e] = row[e].attempts /\ tries' = tries
        BY <1>2, ClaimEffect
      <4>2. e \in Seq1 /\ row[e] \in Row
        <5>1. Queued \subseteq 1..emitted /\ emitted \in 0..MaxSeq /\ row \in [Queued -> Row]
          BY DEF TypeOK
        <5>2. e \in Seq1
          BY <4>1, <5>1, Sizes DEF Seq1
        <5> QED BY <4>1, <5>1, <5>2
      <4>3. row[e].attempts \in 0..MaxAttempts
        BY <4>2 DEF Row
      <4>4. Cardinality(Delivering(e)) \in Nat
        BY <4>2, FS_CardinalityType DEF Counted
      <4>5. tries[e] = MaxAttempts \/ row[e].attempts + Cardinality(Delivering(e)) <= tries[e]
        BY <4>1, <4>2 DEF Counted
      <4>6. tries[e] \in 0..MaxAttempts
        BY <4>2 DEF TypeOK
      <4> QED BY <4>1, <4>3, <4>4, <4>5, <4>6, Sizes
    <3> QED BY <2>2, <3>1, <3>2
  <2> QED BY <2>1, <2>2
<1>3. ASSUME NEW w \in Worker, Send(w)
      PROVE  Below(v)
  <2>1. PICK s \in wk[w].batch :
          /\ wk' = [wk EXCEPT ![w].phase = "sending", ![w].batch = @ \ {s},
                              ![w].cur = s, ![w].left = Timeout]
          /\ tries' = [tries EXCEPT ![s] = Upto(@ + 1, MaxAttempts)]
    BY <1>3 DEF Send
  <2>2. /\ Only(w) /\ wk'[w].batch = wk[w].batch \ {s} /\ wk'[w].cur = s
        /\ wk'[w].seen = wk[w].seen
    BY <2>1, SendMoves
  <2>3. CASE v # w
    BY <1>1, <2>2, <2>3 DEF Only
  <2>4. CASE v = w
    <3>1. /\ s \in Seq1 /\ tries \in [Seq1 -> 0..MaxAttempts]
          /\ wk[w].batch \subseteq Seq1 /\ wk[w].seen \in [Seq1 -> 0..MaxAttempts]
      BY DEF TypeOK, Dispatcher
    <3>2. \A e \in wk[w].batch : wk[w].seen[e] <= tries'[e]
      BY <1>0, <3>1, Sizes DEF CountsFromBelow
    <3>3. tries'[s] = Upto(tries[s] + 1, MaxAttempts) /\ wk[w].seen[s] <= tries[s]
      BY <2>1, <3>1 DEF CountsFromBelow
    <3>4. Upto(wk[w].seen[s] + 1, MaxAttempts) <= Upto(tries[s] + 1, MaxAttempts)
      BY <3>1, <3>3, Sizes DEF Upto
    <3> QED BY <2>2, <2>4, <3>2, <3>3, <3>4
  <2> QED BY <2>3, <2>4
<1>4. ASSUME NEW w \in Worker, Accept(w) \/ Refuse(w)
      PROVE  Below(v)
  <2>1. CASE v # w
    BY <1>1, <1>4, <2>1, AnswerEffect DEF Only
  <2>2. CASE v = w
    <3>1. /\ wk[w].phase \in Busy /\ wk'[w].batch = wk[w].batch
          /\ wk'[w].cur = wk[w].cur /\ wk'[w].seen = wk[w].seen
      BY <1>4, AnswerEffect DEF Busy
    <3> QED BY <1>0, <2>2, <3>1, BelowKept
  <2> QED BY <2>1, <2>2
<1>5. ASSUME NEW w \in Worker, MarkDelivered(w) \/ MarkFailed(w)
      PROVE  Below(v)
  <2>1. CASE v # w
    BY <1>1, <1>5, <2>1, MarkEffect DEF Only
  <2>2. CASE v = w
    <3>1. /\ wk'[w].phase \notin Busy /\ wk'[w].batch = wk[w].batch
          /\ \A e \in wk'[w].batch : wk'[w].seen[e] = wk[w].seen[e]
      BY <1>5, MarkEffect DEF Busy
    <3> QED BY <1>0, <2>2, <3>1, BelowKept
  <2> QED BY <2>1, <2>2
<1>6. CASE (\E w \in Worker : Die(w)) \/ SwitchOff
  <2>1. wk'[v] = wk[v] \/ wk'[v] = Resting
    BY <1>6, EndEffect
  <2>2. CASE wk'[v] = Resting
    BY <2>2, RestingIsEmpty DEF Busy
  <2> QED BY <1>1, <2>1, <2>2
<1>7. CASE Emit \/ SweepSettled \/ SweepStuck \/ SweepFails \/ UNCHANGED vars
  BY <1>1, <1>7 DEF Emit, SweepSettled, SweepStuck, SweepFails, vars
<1>8. CASE Tick
  BY <1>0, <1>8, TickMoves, BelowKept
<1> QED BY <1>2, <1>3, <1>4, <1>5, <1>6, <1>7, <1>8 DEF Next, Step

\* Every step.
LEMMA NextGivenUp ==
    ASSUME TypeOK, Hands, CountsFromBelow, GivenUpAtTheLimit, [Next]_vars
    PROVE  GivenUpAtTheLimit'
<1>0. \A e \in Seq1 : tries[e] <= tries'[e] /\ tries'[e] \in 0..MaxAttempts
  BY HistoryGrows
<1>1. Queued' \subseteq Seq1 /\ Queued \subseteq Seq1
  BY NextTyped, Sizes DEF TypeOK, Seq1
\* The limit, once reached, stays reached.
<1>2. ASSUME NEW e \in Queued, row[e].failed
      PROVE  tries'[e] = MaxAttempts
  BY <1>0, <1>1, <1>2, Sizes DEF GivenUpAtTheLimit
<1>3. ASSUME \A e \in Queued' : row'[e].failed => e \in Queued /\ row[e].failed
      PROVE  GivenUpAtTheLimit'
  BY <1>2, <1>3 DEF GivenUpAtTheLimit
<1>4. ASSUME NEW w \in Worker, MarkFailed(w)
      PROVE  GivenUpAtTheLimit'
  <2> DEFINE c == wk[w].cur
  <2>1. /\ wk[w].phase \in Busy /\ c \in Seq1 /\ Queued' = Queued /\ tries' = tries
        /\ \A e \in Queued \ {c} : row'[e] = row[e]
    BY <1>4, MarkEffect
  <2>2. ASSUME c \in Queued, row'[c].failed
        PROVE  tries'[c] = MaxAttempts
    <3>1. row[c] \in Row /\ wk[w].seen[c] \in 0..MaxAttempts /\ tries[c] \in 0..MaxAttempts
      BY <2>1, <2>2 DEF TypeOK, Dispatcher
    <3>2. GivesUp(wk[w].seen[c] + 1)
      BY <1>4, <2>2, <3>1 DEF MarkFailed, Row
    <3>3. Upto(wk[w].seen[c] + 1, MaxAttempts) <= tries[c]
      BY <2>1 DEF CountsFromBelow
    <3> QED BY <2>1, <3>1, <3>2, <3>3, Sizes DEF GivesUp, Upto
  <2> QED BY <1>2, <2>1, <2>2 DEF GivenUpAtTheLimit
<1>5. ASSUME NEW w \in Worker, MarkDelivered(w)
      PROVE  GivenUpAtTheLimit'
  <2>1. \A e \in Queued : row[e] \in Row
    BY DEF TypeOK
  <2>2. Queued' = Queued
    BY <1>5, MarkEffect
  <2>3. \A e \in Queued : row'[e].failed = row[e].failed
    BY <1>5, <2>1 DEF MarkDelivered, Row
  <2> QED BY <1>3, <2>2, <2>3
<1>6. ASSUME NEW w \in Worker, Claim(w)
      PROVE  GivenUpAtTheLimit'
  BY <1>3, <1>6, ClaimEffect
<1>7. ASSUME NEW w \in Worker, Send(w) \/ Accept(w) \/ Refuse(w)
      PROVE  GivenUpAtTheLimit'
  BY <1>3, <1>7 DEF Send, Accept, Refuse, Queued
<1>8. CASE (\E w \in Worker : Die(w)) \/ SwitchOff \/ UNCHANGED vars
  BY <1>3, <1>8 DEF Die, SwitchOff, Queued, vars
<1>9. CASE SweepSettled \/ SweepStuck \/ SweepFails
  BY <1>3, <1>9, SweepTyped
<1>10. CASE Emit
  BY <1>3, <1>10 DEF Emit, Queued
<1>11. CASE Tick
  <2>1. \A e \in Queued : row[e] \in Row
    BY DEF TypeOK
  <2>2. Queued' = Queued /\ \A e \in Queued : row'[e].failed = row[e].failed
    BY <1>11, <2>1 DEF Tick, Row, Queued
  <2> QED BY <1>3, <2>2
<1> QED BY <1>4, <1>5, <1>6, <1>7, <1>8, <1>9, <1>10, <1>11 DEF Next, Step

\* The inductive invariant of the attempts.
Counting == TypeOK /\ Hands /\ Counted /\ CountsFromBelow /\ GivenUpAtTheLimit

\* GivenUpAtTheLimit: an event is given up for good only after MaxAttempts
\* deliveries of it were started, also when a lease ran out and two dispatchers
\* count the same event (dispatcher.deliver, MarkOutboxFailed).
THEOREM GivesUpAtTheLimit == Spec => []GivenUpAtTheLimit
<1>1. Init => Counted
  <2> SUFFICES ASSUME Init, NEW e \in Seq1 PROVE Delivering(e) = {} /\ e \notin Queued
    BY FS_EmptySet DEF Counted
  <2> QED BY RestingIsEmpty DEF Init, Delivering, Seq1, Queued
<1>2. Init => CountsFromBelow
  BY RestingIsEmpty DEF Init, CountsFromBelow, Busy
<1>3. Init => GivenUpAtTheLimit
  BY DEF Init, GivenUpAtTheLimit, Queued
<1>4. Init => Counting
  BY <1>1, <1>2, <1>3, InitTyped DEF Counting
<1>5. Counting /\ [Next]_vars => Counting'
  BY NextTyped, NextCounted, NextBelow, NextGivenUp DEF Counting
<1>6. Counting => GivenUpAtTheLimit
  BY DEF Counting
<1> QED BY <1>4, <1>5, <1>6, PTL DEF Spec
-----------------------------------------------------------------------------
(* Delivered rows, and rows that leave *)

\* Every step.
LEMMA NextTaken ==
    ASSUME TypeOK, Hands, Taken, DeliveredWasAccepted, [Next]_vars
    PROVE  Taken' /\ DeliveredWasAccepted'
<1>0. accepted \subseteq accepted'
  BY HistoryGrows
<1>1. ASSUME \A v \in Worker : wk'[v].phase = "accepted" =>
               wk[v].phase = "accepted" /\ wk'[v].cur = wk[v].cur
      PROVE  Taken'
  BY <1>0, <1>1 DEF Taken
<1>2. ASSUME \A e \in Queued' : row'[e].delivered => e \in Queued /\ row[e].delivered
      PROVE  DeliveredWasAccepted'
  BY <1>0, <1>2 DEF DeliveredWasAccepted
<1>3. \A e \in Queued : row[e] \in Row
  BY DEF TypeOK
<1>4. CASE UNCHANGED vars
  BY <1>1, <1>2, <1>4 DEF vars, Queued
<1>5. CASE Emit
  BY <1>1, <1>2, <1>5 DEF Emit, Queued
<1>6. ASSUME NEW w \in Worker, Claim(w)
      PROVE  Taken' /\ DeliveredWasAccepted'
  <2>1. Taken'
    BY <1>1, <1>6, ClaimEffect DEF Only
  <2>2. DeliveredWasAccepted'
    BY <1>2, <1>6, ClaimEffect
  <2> QED BY <2>1, <2>2
<1>7. ASSUME NEW w \in Worker, Send(w)
      PROVE  Taken' /\ DeliveredWasAccepted'
  <2>1. Only(w) /\ wk'[w].phase = "sending" /\ UNCHANGED row
    BY <1>7, SendMoves DEF Send
  <2> QED BY <1>1, <1>2, <2>1 DEF Only, Queued
<1>8. ASSUME NEW w \in Worker, Accept(w) \/ Refuse(w)
      PROVE  Taken' /\ DeliveredWasAccepted'
  <2>1. /\ Only(w) /\ wk'[w].cur = wk[w].cur /\ UNCHANGED row
        /\ wk'[w].phase = "accepted" => wk[w].cur \in accepted'
    BY <1>8, AnswerEffect
  <2>2. Taken'
    BY <1>0, <2>1 DEF Taken, Only
  <2> QED BY <1>2, <2>1, <2>2 DEF Queued
<1>9. ASSUME NEW w \in Worker, MarkDelivered(w)
      PROVE  Taken' /\ DeliveredWasAccepted'
  <2>1. /\ Only(w) /\ wk'[w].phase \in {"idle", "next"}
        /\ Queued' = Queued /\ \A e \in Queued \ {wk[w].cur} : row'[e] = row[e]
    BY <1>9, MarkEffect
  <2>2. wk[w].cur \in accepted
    BY <1>9 DEF MarkDelivered, Taken
  <2>3. DeliveredWasAccepted'
    BY <1>0, <2>1, <2>2 DEF DeliveredWasAccepted
  <2> QED BY <1>1, <2>1, <2>3 DEF Only
<1>10. ASSUME NEW w \in Worker, MarkFailed(w)
       PROVE  Taken' /\ DeliveredWasAccepted'
  <2>1. Only(w) /\ wk'[w].phase \in {"idle", "next"} /\ Queued' = Queued
    BY <1>10, MarkEffect
  <2>2. \A e \in Queued : row'[e].delivered = row[e].delivered
    BY <1>3, <1>10 DEF MarkFailed, Row
  <2> QED BY <1>1, <1>2, <2>1, <2>2 DEF Only
<1>11. CASE (\E w \in Worker : Die(w)) \/ SwitchOff
  <2>1. Taken'
    BY <1>1, <1>11, EndEffect, RestingIsEmpty
  <2>2. UNCHANGED row
    BY <1>11, EndEffect
  <2> QED BY <1>2, <2>1, <2>2 DEF Queued
<1>12. CASE SweepSettled \/ SweepStuck \/ SweepFails
  <2>1. Taken'
    BY <1>1, <1>12 DEF SweepSettled, SweepStuck, SweepFails
  <2> QED BY <1>2, <1>12, <2>1, SweepTyped
<1>13. CASE Tick
  <2>1. Taken'
    BY <1>1, <1>13, TickMoves
  <2>2. Queued' = Queued /\ \A e \in Queued : row'[e].delivered = row[e].delivered
    BY <1>3, <1>13 DEF Tick, Row, Queued
  <2> QED BY <1>2, <2>1, <2>2
<1> QED BY <1>4, <1>5, <1>6, <1>7, <1>8, <1>9, <1>10, <1>11, <1>12, <1>13 DEF Next, Step

\* DeliveredWasAccepted: a row says delivered only after the receiver accepted the
\* event, whatever died in between (MarkOutboxDelivered).
THEOREM DeliveredIsAccepted == Spec => []DeliveredWasAccepted
<1>1. Init => Taken /\ DeliveredWasAccepted
  BY RestingIsEmpty DEF Init, Taken, DeliveredWasAccepted, Queued
<1>2. TypeOK /\ Hands /\ Taken /\ DeliveredWasAccepted /\ [Next]_vars
        => Taken' /\ DeliveredWasAccepted'
  BY NextTaken
<1> QED BY <1>1, <1>2, OutboxTyped, PTL DEF Spec

\* A row leaves the table by a sweep, and only past its time.
LEMMA OnlySweepsRemove ==
    ASSUME TypeOK, Hands, [Next]_vars, NEW e \in Queued, e \notin Queued'
    PROVE  \/ SweepSettled /\ PastRetention(e)
           \/ SweepStuck /\ PastMaxAge(e)
<1>1. CASE SweepSettled
  BY <1>1 DEF SweepSettled, Keep, Queued
<1>2. CASE SweepStuck
  BY <1>2 DEF SweepStuck, Keep, Queued
<1>3. CASE Emit \/ Tick \/ SweepFails \/ SwitchOff \/ UNCHANGED vars
  BY <1>3 DEF Emit, Tick, SweepFails, SwitchOff, vars, Queued
<1>4. ASSUME NEW w \in Worker, Step(w) \/ Die(w)
      PROVE  FALSE
  BY <1>4, ClaimEffect, MarkEffect DEF Step, Send, Accept, Refuse, Die, Queued
<1> QED BY <1>1, <1>2, <1>3, <1>4 DEF Next

\* RemovedWithCause, of every step: a row leaves the table only when the receiver
\* has the event, when its attempts are used up, or past max_age
\* (DeleteOutboxEventsBefore, DeleteStuckOutboxEvents).
THEOREM RemovalHasACause == Spec => RemovedWithCause
<1> DEFINE Cause == \A e \in Queued : e \notin Queued' =>
                       \/ e \in accepted \/ tries[e] = MaxAttempts
                       \/ maxAge > 0 /\ row[e].age > maxAge
<1>1. TypeOK /\ Hands /\ GivenUpAtTheLimit /\ DeliveredWasAccepted /\ [Next]_vars => [Cause]_vars
  <2> SUFFICES ASSUME TypeOK, Hands, GivenUpAtTheLimit, DeliveredWasAccepted, [Next]_vars,
                      NEW e \in Queued, e \notin Queued'
               PROVE  \/ e \in accepted \/ tries[e] = MaxAttempts
                      \/ maxAge > 0 /\ row[e].age > maxAge
    OBVIOUS
  <2>1. CASE PastRetention(e)
    BY <2>1 DEF PastRetention, Settled, GivenUpAtTheLimit, DeliveredWasAccepted
  <2>2. CASE PastMaxAge(e)
    BY <2>2 DEF PastMaxAge
  <2> QED BY <2>1, <2>2, OnlySweepsRemove
<1> QED BY <1>1, OutboxTyped, GivesUpAtTheLimit, DeliveredIsAccepted, PTL DEF Spec, RemovedWithCause
=============================================================================
