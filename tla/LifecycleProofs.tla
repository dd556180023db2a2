-------------------------- MODULE LifecycleProofs --------------------------
(***************************************************************************)
(* The shutdown of goauth tears down in order, for any number of requests  *)
(* and jobs: TornDownInOrder is an invariant of Lifecycle.                 *)
(*                                                                         *)
(* The property speaks of the moment the pool is closing.  What makes it   *)
(* true happens steps before: each stage of App.Run leaves behind what the *)
(* later ones keep, so the inductive invariant says for every stage which  *)
(* listeners are shut, whose requests are gone, and that the jobs stand    *)
(* still.                                                                  *)
(***************************************************************************)
EXTENDS Lifecycle, TLAPS

\* The stages of App.Run from one on.  A process that exited after its pool was
\* closed went through all of them; a fatal one has its pool open.
PastPublic == main \in {"drain_public", "drain_admin", "wait_jobs", "close_pool"}
                \/ pool # "open"
\* From the draining of the admin listener on.
PastAdmin == main \in {"drain_admin", "wait_jobs", "close_pool"} \/ pool # "open"
\* From the wait for the jobs on.
PastDrain == main \in {"wait_jobs", "close_pool"} \/ pool # "open"
\* From the closing of the pool on.
PastJobs == main = "close_pool" \/ pool # "open"

\* The shapes of the two tables.
Shapes ==
    /\ main \in Main
    /\ open \subseteq {"public", "admin"}
    /\ request \in [Req -> {"none", "running", "conn"}]
    /\ job \in [Job -> {"off", "unstarted", "waiting", "running", "conn", "stopped"}]
    /\ pool \in {"open", "closing", "closed"}

\* What each stage leaves behind.
Staged ==
    /\ pool # "open" => main \in {"close_pool", "exited"}
    /\ PastPublic => "public" \notin open
    /\ PastAdmin => /\ "admin" \notin open
                    /\ ~InFlight(PublicReq) \/ deadline
    /\ PastDrain => ~InFlight(AdminReq) \/ deadline
    /\ PastJobs => JobsDone

\* The inductive invariant.
IInv == Shapes /\ Staged

-----------------------------------------------------------------------------
(* Requests and jobs *)

\* A step of one request that is under way, or whose listener is open: the
\* listeners that were shut have got no new request.
LEMMA RequestKeepsStages ==
    ASSUME IInv, NEW r \in Req, NEW v \in {"none", "running", "conn"},
           request' = [request EXCEPT ![r] = v],
           request[r] # "none" \/ Listener(r) \in open,
           UNCHANGED <<adminOn, shutdown, job, fired>>
    PROVE  IInv'
<1>1. Shapes'
  BY DEF IInv, Shapes, shutdown
<1>2. ASSUME NEW S \in SUBSET Req, ~InFlight(S), r \notin S
      PROVE  ~InFlight(S)'
  BY <1>2 DEF InFlight, IInv, Shapes
<1>3. ASSUME NEW S \in SUBSET Req, ~InFlight(S), r \in S
      PROVE  Listener(r) \in open
  BY <1>3 DEF InFlight
<1>4. PastAdmin => ~InFlight(PublicReq)' \/ deadline
  BY <1>2, <1>3 DEF IInv, Staged, PastAdmin, PastPublic, Listener, Req
<1>5. PastDrain => ~InFlight(AdminReq)' \/ deadline
  BY <1>2, <1>3, RequestsDiffer DEF IInv, Staged, PastDrain, PastAdmin, Listener, Req
<1> QED BY <1>1, <1>4, <1>5
    DEF IInv, Staged, PastPublic, PastAdmin, PastDrain, PastJobs, JobsDone, shutdown

\* A step of one job that is not done: the jobs are not yet waited for to the
\* end, so nothing was torn down.
LEMMA JobKeepsStages ==
    ASSUME IInv, NEW j \in Job, NEW v \in {"waiting", "running", "conn", "stopped"},
           job' = [job EXCEPT ![j] = v],
           job[j] \in {"waiting", "running", "conn"},
           UNCHANGED <<adminOn, shutdown, request>>
    PROVE  IInv'
<1>1. Shapes'
  BY DEF IInv, Shapes, shutdown
<1>2. ~PastJobs
  BY DEF IInv, Staged, JobsDone
<1> QED BY <1>1, <1>2
    DEF IInv, Staged, PastPublic, PastAdmin, PastDrain, PastJobs, JobsDone, InFlight, shutdown

-----------------------------------------------------------------------------
(* The inductive invariant *)

\* Nothing is open yet and the pool is.
LEMMA InitStaged == Init => IInv
  BY DEF Init, IInv, Shapes, Staged, Main, PastPublic, PastAdmin, PastDrain, PastJobs

\* Every step of requests, jobs and App.Run keeps what the stages left behind.
LEMMA NextStaged == IInv /\ [Next]_vars => IInv'
<1> SUFFICES ASSUME IInv, [Next]_vars PROVE IInv'
  OBVIOUS
<1> USE DEF IInv
<1>1. CASE UNCHANGED vars
  BY <1>1 DEF vars, Shapes, Staged, PastPublic, PastAdmin, PastDrain, PastJobs, InFlight, JobsDone
<1>2. CASE StartCron
  <2>1. Shapes'
    BY <1>2 DEF StartCron, Shapes, Main
  <2>2. ~PastPublic' /\ ~PastAdmin' /\ ~PastDrain' /\ ~PastJobs' /\ pool' = "open"
    BY <1>2 DEF StartCron, Staged, PastPublic, PastAdmin, PastDrain, PastJobs
  <2> QED BY <2>1, <2>2 DEF Staged
<1>3. CASE Signal
  <2>1. Shapes'
    BY <1>3 DEF Signal, Shapes, Main, work
  <2>2. "public" \notin open' /\ ~PastAdmin' /\ ~PastDrain' /\ ~PastJobs' /\ pool' = "open"
    BY <1>3 DEF Signal, Staged, PastAdmin, PastDrain, PastJobs
  <2> QED BY <2>1, <2>2 DEF Staged
<1>4. CASE DrainAdmin
  <2>1. Shapes'
    BY <1>4 DEF DrainAdmin, Shapes, Main, work
  <2>2. /\ pool' = "open" /\ ~PastDrain' /\ ~PastJobs'
        /\ "public" \notin open' /\ "admin" \notin open'
        /\ ~InFlight(PublicReq)' \/ deadline'
    BY <1>4 DEF DrainAdmin, Drained, InFlight, Staged, PastPublic, PastDrain, PastJobs, work
  <2> QED BY <2>1, <2>2 DEF Staged
<1>5. CASE StopCron
  <2>1. Shapes'
    BY <1>5 DEF StopCron, Cancel, Shapes, Main, work
  <2>2. /\ pool' = "open" /\ ~PastJobs'
        /\ "public" \notin open' /\ "admin" \notin open'
        /\ ~InFlight(PublicReq)' \/ deadline'
        /\ ~InFlight(AdminReq)' \/ deadline'
    BY <1>5 DEF StopCron, Cancel, Drained, InFlight, Staged, PastPublic, PastAdmin, PastJobs, work
  <2> QED BY <2>1, <2>2 DEF Staged
<1>6. CASE ClosePool
  <2>1. Shapes'
    BY <1>6 DEF ClosePool, Shapes, Main, work
  <2>2. PastPublic /\ PastAdmin /\ PastDrain /\ main' = "close_pool" /\ JobsDone'
    BY <1>6 DEF ClosePool, PastPublic, PastAdmin, PastDrain, JobsDone, work
  <2> QED BY <1>6, <2>1, <2>2 DEF ClosePool, Staged, InFlight, work
<1>7. CASE Exit
  <2>1. Shapes'
    BY <1>7 DEF Exit, Shapes, Main, work
  <2>2. PastPublic /\ PastAdmin /\ PastDrain /\ PastJobs /\ main' = "exited"
    BY <1>7 DEF Exit, PastPublic, PastAdmin, PastDrain, PastJobs
  <2> QED BY <1>7, <2>1, <2>2 DEF Exit, Staged, InFlight, JobsDone, work
<1>8. CASE Deadline
  BY <1>8 DEF Deadline, Shapes, Staged, PastPublic, PastAdmin, PastDrain, PastJobs, JobsDone, work
<1>9. CASE Fatal
  <2>1. Shapes'
    BY <1>9 DEF Fatal, Shapes, Main, work
  <2>2. pool = "open" /\ pool' = "open" /\ main' = "exited"
    BY <1>9 DEF Fatal, MayServe, Staged
  <2> QED BY <2>1, <2>2 DEF Staged, PastPublic, PastAdmin, PastDrain, PastJobs
<1>10. ASSUME NEW l \in {"public", "admin"}, Listen(l)
       PROVE  IInv'
  <2>1. Shapes'
    BY <1>10 DEF Listen, MayServe, Shapes, work
  <2>2. ~PastAdmin /\ ~PastDrain /\ ~PastJobs /\ (l = "public" => ~PastPublic)
    BY <1>10 DEF Listen, MayServe, Staged, PastPublic, PastAdmin, PastDrain, PastJobs
  <2> QED BY <1>10, <2>1, <2>2
      DEF Listen, Staged, PastPublic, PastAdmin, PastDrain, PastJobs, work
<1>11. ASSUME NEW r \in Req, Accept(r) \/ RequestStep(r) \/ Release(r)
       PROVE  IInv'
  <2>1. CASE Accept(r)
    BY <2>1, RequestKeepsStages DEF Accept
  <2>2. CASE Borrow(r)
    BY <2>2, RequestKeepsStages DEF Borrow
  <2>3. CASE Respond(r)
    BY <2>3, RequestKeepsStages DEF Respond
  <2>4. CASE Release(r)
    BY <2>4, RequestKeepsStages DEF Release
  <2> QED BY <1>11, <2>1, <2>2, <2>3, <2>4 DEF RequestStep
<1>12. ASSUME NEW j \in Job,
              Fire(j) \/ RunJob(j) \/ JobStep(j) \/ JobRelease(j) \/ JobStops(j)
       PROVE  IInv'
  <2>1. CASE Fire(j)
    BY <2>1 DEF Fire, shutdown, Shapes, Staged, PastPublic, PastAdmin, PastDrain, PastJobs,
                InFlight, JobsDone
  <2>2. CASE RunJob(j)
    BY <2>2, JobKeepsStages DEF RunJob
  <2>3. CASE JobBorrow(j)
    BY <2>3, JobKeepsStages DEF JobBorrow
  <2>4. CASE JobReturns(j)
    BY <2>4, JobKeepsStages DEF JobReturns
  <2>5. CASE JobRelease(j)
    BY <2>5, JobKeepsStages DEF JobRelease
  <2>6. CASE JobStops(j)
    BY <2>6, JobKeepsStages DEF JobStops
  <2> QED BY <1>12, <2>1, <2>2, <2>3, <2>4, <2>5, <2>6 DEF JobStep
<1> QED BY <1>1, <1>2, <1>3, <1>4, <1>5, <1>6, <1>7, <1>8, <1>9, <1>10, <1>11, <1>12
    DEF Next, Sequence

\* Once the pool is being closed, whatever interleaving of requests, timers,
\* signals and deadlines led there, no listener is open, every job is done, and
\* only a request that outlasted the deadline is left (App.Run, Cron.Stop).
THEOREM ShutdownInOrder == Spec => []TornDownInOrder
<1>1. IInv => TornDownInOrder
  <2> SUFFICES ASSUME IInv, pool # "open" PROVE TornDownInOrder
    BY DEF TornDownInOrder
  <2>1. PastPublic /\ PastAdmin /\ PastDrain /\ PastJobs
    BY DEF PastPublic, PastAdmin, PastDrain, PastJobs
  <2>2. open = {}
    BY <2>1 DEF IInv, Shapes, Staged
  <2>3. InFlight(Req) => deadline
    BY <2>1 DEF IInv, Staged, InFlight, Req
  <2> QED BY <2>1, <2>2, <2>3 DEF IInv, Staged, JobsDone, TornDownInOrder
<1> QED BY <1>1, InitStaged, NextStaged, PTL DEF Spec
=============================================================================
