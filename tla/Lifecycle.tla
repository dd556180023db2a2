----------------------------- MODULE Lifecycle -----------------------------
(***************************************************************************)
(* One instance of goauth from its open listeners to its exit: requests on *)
(* two listeners, the background jobs of the cron runner, and the shutdown *)
(* sequence that drains, stops and closes what they use.                   *)
(*                                                                         *)
(* Requests and jobs are goroutines that borrow connections from the pool. *)
(* http.Server.Shutdown closes its listener at once, waits for the         *)
(* requests in flight and gives up when its context is done; the context,  *)
(* with its 15 seconds, is shared by both listeners.  pgxpool's Close      *)
(* refuses new borrowers and waits for the connections that are out.       *)
(***************************************************************************)
EXTENDS Naturals

CONSTANTS
    PublicReq, AdminReq,   \* requests the two listeners can have in flight
    Job                    \* background jobs

ASSUME RequestsDiffer == PublicReq \cap AdminReq = {}

VARIABLES
    main,        \* where App.Run is
    adminOn,     \* ADMIN_TOKEN is set, so the private listener exists
    open,        \* listeners that accept
    request,     \* per request: "none", "running", or "conn" while it holds a connection
    job,         \* per job: "off", "waiting", "running", "conn", "stopped"
    fired,       \* jobs whose timer has fired
    cancelled,   \* the jobs' context is done
    deadline,    \* the 15 seconds are over
    pool         \* "open", "closing" or "closed"

vars == <<main, adminOn, open, request, job, fired, cancelled, deadline, pool>>
work == <<request, job, fired>>
shutdown == <<main, open, cancelled, deadline, pool>>

Req == PublicReq \cup AdminReq
Listener(r) == IF r \in PublicReq THEN "public" ELSE "admin"

Main == {"listening", "serving", "drain_public", "drain_admin", "wait_jobs",
         "close_pool", "exited"}

\* Bootstrap is done.  A job whose interval is zero or less is not scheduled.
Init ==
    /\ main = "listening"
    /\ adminOn \in BOOLEAN
    /\ open = {}
    /\ request = [r \in Req |-> "none"]
    /\ job \in [Job -> {"off", "unstarted"}]
    /\ fired = {}
    /\ cancelled = FALSE /\ deadline = FALSE
    /\ pool = "open"

Alive == main # "exited"

-----------------------------------------------------------------------------
(* Requests *)

Accept(r) ==
    /\ Alive /\ Listener(r) \in open /\ request[r] = "none"
    /\ request' = [request EXCEPT ![r] = "running"]
    /\ UNCHANGED <<adminOn, shutdown, job, fired>>

\* A statement needs a connection; a pool that is closing refuses it, which
\* ends the request with an error.
Borrow(r) ==
    /\ Alive /\ request[r] = "running"
    /\ request' = [request EXCEPT ![r] = IF pool = "open" THEN "conn" ELSE "none"]
    /\ UNCHANGED <<adminOn, shutdown, job, fired>>

Release(r) ==
    /\ Alive /\ request[r] = "conn"
    /\ request' = [request EXCEPT ![r] = "running"]
    /\ UNCHANGED <<adminOn, shutdown, job, fired>>

Respond(r) ==
    /\ Alive /\ request[r] = "running"
    /\ request' = [request EXCEPT ![r] = "none"]
    /\ UNCHANGED <<adminOn, shutdown, job, fired>>

-----------------------------------------------------------------------------
(* cron *)

\* The timer of a job that waits in the select.
Fire(j) ==
    /\ Alive /\ job[j] = "waiting" /\ j \notin fired
    /\ fired' = fired \cup {j}
    /\ UNCHANGED <<adminOn, shutdown, request, job>>

\* loop takes the timer's branch; with both ready the select takes either.
RunJob(j) ==
    /\ Alive /\ job[j] = "waiting" /\ j \in fired
    /\ job' = [job EXCEPT ![j] = "running"]
    /\ fired' = fired \ {j}
    /\ UNCHANGED <<adminOn, shutdown, request>>

\* A job's statement; under a done context or a closed pool it fails at once.
JobBorrow(j) ==
    /\ Alive /\ job[j] = "running" /\ ~cancelled /\ pool = "open"
    /\ job' = [job EXCEPT ![j] = "conn"]
    /\ UNCHANGED <<adminOn, shutdown, request, fired>>

JobRelease(j) ==
    /\ Alive /\ job[j] = "conn"
    /\ job' = [job EXCEPT ![j] = "running"]
    /\ UNCHANGED <<adminOn, shutdown, request, fired>>

\* run returns, with or without an error, or recovers from a panic; the timer
\* is set again.
JobReturns(j) ==
    /\ Alive /\ job[j] = "running"
    /\ job' = [job EXCEPT ![j] = "waiting"]
    /\ UNCHANGED <<adminOn, shutdown, request, fired>>

\* loop takes the branch of the done context.
JobStops(j) ==
    /\ Alive /\ job[j] = "waiting" /\ cancelled
    /\ job' = [job EXCEPT ![j] = "stopped"]
    /\ UNCHANGED <<adminOn, shutdown, request, fired>>

-----------------------------------------------------------------------------
(* App.Run *)

\* Each listener is opened by a goroutine of its own while the cron runner
\* starts; neither waits for the other, and nothing opens after its Shutdown.
MayServe == {l \in {"public", "admin"} :
    /\ main \in {"listening", "serving"} \/ (l = "admin" /\ main = "drain_public")
    /\ l = "admin" => adminOn}

Listen(l) ==
    /\ l \in MayServe \ open
    /\ open' = open \cup {l}
    /\ UNCHANGED <<main, adminOn, work, cancelled, deadline, pool>>

StartCron ==
    /\ main = "listening" /\ main' = "serving"
    /\ job' = [j \in Job |-> IF job[j] = "off" THEN "off" ELSE "waiting"]
    /\ UNCHANGED <<adminOn, open, request, fired, cancelled, deadline, pool>>

\* serve: a listener that fails is fatal, and the process is gone.
Fatal ==
    /\ MayServe # {} /\ main' = "exited"
    /\ UNCHANGED <<adminOn, open, work, cancelled, deadline, pool>>

\* SIGINT or SIGTERM: Shutdown of the public listener begins.
Signal ==
    /\ main = "serving" /\ main' = "drain_public"
    /\ open' = open \ {"public"}
    /\ UNCHANGED <<adminOn, work, cancelled, deadline, pool>>

Deadline ==
    /\ main \in {"drain_public", "drain_admin"}
    /\ ~deadline /\ deadline' = TRUE
    /\ UNCHANGED <<main, adminOn, open, work, cancelled, pool>>

InFlight(S) == \E r \in S : request[r] # "none"

Drained(S) == ~InFlight(S) \/ deadline

\* Shutdown of the admin listener, where there is one, under the same context.
DrainAdmin ==
    /\ main = "drain_public" /\ Drained(PublicReq)
    /\ main' = "drain_admin"
    /\ open' = open \ {"admin"}
    /\ UNCHANGED <<adminOn, work, cancelled, deadline, pool>>

WaitUncancelled == main' = "wait_jobs" /\ UNCHANGED cancelled   \* fault: wg.Wait alone
\* Cron.Stop: cancel, then wait.
Cancel == main' = "wait_jobs" /\ cancelled' = TRUE

StopCron ==
    /\ main = "drain_admin" /\ Drained(AdminReq)
    /\ Cancel
    /\ UNCHANGED <<adminOn, open, work, deadline, pool>>

JobsIgnored == TRUE   \* fault: cancelled and not waited for
JobsDone == \A j \in Job : job[j] \in {"off", "stopped"}

ClosePool ==
    /\ main = "wait_jobs" /\ JobsDone
    /\ main' = "close_pool" /\ pool' = "closing"
    /\ UNCHANGED <<adminOn, open, work, cancelled, deadline>>

\* The connections are back; Redis is closed too and main returns.
Exit ==
    /\ main = "close_pool"
    /\ \A r \in Req : request[r] # "conn"
    /\ \A j \in Job : job[j] # "conn"
    /\ main' = "exited" /\ pool' = "closed"
    /\ UNCHANGED <<adminOn, open, work, cancelled, deadline>>

Sequence == StartCron \/ DrainAdmin \/ StopCron \/ ClosePool \/ Exit
RequestStep(r) == Borrow(r) \/ Respond(r)
JobStep(j) == JobBorrow(j) \/ JobReturns(j)

\* What is left of an exited process does nothing.
Next ==
    \/ Sequence \/ Signal \/ Deadline \/ Fatal
    \/ \E l \in {"public", "admin"} : Listen(l)
    \/ \E r \in Req : Accept(r) \/ RequestStep(r) \/ Release(r)
    \/ \E j \in Job : Fire(j) \/ RunJob(j) \/ JobStep(j) \/ JobRelease(j) \/ JobStops(j)

\* The shutdown sequence goes on when what it waits for has happened; time
\* passes; statements come back.  A job under a done context gets to its end
\* and takes the branch of the context in the end, since a run sets the timer
\* anew.  A request may take for ever.
Spec ==
    /\ Init /\ [][Next]_vars
    /\ WF_vars(Sequence) /\ WF_vars(Deadline)
    /\ \A r \in Req : WF_vars(Release(r))
    /\ \A j \in Job : /\ WF_vars(JobRelease(j)) /\ WF_vars(cancelled /\ JobReturns(j))
                      /\ SF_vars(JobStops(j))

-----------------------------------------------------------------------------
(* Properties *)

\* "Stop accepting requests before tearing down what they depend on": once the
\* pool is being closed no job is under way or about to start, and a request is
\* only if it outlasted the 15 seconds (App.Run, Cron.Stop).
TornDownInOrder ==
    pool # "open" =>
        /\ \A j \in Job : job[j] \in {"off", "stopped"}
        /\ open = {}
        /\ InFlight(Req) => deadline

\* A signal ends the process, also while a request hangs, timers fire as the
\* jobs are being cancelled, or a job holds a connection (waitForShutdown).
ShutdownEnds == main = "drain_public" ~> main = "exited"
=============================================================================
