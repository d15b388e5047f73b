---------------------------- MODULE DurableJobs ----------------------------
(***************************************************************************)
(* The durable job queue of BlogHub (backend/store/job_queue.py) together  *)
(* with the worker processes that drain it (backend/workers/worker.py) and *)
(* the API requests that cancel and retry jobs (backend/routers/jobs.py).  *)
(*                                                                         *)
(* The three tables jobs, job_attempts and job_effects are the variables   *)
(* jobs, attempts and effects.  A store method whose first statement is an *)
(* UPDATE, or that holds the workspace lock around everything it does, is  *)
(* one step.  A method that SELECTs, decides in Python and then UPDATEs    *)
(* without the lock is two steps, because sqlite3 opens its transaction at *)
(* the first data-changing statement: what was read may be stale by then.  *)
(*                                                                         *)
(* Time is abstracted to the comparisons the code makes: a lease is live   *)
(* or lapsed, a job is available now, later or never, a lifetime is over   *)
(* or not.                                                                 *)
(***************************************************************************)
EXTENDS Naturals, Sequences, FiniteSets

CONSTANTS
    Jobs,         (* job ids                                                *)
    Workers,      (* worker ids                                             *)
    Clients,      (* API requests that may be in flight at the same time    *)
    Effects,      (* effect keys                                            *)
    Releasable,   (* keys run with release_on_error=True                    *)
    Plan,         (* Plan[j]: the keys the handler of j runs, in order      *)
    Rank,         (* Rank[j]: place of j in claim order                     *)
    Mortal,       (* jobs enqueued with a lifetime                          *)
    MaxAttempts,  (* attempts a job is created with                         *)
    MaxRetries,   (* bound: explicit retries per job                        *)
    Punctual,     (* TRUE: a live worker's heartbeats are never late        *)
    Nobody        (* the NULL of claimed_by                                 *)

ASSUME DurableJobsAssumption ==
    /\ Releasable \subseteq Effects
    /\ Plan \in [Jobs -> Seq(Effects)]
    /\ Rank \in [Jobs -> Nat]
    /\ Mortal \subseteq Jobs
    /\ MaxAttempts \in Nat \ {0}
    /\ MaxRetries \in Nat
    /\ Punctual \in BOOLEAN
    /\ Nobody \notin Workers \cup Jobs

VARIABLES
    jobs,        (* the jobs table; status "absent" before create_job       *)
    attempts,    (* attempts[j]: the statuses of j's rows in job_attempts   *)
    effects,     (* effects[j][e]: the status in job_effects, or "none"     *)
    worker,      (* what each worker process is doing                       *)
    request,     (* what each API request is doing                          *)
    invoked,     (* history: times the operation behind an effect started   *)
    succeeded,   (* history: times that operation returned a result         *)
    retries      (* history: explicit retries of a job that took effect     *)

tables == <<jobs, attempts, effects>>
history == <<invoked, succeeded, retries>>
vars == <<tables, worker, request, history>>

-----------------------------------------------------------------------------
(* The values of the rows and of the program counters.                     *)

Terminal == {"completed", "failed", "canceled", "expired"}
Waiting == {"queued", "waiting"}
JobStatus == {"absent", "running"} \cup Waiting \cup Terminal
AttemptStatus == {"running", "orphaned", "waiting"} \cup (Terminal \ {"expired"})
EffectStatus == {"none", "running", "completed", "uncertain"}
Exceptions == {"none", "uncertain", "canceled", "timedout", "permanent", "error"}
Steps == {"idle", "down", "handler", "operate", "operated", "settling",
          "aborting", "releasing", "record", "completing",
          "failing", "failwrite", "deferring", "deferwrite"}

Row == [status: JobStatus, claimed_by: Workers \cup {Nobody},
        attempt_count: Nat, max_attempts: Nat, cancel: BOOLEAN,
        available: {"now", "later", "never"}, lease: {"none", "live", "lapsed"},
        dead: BOOLEAN, checkpoint: SUBSET Effects]

(* What fail_job and defer_job keep of the row they read: the status they  *)
(* will write, and to which attempt.                                       *)
Verdict == [status: {"waiting", "failed", "canceled"}, attempt: Nat]
NoVerdict == [status |-> "waiting", attempt |-> 0]

WorkerState ==
    [pc: Steps, job: Jobs \cup {Nobody}, step: Nat, done: SUBSET Effects,
     late: BOOLEAN, raised: Exceptions, seen: Verdict]

RequestState ==
    [pc: {"idle", "cancel", "retry"}, job: Jobs \cup {Nobody}, seen: JobStatus]

IdleWorker == [pc |-> "idle", job |-> Nobody, step |-> 0, done |-> {},
               late |-> FALSE, raised |-> "none", seen |-> NoVerdict]

IdleRequest == [pc |-> "idle", job |-> Nobody, seen |-> "absent"]

AbsentRow == [status |-> "absent", claimed_by |-> Nobody, attempt_count |-> 0,
              max_attempts |-> MaxAttempts, cancel |-> FALSE,
              available |-> "never", lease |-> "none", dead |-> FALSE,
              checkpoint |-> {}]

Init ==
    /\ jobs = [j \in Jobs |-> AbsentRow]
    /\ attempts = [j \in Jobs |-> <<>>]
    /\ effects = [j \in Jobs |-> [e \in Effects |-> "none"]]
    /\ worker = [w \in Workers |-> IdleWorker]
    /\ request = [c \in Clients |-> IdleRequest]
    /\ invoked = [j \in Jobs |-> [e \in Effects |-> 0]]
    /\ succeeded = [j \in Jobs |-> [e \in Effects |-> 0]]
    /\ retries = [j \in Jobs |-> 0]

-----------------------------------------------------------------------------
(* Enqueueing, recovery and claims: locked, hence atomic.                  *)

CreateJob(j) ==
    /\ jobs[j].status = "absent"
    /\ jobs' = [jobs EXCEPT ![j] = [@ EXCEPT !.status = "queued", !.available = "now"]]
    /\ UNCHANGED <<attempts, effects, worker, request, history>>

Expirable(j) == jobs[j].status \in Waiting /\ jobs[j].dead

(* Seeded fault: recovery takes every running job for an orphan.           *)
EveryRunningOrphaned(j) == jobs[j].status = "running"

Orphaned(j) == jobs[j].status = "running" /\ jobs[j].lease = "lapsed"

(* Seeded fault: the attempt's new status is written to the job as well.   *)
OrphanStatusOfAttempt(row) ==
    IF row.cancel THEN "canceled"
    ELSE IF row.attempt_count >= row.max_attempts THEN "failed" ELSE "orphaned"

(* Where _recover_orphans_in_transaction sends an orphaned job.            *)
OrphanStatus(row) ==
    IF row.cancel THEN "canceled"
    ELSE IF row.attempt_count >= row.max_attempts THEN "failed" ELSE "waiting"

(* Every store method that ends a claim or gives a job back writes a       *)
(* status and clears the claim.                                            *)
Unclaimed(row, status) ==
    [row EXCEPT !.status = status, !.claimed_by = Nobody, !.lease = "none"]

Available(row, when) == [row EXCEPT !.available = when]

RecoveredRow(row) ==
    Available(Unclaimed(row, OrphanStatus(row)),
              IF OrphanStatus(row) = "waiting" THEN "now" ELSE "never")

RecoveredJobs ==
    [j \in Jobs |-> IF Expirable(j) THEN Unclaimed(jobs[j], "expired")
                    ELSE IF Orphaned(j) THEN RecoveredRow(jobs[j]) ELSE jobs[j]]

(* Seeded fault: recovery leaves the attempt of the dead worker open.      *)
UnclosedAttempts == attempts

RecoveredAttempts ==
    [j \in Jobs |->
        [n \in 1..Len(attempts[j]) |->
            IF /\ Orphaned(j)
               /\ n = jobs[j].attempt_count
               /\ attempts[j][n] = "running"
            THEN "orphaned" ELSE attempts[j][n]]]

RecoveredEffects ==
    [j \in Jobs |-> [e \in Effects |->
        IF Orphaned(j) /\ effects[j][e] = "running"
        THEN "uncertain" ELSE effects[j][e]]]

(* recover_orphaned_jobs, called when the API starts.                      *)
RecoverOrphanedJobs ==
    /\ jobs' = RecoveredJobs
    /\ attempts' = RecoveredAttempts
    /\ effects' = RecoveredEffects
    /\ UNCHANGED <<worker, request, history>>

(* Seeded fault: a claim does not look at the attempts that are left.      *)
UnbudgetedClaimable(table) ==
    {j \in Jobs : /\ table[j].status \in Waiting
                  /\ ~table[j].cancel
                  /\ table[j].available = "now"
                  /\ ~table[j].dead}

Claimable(table) ==
    {j \in Jobs : /\ table[j].status \in Waiting
                  /\ ~table[j].cancel
                  /\ table[j].available = "now"
                  /\ ~table[j].dead
                  /\ table[j].attempt_count < table[j].max_attempts}

First(S) == {j \in S : \A k \in S : Rank[j] <= Rank[k]}

ClaimedRow(row, w) ==
    [row EXCEPT !.status = "running", !.attempt_count = row.attempt_count + 1,
                !.claimed_by = w, !.lease = "live"]

(* claim_job: recovery and the claim are one transaction.  The worker      *)
(* keeps the checkpoint of the row it claimed.                             *)
ClaimJob(w) ==
    /\ worker[w].pc = "idle"
    /\ \E j \in First(Claimable(RecoveredJobs)) :
        /\ jobs' = [RecoveredJobs EXCEPT ![j] = ClaimedRow(@, w)]
        /\ attempts' = [RecoveredAttempts EXCEPT ![j] = Append(@, "running")]
        /\ worker' = [worker EXCEPT ![w] =
                        [IdleWorker EXCEPT !.pc = "handler", !.job = j, !.step = 1,
                                           !.done = jobs[j].checkpoint]]
    /\ effects' = RecoveredEffects
    /\ UNCHANGED <<request, history>>

(* A poll of the queue that finds nothing to claim still recovers.         *)
PollEmpty(w) ==
    /\ worker[w].pc = "idle"
    /\ Claimable(RecoveredJobs) = {}
    /\ RecoverOrphanedJobs

-----------------------------------------------------------------------------
(* One worker inside run_once.                                             *)

Job(w) == worker[w].job
Effect(w) == Plan[Job(w)][worker[w].step]

HasClaim(w) == jobs[Job(w)].claimed_by = w

Owns(w) == jobs[Job(w)].status = "running" /\ HasClaim(w)

(* check_stopped.  The flags its monitor thread sets add nothing to what   *)
(* it reads itself but the timeout: a lost lease never comes back, and a   *)
(* cancellation is cleared only together with the claim.                   *)
MustStop(w) == ~Owns(w) \/ jobs[Job(w)].cancel \/ worker[w].late

StopCause(w) == IF jobs[Job(w)].cancel THEN "canceled" ELSE "timedout"

Goto(w, pc) == worker' = [worker EXCEPT ![w] = [@ EXCEPT !.pc = pc]]

SetEffect(w, status) ==
    effects' = [effects EXCEPT ![Job(w)][Effect(w)] = status]

SetJob(w, row) == jobs' = [jobs EXCEPT ![Job(w)] = row]

SetAttempt(w, n, status) ==
    attempts' = [attempts EXCEPT ![Job(w)] = [@ EXCEPT ![n] = status]]

(* run_once logs a JobLeaseLost and returns to its polling loop.           *)
Abandon(w) == worker' = [worker EXCEPT ![w] = IdleWorker]

(* The handler's frame is unwound: run_once is left with the exception.    *)
Raise(w, exception) ==
    worker' = [worker EXCEPT ![w] =
                 [IdleWorker EXCEPT
                    !.pc = IF exception = "uncertain" THEN "deferring" ELSE "failing",
                    !.job = Job(w),
                    !.raised = exception]]

CheckStoppedRaises(w) ==
    /\ MustStop(w)
    /\ IF Owns(w) THEN Raise(w, StopCause(w)) ELSE Abandon(w)

(* run_effect up to its operation: check_stopped, then begin_job_effect.   *)
(* Nothing begin_job_effect writes depends on a cancellation that arrives  *)
(* in between, and it repeats the ownership test, so the pair is one step. *)
BeginEffect(w) ==
    /\ worker[w].pc = "handler"
    /\ worker[w].step <= Len(Plan[Job(w)])
    /\ \/ /\ CheckStoppedRaises(w)
          /\ UNCHANGED <<effects, invoked>>
       \/ /\ ~MustStop(w)
          /\ effects[Job(w)][Effect(w)] = "none"
          /\ SetEffect(w, "running")
          /\ invoked' = [invoked EXCEPT ![Job(w)][Effect(w)] = @ + 1]
          /\ Goto(w, "operate")
       \/ /\ ~MustStop(w)
          /\ effects[Job(w)][Effect(w)] = "completed"
          /\ Goto(w, "record")
          /\ UNCHANGED <<effects, invoked>>
       \/ /\ ~MustStop(w)
          /\ effects[Job(w)][Effect(w)] \in {"running", "uncertain"}
          /\ Raise(w, "uncertain")
          /\ UNCHANGED <<effects, invoked>>
    /\ UNCHANGED <<jobs, attempts, request, succeeded, retries>>

OperationReturns(w) ==
    /\ worker[w].pc = "operate"
    /\ succeeded' = [succeeded EXCEPT ![Job(w)][Effect(w)] = @ + 1]
    /\ Goto(w, "operated")
    /\ UNCHANGED <<tables, request, invoked, retries>>

(* Seeded fault: release_on_error for every effect.                        *)
EveryFailureReleases(w) ==
    /\ worker[w].pc = "operate"
    /\ Goto(w, "aborting")
    /\ UNCHANGED <<tables, request, history>>

OperationFails(w) ==
    /\ worker[w].pc = "operate"
    /\ IF Effect(w) \in Releasable THEN Goto(w, "aborting") ELSE Raise(w, "error")
    /\ UNCHANGED <<tables, request, history>>

(* Seeded fault: the check_stopped after the operation inside run_effect's *)
(* try, so that a cancellation or a timeout releases the effect.           *)
StopReleasesResult(w) ==
    /\ worker[w].pc = "operated"
    /\ \/ /\ MustStop(w)
          /\ IF Effect(w) \in Releasable
             THEN Goto(w, "aborting") ELSE CheckStoppedRaises(w)
       \/ ~MustStop(w) /\ Goto(w, "settling")
    /\ UNCHANGED <<tables, request, history>>

(* The check_stopped after the operation and the SELECT that opens         *)
(* complete_job_effect: both ask whether the claim still stands.           *)
CheckResult(w) ==
    /\ worker[w].pc = "operated"
    /\ \/ CheckStoppedRaises(w)
       \/ ~MustStop(w) /\ Goto(w, "settling")
    /\ UNCHANGED <<tables, request, history>>

(* The UPDATE of complete_job_effect, which demands a 'running' row.       *)
CompleteJobEffect(w) ==
    /\ worker[w].pc = "settling"
    /\ \/ /\ effects[Job(w)][Effect(w)] = "running"
          /\ SetEffect(w, "completed")
          /\ Goto(w, "record")
       \/ /\ effects[Job(w)][Effect(w)] # "running"
          /\ Raise(w, "uncertain")
          /\ UNCHANGED effects
    /\ UNCHANGED <<jobs, attempts, request, history>>

(* The SELECT of abort_job_effect; a lost lease replaces the exception of  *)
(* the operation.                                                          *)
CheckAbort(w) ==
    /\ worker[w].pc = "aborting"
    /\ IF Owns(w) THEN Goto(w, "releasing") ELSE Abandon(w)
    /\ UNCHANGED <<tables, request, history>>

(* The DELETE of abort_job_effect, after which the exception continues.    *)
AbortJobEffect(w) ==
    /\ worker[w].pc = "releasing"
    /\ IF effects[Job(w)][Effect(w)] = "running"
       THEN SetEffect(w, "none") ELSE UNCHANGED effects
    /\ Raise(w, "error")
    /\ UNCHANGED <<jobs, attempts, request, history>>

(* The handler has a result.  handle_push skips an outcome its checkpoint  *)
(* lists; otherwise the outcome is stored and checkpoint() tests for a     *)
(* stop and writes, guarded by the claim.                                  *)
NextPlatform(w, done) ==
    worker' = [worker EXCEPT ![w] = [@ EXCEPT !.pc = "handler", !.done = done,
                                              !.step = worker[w].step + 1]]

CheckpointJob(w) ==
    LET recorded == worker[w].done \cup {Effect(w)} IN
    /\ worker[w].pc = "record"
    /\ \/ /\ Effect(w) \in worker[w].done
          /\ NextPlatform(w, worker[w].done)
          /\ UNCHANGED jobs
       \/ /\ Effect(w) \notin worker[w].done
          /\ CheckStoppedRaises(w)
          /\ UNCHANGED jobs
       \/ /\ Effect(w) \notin worker[w].done
          /\ ~MustStop(w)
          /\ SetJob(w, [jobs[Job(w)] EXCEPT !.checkpoint = recorded])
          /\ NextPlatform(w, recorded)
    /\ UNCHANGED <<attempts, effects, request, history>>

(* A handler gives up outside an effect: a PermanentJobError (or no        *)
(* handler at all), or an error that a later attempt may not meet.         *)
HandlerRaises(w) ==
    /\ worker[w].pc \in {"handler", "record"}
    /\ \E exception \in {"permanent", "error"} : Raise(w, exception)
    /\ UNCHANGED <<tables, request, history>>

(* The handler returned: the last check_stopped.                           *)
HandlerReturns(w) ==
    /\ worker[w].pc = "handler"
    /\ worker[w].step > Len(Plan[Job(w)])
    /\ \/ CheckStoppedRaises(w)
       \/ ~MustStop(w) /\ Goto(w, "completing")
    /\ UNCHANGED <<tables, request, history>>

(* complete_job: one UPDATE guarded by the claim alone.                    *)
CompleteJob(w) ==
    /\ worker[w].pc = "completing"
    /\ \/ /\ HasClaim(w)
          /\ SetJob(w, Unclaimed(jobs[Job(w)], "completed"))
          /\ SetAttempt(w, jobs[Job(w)].attempt_count, "completed")
       \/ ~HasClaim(w) /\ UNCHANGED <<jobs, attempts>>
    /\ Abandon(w)
    /\ UNCHANGED <<effects, request, history>>

(* Seeded fault: fail_job retries once more than claim_job will.           *)
GenerousFailVerdict(row, exception) ==
    [attempt |-> row.attempt_count,
     status |-> IF row.cancel THEN "canceled"
                ELSE IF /\ exception \in {"error", "timedout"}
                        /\ row.attempt_count <= row.max_attempts
                     THEN "waiting" ELSE "failed"]

(* The SELECT of fail_job and what it decides.  run_once calls fail_job    *)
(* from an except clause: a JobLeaseLost raised there is caught by nobody  *)
(* and ends the process.                                                   *)
FailVerdict(row, exception) ==
    [attempt |-> row.attempt_count,
     status |-> IF row.cancel THEN "canceled"
                ELSE IF /\ exception \in {"error", "timedout"}
                        /\ row.attempt_count < row.max_attempts
                     THEN "waiting" ELSE "failed"]

CheckFail(w) ==
    /\ worker[w].pc = "failing"
    /\ worker' = [worker EXCEPT ![w] =
                    IF HasClaim(w)
                    THEN [IdleWorker EXCEPT
                            !.pc = "failwrite", !.job = Job(w),
                            !.seen = FailVerdict(jobs[Job(w)], worker[w].raised)]
                    ELSE [IdleWorker EXCEPT !.pc = "down"]]
    /\ UNCHANGED <<tables, request, history>>

(* The UPDATEs of fail_job, by job id only.                                *)
FailJob(w) ==
    LET verdict == worker[w].seen IN
    /\ worker[w].pc = "failwrite"
    /\ SetJob(w, Available(Unclaimed(jobs[Job(w)], verdict.status),
                           IF verdict.status = "waiting" THEN "later" ELSE "never"))
    /\ SetAttempt(w, verdict.attempt, verdict.status)
    /\ Abandon(w)
    /\ UNCHANGED <<effects, request, history>>

(* defer_job, called for an UncertainSideEffect: SELECT, then UPDATEs.     *)
CheckDefer(w) ==
    /\ worker[w].pc = "deferring"
    /\ worker' = [worker EXCEPT ![w] =
                    IF HasClaim(w)
                    THEN [IdleWorker EXCEPT
                            !.pc = "deferwrite", !.job = Job(w),
                            !.seen = [status |-> "waiting",
                                      attempt |-> jobs[Job(w)].attempt_count]]
                    ELSE [IdleWorker EXCEPT !.pc = "down"]]
    /\ UNCHANGED <<tables, request, history>>

DeferJob(w) ==
    /\ worker[w].pc = "deferwrite"
    /\ SetJob(w, Available(Unclaimed(jobs[Job(w)], "waiting"), "never"))
    /\ SetAttempt(w, worker[w].seen.attempt, "waiting")
    /\ Abandon(w)
    /\ UNCHANGED <<effects, request, history>>

(* The monitor thread renews the lease, even one that has lapsed, as long  *)
(* as the row still names this worker.                                     *)
HeartbeatJob(w) ==
    /\ worker[w].pc \notin {"idle", "down"}
    /\ Owns(w)
    /\ SetJob(w, [jobs[Job(w)] EXCEPT !.lease = "live"])
    /\ UNCHANGED <<attempts, effects, worker, request, history>>

(* The deadline of the attempt passes while a check_stopped is to come.    *)
AttemptTimesOut(w) ==
    /\ worker[w].pc \in {"handler", "operate", "operated", "record"}
    /\ worker' = [worker EXCEPT ![w] = [@ EXCEPT !.late = TRUE]]
    /\ UNCHANGED <<tables, request, history>>

(* The process dies; one that dies while it polls loses nothing.           *)
Crash(w) ==
    /\ worker[w].pc \notin {"idle", "down"}
    /\ worker' = [worker EXCEPT ![w] = [IdleWorker EXCEPT !.pc = "down"]]
    /\ UNCHANGED <<tables, request, history>>

(* The supervisor (restart: unless-stopped) starts it again.               *)
Restart(w) ==
    /\ worker[w].pc = "down"
    /\ Goto(w, "idle")
    /\ UNCHANGED <<tables, request, history>>

-----------------------------------------------------------------------------
(* API requests: request_job_cancellation and retry_job, a SELECT and an   *)
(* UPDATE each, without the workspace lock.                                *)

CheckCancel(c, j) ==
    /\ request[c].pc = "idle"
    /\ jobs[j].status \notin Terminal \cup {"absent"}
    /\ request' = [request EXCEPT ![c] = [pc |-> "cancel", job |-> j,
                                          seen |-> jobs[j].status]]
    /\ UNCHANGED <<tables, worker, history>>

CanceledRow(row, seen) ==
    [row EXCEPT !.cancel = TRUE,
                !.status = IF seen \in Waiting THEN "canceled" ELSE row.status]

RequestJobCancellation(c) ==
    /\ request[c].pc = "cancel"
    /\ jobs' = [jobs EXCEPT ![request[c].job] = CanceledRow(@, request[c].seen)]
    /\ request' = [request EXCEPT ![c] = IdleRequest]
    /\ UNCHANGED <<attempts, effects, worker, history>>

(* A job that waits for an operator: waiting, with no available_at.        *)
Parked(j) == jobs[j].status = "waiting" /\ jobs[j].available = "never"

(* A running job is refused (409) and a completed one returned as it is.   *)
CheckRetry(c, j) ==
    /\ request[c].pc = "idle"
    /\ retries[j] < MaxRetries
    /\ jobs[j].status \notin {"absent", "running", "completed"}
    /\ request' = [request EXCEPT ![c] = [pc |-> "retry", job |-> j,
                                          seen |-> jobs[j].status]]
    /\ UNCHANGED <<tables, worker, history>>

RetriedRow(row) ==
    [row EXCEPT !.status = "queued", !.available = "now", !.cancel = FALSE,
                !.claimed_by = Nobody, !.lease = "none",
                !.max_attempts = IF row.attempt_count >= row.max_attempts
                                 THEN row.attempt_count + 1 ELSE row.max_attempts]

RetryJob(c) ==
    /\ request[c].pc = "retry"
    /\ jobs' = [jobs EXCEPT ![request[c].job] = RetriedRow(@)]
    /\ retries' = [retries EXCEPT ![request[c].job] = @ + 1]
    /\ request' = [request EXCEPT ![c] = IdleRequest]
    /\ UNCHANGED <<attempts, effects, worker, invoked, succeeded>>

-----------------------------------------------------------------------------
(* The clock.                                                              *)

(* Nobody executes j on behalf of the claim in its row.                    *)
Unattended(j) == \A w \in Workers : Job(w) = j => ~HasClaim(w)

(* A lease lapses when no heartbeat came in time: the worker is dead, or   *)
(* its host stalled.  Punctual excludes the stall.                         *)
LeaseLapses(j) ==
    /\ jobs[j].status = "running"
    /\ jobs[j].lease = "live"
    /\ Punctual => Unattended(j)
    /\ jobs' = [jobs EXCEPT ![j] = [@ EXCEPT !.lease = "lapsed"]]
    /\ UNCHANGED <<attempts, effects, worker, request, history>>

BackoffElapses(j) ==
    /\ jobs[j].available = "later"
    /\ jobs' = [jobs EXCEPT ![j] = [@ EXCEPT !.available = "now"]]
    /\ UNCHANGED <<attempts, effects, worker, request, history>>

LifetimeEnds(j) ==
    /\ j \in Mortal
    /\ jobs[j].status # "absent"
    /\ ~jobs[j].dead
    /\ jobs' = [jobs EXCEPT ![j] = [@ EXCEPT !.dead = TRUE]]
    /\ UNCHANGED <<attempts, effects, worker, request, history>>

-----------------------------------------------------------------------------

(* The steps of run_once and run_forever, as the code schedules them.      *)
WorkerStep(w) ==
    \/ ClaimJob(w) \/ PollEmpty(w)
    \/ BeginEffect(w) \/ OperationReturns(w) \/ OperationFails(w)
    \/ CheckResult(w) \/ CompleteJobEffect(w) \/ CheckAbort(w) \/ AbortJobEffect(w)
    \/ CheckpointJob(w) \/ HandlerRaises(w) \/ HandlerReturns(w) \/ CompleteJob(w)
    \/ CheckFail(w) \/ FailJob(w) \/ CheckDefer(w) \/ DeferJob(w)

ClientStep(c) ==
    \/ \E j \in Jobs : CheckCancel(c, j) \/ CheckRetry(c, j)
    \/ RequestJobCancellation(c)
    \/ RetryJob(c)

ClockStep(j) == LeaseLapses(j) \/ BackoffElapses(j) \/ LifetimeEnds(j)

Next ==
    \/ \E j \in Jobs : CreateJob(j) \/ ClockStep(j)
    \/ RecoverOrphanedJobs
    \/ \E w \in Workers : \/ WorkerStep(w)
                          \/ HeartbeatJob(w) \/ AttemptTimesOut(w)
                          \/ Crash(w) \/ Restart(w)
    \/ \E c \in Clients : ClientStep(c)

Spec == Init /\ [][Next]_vars

(* A worker keeps executing its program, a supervisor restarts it, the     *)
(* clock advances, an API request that has read its row writes it, and a   *)
(* lease nobody renews runs out.                                           *)
Fairness ==
    /\ \A w \in Workers : WF_vars(WorkerStep(w)) /\ WF_vars(Restart(w))
    /\ \A j \in Jobs : /\ WF_vars(BackoffElapses(j))
                       /\ WF_vars(Unattended(j) /\ LeaseLapses(j))
    /\ \A c \in Clients : WF_vars(RequestJobCancellation(c) \/ RetryJob(c))

FairSpec == Spec /\ Fairness
-----------------------------------------------------------------------------
(* Properties.                                                             *)

TypeOK ==
    /\ jobs \in [Jobs -> Row]
    /\ attempts \in [Jobs -> Seq(AttemptStatus)]
    /\ effects \in [Jobs -> [Effects -> EffectStatus]]
    /\ worker \in [Workers -> WorkerState]
    /\ request \in [Clients -> RequestState]
    /\ invoked \in [Jobs -> [Effects -> Nat]]
    /\ succeeded \in [Jobs -> [Effects -> Nat]]
    /\ retries \in [Jobs -> Nat]

(* Publishing is started at most once per job and platform, whatever the   *)
(* crashes, lost leases, cancellations and explicit retries: the primary   *)
(* key of job_effects outlives them all (begin_job_effect).                *)
AtMostOncePublication ==
    \A j \in Jobs : \A e \in Effects \ Releasable : invoked[j][e] <= 1

(* w is running the operation of effect e of job j.                        *)
Operating(w, j, e) ==
    worker[w].pc = "operate" /\ Job(w) = j /\ Effect(w) = e

(* No two workers run the operation of one effect at the same time, even   *)
(* while both believe they hold the job (run_effect).                      *)
OneOperator ==
    \A j \in Jobs, e \in Effects, v, w \in Workers :
        Operating(v, j, e) /\ Operating(w, j, e) => v = w

(* An operation that once returned is never run to its end again, not even *)
(* a releasable one, and a recorded result stems from exactly one return.  *)
ReturnsAtMostOnce ==
    \A j \in Jobs, e \in Effects :
        /\ succeeded[j][e] <= 1
        /\ effects[j][e] = "completed" => succeeded[j][e] = 1

(* Crashes, timeouts and orphaned leases never buy a job more attempts     *)
(* than it was created with, plus one per explicit retry (claim_job,       *)
(* retry_job).                                                             *)
AttemptBudget ==
    \A j \in Jobs : jobs[j].attempt_count <= MaxAttempts + retries[j]

(* A recorded result and an uncertain effect are final: no late worker     *)
(* completes, repeats or releases an effect recovery has given up on.      *)
SettledEffectsStay ==
    [][\A j \in Jobs, e \in Effects :
          effects[j][e] \in {"completed", "uncertain"}
              => effects'[j][e] = effects[j][e]]_effects

(* The attempt ledger and the job row agree: exactly the newest attempt is *)
(* open, and only while the job runs.                                      *)
OneOpenAttempt ==
    \A j \in Jobs :
        /\ Len(attempts[j]) = jobs[j].attempt_count
        /\ {n \in 1..Len(attempts[j]) : attempts[j][n] = "running"} =
              IF jobs[j].status = "running" THEN {jobs[j].attempt_count} ELSE {}

(* A claim with a live lease ends only by a store call of its own worker.  *)
LeaseIsRespected ==
    [][\A j \in Jobs, w \in Workers :
          /\ jobs[j].status = "running"
          /\ jobs[j].claimed_by = w
          /\ jobs[j].lease = "live"
          /\ jobs'[j].claimed_by # w
          => Job(w) = j /\ worker[w].pc \in {"completing", "failwrite", "deferwrite"}
       ]_jobs

(* Without operators, every job is eventually finished, failed, expired,   *)
(* or parked for an operator: no crash or lost lease leaves it hanging.    *)
EveryJobSettles ==
    \A j \in Jobs : jobs[j].status # "absent"
                       ~> jobs[j].status \in Terminal \/ Parked(j)

(* What the documentation says and the unlocked store methods do not do:   *)
(* "Cancellation is immediate for unclaimed work and cooperative for       *)
(* running work", so one way or the other the job comes to an end          *)
(* (request_job_cancellation; see README.md).                              *)
CancellationTakesEffect ==
    \A j \in Jobs : jobs[j].cancel ~> jobs[j].status \in Terminal \/ ~jobs[j].cancel
=============================================================================
