------------------------- MODULE DurableJobsProofs -------------------------
(***************************************************************************)
(* Theorems about the job queue for every set of jobs, workers, clients    *)
(* and effects, and every handler plan: types, the ledger and the budget   *)
(* of attempts, the one attempt that is open, leases, and the promise of   *)
(* the effect table (at most one publication, at most one operator, at     *)
(* most one return, OnceOnlyEffects implemented).                          *)
(***************************************************************************)
EXTENDS DurableJobsEffects, SequenceTheorems, TLAPS

-----------------------------------------------------------------------------
(* Lemmas about the building blocks.                                       *)

(* Overwriting an entry of a ledger, even one that is not there, leaves a  *)
(* ledger of the same length.                                              *)
LEMMA OverwriteEntry ==
    ASSUME NEW S, NEW s \in Seq(S), NEW n, NEW x \in S
    PROVE  /\ [s EXCEPT ![n] = x] \in Seq(S)
           /\ Len([s EXCEPT ![n] = x]) = Len(s)
<1>1. CASE n \in 1..Len(s)
    BY <1>1, ExceptSeq
<1>2. CASE n \notin 1..Len(s)
    <2>1. DOMAIN s = 1..Len(s)
        OBVIOUS
    <2>2. [s EXCEPT ![n] = x] = [i \in 1..Len(s) |-> s[i]]
        BY <1>2, <2>1
    <2>3. s = [i \in 1..Len(s) |-> s[i]]
        BY <2>1
    <2> QED BY <2>2, <2>3
<1> QED BY <1>1, <1>2

(* The row transformers of the store methods return rows.                  *)
LEMMA RowTypes ==
    ASSUME NEW row \in Row
    PROVE  /\ \A s \in JobStatus : Unclaimed(row, s) \in Row
           /\ \A when \in {"now", "later", "never"} : Available(row, when) \in Row
           /\ RecoveredRow(row) \in Row
           /\ \A w \in Workers : ClaimedRow(row, w) \in Row
           /\ \A s \in JobStatus : CanceledRow(row, s) \in Row
           /\ RetriedRow(row) \in Row
<1>1. ASSUME NEW r \in Row, NEW s \in JobStatus
      PROVE  Unclaimed(r, s) \in Row
    BY DEF Unclaimed, Row
<1>2. ASSUME NEW r \in Row, NEW when \in {"now", "later", "never"}
      PROVE  Available(r, when) \in Row
    BY DEF Available, Row
<1>3. RecoveredRow(row) \in Row
    <2>1. OrphanStatus(row) \in JobStatus
        BY DEF OrphanStatus, JobStatus, Terminal, Waiting
    <2> QED BY <1>1, <1>2, <2>1 DEF RecoveredRow
<1>4. ASSUME NEW w \in Workers
      PROVE  ClaimedRow(row, w) \in Row
    <2>1. "running" \in JobStatus /\ row.attempt_count + 1 \in Nat
        BY DEF Row, JobStatus
    <2> QED BY <2>1 DEF ClaimedRow, Row
<1>5. ASSUME NEW s \in JobStatus
      PROVE  CanceledRow(row, s) \in Row
    <2>1. (IF s \in Waiting THEN "canceled" ELSE row.status) \in JobStatus
        BY DEF Row, JobStatus, Terminal
    <2> QED BY <2>1 DEF CanceledRow, Row
<1>6. RetriedRow(row) \in Row
    <2> DEFINE room == IF row.attempt_count >= row.max_attempts
                       THEN row.attempt_count + 1 ELSE row.max_attempts
    <2>1. room \in Nat
        BY DEF Row
    <2>2. "queued" \in JobStatus
        BY DEF JobStatus, Waiting
    <2> HIDE DEF room
    <2>3. [row EXCEPT !.status = "queued", !.available = "now", !.cancel = FALSE,
                      !.claimed_by = Nobody, !.lease = "none",
                      !.max_attempts = room] \in Row
        BY <2>1, <2>2 DEF Row
    <2> QED BY <2>3 DEF RetriedRow, room
<1> QED BY <1>1, <1>2, <1>3, <1>4, <1>5, <1>6

(* One cell of a table of tables is overwritten, every other one is kept.  *)
LEMMA CellWrite ==
    ASSUME NEW S, NEW f \in [Jobs -> [Effects -> S]], NEW j, NEW e, NEW x \in S
    PROVE  /\ [f EXCEPT ![j][e] = x] \in [Jobs -> [Effects -> S]]
           /\ \A k \in Jobs, d \in Effects :
                 [f EXCEPT ![j][e] = x][k][d] = IF k = j /\ d = e THEN x ELSE f[k][d]
OBVIOUS

(* A history counter goes up by one in one cell.                           *)
LEMMA CounterWrite ==
    ASSUME NEW f \in [Jobs -> [Effects -> Nat]], NEW j \in Jobs, NEW e \in Effects
    PROVE  /\ [f EXCEPT ![j][e] = @ + 1] \in [Jobs -> [Effects -> Nat]]
           /\ \A k \in Jobs, d \in Effects :
                 [f EXCEPT ![j][e] = @ + 1][k][d] =
                    IF k = j /\ d = e THEN f[k][d] + 1 ELSE f[k][d]
<1>1. f[j][e] + 1 \in Nat
    OBVIOUS
<1> QED BY <1>1, CellWrite

(* Recovery rewrites rows, ledgers and effects without changing a type.    *)
LEMMA RecoveryTypes ==
    ASSUME TypeOK
    PROVE  /\ RecoveredJobs \in [Jobs -> Row]
           /\ RecoveredAttempts \in [Jobs -> Seq(AttemptStatus)]
           /\ RecoveredEffects \in [Jobs -> [Effects -> EffectStatus]]
           /\ \A j \in Jobs : Len(RecoveredAttempts[j]) = Len(attempts[j])
<1>1. RecoveredJobs \in [Jobs -> Row]
    <2>1. ASSUME NEW j \in Jobs
          PROVE  RecoveredJobs[j] \in Row
        <3>1. jobs[j] \in Row
            BY DEF TypeOK
        <3>2. Unclaimed(jobs[j], "expired") \in Row /\ RecoveredRow(jobs[j]) \in Row
            BY <3>1, RowTypes DEF JobStatus, Terminal
        <3> QED
            BY <3>1, <3>2 DEF RecoveredJobs
    <2> QED BY <2>1 DEF RecoveredJobs
<1>2. ASSUME NEW j \in Jobs
      PROVE  /\ RecoveredAttempts[j] \in Seq(AttemptStatus)
             /\ Len(RecoveredAttempts[j]) = Len(attempts[j])
    <2>1. attempts[j] \in Seq(AttemptStatus)
        BY DEF TypeOK
    <2>2. Len(attempts[j]) \in Nat /\ \A n \in 1..Len(attempts[j]) : attempts[j][n] \in AttemptStatus
        BY <2>1
    <2> DEFINE entry(n) == IF /\ Orphaned(j)
                              /\ n = jobs[j].attempt_count
                              /\ attempts[j][n] = "running"
                           THEN "orphaned" ELSE attempts[j][n]
    <2>3. \A n \in 1..Len(attempts[j]) : entry(n) \in AttemptStatus
        BY <2>2 DEF AttemptStatus
    <2>4. RecoveredAttempts[j] = [n \in 1..Len(attempts[j]) |-> entry(n)]
        BY DEF RecoveredAttempts
    <2> HIDE DEF entry
    <2>5. [n \in 1..Len(attempts[j]) |-> entry(n)] \in [1..Len(attempts[j]) -> AttemptStatus]
        BY <2>3
    <2>6. [n \in 1..Len(attempts[j]) |-> entry(n)] \in Seq(AttemptStatus)
        BY <2>2, <2>5
    <2>7. Len([n \in 1..Len(attempts[j]) |-> entry(n)]) = Len(attempts[j])
        BY <2>2, <2>6
    <2> QED BY <2>4, <2>6, <2>7
<1>3. RecoveredEffects \in [Jobs -> [Effects -> EffectStatus]]
    BY DEF TypeOK, RecoveredEffects, EffectStatus
<1> QED
    BY <1>1, <1>2, <1>3 DEF RecoveredAttempts

(* The moves of a worker's program counter lead to worker states.          *)
LEMMA WorkerMoves ==
    ASSUME TypeOK, NEW w \in Workers
    PROVE  /\ IdleWorker \in WorkerState
           /\ \A pc \in Steps : Goto(w, pc) => worker' \in [Workers -> WorkerState]
           /\ Abandon(w) => worker' \in [Workers -> WorkerState]
           /\ \A x \in Exceptions : Raise(w, x) => worker' \in [Workers -> WorkerState]
           /\ CheckStoppedRaises(w) => worker' \in [Workers -> WorkerState]
           /\ \A done \in SUBSET Effects :
                 NextPlatform(w, done) => worker' \in [Workers -> WorkerState]
<1>1. IdleWorker \in WorkerState
    BY DEF IdleWorker, WorkerState, NoVerdict, Verdict, Steps, Exceptions
<1>2. worker \in [Workers -> WorkerState]
    BY DEF TypeOK
<1>3. \A pc \in Steps : Goto(w, pc) => worker' \in [Workers -> WorkerState]
    BY <1>2 DEF Goto, WorkerState
<1>4. Abandon(w) => worker' \in [Workers -> WorkerState]
    BY <1>1, <1>2 DEF Abandon
<1>5. ASSUME NEW x \in Exceptions, Raise(w, x)
      PROVE  worker' \in [Workers -> WorkerState]
    BY <1>1, <1>2, <1>5 DEF Raise, Job, WorkerState, Steps
<1>6. CheckStoppedRaises(w) => worker' \in [Workers -> WorkerState]
    BY <1>4, <1>5 DEF CheckStoppedRaises, StopCause, Exceptions
<1>7. ASSUME NEW done \in SUBSET Effects, NextPlatform(w, done)
      PROVE  worker' \in [Workers -> WorkerState]
    <2>1. worker[w].step + 1 \in Nat
        BY <1>2 DEF WorkerState
    <2> QED BY <1>2, <1>7, <2>1 DEF NextPlatform, WorkerState, Steps
<1> QED BY <1>1, <1>3, <1>4, <1>5, <1>6, <1>7

(* The step a worker is at, inside its plan, is an effect key.             *)
LEMMA EffectsOfPlan ==
    ASSUME FrameOK, NEW w \in Workers,
           \/ worker[w].pc \in BeforeReturn \cup AfterReturn \cup {"record"}
           \/ worker[w].pc = "handler" /\ worker[w].step <= Len(Plan[Job(w)])
    PROVE  Job(w) \in Jobs /\ Effect(w) \in Effects
<1>1. Job(w) \in Jobs
    BY DEF FrameOK, InFrame, BeforeReturn, AfterReturn
<1>2. Plan[Job(w)] \in Seq(Effects)
    BY <1>1, DurableJobsAssumption DEF DurableJobsAssumption
<1>3. worker[w].step \in 1..Len(Plan[Job(w)])
    BY <1>2 DEF FrameOK, InFrame, BeforeReturn, AfterReturn
<1> QED BY <1>1, <1>2, <1>3 DEF Effect

-----------------------------------------------------------------------------
(* Type correctness.                                                       *)

(* The queue starts with rows, workers and requests of their types.        *)
LEMMA InitTypes ==
    ASSUME Init
    PROVE  TypeOK
<1>1. AbsentRow \in Row
    BY DurableJobsAssumption DEF DurableJobsAssumption, AbsentRow, Row, JobStatus
<1>2. IdleWorker \in WorkerState
    BY DEF IdleWorker, WorkerState, NoVerdict, Verdict, Steps, Exceptions
<1>3. IdleRequest \in RequestState
    BY DEF IdleRequest, RequestState, JobStatus
<1> QED BY <1>1, <1>2, <1>3 DEF Init, TypeOK, EffectStatus

(* A claim and a poll rewrite the tables through recovery.                 *)
LEMMA ClaimTypes ==
    ASSUME TypeOK, NEW w \in Workers, ClaimJob(w)
    PROVE  TypeOK'
<1>1. PICK j \in Jobs :
        /\ jobs' = [RecoveredJobs EXCEPT ![j] = ClaimedRow(@, w)]
        /\ attempts' = [RecoveredAttempts EXCEPT ![j] = Append(@, "running")]
        /\ worker' = [worker EXCEPT ![w] =
                        [IdleWorker EXCEPT !.pc = "handler", !.job = j, !.step = 1,
                                           !.done = jobs[j].checkpoint]]
    BY DEF ClaimJob, First, Claimable
<1>2. jobs' \in [Jobs -> Row]
    <2>1. ClaimedRow(RecoveredJobs[j], w) \in Row
        BY RecoveryTypes, RowTypes
    <2> QED BY <1>1, <2>1, RecoveryTypes
<1>3. attempts' \in [Jobs -> Seq(AttemptStatus)]
    <2>1. RecoveredAttempts[j] \in Seq(AttemptStatus)
        BY RecoveryTypes
    <2>2. Append(RecoveredAttempts[j], "running") \in Seq(AttemptStatus)
        BY <2>1, AppendProperties DEF AttemptStatus
    <2> QED BY <1>1, <2>2, RecoveryTypes
<1>4. worker' \in [Workers -> WorkerState]
    <2>1. jobs[j].checkpoint \in SUBSET Effects
        BY DEF TypeOK, Row
    <2>2. [IdleWorker EXCEPT !.pc = "handler", !.job = j, !.step = 1,
                             !.done = jobs[j].checkpoint] \in WorkerState
        BY <2>1, WorkerMoves DEF WorkerState, Steps
    <2> QED BY <1>1, <2>2 DEF TypeOK
<1>5. effects' \in [Jobs -> [Effects -> EffectStatus]]
    BY RecoveryTypes DEF ClaimJob
<1> QED
    BY <1>2, <1>3, <1>4, <1>5 DEF ClaimJob, TypeOK, history

(* So does a recovery on its own.                                          *)
LEMMA RecoverTypes ==
    ASSUME TypeOK, RecoverOrphanedJobs
    PROVE  TypeOK'
BY RecoveryTypes DEF RecoverOrphanedJobs, TypeOK, history

(* The writes a worker's step is built from keep the type of their table.  *)
LEMMA WriteTypes ==
    ASSUME TypeOK, NEW w \in Workers
    PROVE  /\ \A row \in Row : SetJob(w, row) => jobs' \in [Jobs -> Row]
           /\ \A n : \A s \in AttemptStatus :
                 SetAttempt(w, n, s) => attempts' \in [Jobs -> Seq(AttemptStatus)]
           /\ \A s \in EffectStatus :
                 SetEffect(w, s) => effects' \in [Jobs -> [Effects -> EffectStatus]]
           /\ \A x \in WorkerState :
                 worker' = [worker EXCEPT ![w] = x] => worker' \in [Workers -> WorkerState]
<1>1. ASSUME NEW row \in Row, SetJob(w, row)
      PROVE  jobs' \in [Jobs -> Row]
    BY <1>1 DEF SetJob, TypeOK
<1>2. ASSUME NEW n, NEW s \in AttemptStatus, SetAttempt(w, n, s)
      PROVE  attempts' \in [Jobs -> Seq(AttemptStatus)]
    <2>1. attempts \in [Jobs -> Seq(AttemptStatus)]
        BY DEF TypeOK
    <2>2. CASE Job(w) \in Jobs
        <3>1. [attempts[Job(w)] EXCEPT ![n] = s] \in Seq(AttemptStatus)
            BY <2>1, <2>2, OverwriteEntry
        <3> QED BY <1>2, <2>1, <3>1 DEF SetAttempt
    <2>3. CASE Job(w) \notin Jobs
        BY <1>2, <2>1, <2>3 DEF SetAttempt
    <2> QED BY <2>2, <2>3
<1>3. ASSUME NEW s \in EffectStatus, SetEffect(w, s)
      PROVE  effects' \in [Jobs -> [Effects -> EffectStatus]]
    BY <1>3, CellWrite DEF SetEffect, TypeOK
<1>4. ASSUME NEW x \in WorkerState, worker' = [worker EXCEPT ![w] = x]
      PROVE  worker' \in [Workers -> WorkerState]
    BY <1>4 DEF TypeOK
<1> QED BY <1>1, <1>2, <1>3, <1>4

(* One step per action of a worker between its claim and its next poll.    *)
LEMMA WorkerTypes ==
    ASSUME TypeOK, FrameOK, NEW w \in Workers, WorkerStep(w)
    PROVE  TypeOK'
<1> USE DEF tables, history
<1>0. /\ worker[w] \in WorkerState
      /\ worker[w].pc \notin {"idle", "down"} => Job(w) \in Jobs /\ jobs[Job(w)] \in Row
    BY DEF TypeOK, FrameOK, InFrame
<1>1. CASE ClaimJob(w)
    BY <1>1, ClaimTypes
<1>2. CASE PollEmpty(w)
    BY <1>2, RecoverTypes DEF PollEmpty
<1>3. CASE BeginEffect(w)
    <2>1. worker' \in [Workers -> WorkerState]
        BY <1>3, WorkerMoves DEF BeginEffect, Steps, Exceptions
    <2>2. effects' \in [Jobs -> [Effects -> EffectStatus]]
        BY <1>3, WriteTypes DEF BeginEffect, EffectStatus, TypeOK
    <2>3. invoked' \in [Jobs -> [Effects -> Nat]]
        <3>1. Job(w) \in Jobs /\ Effect(w) \in Effects
            BY <1>3, EffectsOfPlan DEF BeginEffect
        <3>2. invoked \in [Jobs -> [Effects -> Nat]]
            BY DEF TypeOK
        <3> QED BY <1>3, <3>1, <3>2, CounterWrite DEF BeginEffect
    <2> QED BY <1>3, <2>1, <2>2, <2>3 DEF BeginEffect, TypeOK
<1>4. CASE OperationReturns(w)
    <2>1. worker' \in [Workers -> WorkerState]
        BY <1>4, WorkerMoves DEF OperationReturns, Steps
    <2>2. succeeded' \in [Jobs -> [Effects -> Nat]]
        <3>1. Job(w) \in Jobs /\ Effect(w) \in Effects
            BY <1>4, EffectsOfPlan DEF OperationReturns, BeforeReturn
        <3>2. succeeded \in [Jobs -> [Effects -> Nat]]
            BY DEF TypeOK
        <3> QED BY <1>4, <3>1, <3>2, CounterWrite DEF OperationReturns
    <2> QED BY <1>4, <2>1, <2>2 DEF OperationReturns, TypeOK
<1>5. CASE OperationFails(w)
    BY <1>5, WorkerMoves DEF OperationFails, Steps, Exceptions, TypeOK
<1>6. CASE CheckResult(w)
    BY <1>6, WorkerMoves DEF CheckResult, Steps, TypeOK
<1>7. CASE CompleteJobEffect(w)
    <2>1. worker' \in [Workers -> WorkerState]
        BY <1>7, WorkerMoves DEF CompleteJobEffect, Steps, Exceptions
    <2>2. effects' \in [Jobs -> [Effects -> EffectStatus]]
        BY <1>7, WriteTypes DEF CompleteJobEffect, EffectStatus, TypeOK
    <2> QED BY <1>7, <2>1, <2>2 DEF CompleteJobEffect, TypeOK
<1>8. CASE CheckAbort(w)
    BY <1>8, WorkerMoves DEF CheckAbort, Steps, TypeOK
<1>9. CASE AbortJobEffect(w)
    <2>1. worker' \in [Workers -> WorkerState]
        BY <1>9, WorkerMoves DEF AbortJobEffect, Exceptions
    <2>2. effects' \in [Jobs -> [Effects -> EffectStatus]]
        BY <1>9, WriteTypes DEF AbortJobEffect, EffectStatus, TypeOK
    <2> QED BY <1>9, <2>1, <2>2 DEF AbortJobEffect, TypeOK
<1>10. CASE CheckpointJob(w)
    <2> DEFINE recorded == worker[w].done \cup {Effect(w)}
    <2>1. worker[w].done \in SUBSET Effects
        BY <1>0 DEF WorkerState
    <2>2. Effect(w) \in Effects
        BY <1>10, EffectsOfPlan DEF CheckpointJob
    <2>3. recorded \in SUBSET Effects
        BY <2>1, <2>2
    <2>4. CASE Effect(w) \in worker[w].done
        BY <1>10, <2>1, <2>4, WorkerMoves DEF CheckpointJob, TypeOK
    <2>5. CASE CheckStoppedRaises(w) /\ UNCHANGED jobs
        BY <1>10, <2>5, WorkerMoves DEF CheckpointJob, TypeOK
    <2>6. CASE /\ SetJob(w, [jobs[Job(w)] EXCEPT !.checkpoint = recorded])
               /\ NextPlatform(w, recorded)
        <3>1. jobs[Job(w)] \in Row
            BY <1>0, <1>10 DEF CheckpointJob
        <3>2. [jobs[Job(w)] EXCEPT !.checkpoint = recorded] \in Row
            BY <3>1, <2>3 DEF Row
        <3>3. jobs' \in [Jobs -> Row]
            BY <2>6, <3>2, WriteTypes
        <3>4. worker' \in [Workers -> WorkerState]
            BY <2>3, <2>6, WorkerMoves
        <3> QED BY <1>10, <3>3, <3>4 DEF CheckpointJob, TypeOK
    <2> QED BY <1>10, <2>4, <2>5, <2>6 DEF CheckpointJob
<1>11. CASE HandlerRaises(w)
    BY <1>11, WorkerMoves DEF HandlerRaises, Exceptions, TypeOK
<1>12. CASE HandlerReturns(w)
    BY <1>12, WorkerMoves DEF HandlerReturns, Steps, TypeOK
<1>13. CASE CompleteJob(w)
    <2>1. Unclaimed(jobs[Job(w)], "completed") \in Row
        BY <1>0, <1>13, RowTypes DEF CompleteJob, JobStatus, Terminal
    <2>2. jobs' \in [Jobs -> Row]
        BY <1>13, <2>1, WriteTypes DEF CompleteJob, TypeOK
    <2>3. "completed" \in AttemptStatus
        BY DEF AttemptStatus, Terminal
    <2>4. attempts' \in [Jobs -> Seq(AttemptStatus)]
        BY <1>13, <2>3, WriteTypes DEF CompleteJob, TypeOK
    <2> QED BY <1>13, <2>2, <2>4, WorkerMoves DEF CompleteJob, TypeOK
<1>14. CASE CheckFail(w)
    <2>1. jobs[Job(w)] \in Row
        BY <1>0, <1>14 DEF CheckFail
    <2>2. FailVerdict(jobs[Job(w)], worker[w].raised) \in Verdict
        BY <2>1 DEF FailVerdict, Verdict, Row
    <2>3. [IdleWorker EXCEPT !.pc = "failwrite", !.job = Job(w),
              !.seen = FailVerdict(jobs[Job(w)], worker[w].raised)] \in WorkerState
        BY <1>0, <2>2, WorkerMoves DEF WorkerState, Steps, Job
    <2>4. [IdleWorker EXCEPT !.pc = "down"] \in WorkerState
        BY WorkerMoves DEF WorkerState, Steps
    <2> QED BY <1>14, <2>3, <2>4, WriteTypes DEF CheckFail, TypeOK
<1>15. CASE FailJob(w)
    <2>1. worker[w].seen \in Verdict
        BY <1>0 DEF WorkerState
    <2>2. worker[w].seen.status \in JobStatus /\ worker[w].seen.status \in AttemptStatus
        BY <2>1 DEF Verdict, JobStatus, AttemptStatus, Terminal, Waiting
    <2>3. Unclaimed(jobs[Job(w)], worker[w].seen.status) \in Row
        BY <1>0, <1>15, <2>2, RowTypes DEF FailJob
    <2>4. jobs' \in [Jobs -> Row]
        BY <1>15, <2>3, RowTypes, WriteTypes DEF FailJob
    <2>5. attempts' \in [Jobs -> Seq(AttemptStatus)]
        BY <1>15, <2>2, WriteTypes DEF FailJob
    <2> QED BY <1>15, <2>4, <2>5, WorkerMoves DEF FailJob, TypeOK
<1>16. CASE CheckDefer(w)
    <2>1. jobs[Job(w)] \in Row
        BY <1>0, <1>16 DEF CheckDefer
    <2>2. [status |-> "waiting", attempt |-> jobs[Job(w)].attempt_count] \in Verdict
        BY <2>1 DEF Verdict, Row
    <2>3. [IdleWorker EXCEPT !.pc = "deferwrite", !.job = Job(w),
              !.seen = [status |-> "waiting",
                        attempt |-> jobs[Job(w)].attempt_count]] \in WorkerState
        BY <1>0, <2>2, WorkerMoves DEF WorkerState, Steps, Job
    <2>4. [IdleWorker EXCEPT !.pc = "down"] \in WorkerState
        BY WorkerMoves DEF WorkerState, Steps
    <2> QED BY <1>16, <2>3, <2>4, WriteTypes DEF CheckDefer, TypeOK
<1>17. CASE DeferJob(w)
    <2>1. "waiting" \in JobStatus /\ "waiting" \in AttemptStatus
        BY DEF JobStatus, AttemptStatus, Waiting
    <2>2. Unclaimed(jobs[Job(w)], "waiting") \in Row
        BY <1>0, <1>17, <2>1, RowTypes DEF DeferJob
    <2>3. jobs' \in [Jobs -> Row]
        BY <1>17, <2>2, RowTypes, WriteTypes DEF DeferJob
    <2>4. attempts' \in [Jobs -> Seq(AttemptStatus)]
        BY <1>17, <2>1, WriteTypes DEF DeferJob
    <2> QED BY <1>17, <2>3, <2>4, WorkerMoves DEF DeferJob, TypeOK
<1> QED
    BY <1>1, <1>2, <1>3, <1>4, <1>5, <1>6, <1>7, <1>8, <1>9, <1>10, <1>11,
       <1>12, <1>13, <1>14, <1>15, <1>16, <1>17 DEF WorkerStep

(* The steps of the environment and of the API.                            *)
LEMMA ClientTypes ==
    ASSUME TypeOK, NEW c \in Clients, ClientStep(c)
    PROVE  TypeOK'
<1> USE DEF tables, history
<1>0. IdleRequest \in RequestState
    BY DEF IdleRequest, RequestState, JobStatus
<1>1. ASSUME NEW j \in Jobs, CheckCancel(c, j) \/ CheckRetry(c, j)
      PROVE  TypeOK'
    <2>1. jobs[j].status \in JobStatus
        BY DEF TypeOK, Row
    <2>2. request' \in [Clients -> RequestState]
        <3>1. /\ [pc |-> "cancel", job |-> j, seen |-> jobs[j].status] \in RequestState
              /\ [pc |-> "retry", job |-> j, seen |-> jobs[j].status] \in RequestState
            BY <2>1 DEF RequestState
        <3>2. request \in [Clients -> RequestState]
            BY DEF TypeOK
        <3> QED BY <1>1, <3>1, <3>2 DEF CheckCancel, CheckRetry
    <2> QED BY <1>1, <2>2 DEF CheckCancel, CheckRetry, TypeOK
<1>2. CASE RequestJobCancellation(c)
    <2>1. request[c] \in RequestState
        BY DEF TypeOK
    <2>2. request[c].job \in Jobs => CanceledRow(jobs[request[c].job], request[c].seen) \in Row
        BY <2>1, RowTypes DEF TypeOK, RequestState
    <2>3. jobs' \in [Jobs -> Row]
        BY <1>2, <2>2 DEF RequestJobCancellation, TypeOK
    <2> QED BY <1>0, <1>2, <2>3 DEF RequestJobCancellation, TypeOK
<1>3. CASE RetryJob(c)
    <2>1. request[c].job \in Jobs => RetriedRow(jobs[request[c].job]) \in Row
        BY RowTypes DEF TypeOK
    <2>2. jobs' \in [Jobs -> Row]
        BY <1>3, <2>1 DEF RetryJob, TypeOK
    <2>3. retries' \in [Jobs -> Nat]
        <3>1. request[c].job \in Jobs => retries[request[c].job] + 1 \in Nat
            BY DEF TypeOK
        <3> QED BY <1>3, <3>1 DEF RetryJob, TypeOK
    <2> QED BY <1>0, <1>3, <2>2, <2>3 DEF RetryJob, TypeOK
<1> QED BY <1>1, <1>2, <1>3 DEF ClientStep

(* So do the creation of a job and the passing of time.                    *)
LEMMA ClockTypes ==
    ASSUME TypeOK, NEW j \in Jobs, CreateJob(j) \/ ClockStep(j)
    PROVE  TypeOK'
<1> USE DEF tables, history
<1>1. jobs[j] \in Row
    BY DEF TypeOK
<1>2. /\ [jobs[j] EXCEPT !.status = "queued", !.available = "now"] \in Row
      /\ [jobs[j] EXCEPT !.lease = "lapsed"] \in Row
      /\ [jobs[j] EXCEPT !.available = "now"] \in Row
      /\ [jobs[j] EXCEPT !.dead = TRUE] \in Row
    BY <1>1 DEF Row, JobStatus, Waiting
<1>3. jobs' \in [Jobs -> Row]
    BY <1>2 DEF CreateJob, ClockStep, LeaseLapses, BackoffElapses, LifetimeEnds, TypeOK
<1> QED
    BY <1>3 DEF CreateJob, ClockStep, LeaseLapses, BackoffElapses, LifetimeEnds, TypeOK

(* So do heartbeats, timeouts, deaths and restarts of a worker process.    *)
LEMMA ProcessTypes ==
    ASSUME TypeOK, FrameOK, NEW w \in Workers,
           HeartbeatJob(w) \/ AttemptTimesOut(w) \/ Crash(w) \/ Restart(w)
    PROVE  TypeOK'
<1> USE DEF tables, history
<1>1. CASE HeartbeatJob(w)
    <2>1. jobs[Job(w)] \in Row
        BY <1>1 DEF HeartbeatJob, FrameOK, InFrame, TypeOK
    <2>2. [jobs[Job(w)] EXCEPT !.lease = "live"] \in Row
        BY <2>1 DEF Row
    <2> QED BY <1>1, <2>2, WriteTypes DEF HeartbeatJob, TypeOK
<1>2. CASE AttemptTimesOut(w)
    <2>1. [worker[w] EXCEPT !.late = TRUE] \in WorkerState
        BY DEF TypeOK, WorkerState
    <2> QED BY <1>2, <2>1 DEF AttemptTimesOut, TypeOK
<1>3. CASE Crash(w)
    <2>1. [IdleWorker EXCEPT !.pc = "down"] \in WorkerState
        BY WorkerMoves DEF WorkerState, Steps
    <2> QED BY <1>3, <2>1, WriteTypes DEF Crash, TypeOK
<1>4. CASE Restart(w)
    BY <1>4, WorkerMoves DEF Restart, Steps, TypeOK
<1> QED BY <1>1, <1>2, <1>3, <1>4

-----------------------------------------------------------------------------
(* The frame of a worker: which job and step it is at.                     *)

(* A step of w leaves the other workers where they are.                    *)
Alone(w) == \A v \in Workers \ {w} : worker'[v] = worker[v]

(* w has left its handler: it polls, is dead, or reports how it ended.     *)
Leaves(w) ==
    \/ worker'[w].pc \in {"idle", "down"}
    \/ /\ worker'[w].pc \in {"failing", "deferring", "failwrite", "deferwrite"}
       /\ worker'[w].job = Job(w)

(* w goes on in its handler, or from there to complete_job.                *)
Continues(w, pc) ==
    /\ worker'[w].pc = pc
    /\ worker'[w].job = worker[w].job
    /\ worker'[w].step = worker[w].step

(* What each way of moving on does to the frame of the worker.             *)
LEMMA WorkerShapes ==
    ASSUME TypeOK, NEW w \in Workers
    PROVE  /\ \A pc \in Steps : Goto(w, pc) => Alone(w) /\ Continues(w, pc)
           /\ Abandon(w) => Alone(w) /\ Leaves(w)
           /\ \A x \in Exceptions : Raise(w, x) => Alone(w) /\ Leaves(w)
           /\ CheckStoppedRaises(w) => Alone(w) /\ Leaves(w)
           /\ \A done : NextPlatform(w, done) =>
                 /\ Alone(w)
                 /\ worker'[w].pc = "handler"
                 /\ worker'[w].job = worker[w].job
                 /\ worker'[w].step = worker[w].step + 1
<1>1. worker \in [Workers -> WorkerState] /\ worker[w] \in WorkerState
    BY DEF TypeOK
<1>2. \A pc \in Steps : Goto(w, pc) => Alone(w) /\ Continues(w, pc)
    BY <1>1 DEF Goto, Alone, Continues, WorkerState
<1>3. Abandon(w) => Alone(w) /\ Leaves(w)
    BY <1>1 DEF Abandon, Alone, Leaves, IdleWorker
<1>4. ASSUME NEW x \in Exceptions, Raise(w, x)
      PROVE  Alone(w) /\ Leaves(w)
    BY <1>1, <1>4 DEF Raise, Alone, Leaves, IdleWorker
<1>5. CheckStoppedRaises(w) => Alone(w) /\ Leaves(w)
    BY <1>3, <1>4 DEF CheckStoppedRaises, StopCause, Exceptions
<1>6. ASSUME NEW done, NextPlatform(w, done)
      PROVE  /\ Alone(w)
             /\ worker'[w].pc = "handler"
             /\ worker'[w].job = worker[w].job
             /\ worker'[w].step = worker[w].step + 1
    BY <1>1, <1>6 DEF NextPlatform, Alone, WorkerState
<1> QED BY <1>2, <1>3, <1>4, <1>5, <1>6

(* Every way a worker's record can change keeps its frame.                 *)
LEMMA FrameMoves ==
    ASSUME TypeOK, FrameOK, NEW w \in Workers, Alone(w)
    PROVE  /\ Leaves(w) /\ worker[w].pc \notin {"idle", "down"} => FrameOK'
           /\ worker'[w].pc \in {"idle", "down"} => FrameOK'
           /\ \A pc \in Steps :
                 /\ Continues(w, pc)
                 /\ Job(w) \in Jobs
                 /\ pc \in BeforeReturn \cup AfterReturn \cup {"record"}
                       => worker[w].step \in 1..Len(Plan[Job(w)])
                 /\ pc # "handler"
                 /\ pc \in {"aborting", "releasing"} => Effect(w) \in Releasable
                 => FrameOK'
<1>1. \A v \in Workers \ {w} : InFrame(v)'
    BY DEF FrameOK, InFrame, Alone, Job, Effect
<1>2. ASSUME Leaves(w), worker[w].pc \notin {"idle", "down"}
      PROVE  InFrame(w)'
    BY <1>2 DEF FrameOK, InFrame, Leaves, Job, BeforeReturn, AfterReturn
<1>3. ASSUME worker'[w].pc \in {"idle", "down"}
      PROVE  InFrame(w)'
    BY <1>3 DEF InFrame, BeforeReturn, AfterReturn
<1>4. ASSUME NEW pc \in Steps, Continues(w, pc), Job(w) \in Jobs,
             pc \in BeforeReturn \cup AfterReturn \cup {"record"}
                       => worker[w].step \in 1..Len(Plan[Job(w)]),
             pc # "handler",
             pc \in {"aborting", "releasing"} => Effect(w) \in Releasable
      PROVE  InFrame(w)'
    BY <1>4 DEF InFrame, Continues, Job, Effect
<1> QED BY <1>1, <1>2, <1>3, <1>4 DEF FrameOK

(* A worker at a step of its plan.                                         *)
LEMMA FrameOfEffect ==
    ASSUME TypeOK, FrameOK, NEW w \in Workers,
           \/ worker[w].pc \in BeforeReturn \cup AfterReturn \cup {"record"}
           \/ worker[w].pc = "handler" /\ worker[w].step <= Len(Plan[Job(w)])
    PROVE  Job(w) \in Jobs /\ worker[w].step \in 1..Len(Plan[Job(w)])
<1>1. Job(w) \in Jobs
    BY DEF FrameOK, InFrame, BeforeReturn, AfterReturn
<1>2. Plan[Job(w)] \in Seq(Effects)
    BY <1>1, DurableJobsAssumption DEF DurableJobsAssumption
<1> QED BY <1>1, <1>2 DEF FrameOK, InFrame, BeforeReturn, AfterReturn

(* Every step of a worker keeps it in its frame, and the others in theirs. *)
LEMMA WorkerFrames ==
    ASSUME TypeOK, FrameOK, NEW w \in Workers, WorkerStep(w)
    PROVE  FrameOK'
<1> USE DEF tables, history, BeforeReturn, AfterReturn
<1>0. worker \in [Workers -> WorkerState]
    BY DEF TypeOK
<1>1. CASE ClaimJob(w)
    <2>1. PICK j \in Jobs :
            worker' = [worker EXCEPT ![w] =
                         [IdleWorker EXCEPT !.pc = "handler", !.job = j, !.step = 1,
                                            !.done = jobs[j].checkpoint]]
        BY <1>1 DEF ClaimJob, First, Claimable
    <2>2. Alone(w) /\ worker'[w].pc = "handler" /\ worker'[w].job = j /\ worker'[w].step = 1
        BY <1>0, <2>1 DEF Alone, IdleWorker
    <2>3. InFrame(w)'
        BY <2>2 DEF InFrame, Job
    <2>4. \A v \in Workers \ {w} : InFrame(v)'
        BY <2>2 DEF FrameOK, InFrame, Alone, Job, Effect
    <2> QED BY <2>3, <2>4 DEF FrameOK
<1>2. CASE PollEmpty(w)
    BY <1>2 DEF PollEmpty, RecoverOrphanedJobs, FrameOK, InFrame, Job, Effect
<1>3. CASE BeginEffect(w)
    <2>1. Job(w) \in Jobs /\ worker[w].step \in 1..Len(Plan[Job(w)])
        BY <1>3, FrameOfEffect DEF BeginEffect
    <2>2. CASE CheckStoppedRaises(w) \/ Raise(w, "uncertain")
        BY <1>3, <2>2, WorkerShapes, FrameMoves DEF BeginEffect, Exceptions
    <2>3. CASE Goto(w, "operate") \/ Goto(w, "record")
        BY <2>1, <2>3, WorkerShapes, FrameMoves DEF Steps
    <2> QED BY <1>3, <2>2, <2>3 DEF BeginEffect
<1>4. CASE OperationReturns(w)
    <2>1. Job(w) \in Jobs /\ worker[w].step \in 1..Len(Plan[Job(w)])
        BY <1>4, FrameOfEffect DEF OperationReturns
    <2> QED BY <1>4, <2>1, WorkerShapes, FrameMoves DEF OperationReturns, Steps
<1>5. CASE OperationFails(w)
    <2>1. Job(w) \in Jobs /\ worker[w].step \in 1..Len(Plan[Job(w)])
        BY <1>5, FrameOfEffect DEF OperationFails
    <2> QED BY <1>5, <2>1, WorkerShapes, FrameMoves DEF OperationFails, Steps, Exceptions
<1>6. CASE CheckResult(w)
    <2>1. Job(w) \in Jobs /\ worker[w].step \in 1..Len(Plan[Job(w)])
        BY <1>6, FrameOfEffect DEF CheckResult
    <2> QED BY <1>6, <2>1, WorkerShapes, FrameMoves DEF CheckResult, Steps
<1>7. CASE CompleteJobEffect(w)
    <2>1. Job(w) \in Jobs /\ worker[w].step \in 1..Len(Plan[Job(w)])
        BY <1>7, FrameOfEffect DEF CompleteJobEffect
    <2> QED BY <1>7, <2>1, WorkerShapes, FrameMoves DEF CompleteJobEffect, Steps, Exceptions
<1>8. CASE CheckAbort(w)
    <2>1. Job(w) \in Jobs /\ worker[w].step \in 1..Len(Plan[Job(w)])
        BY <1>8, FrameOfEffect DEF CheckAbort
    <2>2. Effect(w) \in Releasable
        BY <1>8 DEF CheckAbort, FrameOK, InFrame
    <2> QED BY <1>8, <2>1, <2>2, WorkerShapes, FrameMoves DEF CheckAbort, Steps
<1>9. CASE AbortJobEffect(w)
    BY <1>9, WorkerShapes, FrameMoves DEF AbortJobEffect, Exceptions
<1>10. CASE CheckpointJob(w)
    <2>1. Job(w) \in Jobs /\ worker[w].step \in 1..Len(Plan[Job(w)])
        BY <1>10, FrameOfEffect DEF CheckpointJob
    <2>2. CASE CheckStoppedRaises(w)
        BY <1>10, <2>2, WorkerShapes, FrameMoves DEF CheckpointJob
    <2>3. ASSUME NEW done, NextPlatform(w, done)
          PROVE  FrameOK'
        <3>1. /\ Alone(w)
              /\ worker'[w].pc = "handler"
              /\ worker'[w].job = worker[w].job
              /\ worker'[w].step = worker[w].step + 1
            BY <2>3, WorkerShapes
        <3>2. worker'[w].step \in Nat \ {0}
            BY <2>1, <3>1
        <3>3. InFrame(w)'
            BY <2>1, <3>1, <3>2 DEF InFrame, Job
        <3>4. \A v \in Workers \ {w} : InFrame(v)'
            BY <3>1 DEF FrameOK, InFrame, Alone, Job, Effect
        <3> QED BY <3>3, <3>4 DEF FrameOK
    <2> QED BY <1>10, <2>2, <2>3 DEF CheckpointJob
<1>11. CASE HandlerRaises(w)
    BY <1>11, WorkerShapes, FrameMoves DEF HandlerRaises, Exceptions
<1>12. CASE HandlerReturns(w)
    <2>1. Job(w) \in Jobs
        BY <1>12 DEF HandlerReturns, FrameOK, InFrame
    <2> QED BY <1>12, <2>1, WorkerShapes, FrameMoves DEF HandlerReturns, Steps
<1>13. CASE CompleteJob(w)
    BY <1>13, WorkerShapes, FrameMoves DEF CompleteJob
<1>14. CASE CheckFail(w)
    <2>1. Alone(w) /\ Leaves(w)
        BY <1>0, <1>14 DEF CheckFail, Alone, Leaves, IdleWorker
    <2> QED BY <1>14, <2>1, FrameMoves DEF CheckFail
<1>15. CASE FailJob(w)
    BY <1>15, WorkerShapes, FrameMoves DEF FailJob
<1>16. CASE CheckDefer(w)
    <2>1. Alone(w) /\ Leaves(w)
        BY <1>0, <1>16 DEF CheckDefer, Alone, Leaves, IdleWorker
    <2> QED BY <1>16, <2>1, FrameMoves DEF CheckDefer
<1>17. CASE DeferJob(w)
    BY <1>17, WorkerShapes, FrameMoves DEF DeferJob
<1> QED
    BY <1>1, <1>2, <1>3, <1>4, <1>5, <1>6, <1>7, <1>8, <1>9, <1>10, <1>11,
       <1>12, <1>13, <1>14, <1>15, <1>16, <1>17 DEF WorkerStep

(* So do the steps of its process.                                         *)
LEMMA ProcessFrames ==
    ASSUME TypeOK, FrameOK, NEW w \in Workers,
           HeartbeatJob(w) \/ AttemptTimesOut(w) \/ Crash(w) \/ Restart(w)
    PROVE  FrameOK'
<1>0. worker \in [Workers -> WorkerState] /\ worker[w] \in WorkerState
    BY DEF TypeOK
<1>1. CASE HeartbeatJob(w)
    BY <1>1 DEF HeartbeatJob, FrameOK, InFrame, Job, Effect
<1>2. CASE AttemptTimesOut(w)
    <2>1. \A v \in Workers : /\ worker'[v].pc = worker[v].pc
                             /\ worker'[v].job = worker[v].job
                             /\ worker'[v].step = worker[v].step
        BY <1>0, <1>2 DEF AttemptTimesOut, WorkerState
    <2> QED BY <2>1 DEF FrameOK, InFrame, Job, Effect
<1>3. CASE Crash(w)
    <2>1. Alone(w) /\ worker'[w].pc = "down"
        BY <1>0, <1>3 DEF Crash, Alone, IdleWorker
    <2> QED BY <2>1, FrameMoves
<1>4. CASE Restart(w)
    <2>1. Alone(w) /\ worker'[w].pc = "idle"
        BY <1>4, WorkerShapes DEF Restart, Continues, Steps
    <2> QED BY <2>1, FrameMoves
<1> QED BY <1>1, <1>2, <1>3, <1>4

(* The steps of others leave every worker where it is.                     *)
LEMMA OthersFrames ==
    ASSUME FrameOK, UNCHANGED worker
    PROVE  FrameOK'
BY DEF FrameOK, InFrame, Job, Effect

(* Jobs, the clock, recovery and requests do not touch the workers.        *)
LEMMA OthersAreWorkerless ==
    ASSUME \/ \E j \in Jobs : CreateJob(j) \/ ClockStep(j)
           \/ RecoverOrphanedJobs
           \/ \E c \in Clients : ClientStep(c)
    PROVE  UNCHANGED worker
BY DEF CreateJob, ClockStep, LeaseLapses, BackoffElapses, LifetimeEnds,
       RecoverOrphanedJobs, ClientStep, CheckCancel, CheckRetry,
       RequestJobCancellation, RetryJob

-----------------------------------------------------------------------------
(* The rows, counters and program counters always have their types, and a  *)
(* worker is never in the middle of a job or an effect that does not exist *)
(* (job_queue.py, worker.py).                                              *)
THEOREM TypesAndFrames == Spec => [](TypeOK /\ FrameOK)
<1>1. Init => TypeOK /\ FrameOK
    <2>1. Init => TypeOK
        BY InitTypes
    <2>2. Init => FrameOK
        BY DEF Init, FrameOK, InFrame, IdleWorker, BeforeReturn, AfterReturn
    <2> QED BY <2>1, <2>2
<1>2. TypeOK /\ FrameOK /\ [Next]_vars => (TypeOK /\ FrameOK)'
    <2> SUFFICES ASSUME TypeOK, FrameOK, [Next]_vars
                 PROVE  TypeOK' /\ FrameOK'
        OBVIOUS
    <2>1. ASSUME NEW j \in Jobs, CreateJob(j) \/ ClockStep(j)
          PROVE  TypeOK' /\ FrameOK'
        BY <2>1, ClockTypes, OthersAreWorkerless, OthersFrames
    <2>2. CASE RecoverOrphanedJobs
        BY <2>2, RecoverTypes, OthersAreWorkerless, OthersFrames
    <2>3. ASSUME NEW w \in Workers, WorkerStep(w)
          PROVE  TypeOK' /\ FrameOK'
        BY <2>3, WorkerTypes, WorkerFrames
    <2>4. ASSUME NEW w \in Workers,
                 HeartbeatJob(w) \/ AttemptTimesOut(w) \/ Crash(w) \/ Restart(w)
          PROVE  TypeOK' /\ FrameOK'
        BY <2>4, ProcessTypes, ProcessFrames
    <2>5. ASSUME NEW c \in Clients, ClientStep(c)
          PROVE  TypeOK' /\ FrameOK'
        BY <2>5, ClientTypes, OthersAreWorkerless, OthersFrames
    <2>6. CASE UNCHANGED vars
        BY <2>6 DEF vars, tables, history, TypeOK, FrameOK, InFrame, Job, Effect
    <2> QED BY <2>1, <2>2, <2>3, <2>4, <2>5, <2>6 DEF Next
<1> QED BY <1>1, <1>2, PTL DEF Spec

(* What is proved of types alone.                                          *)
THEOREM TypeCorrect == Spec => []TypeOK
BY TypesAndFrames, PTL

-----------------------------------------------------------------------------
(* The attempt budget: whatever crashes, lost leases, timeouts and stale   *)
(* requests do, a job never runs more often than it was created for plus   *)
(* once per explicit retry.  The budget alone is not inductive: it rests   *)
(* on the bound max_attempts carried by the row, which only retry_job      *)
(* raises, and on claim_job not claiming a job that has reached it.        *)

(* The counters of j's row and the length of its ledger stay as they are.  *)
SameBudget(j) ==
    /\ jobs'[j].attempt_count = jobs[j].attempt_count
    /\ jobs'[j].max_attempts = jobs[j].max_attempts
    /\ Len(attempts'[j]) = Len(attempts[j])

(* No row transformer but a claim and a retry touches the counters.        *)
LEMMA CountersKept ==
    ASSUME NEW row \in Row
    PROVE  /\ \A s : /\ Unclaimed(row, s).attempt_count = row.attempt_count
                     /\ Unclaimed(row, s).max_attempts = row.max_attempts
           /\ \A s, when : /\ Available(Unclaimed(row, s), when).attempt_count = row.attempt_count
                           /\ Available(Unclaimed(row, s), when).max_attempts = row.max_attempts
           /\ RecoveredRow(row).attempt_count = row.attempt_count
           /\ RecoveredRow(row).max_attempts = row.max_attempts
           /\ \A s : /\ CanceledRow(row, s).attempt_count = row.attempt_count
                     /\ CanceledRow(row, s).max_attempts = row.max_attempts
BY DEF Row, Unclaimed, Available, RecoveredRow, CanceledRow

(* Nor does recovery.                                                      *)
LEMMA RecoveryKeepsBudget ==
    ASSUME TypeOK, NEW j \in Jobs
    PROVE  /\ RecoveredJobs[j].attempt_count = jobs[j].attempt_count
           /\ RecoveredJobs[j].max_attempts = jobs[j].max_attempts
           /\ Len(RecoveredAttempts[j]) = Len(attempts[j])
<1>1. jobs[j] \in Row
    BY DEF TypeOK
<1> QED BY <1>1, CountersKept, RecoveryTypes DEF RecoveredJobs

(* A worker's write to the row and the ledger of its job keeps the budget  *)
(* of every job if the row it writes has the counters of the old one.      *)
LEMMA WritesKeepBudget ==
    ASSUME TypeOK, NEW w \in Workers, NEW row,
           SetJob(w, row),
           Job(w) \in Jobs => /\ row.attempt_count = jobs[Job(w)].attempt_count
                              /\ row.max_attempts = jobs[Job(w)].max_attempts,
           \/ UNCHANGED attempts
           \/ \E n \in Nat, s \in AttemptStatus : SetAttempt(w, n, s)
    PROVE  \A j \in Jobs : SameBudget(j)
<1>1. \A j \in Jobs : /\ jobs'[j].attempt_count = jobs[j].attempt_count
                      /\ jobs'[j].max_attempts = jobs[j].max_attempts
    BY DEF SetJob, TypeOK
<1>2. attempts \in [Jobs -> Seq(AttemptStatus)]
    BY DEF TypeOK
<1>3. ASSUME NEW n, NEW s \in AttemptStatus, SetAttempt(w, n, s), NEW j \in Jobs
      PROVE  Len(attempts'[j]) = Len(attempts[j])
    <2>1. Len([attempts[j] EXCEPT ![n] = s]) = Len(attempts[j])
        BY <1>2, OverwriteEntry
    <2> QED BY <1>2, <1>3, <2>1 DEF SetAttempt
<1> QED BY <1>1, <1>3 DEF SameBudget

(* No step of a worker but its claim spends anything.                      *)
LEMMA WorkerBudget ==
    ASSUME TypeOK, FrameOK, NEW w \in Workers, WorkerStep(w), ~ClaimJob(w)
    PROVE  UNCHANGED retries /\ \A j \in Jobs : SameBudget(j)
<1> USE DEF tables, history
<1>1. CASE PollEmpty(w)
    BY <1>1, RecoveryKeepsBudget DEF PollEmpty, RecoverOrphanedJobs, SameBudget
<1>2. CASE \/ BeginEffect(w) \/ OperationReturns(w) \/ OperationFails(w)
           \/ CheckResult(w) \/ CompleteJobEffect(w) \/ CheckAbort(w) \/ AbortJobEffect(w)
           \/ HandlerRaises(w) \/ HandlerReturns(w) \/ CheckFail(w) \/ CheckDefer(w)
    BY <1>2 DEF SameBudget, BeginEffect, OperationReturns, OperationFails, CheckResult,
       CompleteJobEffect, CheckAbort, AbortJobEffect, HandlerRaises, HandlerReturns,
       CheckFail, CheckDefer
<1>3. CASE CheckpointJob(w)
    <2>1. CASE UNCHANGED jobs
        BY <1>3, <2>1 DEF CheckpointJob, SameBudget
    <2>2. CASE \E recorded : SetJob(w, [jobs[Job(w)] EXCEPT !.checkpoint = recorded])
        <3>1. PICK recorded : SetJob(w, [jobs[Job(w)] EXCEPT !.checkpoint = recorded])
            BY <2>2
        <3>2. Job(w) \in Jobs => jobs[Job(w)] \in Row
            BY DEF TypeOK
        <3>3. \A j \in Jobs : SameBudget(j)
            BY <1>3, <3>1, <3>2, WritesKeepBudget DEF CheckpointJob, Row
        <3> QED BY <1>3, <3>3 DEF CheckpointJob
    <2> QED BY <1>3, <2>1, <2>2 DEF CheckpointJob
<1>4. CASE CompleteJob(w)
    <2>1. CASE UNCHANGED <<jobs, attempts>>
        BY <1>4, <2>1 DEF CompleteJob, SameBudget
    <2>2. CASE /\ SetJob(w, Unclaimed(jobs[Job(w)], "completed"))
               /\ SetAttempt(w, jobs[Job(w)].attempt_count, "completed")
        <3>1. Job(w) \in Jobs /\ jobs[Job(w)] \in Row
            BY <1>4 DEF CompleteJob, FrameOK, InFrame, TypeOK
        <3>2. jobs[Job(w)].attempt_count \in Nat /\ "completed" \in AttemptStatus
            BY <3>1 DEF Row, AttemptStatus, Terminal
        <3>3. \A j \in Jobs : SameBudget(j)
            BY <2>2, <3>1, <3>2, CountersKept, WritesKeepBudget
        <3> QED BY <1>4, <3>3 DEF CompleteJob
    <2> QED BY <1>4, <2>1, <2>2 DEF CompleteJob
<1>5. CASE FailJob(w) \/ DeferJob(w)
    <2>1. worker[w].seen \in Verdict
        BY DEF TypeOK, WorkerState
    <2>2. /\ worker[w].seen.attempt \in Nat
          /\ worker[w].seen.status \in AttemptStatus
          /\ "waiting" \in AttemptStatus
        BY <2>1 DEF Verdict, AttemptStatus, Terminal
    <2>3. Job(w) \in Jobs /\ jobs[Job(w)] \in Row
        BY <1>5 DEF FailJob, DeferJob, FrameOK, InFrame, TypeOK
    <2>4. PICK next, when : SetJob(w, Available(Unclaimed(jobs[Job(w)], next), when))
        BY <1>5 DEF FailJob, DeferJob
    <2>5. \E n \in Nat, s \in AttemptStatus : SetAttempt(w, n, s)
        BY <1>5, <2>2 DEF FailJob, DeferJob
    <2>6. \A j \in Jobs : SameBudget(j)
        BY <2>3, <2>4, <2>5, CountersKept, WritesKeepBudget
    <2> QED BY <1>5, <2>6 DEF FailJob, DeferJob
<1> QED BY <1>1, <1>2, <1>3, <1>4, <1>5 DEF WorkerStep

(* Everything else, but a retry.                                           *)
LEMMA OtherBudget ==
    ASSUME TypeOK, FrameOK,
           \/ \E j \in Jobs : CreateJob(j) \/ ClockStep(j)
           \/ RecoverOrphanedJobs
           \/ \E w \in Workers :
                 HeartbeatJob(w) \/ AttemptTimesOut(w) \/ Crash(w) \/ Restart(w)
           \/ \E c \in Clients :
                 RequestJobCancellation(c) \/ \E j \in Jobs : CheckCancel(c, j) \/ CheckRetry(c, j)
           \/ UNCHANGED vars
    PROVE  UNCHANGED retries /\ \A j \in Jobs : SameBudget(j)
<1> USE DEF tables, history
<1>0. jobs \in [Jobs -> Row]
    BY DEF TypeOK
<1>1. ASSUME NEW j \in Jobs, CreateJob(j) \/ ClockStep(j)
      PROVE  UNCHANGED retries /\ \A k \in Jobs : SameBudget(k)
    <2>1. PICK row : /\ jobs' = [jobs EXCEPT ![j] = row]
                     /\ row.attempt_count = jobs[j].attempt_count
                     /\ row.max_attempts = jobs[j].max_attempts
        BY <1>0, <1>1 DEF Row, CreateJob, ClockStep, LeaseLapses, BackoffElapses, LifetimeEnds
    <2> QED BY <1>0, <1>1, <2>1 DEF SameBudget, CreateJob, ClockStep, LeaseLapses,
                                    BackoffElapses, LifetimeEnds
<1>2. CASE RecoverOrphanedJobs
    BY <1>2, RecoveryKeepsBudget DEF RecoverOrphanedJobs, SameBudget
<1>3. ASSUME NEW w \in Workers, HeartbeatJob(w)
      PROVE  UNCHANGED retries /\ \A k \in Jobs : SameBudget(k)
    <2>1. Job(w) \in Jobs => jobs[Job(w)] \in Row
        BY DEF TypeOK
    <2> QED BY <1>3, <2>1, WritesKeepBudget DEF HeartbeatJob, Row
<1>4. ASSUME NEW w \in Workers, AttemptTimesOut(w) \/ Crash(w) \/ Restart(w)
      PROVE  UNCHANGED retries /\ \A k \in Jobs : SameBudget(k)
    BY <1>4 DEF AttemptTimesOut, Crash, Restart, SameBudget
<1>5. ASSUME NEW c \in Clients, RequestJobCancellation(c)
      PROVE  UNCHANGED retries /\ \A k \in Jobs : SameBudget(k)
    BY <1>0, <1>5, CountersKept DEF RequestJobCancellation, SameBudget
<1>6. ASSUME NEW c \in Clients, NEW j \in Jobs, CheckCancel(c, j) \/ CheckRetry(c, j)
      PROVE  UNCHANGED retries /\ \A k \in Jobs : SameBudget(k)
    BY <1>6 DEF CheckCancel, CheckRetry, SameBudget
<1>7. CASE UNCHANGED vars
    BY <1>7 DEF vars, SameBudget
<1> QED BY <1>1, <1>2, <1>3, <1>4, <1>5, <1>6, <1>7

(* A claim spends an attempt the row still has.                            *)
LEMMA ClaimSpends ==
    ASSUME TypeOK, AttemptInv, NEW w \in Workers, ClaimJob(w)
    PROVE  AttemptInv'
<1>1. PICK j \in Jobs :
        /\ RecoveredJobs[j].attempt_count < RecoveredJobs[j].max_attempts
        /\ jobs' = [RecoveredJobs EXCEPT ![j] = ClaimedRow(@, w)]
        /\ attempts' = [RecoveredAttempts EXCEPT ![j] = Append(@, "running")]
    BY DEF ClaimJob, First, Claimable
<1>2. /\ RecoveredJobs \in [Jobs -> Row]
      /\ RecoveredAttempts \in [Jobs -> Seq(AttemptStatus)]
    BY RecoveryTypes
<1>3. /\ ClaimedRow(RecoveredJobs[j], w).attempt_count = RecoveredJobs[j].attempt_count + 1
      /\ ClaimedRow(RecoveredJobs[j], w).max_attempts = RecoveredJobs[j].max_attempts
    BY <1>2 DEF ClaimedRow, Row
<1>4. Len(Append(RecoveredAttempts[j], "running")) = Len(RecoveredAttempts[j]) + 1
    BY <1>2, AppendProperties
<1>5. \A k \in Jobs : /\ RecoveredJobs[k].attempt_count \in Nat
                      /\ RecoveredJobs[k].max_attempts \in Nat
    BY <1>2 DEF Row
<1>6. retries' = retries
    BY DEF ClaimJob, history
<1> QED BY <1>1, <1>2, <1>3, <1>4, <1>5, <1>6, RecoveryKeepsBudget DEF AttemptInv

(* A retry of a spent job pays for one more attempt.                       *)
LEMMA RetryPays ==
    ASSUME TypeOK, AttemptInv, NEW c \in Clients, RetryJob(c)
    PROVE  AttemptInv'
<1>1. \A k \in Jobs : /\ jobs[k] \in Row
                      /\ jobs[k].attempt_count \in Nat /\ jobs[k].max_attempts \in Nat
                      /\ retries[k] \in Nat
    BY DEF TypeOK, Row
<1>2. \A k \in Jobs :
        /\ RetriedRow(jobs[k]).attempt_count = jobs[k].attempt_count
        /\ RetriedRow(jobs[k]).max_attempts =
              IF jobs[k].attempt_count >= jobs[k].max_attempts
              THEN jobs[k].attempt_count + 1 ELSE jobs[k].max_attempts
    BY <1>1 DEF RetriedRow, Row
<1>3. \A k \in Jobs : /\ jobs'[k] = IF k = request[c].job THEN RetriedRow(jobs[k]) ELSE jobs[k]
                      /\ retries'[k] = IF k = request[c].job THEN retries[k] + 1 ELSE retries[k]
                      /\ attempts'[k] = attempts[k]
    BY DEF RetryJob, TypeOK
<1>4. MaxAttempts \in Nat
    BY DurableJobsAssumption DEF DurableJobsAssumption
<1> SUFFICES ASSUME NEW k \in Jobs
             PROVE  /\ Len(attempts'[k]) = jobs'[k].attempt_count
                    /\ jobs'[k].attempt_count <= jobs'[k].max_attempts
                    /\ jobs'[k].max_attempts <= MaxAttempts + retries'[k]
    BY DEF AttemptInv
<1>5. /\ Len(attempts[k]) = jobs[k].attempt_count
      /\ jobs[k].attempt_count <= jobs[k].max_attempts
      /\ jobs[k].max_attempts <= MaxAttempts + retries[k]
    BY DEF AttemptInv
<1>6. CASE k = request[c].job
    <2>1. /\ jobs'[k] = RetriedRow(jobs[k])
          /\ retries'[k] = retries[k] + 1
          /\ attempts'[k] = attempts[k]
        BY <1>3, <1>6
    <2>2. /\ jobs'[k].attempt_count = jobs[k].attempt_count
          /\ jobs'[k].max_attempts =
                IF jobs[k].attempt_count >= jobs[k].max_attempts
                THEN jobs[k].attempt_count + 1 ELSE jobs[k].max_attempts
        BY <1>2, <2>1
    <2>3. /\ jobs[k].attempt_count \in Nat /\ jobs[k].max_attempts \in Nat
          /\ retries[k] \in Nat
        BY <1>1
    <2>4. /\ jobs'[k].attempt_count <= jobs'[k].max_attempts
          /\ jobs'[k].max_attempts <= MaxAttempts + (retries[k] + 1)
        BY <1>4, <1>5, <2>2, <2>3
    <2> QED BY <1>5, <2>1, <2>2, <2>4
<1>7. CASE k # request[c].job
    BY <1>3, <1>5, <1>7
<1> QED BY <1>6, <1>7

(* The ledger of a job has a row per attempt, and its counter never        *)
(* exceeds the attempts it was created with and those retries paid for     *)
(* (claim_job, retry_job).                                                 *)
THEOREM AttemptInvariant == Spec => []AttemptInv
<1>1. Init => AttemptInv
    BY DurableJobsAssumption DEF DurableJobsAssumption, Init, AttemptInv, AbsentRow
<1>2. TypeOK /\ FrameOK /\ AttemptInv /\ [Next]_vars => AttemptInv'
    <2> SUFFICES ASSUME TypeOK, FrameOK, AttemptInv, [Next]_vars
                 PROVE  AttemptInv'
        OBVIOUS
    <2>1. ASSUME UNCHANGED retries, \A j \in Jobs : SameBudget(j)
          PROVE  AttemptInv'
        <3> SUFFICES ASSUME NEW j \in Jobs
                     PROVE  /\ Len(attempts'[j]) = jobs'[j].attempt_count
                            /\ jobs'[j].attempt_count <= jobs'[j].max_attempts
                            /\ jobs'[j].max_attempts <= MaxAttempts + retries'[j]
            BY DEF AttemptInv
        <3>1. SameBudget(j) /\ retries'[j] = retries[j]
            BY <2>1
        <3> QED BY <3>1 DEF SameBudget, AttemptInv
    <2>2. ASSUME NEW w \in Workers, WorkerStep(w)
          PROVE  AttemptInv'
        BY <2>1, <2>2, ClaimSpends, WorkerBudget
    <2>3. ASSUME NEW c \in Clients, ClientStep(c)
          PROVE  AttemptInv'
        BY <2>1, <2>3, RetryPays, OtherBudget DEF ClientStep
    <2> QED BY <2>1, <2>2, <2>3, OtherBudget DEF Next
<1> QED BY <1>1, <1>2, TypesAndFrames, PTL DEF Spec

(* Crashes, timeouts and orphaned leases never buy a job more attempts     *)
(* than it was created with, plus one per explicit retry.                  *)
THEOREM AttemptsAreBudgeted == Spec => []AttemptBudget
<1>1. TypeOK /\ AttemptInv => AttemptBudget
    <2> SUFFICES ASSUME TypeOK, AttemptInv, NEW j \in Jobs
                 PROVE  jobs[j].attempt_count <= MaxAttempts + retries[j]
        BY DEF AttemptBudget
    <2>1. /\ jobs[j].attempt_count \in Nat /\ jobs[j].max_attempts \in Nat
          /\ retries[j] \in Nat /\ MaxAttempts \in Nat
        BY DurableJobsAssumption DEF DurableJobsAssumption, TypeOK, Row
    <2> QED BY <2>1 DEF AttemptInv
<1> QED BY <1>1, AttemptInvariant, TypesAndFrames, PTL

-----------------------------------------------------------------------------
(* The queue by itself: no request is under way and no live worker's       *)
(* heartbeat is late.  Then a worker that is in a job holds its claim, so  *)
(* that the writes by job id alone meet the row they were decided on.      *)

Working(w) == worker[w].pc \notin {"idle", "down"}
Attends(w) ==
    /\ Owns(w) /\ jobs[Job(w)].lease = "live"
    /\ worker[w].pc \in {"failwrite", "deferwrite"}
         => worker[w].seen.attempt = jobs[Job(w)].attempt_count
Attending == \A w \in Workers : Working(w) => Attends(w)

(* A row and its ledger: the newest attempt is open exactly while it runs. *)
OpenWhileRunning(row, ledger) ==
    /\ row.status = "running" => row.attempt_count # 0
    /\ \A n \in 1..Len(ledger) :
          ledger[n] = "running" <=> row.status = "running" /\ n = row.attempt_count
OpenInv == \A j \in Jobs : OpenWhileRunning(jobs[j], attempts[j])

Base == TypeOK /\ FrameOK /\ AttemptInv

(* What a claim is in the row of j is not touched.                         *)
SameClaim(j) ==
    /\ jobs'[j].status = jobs[j].status /\ jobs'[j].claimed_by = jobs[j].claimed_by
    /\ jobs'[j].lease = jobs[j].lease /\ jobs'[j].attempt_count = jobs[j].attempt_count

(* w moves on in its job, or out of it.                                    *)
Settles(w) ==
    \/ worker'[w].pc \in {"idle", "down"}
    \/ worker'[w].pc \notin {"failwrite", "deferwrite"} /\ worker'[w].job = Job(w)

LEMMA AttendedJobs ==
    ASSUME Base, Attending, NEW w \in Workers, Working(w)
    PROVE  /\ Job(w) \in Jobs /\ jobs[Job(w)] \in Row
           /\ jobs[Job(w)].status = "running" /\ jobs[Job(w)].claimed_by = w
           /\ jobs[Job(w)].lease = "live"
           /\ \A v \in Workers : Working(v) /\ Job(v) = Job(w) => v = w
BY DEF Base, TypeOK, FrameOK, InFrame, Working, Attending, Attends, Owns, HasClaim

LEMMA Stays ==
    ASSUME Base, Attending, NEW v \in Workers, worker'[v] = worker[v],
           Working(v) => SameClaim(Job(v))
    PROVE  Working(v)' => Attends(v)'
BY DEF Working, Attending, Attends, Owns, HasClaim, Job, SameClaim

(* A step of w that does not end its claim.                                *)
LEMMA ClaimKept ==
    ASSUME Base, Attending, NEW w \in Workers, Working(w), Alone(w), Settles(w),
           \A j \in Jobs : SameClaim(j)
    PROVE  Attending'
<1>1. Working(w)' => Attends(w)'
    BY AttendedJobs DEF Settles, Attending, Attends, Working, Owns, HasClaim, Job, SameClaim
<1>2. ASSUME NEW v \in Workers, v # w
      PROVE  Working(v)' => Attends(v)'
    BY <1>2, Stays, AttendedJobs DEF Alone
<1> QED BY <1>1, <1>2 DEF Attending

(* A step of w that ends it.                                               *)
LEMMA ClaimEnded ==
    ASSUME Base, Attending, NEW w \in Workers, Working(w), Alone(w), ~Working(w)',
           \A j \in Jobs \ {Job(w)} : SameClaim(j)
    PROVE  Attending'
<1>1. ASSUME NEW v \in Workers, v # w
      PROVE  Working(v)' => Attends(v)'
    BY <1>1, Stays, AttendedJobs DEF Alone
<1> QED BY <1>1 DEF Attending

LEMMA SettledMoves ==
    ASSUME TypeOK, NEW w \in Workers
    PROVE  /\ \A pc \in Steps \ {"failwrite", "deferwrite"} :
                 Goto(w, pc) => Alone(w) /\ Settles(w)
           /\ Abandon(w) => Alone(w) /\ Settles(w) /\ ~Working(w)'
           /\ \A x \in Exceptions : Raise(w, x) => Alone(w) /\ Settles(w)
           /\ CheckStoppedRaises(w) => Alone(w) /\ Settles(w)
           /\ \A done : NextPlatform(w, done) => Alone(w) /\ Settles(w)
<1>1. worker \in [Workers -> WorkerState] /\ worker[w] \in WorkerState
    BY DEF TypeOK
<1>2. ASSUME NEW pc \in Steps \ {"failwrite", "deferwrite"}, Goto(w, pc)
      PROVE  Alone(w) /\ Settles(w)
    BY <1>2, WorkerShapes DEF Continues, Settles, Job
<1>3. Abandon(w) => Alone(w) /\ Settles(w) /\ ~Working(w)'
    BY <1>1 DEF Abandon, Alone, Settles, Working, IdleWorker
<1>4. ASSUME NEW x \in Exceptions, Raise(w, x)
      PROVE  Alone(w) /\ Settles(w)
    BY <1>1, <1>4 DEF Raise, Alone, Settles, IdleWorker
<1>5. CheckStoppedRaises(w) => Alone(w) /\ Settles(w)
    BY <1>3, <1>4 DEF CheckStoppedRaises, StopCause, Exceptions
<1>6. ASSUME NEW done, NextPlatform(w, done)
      PROVE  Alone(w) /\ Settles(w)
    BY <1>6, WorkerShapes DEF Settles, Job
<1> QED BY <1>2, <1>3, <1>4, <1>5, <1>6

(* Recovery leaves a job that a worker is in alone: its lease is live.     *)
LEMMA RecoveryLeaves ==
    ASSUME Base, Attending, OpenInv
    PROVE  /\ \A w \in Workers : Working(w) => RecoveredJobs[Job(w)] = jobs[Job(w)]
           /\ \A j \in Jobs : OpenWhileRunning(RecoveredJobs[j], RecoveredAttempts[j])
           /\ \A j \in Jobs : jobs[j].status = "running" /\ jobs[j].lease = "live"
                                 => RecoveredJobs[j] = jobs[j]
<1>1. ASSUME NEW j \in Jobs, jobs[j].status = "running", jobs[j].lease = "live"
      PROVE  RecoveredJobs[j] = jobs[j]
    BY <1>1 DEF RecoveredJobs, Expirable, Orphaned, Waiting
<1>2. \A w \in Workers : Working(w) => RecoveredJobs[Job(w)] = jobs[Job(w)]
    BY <1>1, AttendedJobs
<1>3. ASSUME NEW j \in Jobs
      PROVE  OpenWhileRunning(RecoveredJobs[j], RecoveredAttempts[j])
    <2>1. /\ jobs[j] \in Row /\ attempts[j] \in Seq(AttemptStatus)
          /\ Len(attempts[j]) = jobs[j].attempt_count
          /\ OpenWhileRunning(jobs[j], attempts[j])
        BY DEF Base, TypeOK, AttemptInv, OpenInv
    <2>2. Len(RecoveredAttempts[j]) = Len(attempts[j])
        BY RecoveryTypes DEF Base
    <2>3. \A n \in 1..Len(attempts[j]) :
             RecoveredAttempts[j][n] =
                 IF Orphaned(j) /\ n = jobs[j].attempt_count /\ attempts[j][n] = "running"
                 THEN "orphaned" ELSE attempts[j][n]
        BY DEF RecoveredAttempts
    <2>4. CASE Expirable(j)
        <3>1. RecoveredJobs[j] = Unclaimed(jobs[j], "expired")
            BY <2>4 DEF RecoveredJobs
        <3>2. RecoveredJobs[j].status = "expired"
            BY <2>1, <3>1 DEF Unclaimed, Row
        <3>3. ~Orphaned(j) /\ jobs[j].status # "running"
            BY <2>4 DEF Expirable, Orphaned, Waiting
        <3> QED BY <2>1, <2>2, <2>3, <3>2, <3>3 DEF OpenWhileRunning
    <2>5. CASE ~Expirable(j) /\ Orphaned(j)
        <3>1. RecoveredJobs[j] = RecoveredRow(jobs[j]) /\ jobs[j].status = "running"
            BY <2>5 DEF RecoveredJobs, Orphaned
        <3>2. RecoveredJobs[j].status # "running"
            BY <2>1, <3>1 DEF RecoveredRow, OrphanStatus, Unclaimed, Available, Row
        <3>3. \A n \in 1..Len(attempts[j]) : RecoveredAttempts[j][n] # "running"
            BY <2>1, <2>3, <2>5, <3>1 DEF OpenWhileRunning
        <3> QED BY <2>2, <3>2, <3>3 DEF OpenWhileRunning
    <2>6. CASE ~Expirable(j) /\ ~Orphaned(j)
        <3>1. RecoveredJobs[j] = jobs[j]
            BY <2>6 DEF RecoveredJobs
        <3> QED BY <2>1, <2>2, <2>3, <2>6, <3>1 DEF OpenWhileRunning
    <2> QED BY <2>4, <2>5, <2>6
<1> QED BY <1>1, <1>2, <1>3

LEMMA RecoverAttends ==
    ASSUME Base, Attending, OpenInv, RecoverOrphanedJobs
    PROVE  Attending' /\ OpenInv'
<1>1. jobs' = RecoveredJobs /\ attempts' = RecoveredAttempts /\ UNCHANGED worker
    BY DEF RecoverOrphanedJobs
<1>2. ASSUME NEW w \in Workers
      PROVE  Working(w)' => Attends(w)'
    BY <1>1, <1>2, RecoveryLeaves, Stays DEF SameClaim
<1> QED BY <1>1, <1>2, RecoveryLeaves DEF Attending, OpenInv

LEMMA ClaimAttends ==
    ASSUME Base, Attending, OpenInv, NEW w \in Workers, ClaimJob(w)
    PROVE  Attending' /\ OpenInv'
<1>1. PICK j \in Jobs :
        /\ RecoveredJobs[j].status \in Waiting
        /\ jobs' = [RecoveredJobs EXCEPT ![j] = ClaimedRow(@, w)]
        /\ attempts' = [RecoveredAttempts EXCEPT ![j] = Append(@, "running")]
        /\ worker' = [worker EXCEPT ![w] =
                        [IdleWorker EXCEPT !.pc = "handler", !.job = j, !.step = 1,
                                           !.done = jobs[j].checkpoint]]
    BY DEF ClaimJob, First, Claimable
<1>2. /\ RecoveredJobs \in [Jobs -> Row]
      /\ RecoveredAttempts \in [Jobs -> Seq(AttemptStatus)]
      /\ Len(RecoveredAttempts[j]) = RecoveredJobs[j].attempt_count
      /\ RecoveredJobs[j].attempt_count \in Nat
      /\ OpenWhileRunning(RecoveredJobs[j], RecoveredAttempts[j])
    <2>1. /\ RecoveredJobs \in [Jobs -> Row]
          /\ RecoveredAttempts \in [Jobs -> Seq(AttemptStatus)]
        BY RecoveryTypes DEF Base
    <2>2. RecoveredJobs[j].attempt_count \in Nat
        BY <2>1 DEF Row
    <2> QED BY <2>1, <2>2, RecoveryKeepsBudget, RecoveryLeaves DEF Base, AttemptInv
<1>3. /\ jobs'[j].status = "running" /\ jobs'[j].claimed_by = w /\ jobs'[j].lease = "live"
      /\ jobs'[j].attempt_count = RecoveredJobs[j].attempt_count + 1
    <2>1. jobs'[j] = ClaimedRow(RecoveredJobs[j], w) /\ RecoveredJobs[j] \in Row
        BY <1>1, <1>2
    <2> QED BY <2>1 DEF ClaimedRow, Row
<1>4. \A k \in Jobs \ {j} : jobs'[k] = RecoveredJobs[k] /\ attempts'[k] = RecoveredAttempts[k]
    BY <1>1, <1>2
<1>5. /\ worker'[w].pc = "handler" /\ worker'[w].job = j
      /\ \A v \in Workers \ {w} : worker'[v] = worker[v]
    BY <1>1 DEF Base, TypeOK, IdleWorker
<1>6. Working(w)' => Attends(w)'
    BY <1>3, <1>5 DEF Attends, Owns, HasClaim, Job
<1>7. ASSUME NEW v \in Workers, v # w
      PROVE  Working(v)' => Attends(v)'
    <2>1. Working(v) => Job(v) # j /\ Job(v) \in Jobs /\ RecoveredJobs[Job(v)] = jobs[Job(v)]
        BY <1>1, RecoveryLeaves, AttendedJobs DEF Waiting
    <2>2. Working(v) => SameClaim(Job(v))
        BY <1>4, <2>1 DEF SameClaim
    <2> QED BY <1>5, <1>7, <2>2, Stays
<1>8. OpenWhileRunning(jobs[j], attempts[j])'
    <2>1. /\ attempts'[j] = Append(RecoveredAttempts[j], "running")
          /\ RecoveredAttempts[j] \in Seq(AttemptStatus)
        BY <1>1, <1>2
    <2>2. /\ Len(attempts'[j]) = Len(RecoveredAttempts[j]) + 1
          /\ attempts'[j][Len(RecoveredAttempts[j]) + 1] = "running"
          /\ \A n \in 1..Len(RecoveredAttempts[j]) : attempts'[j][n] = RecoveredAttempts[j][n]
        BY <2>1, AppendProperties
    <2>3. \A n \in 1..Len(RecoveredAttempts[j]) : RecoveredAttempts[j][n] # "running"
        BY <1>1, <1>2 DEF OpenWhileRunning, Waiting
    <2>4. PICK len \in Nat : len = Len(RecoveredAttempts[j])
        BY <1>2
    <2>5. ASSUME NEW n \in 1..Len(attempts'[j])
          PROVE  attempts'[j][n] = "running" <=> n = len + 1
        <3>1. n \in 1..len \/ n = len + 1
            BY <2>2, <2>4
        <3> QED BY <2>2, <2>3, <2>4, <3>1
    <2>6. jobs'[j].attempt_count = len + 1
        BY <1>2, <1>3, <2>4
    <2>7. OpenWhileRunning(jobs'[j], attempts'[j])
        BY <1>3, <2>5, <2>6 DEF OpenWhileRunning
    <2> QED BY <2>7
<1>9. \A k \in Jobs \ {j} : OpenWhileRunning(jobs'[k], attempts'[k])
    BY <1>4, RecoveryLeaves
<1> QED BY <1>6, <1>7, <1>8, <1>9 DEF Attending, OpenInv

(* complete_job, fail_job and defer_job close the attempt of their claim.  *)
LEMMA ClosedAttempt ==
    ASSUME Base, Attending, OpenInv, NEW w \in Workers, Working(w), NEW row, NEW s,
           SetJob(w, row), row.status # "running",
           SetAttempt(w, jobs[Job(w)].attempt_count, s), s # "running", s \in AttemptStatus,
           Abandon(w)
    PROVE  Attending' /\ OpenInv'
<1> DEFINE j == Job(w)
<1>1. /\ j \in Jobs /\ jobs \in [Jobs -> Row] /\ jobs[j].status = "running"
      /\ attempts \in [Jobs -> Seq(AttemptStatus)] /\ jobs[j].attempt_count \in Nat
    BY AttendedJobs DEF Base, TypeOK, Row
<1>2. Len(attempts[j]) = jobs[j].attempt_count /\ OpenWhileRunning(jobs[j], attempts[j])
    BY <1>1 DEF Base, AttemptInv, OpenInv
<1>3. /\ jobs'[j].status # "running"
      /\ \A k \in Jobs \ {j} : jobs'[k] = jobs[k] /\ attempts'[k] = attempts[k]
      /\ attempts'[j] = [attempts[j] EXCEPT ![jobs[j].attempt_count] = s]
    BY <1>1 DEF SetJob, SetAttempt
<1>4. Alone(w) /\ ~Working(w)'
    BY SettledMoves DEF Base
<1>5. Attending'
    BY <1>3, <1>4, ClaimEnded DEF SameClaim
<1>6. Len(attempts'[j]) = Len(attempts[j])
    BY <1>1, <1>3, OverwriteEntry
<1>7. \A n \in 1..Len(attempts[j]) :
         attempts'[j][n] = IF n = jobs[j].attempt_count THEN s ELSE attempts[j][n]
    BY <1>1, <1>3
<1>8. \A n \in 1..Len(attempts[j]) : attempts'[j][n] # "running"
    BY <1>2, <1>7 DEF OpenWhileRunning
<1>9. OpenWhileRunning(jobs'[j], attempts'[j])
    BY <1>3, <1>6, <1>8 DEF OpenWhileRunning
<1>10. \A k \in Jobs \ {j} : OpenWhileRunning(jobs'[k], attempts'[k])
    BY <1>3 DEF OpenInv
<1> QED BY <1>5, <1>9, <1>10 DEF OpenInv

LEMMA WorkerAttends ==
    ASSUME Base, Attending, OpenInv, NEW w \in Workers, WorkerStep(w)
    PROVE  Attending' /\ OpenInv'
<1> USE DEF tables, history
<1>0. /\ worker \in [Workers -> WorkerState] /\ worker[w] \in WorkerState
      /\ jobs \in [Jobs -> Row] /\ TypeOK
    BY DEF Base, TypeOK
<1>1. CASE ClaimJob(w)
    BY <1>1, ClaimAttends
<1>2. CASE PollEmpty(w)
    BY <1>2, RecoverAttends DEF PollEmpty
<1>3. ASSUME UNCHANGED <<jobs, attempts>>, Working(w), Alone(w), Settles(w)
      PROVE  Attending' /\ OpenInv'
    <2>1. Attending'
        BY <1>3, ClaimKept DEF SameClaim
    <2> QED BY <1>3, <2>1 DEF OpenInv
<1>4. CASE BeginEffect(w)
    <2>1. Alone(w) /\ Settles(w)
        BY <1>0, <1>4, SettledMoves DEF BeginEffect, Steps, Exceptions
    <2> QED BY <1>3, <1>4, <2>1 DEF BeginEffect, Working
<1>5. CASE OperationReturns(w) \/ OperationFails(w)
    <2>1. Alone(w) /\ Settles(w)
        BY <1>0, <1>5, SettledMoves DEF OperationReturns, OperationFails, Steps, Exceptions
    <2> QED BY <1>3, <1>5, <2>1 DEF OperationReturns, OperationFails, Working
<1>6. CASE CheckResult(w)
    <2>1. Alone(w) /\ Settles(w)
        BY <1>0, <1>6, SettledMoves DEF CheckResult, Steps
    <2> QED BY <1>3, <1>6, <2>1 DEF CheckResult, Working
<1>7. CASE CompleteJobEffect(w)
    <2>1. Alone(w) /\ Settles(w)
        BY <1>0, <1>7, SettledMoves DEF CompleteJobEffect, Steps, Exceptions
    <2> QED BY <1>3, <1>7, <2>1 DEF CompleteJobEffect, Working
<1>8. CASE CheckAbort(w)
    <2>1. Alone(w) /\ Settles(w)
        BY <1>0, <1>8, SettledMoves DEF CheckAbort, Steps
    <2> QED BY <1>3, <1>8, <2>1 DEF CheckAbort, Working
<1>9. CASE AbortJobEffect(w)
    <2>1. Alone(w) /\ Settles(w)
        BY <1>0, <1>9, SettledMoves DEF AbortJobEffect, Exceptions
    <2> QED BY <1>3, <1>9, <2>1 DEF AbortJobEffect, Working
<1>10. CASE CheckpointJob(w)
    <2>1. Alone(w) /\ Settles(w) /\ Working(w)
        BY <1>0, <1>10, SettledMoves DEF CheckpointJob, Working
    <2>2. CASE UNCHANGED jobs
        BY <1>3, <1>10, <2>1, <2>2 DEF CheckpointJob
    <2>3. ASSUME NEW recorded, SetJob(w, [jobs[Job(w)] EXCEPT !.checkpoint = recorded])
          PROVE  Attending' /\ OpenInv'
        <3>1. Job(w) \in Jobs /\ jobs[Job(w)] \in Row
            BY <2>1, AttendedJobs
        <3>2. \A j \in Jobs : SameClaim(j)
            BY <1>0, <2>3, <3>1 DEF SetJob, SameClaim, Row
        <3>3. Attending'
            BY <2>1, <3>2, ClaimKept
        <3>4. UNCHANGED attempts
            BY <1>10 DEF CheckpointJob
        <3> QED BY <3>2, <3>3, <3>4 DEF OpenInv, OpenWhileRunning, SameClaim
    <2> QED BY <1>10, <2>2, <2>3 DEF CheckpointJob
<1>11. CASE HandlerRaises(w)
    <2>1. Alone(w) /\ Settles(w)
        BY <1>0, <1>11, SettledMoves DEF HandlerRaises, Exceptions
    <2> QED BY <1>3, <1>11, <2>1 DEF HandlerRaises, Working
<1>12. CASE HandlerReturns(w)
    <2>1. Alone(w) /\ Settles(w)
        BY <1>0, <1>12, SettledMoves DEF HandlerReturns, Steps
    <2> QED BY <1>3, <1>12, <2>1 DEF HandlerReturns, Working
<1>13. CASE CompleteJob(w)
    <2>1. Working(w) /\ HasClaim(w) /\ Abandon(w)
        BY <1>13 DEF CompleteJob, Working, Attending, Attends, Owns
    <2>2. Unclaimed(jobs[Job(w)], "completed").status = "completed"
        BY <2>1, AttendedJobs DEF Unclaimed, Row
    <2> QED BY <1>13, <2>1, <2>2, ClosedAttempt DEF CompleteJob, AttemptStatus, Terminal
<1>14. CASE FailJob(w)
    <2>1. Working(w) /\ Abandon(w) /\ worker[w].seen.attempt = jobs[Job(w)].attempt_count
        BY <1>14 DEF FailJob, Working, Attending, Attends
    <2>2. worker[w].seen.status \in {"waiting", "failed", "canceled"}
        BY <1>0 DEF WorkerState, Verdict
    <2>3. \A when : Available(Unclaimed(jobs[Job(w)], worker[w].seen.status), when).status
                        = worker[w].seen.status
        BY <2>1, AttendedJobs DEF Available, Unclaimed, Row
    <2>4. /\ worker[w].seen.status \in AttemptStatus
          /\ worker[w].seen.status # "running"
        BY <2>2 DEF AttemptStatus, Terminal
    <2> QED BY <1>14, <2>1, <2>3, <2>4, ClosedAttempt DEF FailJob
<1>15. CASE DeferJob(w)
    <2>1. Working(w) /\ Abandon(w) /\ worker[w].seen.attempt = jobs[Job(w)].attempt_count
        BY <1>15 DEF DeferJob, Working, Attending, Attends
    <2>2. Available(Unclaimed(jobs[Job(w)], "waiting"), "never").status = "waiting"
        BY <2>1, AttendedJobs DEF Available, Unclaimed, Row
    <2> QED BY <1>15, <2>1, <2>2, ClosedAttempt DEF DeferJob, AttemptStatus
<1>16. CASE CheckFail(w) \/ CheckDefer(w)
    <2>1. Working(w) /\ HasClaim(w) /\ UNCHANGED <<jobs, attempts>>
        BY <1>16 DEF CheckFail, CheckDefer, Working, Attending, Attends, Owns
    <2>2. PICK verdict : /\ worker' = [worker EXCEPT ![w] =
                               [IdleWorker EXCEPT !.pc = verdict.pc, !.job = Job(w),
                                                  !.seen = verdict.seen]]
                         /\ verdict.pc \in {"failwrite", "deferwrite"}
                         /\ verdict.seen.attempt = jobs[Job(w)].attempt_count
        <3>1. CASE CheckFail(w)
            <4>1. FailVerdict(jobs[Job(w)], worker[w].raised).attempt = jobs[Job(w)].attempt_count
                BY DEF FailVerdict
            <4> WITNESS [pc |-> "failwrite",
                         seen |-> FailVerdict(jobs[Job(w)], worker[w].raised)]
            <4> QED BY <2>1, <3>1, <4>1 DEF CheckFail
        <3>2. CASE CheckDefer(w)
            <4> WITNESS [pc |-> "deferwrite",
                         seen |-> [status |-> "waiting",
                                   attempt |-> jobs[Job(w)].attempt_count]]
            <4> QED BY <2>1, <3>2 DEF CheckDefer
        <3> QED BY <1>16, <3>1, <3>2
    <2>3. /\ worker'[w].job = Job(w) /\ worker'[w].seen.attempt = jobs[Job(w)].attempt_count
          /\ \A v \in Workers \ {w} : worker'[v] = worker[v]
        BY <1>0, <2>2 DEF IdleWorker
    <2>4. Working(w)' => Attends(w)'
        BY <2>1, <2>3, AttendedJobs DEF Attends, Owns, HasClaim, Job
    <2>5. ASSUME NEW v \in Workers, v # w
          PROVE  Working(v)' => Attends(v)'
        BY <2>1, <2>3, <2>5, Stays DEF SameClaim
    <2> QED BY <2>1, <2>4, <2>5 DEF Attending, OpenInv
<1> QED
    BY <1>1, <1>2, <1>4, <1>5, <1>6, <1>7, <1>8, <1>9, <1>10, <1>11, <1>12,
       <1>13, <1>14, <1>15, <1>16 DEF WorkerStep

LEMMA OthersAttend ==
    ASSUME Base, Attending, OpenInv, Punctual,
           \/ \E j \in Jobs : CreateJob(j) \/ ClockStep(j)
           \/ \E w \in Workers :
                 HeartbeatJob(w) \/ AttemptTimesOut(w) \/ Crash(w) \/ Restart(w)
           \/ UNCHANGED vars
    PROVE  Attending' /\ OpenInv'
<1> USE DEF tables, history
<1>0. /\ worker \in [Workers -> WorkerState] /\ \A w \in Workers : worker[w] \in WorkerState
      /\ jobs \in [Jobs -> Row] /\ TypeOK
    BY DEF Base, TypeOK
<1>1. ASSUME NEW j \in Jobs, NEW row, jobs' = [jobs EXCEPT ![j] = row],
             UNCHANGED <<worker, attempts>>,
             \/ jobs[j].status # "running" /\ row.status # "running"
             \/ /\ row.status = jobs[j].status /\ row.claimed_by = jobs[j].claimed_by
                /\ row.attempt_count = jobs[j].attempt_count
                /\ \/ row.lease = jobs[j].lease \/ row.lease = "live"
                   \/ \A w \in Workers : ~(Working(w) /\ Job(w) = j)
      PROVE  Attending' /\ OpenInv'
    <2>1. /\ jobs'[j] = row /\ \A k \in Jobs \ {j} : jobs'[k] = jobs[k]
        BY <1>0, <1>1
    <2>2. ASSUME NEW v \in Workers
          PROVE  Working(v)' => Attends(v)'
        <3>1. CASE Working(v) /\ Job(v) = j
            <4>1. /\ jobs[j].status = "running" /\ jobs[j].lease = "live"
                  /\ row.status = "running" /\ row.claimed_by = jobs[j].claimed_by
                  /\ row.attempt_count = jobs[j].attempt_count /\ row.lease = "live"
                BY <1>1, <3>1, AttendedJobs
            <4> QED BY <1>1, <2>1, <3>1, <4>1, Stays DEF SameClaim
        <3>2. CASE ~(Working(v) /\ Job(v) = j)
            BY <1>1, <2>1, <3>2, Stays, AttendedJobs DEF SameClaim
        <3> QED BY <3>1, <3>2
    <2>3. OpenWhileRunning(row, attempts[j])
        BY <1>1 DEF OpenInv, OpenWhileRunning
    <2>4. OpenInv'
        BY <1>1, <2>1, <2>3 DEF OpenInv
    <2> QED BY <2>2, <2>4 DEF Attending
<1>2. ASSUME NEW j \in Jobs, CreateJob(j)
      PROVE  Attending' /\ OpenInv'
    <2> DEFINE row == [jobs[j] EXCEPT !.status = "queued", !.available = "now"]
    <2>1. row.status = "queued"
        BY <1>0 DEF Row
    <2>2. jobs' = [jobs EXCEPT ![j] = row] /\ UNCHANGED <<worker, attempts>>
        BY <1>2 DEF CreateJob
    <2>3. jobs[j].status = "absent"
        BY <1>2 DEF CreateJob
    <2> HIDE DEF row
    <2> QED BY <1>1, <2>1, <2>2, <2>3
<1>3. ASSUME NEW j \in Jobs, LeaseLapses(j)
      PROVE  Attending' /\ OpenInv'
    <2> DEFINE row == [jobs[j] EXCEPT !.lease = "lapsed"]
    <2>1. /\ row.status = jobs[j].status /\ row.claimed_by = jobs[j].claimed_by
          /\ row.attempt_count = jobs[j].attempt_count
        BY <1>0 DEF Row
    <2>2. jobs' = [jobs EXCEPT ![j] = row] /\ UNCHANGED <<worker, attempts>>
        BY <1>3 DEF LeaseLapses
    <2>3. \A w \in Workers : ~(Working(w) /\ Job(w) = j)
        BY <1>3, AttendedJobs DEF LeaseLapses, Unattended, HasClaim
    <2> HIDE DEF row
    <2> QED BY <1>1, <2>1, <2>2, <2>3
<1>4. ASSUME NEW j \in Jobs, BackoffElapses(j) \/ LifetimeEnds(j)
      PROVE  Attending' /\ OpenInv'
    <2>1. PICK row : /\ jobs' = [jobs EXCEPT ![j] = row]
                     /\ row.status = jobs[j].status /\ row.claimed_by = jobs[j].claimed_by
                     /\ row.attempt_count = jobs[j].attempt_count /\ row.lease = jobs[j].lease
        BY <1>0, <1>4 DEF Row, BackoffElapses, LifetimeEnds
    <2>2. UNCHANGED <<worker, attempts>>
        BY <1>4 DEF BackoffElapses, LifetimeEnds
    <2> QED BY <1>1, <2>1, <2>2
<1>5. ASSUME NEW w \in Workers, HeartbeatJob(w)
      PROVE  Attending' /\ OpenInv'
    <2> DEFINE row == [jobs[Job(w)] EXCEPT !.lease = "live"]
    <2>1. Job(w) \in Jobs /\ jobs[Job(w)] \in Row
        BY <1>5, AttendedJobs DEF HeartbeatJob, Working
    <2>2. /\ row.status = jobs[Job(w)].status /\ row.claimed_by = jobs[Job(w)].claimed_by
          /\ row.attempt_count = jobs[Job(w)].attempt_count /\ row.lease = "live"
        BY <2>1 DEF Row
    <2>3. jobs' = [jobs EXCEPT ![Job(w)] = row] /\ UNCHANGED <<worker, attempts>>
        BY <1>5 DEF HeartbeatJob, SetJob
    <2> HIDE DEF row
    <2> QED BY <1>1, <2>1, <2>2, <2>3
<1>6. ASSUME NEW w \in Workers, Crash(w) \/ Restart(w)
      PROVE  Attending' /\ OpenInv'
    <2>1. ~Working(w)' /\ \A v \in Workers \ {w} : worker'[v] = worker[v]
        BY <1>0, <1>6 DEF Crash, Restart, Goto, Working, IdleWorker, WorkerState
    <2>2. UNCHANGED <<jobs, attempts>>
        BY <1>6 DEF Crash, Restart
    <2>3. ASSUME NEW v \in Workers
          PROVE  Working(v)' => Attends(v)'
        BY <2>1, <2>2, <2>3, Stays DEF SameClaim
    <2> QED BY <2>2, <2>3 DEF Attending, OpenInv
<1>7. ASSUME NEW w \in Workers, AttemptTimesOut(w)
      PROVE  Attending' /\ OpenInv'
    <2>1. \A v \in Workers : /\ worker'[v].pc = worker[v].pc /\ worker'[v].job = worker[v].job
                             /\ worker'[v].seen = worker[v].seen
        BY <1>0, <1>7 DEF AttemptTimesOut, WorkerState
    <2>2. UNCHANGED <<jobs, attempts>>
        BY <1>7 DEF AttemptTimesOut
    <2> QED BY <2>1, <2>2 DEF Attending, Attends, Working, Owns, HasClaim, Job, OpenInv
<1>8. CASE UNCHANGED vars
    BY <1>8 DEF vars, Attending, Attends, Working, Owns, HasClaim, Job, OpenInv
<1> QED BY <1>2, <1>3, <1>4, <1>5, <1>6, <1>7, <1>8 DEF ClockStep

LEMMA AttendedInvariant ==
    ASSUME Punctual, Clients = {}
    PROVE  Spec => [](Base /\ Attending /\ OpenInv)
<1>1. Init => Attending /\ OpenInv
    BY DEF Init, Attending, Working, IdleWorker, OpenInv, OpenWhileRunning, AbsentRow
<1>2. Base /\ Attending /\ OpenInv /\ [Next]_vars => Attending' /\ OpenInv'
    BY RecoverAttends, WorkerAttends, OthersAttend DEF Next
<1>3. Spec => []Base
    BY TypesAndFrames, AttemptInvariant, PTL DEF Base
<1> QED BY <1>1, <1>2, <1>3, PTL DEF Spec

(* With no request under way and heartbeats in time, crashes, timeouts and *)
(* recovery leave exactly the newest attempt of a job open, and only while *)
(* it runs (claim_job, _recover_orphans_in_transaction, complete_job,      *)
(* fail_job, defer_job).                                                   *)
THEOREM AttemptsAreClosed ==
    ASSUME Punctual, Clients = {}
    PROVE  Spec => []OneOpenAttempt
<1>1. Base /\ OpenInv => OneOpenAttempt
    <2> SUFFICES ASSUME Base, OpenInv, NEW j \in Jobs
                 PROVE  /\ Len(attempts[j]) = jobs[j].attempt_count
                        /\ {n \in 1..Len(attempts[j]) : attempts[j][n] = "running"} =
                              IF jobs[j].status = "running" THEN {jobs[j].attempt_count} ELSE {}
        BY DEF OneOpenAttempt
    <2>1. Len(attempts[j]) = jobs[j].attempt_count /\ OpenWhileRunning(jobs[j], attempts[j])
        BY DEF Base, AttemptInv, OpenInv
    <2>2. jobs[j].attempt_count \in Nat
        BY DEF Base, TypeOK, Row
    <2> QED BY <2>1, <2>2 DEF OpenWhileRunning
<1> QED BY <1>1, AttendedInvariant, PTL

(* Under the same conditions nobody but its worker ends a live claim.      *)
THEOREM LeasesAreRespected ==
    ASSUME Punctual, Clients = {}
    PROVE  Spec => LeaseIsRespected
<1> DEFINE Respected == \A j \in Jobs, w \in Workers :
          /\ jobs[j].status = "running"
          /\ jobs[j].claimed_by = w
          /\ jobs[j].lease = "live"
          /\ jobs'[j].claimed_by # w
          => Job(w) = j /\ worker[w].pc \in {"completing", "failwrite", "deferwrite"}
<1>1. Base /\ Attending /\ OpenInv /\ [Next]_vars => [Respected]_jobs
    <2> USE DEF tables, history
    <2> SUFFICES ASSUME Base, Attending, OpenInv, Next,
                        NEW j \in Jobs, NEW w \in Workers,
                        jobs[j].status = "running", jobs[j].claimed_by = w,
                        jobs[j].lease = "live", jobs'[j].claimed_by # w
                 PROVE  Job(w) = j /\ worker[w].pc \in {"completing", "failwrite", "deferwrite"}
        BY DEF vars
    <2>0. jobs \in [Jobs -> Row] /\ \A k \in Jobs : jobs[k] \in Row
        BY DEF Base, TypeOK
    <2>1. RecoveredJobs[j] = jobs[j]
        BY RecoveryLeaves
    <2>2. ~RecoverOrphanedJobs
        BY <2>1 DEF RecoverOrphanedJobs
    <2>3. ASSUME NEW k \in Jobs, CreateJob(k) \/ ClockStep(k)
          PROVE  FALSE
        BY <2>0, <2>3 DEF CreateJob, ClockStep, LeaseLapses, BackoffElapses, LifetimeEnds, Row
    <2>4. ASSUME NEW v \in Workers,
                 HeartbeatJob(v) \/ AttemptTimesOut(v) \/ Crash(v) \/ Restart(v)
          PROVE  FALSE
        BY <2>0, <2>4 DEF HeartbeatJob, AttemptTimesOut, Crash, Restart, SetJob, Row
    <2>5. ASSUME NEW v \in Workers, WorkerStep(v)
          PROVE  Job(w) = j /\ worker[w].pc \in {"completing", "failwrite", "deferwrite"}
        <3>1. ~PollEmpty(v)
            BY <2>2 DEF PollEmpty
        <3>2. ~ClaimJob(v)
            <4> SUFFICES ASSUME ClaimJob(v)
                         PROVE  FALSE
                OBVIOUS
            <4>1. PICK k \in Jobs : /\ RecoveredJobs[k].status \in Waiting
                                    /\ jobs' = [RecoveredJobs EXCEPT ![k] = ClaimedRow(@, v)]
                BY DEF ClaimJob, First, Claimable
            <4>2. k # j
                BY <2>1, <4>1 DEF Waiting
            <4> QED BY <2>1, <4>1, <4>2, RecoveryTypes DEF Base
        <3>3. ~CheckpointJob(v)
            BY <2>0, <2>5 DEF CheckpointJob, SetJob, Row
        <3>4. CompleteJob(v) \/ FailJob(v) \/ DeferJob(v)
            BY <2>5, <3>1, <3>2, <3>3 DEF WorkerStep, BeginEffect, OperationReturns,
               OperationFails, CheckResult, CompleteJobEffect, CheckAbort, AbortJobEffect,
               HandlerRaises, HandlerReturns, CheckFail, CheckDefer
        <3>5. Working(v) /\ worker[v].pc \in {"completing", "failwrite", "deferwrite"}
            BY <3>4 DEF CompleteJob, FailJob, DeferJob, Working
        <3>6. Job(v) = j
            BY <2>0, <3>4 DEF CompleteJob, FailJob, DeferJob, SetJob
        <3> QED BY <3>5, <3>6, AttendedJobs
    <2> QED BY <2>2, <2>3, <2>4, <2>5 DEF Next
<1>2. Spec => [][Respected]_jobs
    BY <1>1, AttendedInvariant, PTL DEF Spec
<1> QED BY <1>2 DEF LeaseIsRespected

-----------------------------------------------------------------------------
(* The effect table keeps its promise.  Every step of the queue is first   *)
(* classified by what it does to the effect table and to its holders:      *)
(* nothing but doubt (Quiet), or one of the four steps of the promise.     *)
(* Invariance and refinement are then argued over five kinds of step       *)
(* instead of thirty actions.                                              *)

Cell(f, g, j, e, x) ==
    \A k \in Jobs, d \in Effects : g[k][d] = IF k = j /\ d = e THEN x ELSE f[k][d]

HoldsNothingBut(w, j, e) == \A k \in Jobs, d \in Effects : Holds(w, k, d)' => k = j /\ d = e

HoldsNothing(w) == \A k \in Jobs, d \in Effects : ~Holds(w, k, d)'

(* No effect is taken, returned, recorded or released; recovery may have   *)
(* doubted some, and workers may have let some go.                         *)
Quiet ==
    /\ UNCHANGED <<invoked, succeeded>>
    /\ \A j \in Jobs, e \in Effects :
          \/ effects'[j][e] = effects[j][e]
          \/ effects[j][e] = "running" /\ effects'[j][e] = "uncertain"
    /\ \A w \in Workers, j \in Jobs, e \in Effects :
          Holds(w, j, e)' =>
             /\ Holds(w, j, e)
             /\ worker'[w].pc \in AfterReturn <=> worker[w].pc \in AfterReturn

Taken(w, j, e) ==
    /\ effects[j][e] = "none"
    /\ Cell(effects, effects', j, e, "running")
    /\ Cell(invoked, invoked', j, e, invoked[j][e] + 1)
    /\ UNCHANGED succeeded
    /\ Alone(w) /\ worker'[w].pc = "operate" /\ HoldsNothingBut(w, j, e)

Returned(w, j, e) ==
    /\ Holds(w, j, e) /\ worker[w].pc \notin AfterReturn
    /\ Cell(succeeded, succeeded', j, e, succeeded[j][e] + 1)
    /\ UNCHANGED <<effects, invoked>>
    /\ Alone(w) /\ worker'[w].pc \in AfterReturn /\ HoldsNothingBut(w, j, e)

Recorded(w, j, e) ==
    /\ Holds(w, j, e) /\ worker[w].pc \in AfterReturn
    /\ effects[j][e] = "running"
    /\ Cell(effects, effects', j, e, "completed")
    /\ UNCHANGED <<invoked, succeeded>>
    /\ Alone(w) /\ HoldsNothing(w)

Released(w, j, e) ==
    /\ Holds(w, j, e) /\ worker[w].pc \notin AfterReturn
    /\ e \in Releasable
    /\ effects[j][e] = "running"
    /\ Cell(effects, effects', j, e, "none")
    /\ UNCHANGED <<invoked, succeeded>>
    /\ Alone(w) /\ HoldsNothing(w)

-----------------------------------------------------------------------------
(* Every step is of one of the five kinds.                                 *)

(* A worker that leaves its handler, or goes to a control point outside    *)
(* run_effect, holds nothing any more.                                     *)
LEMMA LettingGo ==
    ASSUME NEW w \in Workers
    PROVE  /\ Leaves(w) => HoldsNothing(w)
           /\ worker'[w].pc \notin BeforeReturn \cup AfterReturn => HoldsNothing(w)
BY DEF Leaves, HoldsNothing, Holds, BeforeReturn, AfterReturn

(* A worker that keeps its job and step holds what it held.                *)
LEMMA HoldingOn ==
    ASSUME NEW w \in Workers, NEW pc, Continues(w, pc),
           worker[w].pc \in BeforeReturn \cup AfterReturn
    PROVE  \A j \in Jobs, e \in Effects : Holds(w, j, e)' => Holds(w, j, e)
BY DEF Continues, Holds, Job, Effect

(* What the other workers hold stays in their hands.                       *)
LEMMA OthersHold ==
    ASSUME NEW w \in Workers, Alone(w)
    PROVE  \A v \in Workers \ {w}, j \in Jobs, e \in Effects :
              /\ Holds(v, j, e)' <=> Holds(v, j, e)
              /\ worker'[v].pc = worker[v].pc
BY DEF Alone, Holds, Job, Effect

(* A step that leaves the effects alone is quiet when its worker lets go   *)
(* of its effect, or keeps it on the same side of the operation's return.  *)
LEMMA QuietMoves ==
    ASSUME NEW w \in Workers, Alone(w), UNCHANGED <<effects, invoked, succeeded>>,
           \/ HoldsNothing(w)
           \/ \E pc : /\ Continues(w, pc)
                      /\ worker[w].pc \in BeforeReturn \cup AfterReturn
                      /\ pc \in AfterReturn <=> worker[w].pc \in AfterReturn
    PROVE  Quiet
<1>1. ASSUME NEW j \in Jobs, NEW e \in Effects, Holds(w, j, e)'
      PROVE  /\ Holds(w, j, e)
             /\ worker'[w].pc \in AfterReturn <=> worker[w].pc \in AfterReturn
    <2>1. PICK pc : /\ Continues(w, pc)
                    /\ worker[w].pc \in BeforeReturn \cup AfterReturn
                    /\ pc \in AfterReturn <=> worker[w].pc \in AfterReturn
        BY <1>1 DEF HoldsNothing
    <2> QED BY <1>1, <2>1, HoldingOn DEF Continues
<1> QED BY <1>1, OthersHold DEF Quiet

(* Recovery only doubts running effects.                                   *)
LEMMA RecoveryIsQuiet ==
    ASSUME TypeOK, effects' = RecoveredEffects, UNCHANGED <<invoked, succeeded>>,
           \/ UNCHANGED worker
           \/ \E w \in Workers : Alone(w) /\ HoldsNothing(w)
    PROVE  Quiet
<1>1. ASSUME NEW j \in Jobs, NEW e \in Effects
      PROVE  \/ effects'[j][e] = effects[j][e]
             \/ effects[j][e] = "running" /\ effects'[j][e] = "uncertain"
    BY DEF RecoveredEffects
<1>2. CASE UNCHANGED worker
    BY <1>1, <1>2 DEF Quiet, Holds, Job, Effect
<1>3. ASSUME NEW w \in Workers, Alone(w), HoldsNothing(w)
      PROVE  Quiet
    BY <1>1, <1>3, OthersHold DEF Quiet, HoldsNothing
<1> QED BY <1>2, <1>3

(* The operation a worker stands before or after is of an effect it holds. *)
LEMMA HoldsOwn ==
    ASSUME FrameOK, NEW w \in Workers, worker[w].pc \in BeforeReturn \cup AfterReturn
    PROVE  Job(w) \in Jobs /\ Effect(w) \in Effects /\ Holds(w, Job(w), Effect(w))
BY EffectsOfPlan DEF Holds

(* One case per step of a worker.                                          *)
LEMMA WorkerKinds ==
    ASSUME TypeOK, FrameOK, NEW w \in Workers, WorkerStep(w)
    PROVE  \/ Quiet
           \/ \E j \in Jobs, e \in Effects :
                 Taken(w, j, e) \/ Returned(w, j, e) \/ Recorded(w, j, e) \/ Released(w, j, e)
<1> USE DEF tables, history
<1>0. effects \in [Jobs -> [Effects -> EffectStatus]]
    BY DEF TypeOK
<1>1. CASE ClaimJob(w)
    <2>1. PICK j \in Jobs :
            worker' = [worker EXCEPT ![w] =
                         [IdleWorker EXCEPT !.pc = "handler", !.job = j, !.step = 1,
                                            !.done = jobs[j].checkpoint]]
        BY <1>1 DEF ClaimJob, First, Claimable
    <2>2. Alone(w) /\ worker'[w].pc = "handler"
        BY <2>1 DEF Alone, IdleWorker, TypeOK
    <2> QED BY <1>1, <2>2, LettingGo, RecoveryIsQuiet
            DEF ClaimJob, BeforeReturn, AfterReturn
<1>2. CASE PollEmpty(w)
    BY <1>2, RecoveryIsQuiet DEF PollEmpty, RecoverOrphanedJobs
<1>3. CASE BeginEffect(w)
    <2>1. Job(w) \in Jobs /\ Effect(w) \in Effects
        BY <1>3, EffectsOfPlan DEF BeginEffect
    <2>2. CASE CheckStoppedRaises(w) /\ UNCHANGED <<effects, invoked>>
        BY <1>3, <2>2, WorkerShapes, LettingGo, QuietMoves DEF BeginEffect
    <2>3. CASE /\ effects[Job(w)][Effect(w)] = "none"
               /\ SetEffect(w, "running")
               /\ invoked' = [invoked EXCEPT ![Job(w)][Effect(w)] = @ + 1]
               /\ Goto(w, "operate")
        <3>1. Alone(w) /\ Continues(w, "operate")
            BY <2>3, WorkerShapes DEF Steps
        <3>2. Cell(effects, effects', Job(w), Effect(w), "running")
            BY <1>0, <2>3, CellWrite DEF SetEffect, Cell, EffectStatus
        <3>3. Cell(invoked, invoked', Job(w), Effect(w), invoked[Job(w)][Effect(w)] + 1)
            BY <2>1, <2>3, CounterWrite DEF Cell, TypeOK
        <3>4. HoldsNothingBut(w, Job(w), Effect(w))
            BY <3>1 DEF HoldsNothingBut, Holds, Continues, Job, Effect
        <3>5. Taken(w, Job(w), Effect(w))
            BY <1>3, <2>3, <3>1, <3>2, <3>3, <3>4 DEF BeginEffect, Taken, Continues
        <3> QED BY <2>1, <3>5
    <2>4. CASE Goto(w, "record") /\ UNCHANGED <<effects, invoked>>
        <3>1. Alone(w) /\ worker'[w].pc = "record"
            BY <2>4, WorkerShapes DEF Steps, Continues
        <3> QED BY <1>3, <2>4, <3>1, LettingGo, QuietMoves
                DEF BeginEffect, BeforeReturn, AfterReturn
    <2>5. CASE Raise(w, "uncertain") /\ UNCHANGED <<effects, invoked>>
        BY <1>3, <2>5, WorkerShapes, LettingGo, QuietMoves DEF BeginEffect, Exceptions
    <2> QED BY <1>3, <2>2, <2>3, <2>4, <2>5 DEF BeginEffect
<1>4. CASE OperationReturns(w)
    <2>1. Job(w) \in Jobs /\ Effect(w) \in Effects /\ Holds(w, Job(w), Effect(w))
        BY <1>4, HoldsOwn DEF OperationReturns, BeforeReturn
    <2>2. Alone(w) /\ Continues(w, "operated")
        BY <1>4, WorkerShapes DEF OperationReturns, Steps
    <2>3. Cell(succeeded, succeeded', Job(w), Effect(w), succeeded[Job(w)][Effect(w)] + 1)
        BY <1>4, <2>1, CounterWrite DEF OperationReturns, Cell, TypeOK
    <2>4. HoldsNothingBut(w, Job(w), Effect(w))
        BY <2>2 DEF HoldsNothingBut, Holds, Continues, Job, Effect
    <2>5. Returned(w, Job(w), Effect(w))
        BY <1>4, <2>1, <2>2, <2>3, <2>4
        DEF OperationReturns, Returned, Continues, AfterReturn
    <2> QED BY <2>1, <2>5
<1>5. CASE OperationFails(w)
    <2>1. CASE Goto(w, "aborting")
        <3>1. Alone(w) /\ Continues(w, "aborting")
            BY <2>1, WorkerShapes DEF Steps
        <3> QED BY <1>5, <3>1, QuietMoves DEF OperationFails, BeforeReturn, AfterReturn
    <2>2. CASE Raise(w, "error")
        BY <1>5, <2>2, WorkerShapes, LettingGo, QuietMoves DEF OperationFails, Exceptions
    <2> QED BY <1>5, <2>1, <2>2 DEF OperationFails
<1>6. CASE CheckResult(w)
    <2>1. CASE CheckStoppedRaises(w)
        BY <1>6, <2>1, WorkerShapes, LettingGo, QuietMoves DEF CheckResult
    <2>2. CASE Goto(w, "settling")
        <3>1. Alone(w) /\ Continues(w, "settling")
            BY <2>2, WorkerShapes DEF Steps
        <3> QED BY <1>6, <3>1, QuietMoves DEF CheckResult, BeforeReturn, AfterReturn
    <2> QED BY <1>6, <2>1, <2>2 DEF CheckResult
<1>7. CASE CompleteJobEffect(w)
    <2>1. Job(w) \in Jobs /\ Effect(w) \in Effects /\ Holds(w, Job(w), Effect(w))
        BY <1>7, HoldsOwn DEF CompleteJobEffect, AfterReturn
    <2>2. CASE /\ effects[Job(w)][Effect(w)] = "running"
               /\ SetEffect(w, "completed")
               /\ Goto(w, "record")
        <3>1. Alone(w) /\ worker'[w].pc = "record"
            BY <2>2, WorkerShapes DEF Steps, Continues
        <3>2. Cell(effects, effects', Job(w), Effect(w), "completed")
            BY <1>0, <2>2, CellWrite DEF SetEffect, Cell, EffectStatus
        <3>3. HoldsNothing(w)
            BY <3>1, LettingGo DEF BeforeReturn, AfterReturn
        <3>4. Recorded(w, Job(w), Effect(w))
            BY <1>7, <2>1, <2>2, <3>1, <3>2, <3>3
            DEF CompleteJobEffect, Recorded, AfterReturn
        <3> QED BY <2>1, <3>4
    <2>3. CASE Raise(w, "uncertain") /\ UNCHANGED effects
        BY <1>7, <2>3, WorkerShapes, LettingGo, QuietMoves DEF CompleteJobEffect, Exceptions
    <2> QED BY <1>7, <2>2, <2>3 DEF CompleteJobEffect
<1>8. CASE CheckAbort(w)
    <2>1. CASE Goto(w, "releasing")
        <3>1. Alone(w) /\ Continues(w, "releasing")
            BY <2>1, WorkerShapes DEF Steps
        <3> QED BY <1>8, <3>1, QuietMoves DEF CheckAbort, BeforeReturn, AfterReturn
    <2>2. CASE Abandon(w)
        BY <1>8, <2>2, WorkerShapes, LettingGo, QuietMoves DEF CheckAbort
    <2> QED BY <1>8, <2>1, <2>2 DEF CheckAbort
<1>9. CASE AbortJobEffect(w)
    <2>1. Job(w) \in Jobs /\ Effect(w) \in Effects /\ Holds(w, Job(w), Effect(w))
        BY <1>9, HoldsOwn DEF AbortJobEffect, BeforeReturn
    <2>2. Alone(w) /\ HoldsNothing(w)
        BY <1>9, WorkerShapes, LettingGo DEF AbortJobEffect, Exceptions
    <2>3. CASE effects[Job(w)][Effect(w)] = "running"
        <3>1. Cell(effects, effects', Job(w), Effect(w), "none")
            BY <1>0, <1>9, <2>3, CellWrite DEF AbortJobEffect, SetEffect, Cell, EffectStatus
        <3>2. Effect(w) \in Releasable
            BY <1>9 DEF AbortJobEffect, FrameOK, InFrame
        <3>3. Released(w, Job(w), Effect(w))
            BY <1>9, <2>1, <2>2, <2>3, <3>1, <3>2
            DEF AbortJobEffect, Released, AfterReturn
        <3> QED BY <2>1, <3>3
    <2>4. CASE effects[Job(w)][Effect(w)] # "running"
        BY <1>9, <2>2, <2>4, QuietMoves DEF AbortJobEffect
    <2> QED BY <2>3, <2>4
<1>10. CASE CheckpointJob(w)
    <2>1. CASE CheckStoppedRaises(w)
        BY <1>10, <2>1, WorkerShapes, LettingGo, QuietMoves DEF CheckpointJob
    <2>2. ASSUME NEW done, NextPlatform(w, done)
          PROVE  Quiet
        <3>1. Alone(w) /\ worker'[w].pc = "handler"
            BY <2>2, WorkerShapes
        <3> QED BY <1>10, <3>1, LettingGo, QuietMoves
                DEF CheckpointJob, BeforeReturn, AfterReturn
    <2> QED BY <1>10, <2>1, <2>2 DEF CheckpointJob
<1>11. CASE HandlerRaises(w)
    BY <1>11, WorkerShapes, LettingGo, QuietMoves DEF HandlerRaises, Exceptions
<1>12. CASE HandlerReturns(w)
    <2>1. CASE CheckStoppedRaises(w)
        BY <1>12, <2>1, WorkerShapes, LettingGo, QuietMoves DEF HandlerReturns
    <2>2. CASE Goto(w, "completing")
        <3>1. Alone(w) /\ worker'[w].pc = "completing"
            BY <2>2, WorkerShapes DEF Steps, Continues
        <3> QED BY <1>12, <3>1, LettingGo, QuietMoves
                DEF HandlerReturns, BeforeReturn, AfterReturn
    <2> QED BY <1>12, <2>1, <2>2 DEF HandlerReturns
<1>13. CASE CompleteJob(w)
    BY <1>13, WorkerShapes, LettingGo, QuietMoves DEF CompleteJob
<1>14. CASE CheckFail(w)
    <2>1. Alone(w) /\ Leaves(w)
        BY <1>14 DEF CheckFail, Alone, Leaves, IdleWorker, TypeOK
    <2> QED BY <1>14, <2>1, LettingGo, QuietMoves DEF CheckFail
<1>15. CASE FailJob(w)
    BY <1>15, WorkerShapes, LettingGo, QuietMoves DEF FailJob
<1>16. CASE CheckDefer(w)
    <2>1. Alone(w) /\ Leaves(w)
        BY <1>16 DEF CheckDefer, Alone, Leaves, IdleWorker, TypeOK
    <2> QED BY <1>16, <2>1, LettingGo, QuietMoves DEF CheckDefer
<1>17. CASE DeferJob(w)
    BY <1>17, WorkerShapes, LettingGo, QuietMoves DEF DeferJob
<1> QED
    BY <1>1, <1>2, <1>3, <1>4, <1>5, <1>6, <1>7, <1>8, <1>9, <1>10, <1>11,
       <1>12, <1>13, <1>14, <1>15, <1>16, <1>17 DEF WorkerStep

(* The steps of requests, of the clock, and of a worker's process take,    *)
(* return, record and release nothing.                                     *)
LEMMA ProcessKinds ==
    ASSUME TypeOK, NEW w \in Workers,
           HeartbeatJob(w) \/ AttemptTimesOut(w) \/ Crash(w) \/ Restart(w)
    PROVE  Quiet
<1> USE DEF tables, history
<1>0. worker \in [Workers -> WorkerState] /\ worker[w] \in WorkerState
    BY DEF TypeOK
<1>1. CASE HeartbeatJob(w)
    BY <1>1 DEF HeartbeatJob, Quiet, Holds, Job, Effect
<1>2. CASE AttemptTimesOut(w)
    <2>1. \A v \in Workers : /\ worker'[v].pc = worker[v].pc
                             /\ worker'[v].job = worker[v].job
                             /\ worker'[v].step = worker[v].step
        BY <1>0, <1>2 DEF AttemptTimesOut, WorkerState
    <2> QED BY <1>2, <2>1 DEF AttemptTimesOut, Quiet, Holds, Job, Effect
<1>3. CASE Crash(w)
    <2>1. Alone(w) /\ worker'[w].pc = "down"
        BY <1>0, <1>3 DEF Crash, Alone, IdleWorker
    <2> QED BY <1>3, <2>1, LettingGo, QuietMoves DEF Crash, Leaves
<1>4. CASE Restart(w)
    <2>1. Alone(w) /\ worker'[w].pc = "idle"
        BY <1>4, WorkerShapes DEF Restart, Continues, Steps
    <2> QED BY <1>4, <2>1, LettingGo, QuietMoves DEF Restart, Leaves
<1> QED BY <1>1, <1>2, <1>3, <1>4

(* The five kinds of step cover the whole queue.                           *)
LEMMA Kinds ==
    ASSUME TypeOK, FrameOK, [Next]_vars
    PROVE  \/ Quiet
           \/ \E w \in Workers, j \in Jobs, e \in Effects :
                 Taken(w, j, e) \/ Returned(w, j, e) \/ Recorded(w, j, e) \/ Released(w, j, e)
<1> USE DEF tables, history
<1>1. ASSUME NEW j \in Jobs, CreateJob(j) \/ ClockStep(j)
      PROVE  Quiet
    BY <1>1 DEF CreateJob, ClockStep, LeaseLapses, BackoffElapses, LifetimeEnds,
                Quiet, Holds, Job, Effect
<1>2. CASE RecoverOrphanedJobs
    BY <1>2, RecoveryIsQuiet DEF RecoverOrphanedJobs
<1>3. ASSUME NEW c \in Clients, ClientStep(c)
      PROVE  Quiet
    BY <1>3 DEF ClientStep, CheckCancel, CheckRetry, RequestJobCancellation, RetryJob,
                Quiet, Holds, Job, Effect
<1>4. CASE UNCHANGED vars
    BY <1>4 DEF vars, Quiet, Holds, Job, Effect
<1> QED BY <1>1, <1>2, <1>3, <1>4, WorkerKinds, ProcessKinds DEF Next

-----------------------------------------------------------------------------
(* The inductive invariant.                                                *)

(* What a holder and its row say of each other survives every kind of step. *)
LEMMA HolderStep ==
    ASSUME TypeOK, HolderOK, LedgerOK,
           \/ Quiet
           \/ \E w \in Workers, j \in Jobs, e \in Effects :
                 Taken(w, j, e) \/ Returned(w, j, e) \/ Recorded(w, j, e) \/ Released(w, j, e)
    PROVE  HolderOK'
<1> SUFFICES ASSUME NEW v \in Workers, NEW k \in Jobs, NEW d \in Effects, Holds(v, k, d)'
             PROVE  /\ effects'[k][d] \in {"running", "uncertain"}
                    /\ \A u \in Workers : Holds(u, k, d)' => u = v
                    /\ succeeded'[k][d] = IF worker'[v].pc \in AfterReturn THEN 1 ELSE 0
    BY DEF HolderOK
<1>1. CASE Quiet
    BY <1>1 DEF Quiet, HolderOK
<1>2. ASSUME NEW w \in Workers, NEW j \in Jobs, NEW e \in Effects, Taken(w, j, e)
      PROVE  /\ effects'[k][d] \in {"running", "uncertain"}
             /\ \A u \in Workers : Holds(u, k, d)' => u = v
             /\ succeeded'[k][d] = IF worker'[v].pc \in AfterReturn THEN 1 ELSE 0
    <2>1. \A u \in Workers : ~Holds(u, j, e)
        BY <1>2 DEF Taken, HolderOK
    <2>2. succeeded[j][e] = 0
        BY <1>2 DEF Taken, LedgerOK
    <2>3. CASE v = w
        <3>1. k = j /\ d = e
            BY <1>2, <2>3 DEF Taken, HoldsNothingBut
        <3> QED BY <1>2, <2>1, <2>2, <2>3, <3>1, OthersHold
                DEF Taken, Cell, AfterReturn
    <2>4. CASE v # w
        <3>1. Holds(v, k, d) /\ worker'[v].pc = worker[v].pc
            BY <1>2, <2>4, OthersHold DEF Taken
        <3>2. ~(k = j /\ d = e)
            BY <2>1, <3>1
        <3> QED BY <1>2, <3>1, <3>2, OthersHold DEF Taken, Cell, HoldsNothingBut, HolderOK
    <2> QED BY <2>3, <2>4
<1>3. ASSUME NEW w \in Workers, NEW j \in Jobs, NEW e \in Effects, Returned(w, j, e)
      PROVE  /\ effects'[k][d] \in {"running", "uncertain"}
             /\ \A u \in Workers : Holds(u, k, d)' => u = v
             /\ succeeded'[k][d] = IF worker'[v].pc \in AfterReturn THEN 1 ELSE 0
    <2>1. \A u \in Workers : Holds(u, j, e) => u = w
        BY <1>3 DEF Returned, HolderOK
    <2>2. succeeded[j][e] = 0 /\ effects[j][e] \in {"running", "uncertain"}
        BY <1>3 DEF Returned, HolderOK
    <2>3. CASE v = w
        <3>1. k = j /\ d = e
            BY <1>3, <2>3 DEF Returned, HoldsNothingBut
        <3> QED BY <1>3, <2>1, <2>2, <2>3, <3>1, OthersHold
                DEF Returned, Cell
    <2>4. CASE v # w
        <3>1. Holds(v, k, d) /\ worker'[v].pc = worker[v].pc
            BY <1>3, <2>4, OthersHold DEF Returned
        <3>2. ~(k = j /\ d = e)
            BY <2>1, <2>4, <3>1
        <3> QED BY <1>3, <3>1, <3>2, OthersHold DEF Returned, Cell, HoldsNothingBut, HolderOK
    <2> QED BY <2>3, <2>4
<1>4. ASSUME NEW w \in Workers, NEW j \in Jobs, NEW e \in Effects,
             Recorded(w, j, e) \/ Released(w, j, e)
      PROVE  /\ effects'[k][d] \in {"running", "uncertain"}
             /\ \A u \in Workers : Holds(u, k, d)' => u = v
             /\ succeeded'[k][d] = IF worker'[v].pc \in AfterReturn THEN 1 ELSE 0
    <2>1. \A u \in Workers : Holds(u, j, e) => u = w
        BY <1>4 DEF Recorded, Released, HolderOK
    <2>2. v # w
        BY <1>4 DEF Recorded, Released, HoldsNothing
    <2>3. Holds(v, k, d) /\ worker'[v].pc = worker[v].pc
        BY <1>4, <2>2, OthersHold DEF Recorded, Released
    <2>4. ~(k = j /\ d = e)
        BY <2>1, <2>2, <2>3
    <2> QED BY <1>4, <2>3, <2>4, OthersHold
            DEF Recorded, Released, Cell, HoldsNothing, HolderOK
<1> QED BY <1>1, <1>2, <1>3, <1>4

(* So does what a row and the history say of each other.                   *)
LEMMA LedgerStep ==
    ASSUME TypeOK, HolderOK, LedgerOK,
           \/ Quiet
           \/ \E w \in Workers, j \in Jobs, e \in Effects :
                 Taken(w, j, e) \/ Returned(w, j, e) \/ Recorded(w, j, e) \/ Released(w, j, e)
    PROVE  LedgerOK'
<1>1. CASE Quiet
    BY <1>1 DEF Quiet, LedgerOK
<1>2. ASSUME NEW w \in Workers, NEW j \in Jobs, NEW e \in Effects, Taken(w, j, e)
      PROVE  LedgerOK'
    BY <1>2 DEF Taken, Cell, LedgerOK
<1>3. ASSUME NEW w \in Workers, NEW j \in Jobs, NEW e \in Effects, Returned(w, j, e)
      PROVE  LedgerOK'
    <2>1. succeeded[j][e] = 0 /\ effects[j][e] \in {"running", "uncertain"}
        BY <1>3 DEF Returned, HolderOK
    <2> QED BY <1>3, <2>1 DEF Returned, Cell, LedgerOK
<1>4. ASSUME NEW w \in Workers, NEW j \in Jobs, NEW e \in Effects, Recorded(w, j, e)
      PROVE  LedgerOK'
    <2>1. succeeded[j][e] = 1
        BY <1>4 DEF Recorded, HolderOK
    <2> QED BY <1>4, <2>1 DEF Recorded, Cell, LedgerOK
<1>5. ASSUME NEW w \in Workers, NEW j \in Jobs, NEW e \in Effects, Released(w, j, e)
      PROVE  LedgerOK'
    <2>1. succeeded[j][e] = 0
        BY <1>5 DEF Released, HolderOK
    <2> QED BY <1>5, <2>1 DEF Released, Cell, LedgerOK
<1> QED BY <1>1, <1>2, <1>3, <1>4, <1>5

(* An effect is in the hands of at most one worker, whose position tells   *)
(* whether its operation has returned, and the row tells the rest: the     *)
(* strengthening under which run_effect's promises are inductive.          *)
THEOREM EffectInvariant == Spec => []EffectInv
<1>1. Init => HolderOK /\ LedgerOK
    BY DEF Init, HolderOK, LedgerOK, Holds, IdleWorker, BeforeReturn, AfterReturn
<1>2. TypeOK /\ FrameOK /\ HolderOK /\ LedgerOK /\ [Next]_vars => HolderOK' /\ LedgerOK'
    BY Kinds, HolderStep, LedgerStep
<1>3. TypeOK /\ FrameOK /\ HolderOK /\ LedgerOK => EffectInv
    BY DEF EffectInv
<1> QED BY <1>1, <1>2, <1>3, TypesAndFrames, PTL DEF Spec

(* Publishing is started at most once per job and platform, for any number *)
(* of workers, crashes, lost leases, cancellations and retries             *)
(* (begin_job_effect).                                                     *)
THEOREM PublishedAtMostOnce == Spec => []AtMostOncePublication
<1>1. EffectInv => AtMostOncePublication
    BY DEF EffectInv, LedgerOK, AtMostOncePublication
<1> QED BY <1>1, EffectInvariant, PTL

(* No two workers ever run the operation of one effect at the same time    *)
(* (run_effect).                                                           *)
THEOREM OneOperatorAtATime == Spec => []OneOperator
<1>1. EffectInv => OneOperator
    BY DEF EffectInv, HolderOK, OneOperator, Operating, Holds, BeforeReturn
<1> QED BY <1>1, EffectInvariant, PTL

(* An operation that returned is never run to its end again, and a         *)
(* recorded result stems from exactly one return (complete_job_effect).    *)
THEOREM ReturnedAtMostOnce == Spec => []ReturnsAtMostOnce
<1>1. EffectInv => ReturnsAtMostOnce
    BY DEF EffectInv, LedgerOK, ReturnsAtMostOnce
<1> QED BY <1>1, EffectInvariant, PTL

(* Nothing completes, repeats or releases an effect that is recorded or    *)
(* given up on: complete_ and abort_job_effect demand a 'running' row and  *)
(* begin_job_effect an absent one.                                         *)
THEOREM SettledEffectsAreFinal == Spec => SettledEffectsStay
<1>1. TypeOK /\ FrameOK /\ [Next]_vars
         => \A j \in Jobs, e \in Effects :
               effects[j][e] \in {"completed", "uncertain"}
                   => effects'[j][e] = effects[j][e]
    <2> SUFFICES ASSUME TypeOK, FrameOK, [Next]_vars,
                        NEW j \in Jobs, NEW e \in Effects,
                        effects[j][e] \in {"completed", "uncertain"}
                 PROVE  effects'[j][e] = effects[j][e]
        OBVIOUS
    <2> QED BY Kinds DEF Quiet, Taken, Returned, Recorded, Released, Cell
<1> QED BY <1>1, TypesAndFrames, PTL DEF Spec, SettledEffectsStay

-----------------------------------------------------------------------------
(* Refinement.                                                             *)

(* An effect key is a pair of a job and an effect.                         *)
LEMMA KeyPairs ==
    \A k \in EffectKeys : k[1] \in Jobs /\ k[2] \in Effects /\ k = <<k[1], k[2]>>
BY DEF EffectKeys

(* Every step of the queue is a step of OnceOnlyEffects or changes nothing *)
(* it speaks of.                                                           *)
LEMMA RefinesStep ==
    ASSUME TypeOK, TypeOK', HolderOK, LedgerOK,
           \/ Quiet
           \/ \E w \in Workers, j \in Jobs, e \in Effects :
                 Taken(w, j, e) \/ Returned(w, j, e) \/ Recorded(w, j, e) \/ Released(w, j, e)
    PROVE  [Promise!Next]_(Promise!vars)
<1>0. /\ EffectPhase \in [EffectKeys -> {"free", "taken", "recorded"}]
      /\ EffectPhase' \in [EffectKeys -> {"free", "taken", "recorded"}]
      /\ EffectCalls \in [EffectKeys -> Nat]
      /\ EffectCalls' \in [EffectKeys -> Nat]
      /\ EffectReturns \in [EffectKeys -> Nat]
      /\ EffectReturns' \in [EffectKeys -> Nat]
    BY DEF EffectPhase, EffectCalls, EffectReturns, EffectKeys, TypeOK
<1>1. CASE Quiet
    <2>1. EffectPhase' = EffectPhase
        BY <1>1 DEF Quiet, EffectKeys, EffectPhase
    <2>2. EffectCalls' = EffectCalls /\ EffectReturns' = EffectReturns
        BY <1>1 DEF Quiet, EffectCalls, EffectReturns
    <2> QED BY <2>1, <2>2 DEF Promise!vars
<1>2. ASSUME NEW w \in Workers, NEW j \in Jobs, NEW e \in Effects, Taken(w, j, e)
      PROVE  Promise!Next
    <2>1. <<j, e>> \in EffectKeys /\ EffectPhase[<<j, e>>] = "free"
        BY <1>2 DEF Taken, EffectKeys, EffectPhase
    <2>2. EffectPhase' = [EffectPhase EXCEPT ![<<j, e>>] = "taken"]
        <3>1. \A k \in EffectKeys :
                 EffectPhase'[k] = IF k = <<j, e>> THEN "taken" ELSE EffectPhase[k]
            BY <1>2, KeyPairs DEF Taken, Cell, EffectKeys, EffectPhase
        <3> QED BY <1>0, <2>1, <3>1
    <2>3. EffectCalls' = [EffectCalls EXCEPT ![<<j, e>>] = @ + 1]
        <3>1. \A k \in EffectKeys :
                 EffectCalls'[k] =
                    IF k = <<j, e>> THEN EffectCalls[<<j, e>>] + 1 ELSE EffectCalls[k]
            BY <1>2, KeyPairs DEF Taken, Cell, EffectKeys, EffectCalls
        <3> QED BY <1>0, <2>1, <3>1
    <2>4. EffectReturns' = EffectReturns
        BY <1>2 DEF Taken, EffectReturns
    <2>5. Promise!Call(<<j, e>>)
        BY <2>1, <2>2, <2>3, <2>4 DEF Promise!Call
    <2> QED BY <2>1, <2>5 DEF Promise!Next
<1>3. ASSUME NEW w \in Workers, NEW j \in Jobs, NEW e \in Effects, Returned(w, j, e)
      PROVE  Promise!Next
    <2>0. succeeded[j][e] = 0 /\ effects[j][e] \in {"running", "uncertain"}
        BY <1>3 DEF Returned, HolderOK
    <2>1. /\ <<j, e>> \in EffectKeys
          /\ EffectPhase[<<j, e>>] = "taken"
          /\ EffectReturns[<<j, e>>] = 0
        BY <2>0 DEF EffectKeys, EffectPhase, EffectReturns
    <2>2. EffectPhase' = EffectPhase /\ EffectCalls' = EffectCalls
        BY <1>3 DEF Returned, EffectPhase, EffectCalls
    <2>3. EffectReturns' = [EffectReturns EXCEPT ![<<j, e>>] = 1]
        <3>1. \A k \in EffectKeys :
                 EffectReturns'[k] = IF k = <<j, e>> THEN 1 ELSE EffectReturns[k]
            BY <1>3, <2>0, KeyPairs DEF Returned, Cell, EffectKeys, EffectReturns
        <3> QED BY <1>0, <2>1, <3>1
    <2>4. Promise!Return(<<j, e>>)
        BY <2>1, <2>2, <2>3 DEF Promise!Return
    <2> QED BY <2>1, <2>4 DEF Promise!Next
<1>4. ASSUME NEW w \in Workers, NEW j \in Jobs, NEW e \in Effects, Recorded(w, j, e)
      PROVE  Promise!Next
    <2>0. succeeded[j][e] = 1
        BY <1>4 DEF Recorded, HolderOK
    <2>1. /\ <<j, e>> \in EffectKeys
          /\ EffectPhase[<<j, e>>] = "taken"
          /\ EffectReturns[<<j, e>>] = 1
        BY <1>4, <2>0 DEF Recorded, EffectKeys, EffectPhase, EffectReturns
    <2>2. EffectReturns' = EffectReturns /\ EffectCalls' = EffectCalls
        BY <1>4 DEF Recorded, EffectCalls, EffectReturns
    <2>3. EffectPhase' = [EffectPhase EXCEPT ![<<j, e>>] = "recorded"]
        <3>1. \A k \in EffectKeys :
                 EffectPhase'[k] = IF k = <<j, e>> THEN "recorded" ELSE EffectPhase[k]
            BY <1>4, KeyPairs DEF Recorded, Cell, EffectKeys, EffectPhase
        <3> QED BY <1>0, <2>1, <3>1
    <2>4. Promise!Record(<<j, e>>)
        BY <2>1, <2>2, <2>3 DEF Promise!Record
    <2> QED BY <2>1, <2>4 DEF Promise!Next
<1>5. ASSUME NEW w \in Workers, NEW j \in Jobs, NEW e \in Effects, Released(w, j, e)
      PROVE  Promise!Next
    <2>0. succeeded[j][e] = 0
        BY <1>5 DEF Released, HolderOK
    <2>1. /\ <<j, e>> \in EffectKeys /\ <<j, e>> \in Jobs \X Releasable
          /\ EffectPhase[<<j, e>>] = "taken"
          /\ EffectReturns[<<j, e>>] = 0
        BY <1>5, <2>0 DEF Released, EffectKeys, EffectPhase, EffectReturns
    <2>2. EffectReturns' = EffectReturns /\ EffectCalls' = EffectCalls
        BY <1>5 DEF Released, EffectCalls, EffectReturns
    <2>3. EffectPhase' = [EffectPhase EXCEPT ![<<j, e>>] = "free"]
        <3>1. \A k \in EffectKeys :
                 EffectPhase'[k] = IF k = <<j, e>> THEN "free" ELSE EffectPhase[k]
            BY <1>5, KeyPairs DEF Released, Cell, EffectKeys, EffectPhase
        <3> QED BY <1>0, <2>1, <3>1
    <2>4. Promise!Release(<<j, e>>)
        BY <2>1, <2>2, <2>3 DEF Promise!Release
    <2> QED BY <2>1, <2>4 DEF Promise!Next
<1> QED BY <1>1, <1>2, <1>3, <1>4, <1>5

(* The queue, its worker processes and its recovery implement the          *)
(* once-only effect table under the mapping of DurableJobsEffects          *)
(* (run_effect, begin_, complete_ and abort_job_effect).                   *)
THEOREM QueueKeepsPromise == Spec => KeepsPromise
<1>1. Init => Promise!Init
    BY DEF Init, Promise!Init, EffectPhase, EffectCalls, EffectReturns, EffectKeys
<1>2. TypeOK /\ TypeOK' /\ FrameOK /\ EffectInv /\ [Next]_vars => [Promise!Next]_(Promise!vars)
    BY Kinds, RefinesStep DEF EffectInv
<1> QED BY <1>1, <1>2, TypesAndFrames, EffectInvariant, PTL
        DEF Spec, KeepsPromise, Promise!Spec

=============================================================================
