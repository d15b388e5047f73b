------------------------- MODULE DurableJobsEffects -------------------------
(***************************************************************************)
(* The job queue, with all its races, implements OnceOnlyEffects.  The     *)
(* state that carries the promise, and that the proofs make inductive, is  *)
(* which worker stands between begin_job_effect and the end of run_effect. *)
(***************************************************************************)
EXTENDS DurableJobs

EffectKeys == Jobs \X Effects

(* A row that is running or uncertain keeps its key taken; no row frees it. *)
EffectPhase ==
    [k \in EffectKeys |->
        IF effects[k[1]][k[2]] = "none" THEN "free"
        ELSE IF effects[k[1]][k[2]] = "completed" THEN "recorded" ELSE "taken"]

EffectCalls == [k \in EffectKeys |-> invoked[k[1]][k[2]]]
EffectReturns == [k \in EffectKeys |-> succeeded[k[1]][k[2]]]

Promise == INSTANCE OnceOnlyEffects
    WITH Keys <- EffectKeys, RepeatableKeys <- Jobs \X Releasable,
         phase <- EffectPhase, calls <- EffectCalls, returns <- EffectReturns

(* run_effect, begin_job_effect, complete_job_effect and abort_job_effect  *)
(* keep the promise of the effect table under every interleaving of        *)
(* workers, recovery, cancellation and retry.                              *)
KeepsPromise == Promise!Spec

-----------------------------------------------------------------------------
(* The inductive invariant.                                                *)

BeforeReturn == {"operate", "aborting", "releasing"}
AfterReturn == {"operated", "settling"}

(* w called the operation of effect e of job j and has not left run_effect. *)
Holds(w, j, e) ==
    /\ worker[w].pc \in BeforeReturn \cup AfterReturn
    /\ Job(w) = j
    /\ Effect(w) = e

(* Control stands inside run_effect only with a job and one of its steps.  *)
InFrame(w) ==
    /\ worker[w].pc \notin {"idle", "down"} => Job(w) \in Jobs
    /\ worker[w].pc \in BeforeReturn \cup AfterReturn \cup {"record"}
         => worker[w].step \in 1..Len(Plan[Job(w)])
    /\ worker[w].pc = "handler" => worker[w].step \in Nat \ {0}
    /\ worker[w].pc \in {"aborting", "releasing"} => Effect(w) \in Releasable

FrameOK == \A w \in Workers : InFrame(w)

(* An effect in the hands of a worker has a row that is not yet complete,  *)
(* is in no other worker's hands, and has returned iff its worker says so. *)
HolderOK ==
    \A w \in Workers, j \in Jobs, e \in Effects :
        Holds(w, j, e) =>
            /\ effects[j][e] \in {"running", "uncertain"}
            /\ \A v \in Workers : Holds(v, j, e) => v = w
            /\ succeeded[j][e] = IF worker[w].pc \in AfterReturn THEN 1 ELSE 0

(* What the row and the history say of each other.                         *)
LedgerOK ==
    \A j \in Jobs, e \in Effects :
        /\ succeeded[j][e] \in {0, 1}
        /\ effects[j][e] = "none" => succeeded[j][e] = 0
        /\ effects[j][e] = "completed" => succeeded[j][e] = 1
        /\ e \notin Releasable =>
              /\ invoked[j][e] <= 1
              /\ effects[j][e] = "none" => invoked[j][e] = 0

EffectInv == FrameOK /\ HolderOK /\ LedgerOK

(* The attempt counters: a row per attempt, and room paid for by retries.  *)
AttemptInv ==
    \A j \in Jobs :
        /\ Len(attempts[j]) = jobs[j].attempt_count
        /\ jobs[j].attempt_count <= jobs[j].max_attempts
        /\ jobs[j].max_attempts <= MaxAttempts + retries[j]
=============================================================================
