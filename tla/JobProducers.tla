---------------------------- MODULE JobProducers ----------------------------
(***************************************************************************)
(* What puts work on the queue and what the shorter handlers make of it:   *)
(* synchronization schedules that workers turn into jobs, the generate     *)
(* request with its idempotency key, and the regenerate job that replaces  *)
(* the suggested patches of an article.  What the queue does with a job is *)
(* in DurableJobs; here an attempt that is cut off is simply made again.   *)
(***************************************************************************)
EXTENDS Naturals, Sequences, FiniteSets

CONSTANTS
    Workers, Requests, Comments,
    Regenerations,      (* jobs, by number: 1, 2, ...                        *)
    ProducerScopes,     (* what a behaviour exercises                        *)
    Intervals,          (* intervals a user asks for                         *)
    MinInterval,        (* the shortest that is accepted                     *)
    MaxNow,             (* bound: the clock                                  *)
    MaxCuts,            (* bound: crashes                                    *)
    MaxAttempts         (* attempts of a regenerate job                      *)

ASSUME ProducerAssumption ==
    /\ ProducerScopes \subseteq SUBSET {"schedule", "generate", "regenerate", "cut",
                                        "comments"}
    /\ Intervals \subseteq Nat /\ MinInterval \in Nat \ {0}
    /\ {MaxNow, MaxCuts, MaxAttempts} \subseteq Nat
    /\ "none" \notin Comments   (* a patch without a comment names none      *)

VARIABLES
    makes,      (* the operations of this behaviour                          *)
    schedule,   (* the row of sync_schedules, or NoSchedule                  *)
    syncs,      (* the sync jobs that schedules enqueued, in order           *)
    passes,     (* what each worker read in enqueue_due_sync_jobs            *)
    now,
    requests,   (* generate requests, all with the same Idempotency-Key      *)
    drafts,     (* articles they created                                     *)
    generates,  (* generate jobs                                             *)
    comments,   (* article_comments: state and has_patch                     *)
    patches,    (* article_patches                                           *)
    regens,     (* regenerate jobs                                           *)
    cuts

scheduleVars == <<schedule, syncs, passes, now>>
requestVars == <<requests, drafts, generates>>
patchVars == <<comments, patches, regens>>
producerVars == <<makes, scheduleVars, requestVars, patchVars, cuts>>

Does(o) == o \in makes
CutOff == Does("cut") /\ cuts < MaxCuts /\ cuts' = cuts + 1

-----------------------------------------------------------------------------

(* Schedules.                                                              *)

NoSchedule == [next |-> 0, every |-> 0, on |-> FALSE, is |-> FALSE]
NoPass == [due |-> 0, at |-> 0]
PassFree == \A w \in Workers : passes[w] = NoPass

(* Seeded fault: the interval is taken as it is given.                     *)
AsAsked(interval) == interval
Every(interval) == IF interval < MinInterval THEN MinInterval ELSE interval
UpsertSchedule(interval, on) ==
    /\ Does("schedule") /\ PassFree
    /\ LET every == Every(interval) IN
       schedule' = [next |-> now + every, every |-> every, on |-> on, is |-> TRUE]
    /\ UNCHANGED <<makes, syncs, passes, now, requestVars, patchVars, cuts>>

(* Without the workspace lock, so also while a worker enqueues.            *)
DeleteSchedule ==
    /\ Does("schedule") /\ schedule.is
    /\ schedule' = NoSchedule
    /\ UNCHANGED <<makes, syncs, passes, now, requestVars, patchVars, cuts>>

Due == schedule.is /\ schedule.on /\ schedule.next <= now
ReadDue(w) ==
    /\ PassFree /\ Due
    /\ passes' = [passes EXCEPT ![w] = [due |-> schedule.next, at |-> now]]
    /\ UNCHANGED <<makes, schedule, syncs, now, requestVars, patchVars, cuts>>

(* Seeded fault: one interval is added whatever the time.                  *)
OneIntervalLater(due, every, at) == due + every
NextRun(due, every, at) == due + every * (1 + (IF at < due THEN 0 ELSE (at - due) \div every))

EnqueueDue(w) ==
    /\ passes[w] # NoPass
    /\ LET job == passes[w] IN
       /\ syncs' = IF \E k \in DOMAIN syncs : syncs[k].due = job.due THEN syncs
                   ELSE Append(syncs, job)
       /\ schedule' = IF schedule.is /\ schedule.next = job.due
                      THEN [schedule EXCEPT !.next = NextRun(job.due, schedule.every, job.at)]
                      ELSE schedule
    /\ passes' = [passes EXCEPT ![w] = NoPass]
    /\ UNCHANGED <<makes, now, requestVars, patchVars, cuts>>

PassCut(w) ==
    /\ passes[w] # NoPass /\ CutOff
    /\ passes' = [passes EXCEPT ![w] = NoPass]
    /\ UNCHANGED <<makes, schedule, syncs, now, requestVars, patchVars>>

Hour ==
    /\ Does("schedule") /\ now < MaxNow /\ now' = now + 1
    /\ UNCHANGED <<makes, schedule, syncs, passes, requestVars, patchVars, cuts>>

-----------------------------------------------------------------------------

(* Generate requests with one idempotency key.                             *)

NewRequest == [pc |-> "idle", draft |-> 0, job |-> 0, article |-> 0, alone |-> TRUE]
UnderWay(r) == requests[r].pc \in {"create", "session", "job"}
Overlapping(r) == \E q \in Requests \ {r} : UnderWay(q)
Request(r, record) ==
    requests' = [q \in Requests |->
        IF q = r THEN [record EXCEPT !.alone = @ /\ ~Overlapping(r)]
        ELSE IF UnderWay(q) THEN [requests[q] EXCEPT !.alone = FALSE] ELSE requests[q]]
Answer(r, job, article) ==
    Request(r, [requests[r] EXCEPT !.pc = "answered", !.job = job, !.article = article])

(* Seeded fault: the key is looked up only when the job is created.        *)
NoneFound == {}
Found == DOMAIN generates
FindJob(r) ==
    /\ Does("generate") /\ requests[r].pc = "idle"
    /\ \/ Found # {} /\ \E j \in Found : Answer(r, j, generates[j].article)
       \/ Found = {} /\ Request(r, [requests[r] EXCEPT !.pc = "create"])
    /\ UNCHANGED <<makes, scheduleVars, drafts, generates, patchVars, cuts>>

CreateDraft(r) ==
    /\ requests[r].pc = "create"
    /\ drafts' = drafts + 1
    /\ Request(r, [requests[r] EXCEPT !.pc = "session", !.draft = drafts + 1])
    /\ UNCHANGED <<makes, scheduleVars, generates, patchVars, cuts>>

CreateSession(r) ==
    /\ requests[r].pc = "session"
    /\ Request(r, [requests[r] EXCEPT !.pc = "job"])
    /\ UNCHANGED <<makes, scheduleVars, drafts, generates, patchVars, cuts>>

KeyTaken == generates # <<>>
CreateGenerateJob(r) ==
    /\ requests[r].pc = "job"
    /\ IF KeyTaken THEN Answer(r, 1, requests[r].draft) /\ UNCHANGED generates
       ELSE /\ generates' = Append(generates, [article |-> requests[r].draft])
            /\ Answer(r, Len(generates) + 1, requests[r].draft)
    /\ UNCHANGED <<makes, scheduleVars, drafts, patchVars, cuts>>

RequestCut(r) ==
    /\ UnderWay(r) /\ CutOff
    /\ requests' = [requests EXCEPT ![r].pc = "cut"]
    /\ UNCHANGED <<makes, scheduleVars, drafts, generates, patchVars>>

-----------------------------------------------------------------------------

(* Regenerate jobs: ask the provider, delete the patches, add its own.     *)

Agents == [comment |-> "none", by |-> <<0, 0>>]  (* an edit queued by an agent *)
NoRegeneration == [pc |-> "idle", blocks |-> {}, answer |-> {}, attempt |-> 1,
                   effect |-> "none", alone |-> TRUE]
Busy(j) == regens[j].pc \in {"again", "ask", "delete", "add"}
Regenerate(j, record) ==
    regens' = [i \in Regenerations |->
        IF i = j THEN [record EXCEPT !.alone = @ /\ \A k \in Regenerations \ {j} : ~Busy(k)]
        ELSE IF Busy(i) THEN [regens[i] EXCEPT !.alone = FALSE] ELSE regens[i]]
Unresolved == {c \in Comments : comments[c].state = "open"}

(* The result of the effect is kept: a later attempt does not ask again,   *)
(* and one that finds the effect begun and not completed fails the job.    *)
Attempted(record) ==
    [record EXCEPT !.pc = IF Unresolved = {} THEN "done"
                          ELSE CASE record.effect = "none" -> "ask"
                                 [] record.effect = "running" -> "failed"
                                 [] record.effect = "completed" -> "delete"]
BeginRegenerate(j) ==
    /\ Does("regenerate") /\ regens[j].pc = "idle"
    /\ Regenerate(j, Attempted(regens[j]))
    /\ UNCHANGED <<makes, scheduleVars, requestVars, comments, patches, cuts>>
AttemptAgain(j) ==
    /\ regens[j].pc = "again"
    /\ Regenerate(j, Attempted(regens[j]))
    /\ UNCHANGED <<makes, scheduleVars, requestVars, comments, patches, cuts>>

AskProvider(j) ==
    /\ regens[j].pc = "ask"
    /\ \E blocks \in SUBSET Comments :
          Regenerate(j, [regens[j] EXCEPT !.pc = "delete", !.answer = blocks,
                                          !.effect = "completed"])
    /\ UNCHANGED <<makes, scheduleVars, requestVars, comments, patches, cuts>>

(* Seeded fault: a failing attempt goes on for ever.                       *)
TryAgain(record) == [record EXCEPT !.pc = "again"]
NextAttempt(record) ==
    IF record.attempt < MaxAttempts THEN [record EXCEPT !.pc = "again", !.attempt = @ + 1]
    ELSE [record EXCEPT !.pc = "failed"]

(* The runner is unavailable or reports an error: the effect is released.  *)
ProviderFails(j) ==
    /\ regens[j].pc = "ask" /\ CutOff
    /\ Regenerate(j, NextAttempt(regens[j]))
    /\ UNCHANGED <<makes, scheduleVars, requestVars, comments, patches>>

(* Seeded fault: the patches of the answer before stay.                    *)
NoneOfThem(set) == {}
Replaced(set) == {p \in set : p # Agents}
Unmarked(comment) == [comment EXCEPT !.patch = FALSE]
DeletePatches(j) ==
    /\ regens[j].pc = "delete"
    /\ patches' = patches \ Replaced(patches)
    /\ comments' = [c \in Comments |-> Unmarked(comments[c])]
    /\ Regenerate(j, [regens[j] EXCEPT !.pc = "add", !.blocks = regens[j].answer])
    /\ UNCHANGED <<makes, scheduleVars, requestVars, cuts>>

(* A comment that is not there any more fails the attempt.                 *)
AddPatch(j, c) ==
    /\ regens[j].pc = "add" /\ c \in regens[j].blocks
    /\ IF comments[c].state = "deleted"
       THEN Regenerate(j, NextAttempt(regens[j])) /\ UNCHANGED <<comments, patches>>
       ELSE /\ patches' = patches \cup {[comment |-> c, by |-> <<j, regens[j].attempt>>]}
            /\ comments' = [comments EXCEPT ![c].patch = TRUE]
            /\ Regenerate(j, [regens[j] EXCEPT !.blocks = @ \ {c}])
    /\ UNCHANGED <<makes, scheduleVars, requestVars, cuts>>

FinishRegenerate(j) ==
    /\ regens[j].pc = "add" /\ regens[j].blocks = {}
    /\ Regenerate(j, [regens[j] EXCEPT !.pc = "done"])
    /\ UNCHANGED <<makes, scheduleVars, requestVars, comments, patches, cuts>>

RegenerateCut(j) ==
    /\ regens[j].pc \in {"ask", "delete", "add"} /\ CutOff
    /\ Regenerate(j, NextAttempt([regens[j] EXCEPT
          !.effect = IF regens[j].pc = "ask" THEN "running" ELSE @]))
    /\ UNCHANGED <<makes, scheduleVars, requestVars, comments, patches>>

(* A comment is resolved, or opened again.                                 *)
Resolve(c) ==
    /\ Does("comments") /\ comments[c].state # "deleted"
    /\ comments' = [comments EXCEPT ![c].state =
                       IF @ = "open" THEN "resolved" ELSE "open"]
    /\ UNCHANGED <<makes, scheduleVars, requestVars, patches, regens, cuts>>

(* Deleting a comment sets the reference of its patches to NULL.           *)
DeleteComment(c) ==
    /\ Does("comments") /\ comments[c].state # "deleted"
    /\ comments' = [comments EXCEPT ![c] = [state |-> "deleted", patch |-> FALSE]]
    /\ patches' = {IF p.comment = c THEN [p EXCEPT !.comment = "none"] ELSE p : p \in patches}
    /\ UNCHANGED <<makes, scheduleVars, requestVars, regens, cuts>>

-----------------------------------------------------------------------------

ProducerInit ==
    /\ makes \in ProducerScopes
    /\ schedule = NoSchedule /\ syncs = <<>> /\ passes = [w \in Workers |-> NoPass] /\ now = 0
    /\ requests = [r \in Requests |-> NewRequest] /\ drafts = 0 /\ generates = <<>>
    /\ comments = [c \in Comments |-> [state |-> "open", patch |-> FALSE]]
    /\ patches = {Agents} /\ regens = [j \in Regenerations |-> NoRegeneration]
    /\ cuts = 0

PassStep(w) == ReadDue(w) \/ EnqueueDue(w)
RegenerateStep(j) ==
    \/ AttemptAgain(j) \/ AskProvider(j) \/ DeletePatches(j)
    \/ (\E c \in Comments : AddPatch(j, c)) \/ FinishRegenerate(j)

ProducerNext ==
    \/ \E i \in Intervals, on \in BOOLEAN : UpsertSchedule(i, on)
    \/ DeleteSchedule \/ Hour
    \/ \E w \in Workers : PassStep(w) \/ PassCut(w)
    \/ \E r \in Requests :
          FindJob(r) \/ CreateDraft(r) \/ CreateSession(r) \/ CreateGenerateJob(r) \/ RequestCut(r)
    \/ \E j \in Regenerations : 
          BeginRegenerate(j) \/ RegenerateStep(j) \/ ProviderFails(j) \/ RegenerateCut(j)
    \/ \E c \in Comments : Resolve(c) \/ DeleteComment(c)

ProducerSpec == ProducerInit /\ [][ProducerNext]_producerVars

(* A worker polls for ever, and the queue delivers a job until it settles. *)
ProducerFairness ==
    /\ \A w \in Workers : WF_producerVars(PassStep(w))
    /\ \A j \in Regenerations : WF_producerVars(RegenerateStep(j))

-----------------------------------------------------------------------------

ProducerTypeOK ==
    /\ makes \in ProducerScopes /\ now \in 0..MaxNow
    /\ schedule \in [next: Nat, every: Nat, on: BOOLEAN, is: BOOLEAN]
    /\ schedule.is => schedule.every >= MinInterval
    /\ passes \in [Workers -> [due: Nat, at: 0..MaxNow]]
    /\ \A k \in DOMAIN syncs : syncs[k] \in [due: Nat, at: 0..MaxNow]
    /\ requests \in [Requests -> [pc: {"idle", "create", "session", "job", "answered", "cut"},
                                  draft: Nat, job: Nat, article: Nat, alone: BOOLEAN]]
    /\ comments \in [Comments -> [state: {"open", "resolved", "deleted"}, patch: BOOLEAN]]
    /\ \A j \in Regenerations : regens[j].pc \in {"idle", "again", "ask", "delete", "add", "done", "failed"}

(* After an outage a schedule is caught up by one job, and two workers or  *)
(* a crash do not enqueue an occurrence twice: each job is for a time      *)
(* after the previous one was enqueued (enqueue_due_sync_jobs).            *)
OneCatchUp ==
    \A k \in DOMAIN syncs :
        /\ syncs[k].due <= syncs[k].at
        /\ k > 1 => syncs[k].due > syncs[k - 1].at

(* One idempotency key is one generate job, and the article an answer      *)
(* sends the user to is the one that job will write, unless another        *)
(* request with the key was under way (agent.py generate_article).         *)
AnswerNamesTheArticle ==
    /\ Len(generates) <= 1
    /\ \A r \in Requests :
          requests[r].pc = "answered" /\ requests[r].alone
              => requests[r].article = generates[requests[r].job].article

Suggested == {p \in patches : p # Agents}

(* A comment is marked exactly when a suggestion for it exists, an edit an *)
(* agent has queued is not replaced, and the suggestions of an article are *)
(* those of one answer of the provider and of one attempt, also when       *)
(* earlier attempts were cut off or failed, unless two regenerations       *)
(* overlapped (handle_regenerate, delete_patches, add_patch).              *)
PatchesAreOneAnswer ==
    /\ \A c \in Comments : comments[c].patch <=> \E p \in patches : p.comment = c
    /\ Agents \in patches
    /\ (\A j \in Regenerations : regens[j].alone /\ ~Busy(j))
          => \A p, q \in Suggested : p.by = q.by

(* A schedule that is due is served, changed or deleted (run_once).        *)
DueIsServed == Due ~> ~Due

(* A regeneration that asked the provider ends (run_once, fail_job).       *)
RegenerationEnds ==
    \A j \in Regenerations : Busy(j) ~> ~Busy(j)
=============================================================================
