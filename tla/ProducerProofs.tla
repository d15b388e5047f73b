--------------------------- MODULE ProducerProofs ---------------------------
(***************************************************************************)
(* What JobProducers keeps for every set of workers, requests, comments    *)
(* and regenerations, every interval and every bound: an outage is caught  *)
(* up by one job, an answer names the article its job writes, and the      *)
(* suggestions of an article are those of one answer.  Then what holds of  *)
(* them and of the workspace in one behaviour.                             *)
(***************************************************************************)
EXTENDS MC_Workspace, WorkspaceProofs, SequenceTheorems, TLAPS

-----------------------------------------------------------------------------
(* The three producers share no state.                                     *)

ScheduleStep ==
    \/ \E i \in Intervals, on \in BOOLEAN : UpsertSchedule(i, on)
    \/ DeleteSchedule \/ Hour
    \/ \E w \in Workers : PassStep(w) \/ PassCut(w)
RequestStep ==
    \E r \in Requests :
        FindJob(r) \/ CreateDraft(r) \/ CreateSession(r) \/ CreateGenerateJob(r) \/ RequestCut(r)
PatchStep ==
    \/ \E j \in Regenerations :
          BeginRegenerate(j) \/ RegenerateStep(j) \/ ProviderFails(j) \/ RegenerateCut(j)
    \/ \E c \in Comments : Resolve(c) \/ DeleteComment(c)

LEMMA Groups ==
    ASSUME [ProducerNext]_producerVars
    PROVE  /\ ScheduleStep \/ UNCHANGED scheduleVars
           /\ RequestStep \/ UNCHANGED requestVars
           /\ PatchStep \/ UNCHANGED patchVars
           /\ UNCHANGED makes
<1> USE DEF producerVars, scheduleVars, requestVars, patchVars
<1>1. CASE ScheduleStep
    BY <1>1 DEF ScheduleStep, UpsertSchedule, DeleteSchedule, Hour, PassStep, ReadDue,
       EnqueueDue, PassCut
<1>2. CASE RequestStep
    BY <1>2 DEF RequestStep, FindJob, CreateDraft, CreateSession, CreateGenerateJob, RequestCut
<1>3. CASE PatchStep
    BY <1>3 DEF PatchStep, BeginRegenerate, RegenerateStep, ProviderFails, RegenerateCut,
       AttemptAgain, AskProvider, DeletePatches, AddPatch, FinishRegenerate, Resolve, DeleteComment
<1> QED BY <1>1, <1>2, <1>3 DEF ProducerNext, ScheduleStep, RequestStep, PatchStep

-----------------------------------------------------------------------------
(* Schedules.                                                              *)

Job == [due: Nat, at: 0..MaxNow]
ScheduleTypes ==
    /\ now \in 0..MaxNow
    /\ schedule \in [next: Nat, every: Nat, on: BOOLEAN, is: BOOLEAN]
    /\ schedule.is => schedule.every >= MinInterval
    /\ passes \in [Workers -> Job]
    /\ syncs \in Seq(Job)

(* A pass holds the occurrence that is due, and one worker makes it; every *)
(* job was enqueued before the next occurrence.                            *)
Active(w) == passes[w] # NoPass
Passing ==
    /\ \A v, w \in Workers : Active(v) /\ Active(w) => v = w
    /\ \A w \in Workers : Active(w) =>
          /\ passes[w].due <= passes[w].at /\ passes[w].at <= now
          /\ schedule.is => schedule.next = passes[w].due
          /\ \A k \in DOMAIN syncs : syncs[k].at < passes[w].due
Served ==
    \A k \in DOMAIN syncs :
        /\ syncs[k].at <= now
        /\ schedule.is => syncs[k].at < schedule.next

ScheduleInv == ScheduleTypes /\ Passing /\ Served /\ OneCatchUp

(* The next occurrence is after the time at which this one is enqueued.    *)
LEMMA NextIsLater ==
    ASSUME NEW due \in Nat, NEW at \in Nat, NEW every \in Nat, every > 0, due <= at
    PROVE  NextRun(due, every, at) \in Nat /\ NextRun(due, every, at) > at
<1> DEFINE q == (at - due) \div every
<1>1. q \in Nat /\ at - due < every * q + every
    OBVIOUS
<1>2. every * (1 + q) = every * q + every
    BY <1>1
<1>3. every * q \in Nat
    BY <1>1
<1>4. NextRun(due, every, at) = due + every * (1 + q)
    BY DEF NextRun
<1> HIDE DEF q
<1> QED BY <1>1, <1>2, <1>3, <1>4

LEMMA ScheduleInit == ProducerInit => ScheduleInv
<1> SUFFICES ASSUME ProducerInit PROVE ScheduleInv
    OBVIOUS
<1>1. /\ schedule = NoSchedule /\ syncs = <<>> /\ passes = [w \in Workers |-> NoPass] /\ now = 0
    BY DEF ProducerInit
<1>2. MaxNow \in Nat /\ NoPass \in Job
    BY ProducerAssumption DEF NoPass, Job
<1>3. ScheduleTypes
    BY <1>1, <1>2 DEF ScheduleTypes, NoSchedule
<1>4. DOMAIN syncs = {}
    BY <1>1
<1>5. \A w \in Workers : ~Active(w)
    BY <1>1 DEF Active
<1> QED BY <1>3, <1>4, <1>5 DEF ScheduleInv, Passing, Served, OneCatchUp

LEMMA ScheduleSteps ==
    ASSUME ScheduleInv, ScheduleStep
    PROVE  ScheduleInv'
<1> USE DEF ScheduleInv
<1>0. /\ MinInterval \in Nat /\ MinInterval > 0 /\ Intervals \subseteq Nat /\ MaxNow \in Nat
      /\ now \in Nat /\ NoPass \in Job
      /\ \A k \in DOMAIN syncs : syncs[k] \in Job
    <2>1. \A k \in DOMAIN syncs : syncs[k] \in Job
        BY DEF ScheduleTypes
    <2> QED BY <2>1, ProducerAssumption DEF ScheduleTypes, NoPass, Job
<1>1. ASSUME NEW i \in Intervals, NEW on \in BOOLEAN, UpsertSchedule(i, on)
      PROVE  ScheduleInv'
    <2>1. /\ UNCHANGED <<syncs, passes, now>> /\ \A w \in Workers : ~Active(w)
          /\ schedule' = [next |-> now + Every(i), every |-> Every(i), on |-> on, is |-> TRUE]
        BY <1>1 DEF UpsertSchedule, PassFree, Active
    <2>2. Every(i) \in Nat /\ Every(i) >= MinInterval
        BY <1>0 DEF Every
    <2>3. ScheduleTypes'
        BY <1>0, <2>1, <2>2 DEF ScheduleTypes
    <2>4. Served'
        BY <1>0, <2>1, <2>2 DEF Served, Job
    <2>5. Passing' /\ OneCatchUp'
        BY <2>1 DEF Passing, Active, OneCatchUp
    <2> QED BY <2>3, <2>4, <2>5
<1>2. ASSUME DeleteSchedule
      PROVE  ScheduleInv'
    <2>1. UNCHANGED <<syncs, passes, now>> /\ schedule' = NoSchedule
        BY <1>2 DEF DeleteSchedule
    <2> QED BY <2>1 DEF ScheduleTypes, Served, Passing, Active, OneCatchUp, NoSchedule
<1>3. ASSUME Hour
      PROVE  ScheduleInv'
    <2>1. UNCHANGED <<syncs, passes, schedule>> /\ now' = now + 1 /\ now < MaxNow
        BY <1>3 DEF Hour
    <2>2. ScheduleTypes'
        BY <1>0, <2>1 DEF ScheduleTypes
    <2>3. Served'
        BY <1>0, <2>1 DEF Served, Job
    <2>4. \A w \in Workers : passes[w].at \in Nat
        BY <1>0 DEF ScheduleTypes, Job
    <2>5. Passing'
        BY <1>0, <2>1, <2>4 DEF Passing, Active
    <2> QED BY <2>1, <2>2, <2>3, <2>5 DEF OneCatchUp
<1>4. ASSUME NEW w \in Workers, ReadDue(w)
      PROVE  ScheduleInv'
    <2>1. /\ UNCHANGED <<syncs, schedule, now>> /\ \A v \in Workers : ~Active(v)
          /\ passes' = [passes EXCEPT ![w] = [due |-> schedule.next, at |-> now]]
          /\ schedule.is /\ schedule.next <= now
        BY <1>4 DEF ReadDue, PassFree, Active, Due
    <2>2. ScheduleTypes'
        BY <1>0, <2>1 DEF ScheduleTypes, Job
    <2>3. passes'[w].due = schedule.next /\ passes'[w].at = now
          /\ \A v \in Workers : v # w => passes'[v] = NoPass
        BY <2>1 DEF ScheduleTypes, Active
    <2>4. Passing'
        BY <1>0, <2>1, <2>3 DEF Passing, Active, Served
    <2> QED BY <2>1, <2>2, <2>4 DEF Served, OneCatchUp
<1>5. ASSUME NEW w \in Workers, EnqueueDue(w)
      PROVE  ScheduleInv'
    <2> DEFINE job == passes[w]
    <2>1. /\ job \in Job /\ Active(w) /\ now' = now
          /\ passes' = [passes EXCEPT ![w] = NoPass]
          /\ schedule' = IF schedule.is /\ schedule.next = job.due
                         THEN [schedule EXCEPT !.next = NextRun(job.due, schedule.every, job.at)]
                         ELSE schedule
        BY <1>5 DEF EnqueueDue, ScheduleTypes, Active
    <2>2. job.due \in Nat /\ job.at \in Nat /\ job.due <= job.at
          /\ \A k \in DOMAIN syncs : syncs[k].at < job.due
        BY <1>0, <2>1 DEF Passing, Job
    <2>3. ~\E k \in DOMAIN syncs : syncs[k].due = job.due
        BY <1>0, <2>2 DEF OneCatchUp, Job
    <2>4. syncs' = Append(syncs, job)
        BY <1>5, <2>3 DEF EnqueueDue
    <2>5. /\ Len(syncs) \in Nat /\ DOMAIN syncs = 1..Len(syncs)
          /\ DOMAIN syncs' = 1..(Len(syncs) + 1)
          /\ syncs'[Len(syncs) + 1] = job
          /\ \A k \in DOMAIN syncs : syncs'[k] = syncs[k]
          /\ syncs' \in Seq(Job)
        BY <2>1, <2>4 DEF ScheduleTypes
    <2>6. job.at <= now
        BY <2>1 DEF Passing
    <2> HIDE DEF job
    <2>7. OneCatchUp'
        <3>1. ASSUME NEW k \in DOMAIN syncs'
              PROVE  /\ syncs'[k].due <= syncs'[k].at
                     /\ k > 1 => syncs'[k].due > syncs'[k - 1].at
            <4>1. CASE k \in DOMAIN syncs
                <5>1. k > 1 => k - 1 \in DOMAIN syncs
                    BY <2>5, <4>1
                <5> QED BY <2>5, <4>1, <5>1 DEF OneCatchUp
            <4>2. CASE k = Len(syncs) + 1
                <5>1. k > 1 => k - 1 \in DOMAIN syncs
                    BY <2>5, <4>2
                <5> QED BY <2>2, <2>5, <4>2, <5>1
            <4> QED BY <2>5, <4>1, <4>2
        <3> QED BY <3>1 DEF OneCatchUp
    <2>0. schedule.is => schedule.every \in Nat /\ schedule.every > 0
        BY <1>0 DEF ScheduleTypes
    <2>8. schedule'.is => schedule'.next > job.at /\ schedule'.next >= schedule.next
        <3>1. CASE schedule.is /\ schedule.next = job.due
            <4>1. NextRun(job.due, schedule.every, job.at) > job.at
                  /\ NextRun(job.due, schedule.every, job.at) \in Nat
                BY <2>2, <2>0, <3>1, NextIsLater
            <4> QED BY <2>1, <2>2, <3>1, <4>1 DEF ScheduleTypes
        <3>2. schedule.is => schedule.next = job.due
            BY <2>1 DEF Passing, job
        <3> QED BY <2>1, <3>1, <3>2
    <2>9. ScheduleTypes'
        <3>1. CASE schedule.is /\ schedule.next = job.due
            <4>1. NextRun(job.due, schedule.every, job.at) \in Nat
                BY <2>2, <2>0, <3>1, NextIsLater
            <4> QED BY <1>0, <2>1, <2>5, <3>1, <4>1 DEF ScheduleTypes
        <3> QED BY <1>0, <2>1, <2>5, <3>1 DEF ScheduleTypes
    <2>10. Served'
        <3>1. ASSUME NEW k \in DOMAIN syncs'
              PROVE  syncs'[k].at <= now /\ (schedule'.is => syncs'[k].at < schedule'.next)
            <4>1. CASE k \in DOMAIN syncs
                <5>1. /\ syncs[k].at \in Nat /\ syncs[k].at <= now /\ syncs[k].at < job.due
                    BY <1>0, <2>2, <4>1 DEF Served, Job
                <5> QED BY <2>2, <2>5, <2>8, <2>9, <4>1, <5>1 DEF ScheduleTypes
            <4>2. CASE k = Len(syncs) + 1
                BY <2>2, <2>5, <2>6, <2>8, <2>9, <4>2 DEF ScheduleTypes
            <4> QED BY <2>5, <4>1, <4>2
        <3> QED BY <2>1, <3>1 DEF Served
    <2>11. \A v \in Workers : ~(passes'[v] # NoPass)
        BY <2>1 DEF ScheduleTypes, Passing, Active
    <2> QED BY <2>7, <2>9, <2>10, <2>11 DEF Passing, Active
<1>6. ASSUME NEW w \in Workers, PassCut(w)
      PROVE  ScheduleInv'
    <2>1. UNCHANGED <<syncs, schedule, now>> /\ passes' = [passes EXCEPT ![w] = NoPass]
        BY <1>6 DEF PassCut
    <2> QED BY <1>0, <2>1 DEF ScheduleTypes, Passing, Active, Served, OneCatchUp
<1> QED
    BY <1>1, <1>2, <1>3, <1>4, <1>5, <1>6 DEF ScheduleStep, PassStep

LEMMA ScheduleInvariant == ProducerSpec => []ScheduleInv
<1>1. ProducerInit => ScheduleInv
    BY ScheduleInit
<1>2. ScheduleInv /\ [ProducerNext]_producerVars => ScheduleInv'
    <2>1. ScheduleInv /\ UNCHANGED scheduleVars => ScheduleInv'
        BY DEF scheduleVars, ScheduleInv, ScheduleTypes, Passing, Active, Served, OneCatchUp
    <2> QED BY <2>1, Groups, ScheduleSteps
<1> QED BY <1>1, <1>2, PTL DEF ProducerSpec

(* However long no worker ran, however many workers and crashes there are, *)
(* and whatever intervals the user sets: a due schedule becomes one job,   *)
(* and the next one is for a time after that (enqueue_due_sync_jobs).      *)
THEOREM CaughtUpByOneJob == ProducerSpec => []OneCatchUp
BY ScheduleInvariant, PTL DEF ScheduleInv

-----------------------------------------------------------------------------
(* Generate requests with one idempotency key.                             *)

GenerateJob == [article: Nat]
RequestTypes ==
    /\ requests \in [Requests -> [pc: {"idle", "create", "session", "job", "answered", "cut"},
                                  draft: Nat, job: Nat, article: Nat, alone: BOOLEAN]]
    /\ drafts \in Nat
    /\ generates \in Seq(GenerateJob)

(* A request that met no other found no job; none was made since.          *)
Undisturbed ==
    \A r \in Requests : UnderWay(r) /\ requests[r].alone =>
        generates = <<>> /\ \A q \in Requests : UnderWay(q) => q = r
Answered ==
    \A r \in Requests : requests[r].pc = "answered" => requests[r].job \in DOMAIN generates
RequestInv == RequestTypes /\ Undisturbed /\ Answered /\ AnswerNamesTheArticle

(* A request that moves on tells the others, and itself, that they met.    *)
LEMMA RequestRows ==
    ASSUME RequestTypes, NEW r \in Requests,
           NEW record \in [pc: {"idle", "create", "session", "job", "answered", "cut"},
                           draft: Nat, job: Nat, article: Nat, alone: BOOLEAN],
           Request(r, record), record.alone = requests[r].alone
    PROVE  /\ requests' \in [Requests ->
                  [pc: {"idle", "create", "session", "job", "answered", "cut"},
                   draft: Nat, job: Nat, article: Nat, alone: BOOLEAN]]
           /\ requests'[r].pc = record.pc /\ requests'[r].job = record.job
           /\ requests'[r].article = record.article
           /\ requests'[r].alone => requests[r].alone /\ ~Overlapping(r)
           /\ \A q \in Requests \ {r} :
                 /\ requests'[q].pc = requests[q].pc /\ requests'[q].job = requests[q].job
                 /\ requests'[q].article = requests[q].article
                 /\ UnderWay(q) => ~requests'[q].alone
                 /\ ~UnderWay(q) => requests'[q].alone = requests[q].alone
<1>1. requests'[r] = [record EXCEPT !.alone = record.alone /\ ~Overlapping(r)]
    BY DEF Request
<1>2. ASSUME NEW q \in Requests \ {r}
      PROVE  requests'[q] = IF UnderWay(q) THEN [requests[q] EXCEPT !.alone = FALSE]
                            ELSE requests[q]
    BY DEF Request
<1>3. ASSUME NEW q \in Requests \ {r}
      PROVE  /\ requests'[q] \in [pc: {"idle", "create", "session", "job", "answered", "cut"},
                                  draft: Nat, job: Nat, article: Nat, alone: BOOLEAN]
             /\ requests'[q].pc = requests[q].pc /\ requests'[q].job = requests[q].job
             /\ requests'[q].article = requests[q].article
             /\ UnderWay(q) => ~requests'[q].alone
             /\ ~UnderWay(q) => requests'[q].alone = requests[q].alone
    BY <1>2, <1>3 DEF RequestTypes
<1>4. /\ requests'[r] \in [pc: {"idle", "create", "session", "job", "answered", "cut"},
                           draft: Nat, job: Nat, article: Nat, alone: BOOLEAN]
      /\ requests'[r].pc = record.pc /\ requests'[r].job = record.job
      /\ requests'[r].article = record.article
      /\ requests'[r].alone => requests[r].alone /\ ~Overlapping(r)
    <2>1. (record.alone /\ ~Overlapping(r)) \in BOOLEAN
        OBVIOUS
    <2> QED BY <1>1, <2>1
<1>5. requests' = [q \in Requests |-> requests'[q]]
    BY DEF Request
<1> QED BY <1>3, <1>4, <1>5

LEMMA RequestSteps ==
    ASSUME RequestInv, RequestStep
    PROVE  RequestInv'
<1> DEFINE Rows == [pc: {"idle", "create", "session", "job", "answered", "cut"},
                    draft: Nat, job: Nat, article: Nat, alone: BOOLEAN]
<1> USE DEF RequestInv
<1>0. /\ requests \in [Requests -> Rows] /\ drafts \in Nat
      /\ generates \in Seq(GenerateJob) /\ Len(generates) <= 1 /\ Len(generates) \in Nat
      /\ DOMAIN generates = 1..Len(generates)
      /\ \A j \in DOMAIN generates : generates[j].article \in Nat
    <2>1. \A j \in DOMAIN generates : generates[j] \in GenerateJob
        BY DEF RequestTypes
    <2>2. \A j \in DOMAIN generates : generates[j].article \in Nat
        BY <2>1 DEF GenerateJob
    <2> QED BY <2>2 DEF RequestTypes, AnswerNamesTheArticle
<1>1. ASSUME NEW r \in Requests, NEW record \in Rows, Request(r, record),
             record.alone = requests[r].alone, UNCHANGED generates, drafts' \in Nat,
             record.pc \in {"create", "session", "job", "answered"},
             record.pc = "create" => generates = <<>>,
             record.pc \in {"session", "job"} => UnderWay(r),
             record.pc = "answered" => /\ record.job \in DOMAIN generates
                                       /\ \/ record.article = generates[record.job].article
                                          \/ UnderWay(r) /\ generates # <<>>
      PROVE  RequestInv'
    <2>1. /\ requests' \in [Requests -> Rows]
          /\ requests'[r].pc = record.pc /\ requests'[r].job = record.job
          /\ requests'[r].article = record.article
          /\ requests'[r].alone => requests[r].alone /\ ~Overlapping(r)
          /\ \A q \in Requests \ {r} :
                 /\ requests'[q].pc = requests[q].pc /\ requests'[q].job = requests[q].job
                 /\ requests'[q].article = requests[q].article
                 /\ UnderWay(q) => ~requests'[q].alone
                 /\ ~UnderWay(q) => requests'[q].alone = requests[q].alone
        BY <1>1, RequestRows
    <2>2. RequestTypes'
        BY <1>0, <1>1, <2>1 DEF RequestTypes
    <2>3. Answered'
        BY <1>1, <2>1 DEF Answered
    <2>4. Undisturbed'
        BY <1>1, <2>1 DEF Undisturbed, UnderWay, Overlapping
    <2>5. AnswerNamesTheArticle'
        <3>1. ASSUME NEW q \in Requests, requests'[q].pc = "answered", requests'[q].alone
              PROVE  requests'[q].article = generates[requests'[q].job].article
            <4>1. CASE q = r
                BY <1>1, <2>1, <3>1, <4>1 DEF Undisturbed
            <4>2. CASE q # r
                BY <2>1, <3>1, <4>2 DEF AnswerNamesTheArticle, UnderWay
            <4> QED BY <4>1, <4>2
        <3> QED BY <1>0, <1>1, <3>1 DEF AnswerNamesTheArticle
    <2> QED BY <2>2, <2>3, <2>4, <2>5

<1>2. ASSUME NEW r \in Requests, FindJob(r)
      PROVE  RequestInv'
    <2>0. requests[r] \in Rows /\ UNCHANGED <<drafts, generates>>
        BY <1>0, <1>2 DEF FindJob
    <2>1. CASE \E j \in Found : Answer(r, j, generates[j].article)
        <3>1. PICK j \in Found : Answer(r, j, generates[j].article)
            BY <2>1
        <3> DEFINE record == [requests[r] EXCEPT !.pc = "answered", !.job = j,
                                                 !.article = generates[j].article]
        <3>2. j \in DOMAIN generates /\ j \in Nat /\ generates[j].article \in Nat
            BY <1>0 DEF Found
        <3>3. /\ record \in Rows /\ record.alone = requests[r].alone
              /\ record.pc = "answered" /\ record.job = j
              /\ record.article = generates[j].article
            BY <2>0, <3>2
        <3>4. Request(r, record)
            BY <3>1 DEF Answer
        <3> HIDE DEF record
        <3> QED BY <1>0, <1>1, <2>0, <3>2, <3>3, <3>4
    <2>2. CASE Found = {} /\ Request(r, [requests[r] EXCEPT !.pc = "create"])
        <3> DEFINE record == [requests[r] EXCEPT !.pc = "create"]
        <3>1. record \in Rows /\ record.alone = requests[r].alone /\ record.pc = "create"
            BY <2>0
        <3>2. generates = <<>>
            BY <1>0, <2>2 DEF Found
        <3> HIDE DEF record
        <3>3. Request(r, record)
            BY <2>2 DEF record
        <3> QED BY <1>0, <1>1, <2>0, <3>1, <3>2, <3>3
    <2> QED BY <1>2, <2>1, <2>2 DEF FindJob
<1>3. ASSUME NEW r \in Requests, CreateDraft(r)
      PROVE  RequestInv'
    <2> DEFINE record == [requests[r] EXCEPT !.pc = "session", !.draft = drafts + 1]
    <2>1. requests[r] \in Rows
        BY <1>0
    <2>2. record \in Rows /\ record.alone = requests[r].alone /\ record.pc = "session"
        <3>1. drafts + 1 \in Nat
            BY <1>0
        <3> QED BY <2>1, <3>1
    <2>3. Request(r, record) /\ UnderWay(r) /\ drafts' \in Nat /\ UNCHANGED generates
        BY <1>0, <1>3 DEF CreateDraft, UnderWay
    <2> HIDE DEF record
    <2> QED BY <1>1, <2>2, <2>3
<1>4. ASSUME NEW r \in Requests, CreateSession(r)
      PROVE  RequestInv'
    <2> DEFINE record == [requests[r] EXCEPT !.pc = "job"]
    <2>1. requests[r] \in Rows
        BY <1>0
    <2>2. record \in Rows /\ record.alone = requests[r].alone /\ record.pc = "job"
        BY <2>1
    <2>3. Request(r, record) /\ UnderWay(r) /\ UNCHANGED <<drafts, generates>>
        BY <1>4 DEF CreateSession, UnderWay
    <2> HIDE DEF record
    <2> QED BY <1>0, <1>1, <2>2, <2>3
<1>5. ASSUME NEW r \in Requests, CreateGenerateJob(r)
      PROVE  RequestInv'
    <2>0. /\ requests[r] \in Rows /\ UnderWay(r) /\ UNCHANGED drafts
          /\ requests[r].draft \in Nat
        BY <1>0, <1>5 DEF CreateGenerateJob, UnderWay
    <2> DEFINE record == [requests[r] EXCEPT !.pc = "answered", !.job = 1,
                                             !.article = requests[r].draft]
    <2>1. /\ record \in Rows /\ record.alone = requests[r].alone
          /\ record.pc = "answered" /\ record.job = 1
          /\ record.article = requests[r].draft
        BY <2>0
    <2>2. CASE KeyTaken
        <3>1. Request(r, record) /\ UNCHANGED generates
            BY <1>5, <2>2 DEF CreateGenerateJob, Answer
        <3>2. 1 \in DOMAIN generates /\ generates # <<>>
            BY <1>0, <2>2 DEF KeyTaken
        <3> HIDE DEF record
        <3> QED BY <1>0, <1>1, <2>0, <2>1, <3>1, <3>2
    <2>3. CASE ~KeyTaken
        <3>1. generates = <<>> /\ Len(generates) = 0
            BY <2>3 DEF KeyTaken
        <3>2. /\ generates' = Append(generates, [article |-> requests[r].draft])
              /\ Answer(r, Len(generates) + 1, requests[r].draft)
            BY <1>5, <2>3 DEF CreateGenerateJob
        <3>3. Request(r, record)
            BY <3>1, <3>2 DEF Answer
        <3>4. [article |-> requests[r].draft] \in GenerateJob
            BY <2>0 DEF GenerateJob
        <3>5. /\ generates' \in Seq(GenerateJob) /\ Len(generates') = 1
              /\ DOMAIN generates' = {1}
              /\ generates'[1] = [article |-> requests[r].draft]
            <4>1. generates \in Seq(GenerateJob) /\ Len(generates) = 0
                BY <1>0, <3>1
            <4> HIDE DEF record
            <4> QED BY <4>1, <3>2, <3>4, AppendProperties
        <3> HIDE DEF record
        <3>6. /\ requests' \in [Requests -> Rows]
              /\ requests'[r].pc = record.pc /\ requests'[r].job = record.job
              /\ requests'[r].article = record.article
              /\ requests'[r].alone => requests[r].alone /\ ~Overlapping(r)
              /\ \A q \in Requests \ {r} :
                    /\ requests'[q].pc = requests[q].pc /\ requests'[q].job = requests[q].job
                    /\ requests'[q].article = requests[q].article
                    /\ UnderWay(q) => ~requests'[q].alone
                    /\ ~UnderWay(q) => requests'[q].alone = requests[q].alone
            BY <2>1, <3>3, RequestRows
        <3>7. RequestTypes'
            BY <1>0, <2>0, <3>5, <3>6 DEF RequestTypes
        <3>8. \A q \in Requests \ {r} : requests[q].pc # "answered"
            BY <1>0, <3>1 DEF Answered
        <3>9. Answered'
            BY <2>1, <3>5, <3>6, <3>8 DEF Answered
        <3>10. Undisturbed'
            BY <2>1, <3>6 DEF Undisturbed, UnderWay
        <3>11. generates'[1].article = requests[r].draft
            BY <3>5
        <3>12. AnswerNamesTheArticle'
            BY <2>1, <3>5, <3>6, <3>8, <3>11 DEF AnswerNamesTheArticle
        <3> QED BY <3>7, <3>9, <3>10, <3>12
    <2> QED BY <2>2, <2>3
<1>6. ASSUME NEW r \in Requests, RequestCut(r)
      PROVE  RequestInv'
    <2>1. /\ requests' = [requests EXCEPT ![r].pc = "cut"] /\ UnderWay(r)
          /\ UNCHANGED <<drafts, generates>>
        BY <1>6 DEF RequestCut
    <2>2. requests[r] \in Rows
        BY <1>0
    <2>3. requests'[r] = [requests[r] EXCEPT !.pc = "cut"]
        BY <1>0, <2>1
    <2>4. requests'[r] \in Rows /\ requests'[r].pc = "cut"
        BY <2>2, <2>3
    <2>5. \A q \in Requests \ {r} : requests'[q] = requests[q]
        BY <1>0, <2>1
    <2>6. requests' \in [Requests -> Rows]
        BY <1>0, <2>1, <2>4
    <2>7. RequestTypes'
        BY <1>0, <2>1, <2>6 DEF RequestTypes
    <2>8. Answered' /\ AnswerNamesTheArticle'
        BY <2>1, <2>4, <2>5 DEF Answered, AnswerNamesTheArticle
    <2>9. Undisturbed'
        BY <2>1, <2>4, <2>5 DEF Undisturbed, UnderWay
    <2> QED BY <2>7, <2>8, <2>9
<1> QED
    BY <1>2, <1>3, <1>4, <1>5, <1>6 DEF RequestStep

LEMMA RequestInvariant == ProducerSpec => []RequestInv
<1>1. ProducerInit => RequestInv
    BY DEF ProducerInit, RequestInv, RequestTypes, Undisturbed, Answered,
           AnswerNamesTheArticle, NewRequest, UnderWay
<1>2. RequestInv /\ [ProducerNext]_producerVars => RequestInv'
    <2>1. RequestInv /\ UNCHANGED requestVars => RequestInv'
        BY DEF requestVars, RequestInv, RequestTypes, Undisturbed, Answered,
               AnswerNamesTheArticle, UnderWay
    <2> QED BY <2>1, Groups, RequestSteps
<1> QED BY <1>1, <1>2, PTL DEF ProducerSpec

(* Whatever the requests with one idempotency key do: there is one job,    *)
(* and the answer of a request that met no other names the article this    *)
(* job writes (generate_article).                                          *)
THEOREM OneKeyOneArticle == ProducerSpec => []AnswerNamesTheArticle
BY RequestInvariant, PTL DEF RequestInv

-----------------------------------------------------------------------------
(* Regenerations and the patches of an article.                            *)

Marking == [state: {"open", "resolved", "deleted"}, patch: BOOLEAN]
Regen == [pc: {"idle", "again", "ask", "delete", "add", "done", "failed"},
          blocks: SUBSET Comments, answer: SUBSET Comments, attempt: Nat \ {0},
          effect: {"none", "running", "completed"}, alone: BOOLEAN]
Patch == [comment: Comments \cup {"none"}, by: Regenerations \X (Nat \ {0})]
PatchTypes ==
    /\ comments \in [Comments -> Marking]
    /\ regens \in [Regenerations -> Regen]
    /\ patches \subseteq Patch \cup {Agents}

Marked ==
    /\ \A c \in Comments : comments[c].patch <=> \E p \in patches : p.comment = c
    /\ Agents \in patches

(* While no two regenerations have met, at most one is busy, the           *)
(* suggestions are of one attempt, and an attempt that adds patches has    *)
(* deleted those of every other.                                           *)
NoneMet == \A j \in Regenerations : regens[j].alone
OneAnswer ==
    NoneMet =>
        /\ \A i, j \in Regenerations : Busy(i) /\ Busy(j) => i = j
        /\ \A p, q \in Suggested : p.by = q.by
        /\ \A j \in Regenerations : regens[j].pc = "add" =>
              \A p \in Suggested : p.by = <<j, regens[j].attempt>>
PatchInv == PatchTypes /\ Marked /\ OneAnswer

LEMMA RegenRows ==
    ASSUME PatchTypes, NEW j \in Regenerations, NEW record \in Regen,
           Regenerate(j, record), record.alone = regens[j].alone
    PROVE  /\ regens' \in [Regenerations -> Regen]
           /\ regens'[j].pc = record.pc /\ regens'[j].attempt = record.attempt
           /\ \A i \in Regenerations \ {j} :
                 regens'[i].pc = regens[i].pc /\ regens'[i].attempt = regens[i].attempt
           /\ NoneMet' => NoneMet /\ \A i \in Regenerations \ {j} : ~Busy(i)
<1>0. \A i \in Regenerations : regens[i] \in Regen
    BY DEF PatchTypes
<1>1. regens'[j] = [record EXCEPT !.alone = record.alone /\ \A k \in Regenerations \ {j} : ~Busy(k)]
    BY DEF Regenerate
<1>2. /\ regens'[j] \in Regen /\ regens'[j].pc = record.pc
      /\ regens'[j].attempt = record.attempt
      /\ regens'[j].alone => record.alone /\ \A k \in Regenerations \ {j} : ~Busy(k)
    <2> DEFINE free == record.alone /\ \A k \in Regenerations \ {j} : ~Busy(k)
    <2>1. free \in BOOLEAN /\ regens'[j] = [record EXCEPT !.alone = free]
        BY <1>1
    <2>2. free => record.alone /\ \A k \in Regenerations \ {j} : ~Busy(k)
        OBVIOUS
    <2> HIDE DEF free
    <2>3. /\ regens'[j] \in Regen /\ regens'[j].pc = record.pc
          /\ regens'[j].attempt = record.attempt /\ regens'[j].alone = free
        BY <2>1 DEF Regen
    <2> QED BY <2>2, <2>3
<1>3. ASSUME NEW i \in Regenerations \ {j}
      PROVE  /\ regens'[i] \in Regen /\ regens'[i].pc = regens[i].pc
             /\ regens'[i].attempt = regens[i].attempt
             /\ regens'[i].alone => regens[i].alone
    <2>1. regens'[i] = IF Busy(i) THEN [regens[i] EXCEPT !.alone = FALSE] ELSE regens[i]
        BY <1>3 DEF Regenerate
    <2>2. [regens[i] EXCEPT !.alone = FALSE] \in Regen
        BY <1>0, <1>3 DEF Regen
    <2>3. /\ [regens[i] EXCEPT !.alone = FALSE].pc = regens[i].pc
          /\ [regens[i] EXCEPT !.alone = FALSE].attempt = regens[i].attempt
          /\ [regens[i] EXCEPT !.alone = FALSE].alone = FALSE
        BY <1>0, <1>3 DEF Regen
    <2> QED BY <1>0, <1>3, <2>1, <2>2, <2>3
<1>4. regens' = [i \in Regenerations |-> regens'[i]]
    BY DEF Regenerate
<1>5. regens' \in [Regenerations -> Regen]
    BY <1>2, <1>3, <1>4
<1>6. NoneMet' => NoneMet /\ \A i \in Regenerations \ {j} : ~Busy(i)
    BY <1>2, <1>3 DEF NoneMet
<1> QED BY <1>2, <1>3, <1>5, <1>6

(* A step of a regeneration that leaves the patches alone.                 *)
LEMMA RegenMoves ==
    ASSUME PatchInv, NEW j \in Regenerations, NEW record \in Regen,
           Regenerate(j, record), record.alone = regens[j].alone, record.pc # "add",
           UNCHANGED <<comments, patches>>
    PROVE  PatchInv'
<1>1. /\ regens' \in [Regenerations -> Regen]
      /\ regens'[j].pc = record.pc
      /\ \A i \in Regenerations \ {j} :
            regens'[i].pc = regens[i].pc /\ regens'[i].attempt = regens[i].attempt
      /\ NoneMet' => NoneMet /\ \A i \in Regenerations \ {j} : ~Busy(i)
    BY RegenRows DEF PatchInv
<1>2. OneAnswer'
    BY <1>1 DEF PatchInv, OneAnswer, Busy, Suggested
<1> QED BY <1>1, <1>2 DEF PatchInv, PatchTypes, Marked

LEMMA NextAttemptRow ==
    ASSUME NEW record \in Regen
    PROVE  /\ NextAttempt(record) \in Regen /\ NextAttempt(record).alone = record.alone
           /\ NextAttempt(record).pc \in {"again", "failed"}
<1>1. record.attempt \in Nat \ {0} /\ record.attempt + 1 \in Nat \ {0}
    BY DEF Regen
<1>2. [record EXCEPT !.pc = "again", !.attempt = record.attempt + 1] \in Regen
    BY <1>1 DEF Regen
<1>3. [record EXCEPT !.pc = "failed"] \in Regen
    BY DEF Regen
<1>4. /\ [record EXCEPT !.pc = "again", !.attempt = record.attempt + 1].alone = record.alone
      /\ [record EXCEPT !.pc = "again", !.attempt = record.attempt + 1].pc = "again"
      /\ [record EXCEPT !.pc = "failed"].alone = record.alone
      /\ [record EXCEPT !.pc = "failed"].pc = "failed"
    BY DEF Regen
<1> QED BY <1>2, <1>3, <1>4 DEF NextAttempt

LEMMA AttemptedRow ==
    ASSUME NEW record \in Regen
    PROVE  /\ Attempted(record) \in Regen /\ Attempted(record).alone = record.alone
           /\ Attempted(record).pc \in {"done", "ask", "failed", "delete"}
BY DEF Attempted, Regen

(* An added patch is not the agents' edit: attempts are counted from one.  *)
LEMMA SuggestionsDiffer ==
    ASSUME PatchTypes
    PROVE  /\ \A p \in Patch : p # Agents
           /\ Suggested = patches \cap Patch
<1>1. \A p \in Patch : p # Agents
    <2>1. \A p \in Patch : p.by \in Regenerations \X (Nat \ {0})
        BY DEF Patch
    <2>2. \A pair \in Regenerations \X (Nat \ {0}) : pair # <<0, 0>>
        OBVIOUS
    <2>3. Agents.by = <<0, 0>>
        BY DEF Agents
    <2> QED BY <2>1, <2>2, <2>3
<1> QED BY <1>1 DEF PatchTypes, Suggested

LEMMA PatchSteps ==
    ASSUME PatchInv, PatchStep
    PROVE  PatchInv'
<1>0. /\ \A i \in Regenerations : regens[i] \in Regen
      /\ \A c \in Comments : comments[c] \in Marking
      /\ Agents.comment = "none" /\ "none" \notin Comments
    BY ProducerAssumption DEF PatchInv, PatchTypes, Agents
<1>1. ASSUME NEW j \in Regenerations, BeginRegenerate(j) \/ AttemptAgain(j)
      PROVE  PatchInv'
    BY <1>0, <1>1, AttemptedRow, RegenMoves DEF BeginRegenerate, AttemptAgain
<1>2. ASSUME NEW j \in Regenerations, AskProvider(j)
      PROVE  PatchInv'
    <2>1. PICK answered \in SUBSET Comments :
              Regenerate(j, [regens[j] EXCEPT !.pc = "delete", !.answer = answered,
                                              !.effect = "completed"])
        BY <1>2 DEF AskProvider
    <2> DEFINE record == [regens[j] EXCEPT !.pc = "delete", !.answer = answered,
                                           !.effect = "completed"]
    <2>2. record \in Regen /\ record.alone = regens[j].alone /\ record.pc = "delete"
        BY <1>0 DEF Regen
    <2>3. Regenerate(j, record) /\ UNCHANGED <<comments, patches>>
        BY <1>2, <2>1 DEF AskProvider
    <2> HIDE DEF record
    <2> QED BY <2>2, <2>3, RegenMoves
<1>3. ASSUME NEW j \in Regenerations, ProviderFails(j)
      PROVE  PatchInv'
    BY <1>0, <1>3, NextAttemptRow, RegenMoves DEF ProviderFails
<1>4. ASSUME NEW j \in Regenerations, RegenerateCut(j)
      PROVE  PatchInv'
    <2> DEFINE record == [regens[j] EXCEPT
                             !.effect = IF regens[j].pc = "ask" THEN "running" ELSE @]
    <2>1. record \in Regen /\ record.alone = regens[j].alone
        BY <1>0 DEF Regen
    <2>2. Regenerate(j, NextAttempt(record)) /\ UNCHANGED <<comments, patches>>
        BY <1>4 DEF RegenerateCut
    <2> HIDE DEF record
    <2> QED BY <2>1, <2>2, NextAttemptRow, RegenMoves
<1>5. ASSUME NEW j \in Regenerations, FinishRegenerate(j)
      PROVE  PatchInv'
    <2> DEFINE record == [regens[j] EXCEPT !.pc = "done"]
    <2>1. record \in Regen /\ record.alone = regens[j].alone /\ record.pc = "done"
        BY <1>0 DEF Regen
    <2>2. Regenerate(j, record) /\ UNCHANGED <<comments, patches>>
        BY <1>5 DEF FinishRegenerate
    <2> HIDE DEF record
    <2> QED BY <2>1, <2>2, RegenMoves
<1>6. ASSUME NEW j \in Regenerations, DeletePatches(j)
      PROVE  PatchInv'
    <2> DEFINE record == [regens[j] EXCEPT !.pc = "add", !.blocks = regens[j].answer]
    <2>1. record \in Regen /\ record.alone = regens[j].alone
        BY <1>0 DEF Regen
    <2>2. Regenerate(j, record)
        BY <1>6 DEF DeletePatches
    <2> HIDE DEF record
    <2>3. /\ regens' \in [Regenerations -> Regen]
          /\ \A i \in Regenerations \ {j} : regens'[i].pc = regens[i].pc
          /\ NoneMet' => \A i \in Regenerations \ {j} : ~Busy(i)
        BY <2>1, <2>2, RegenRows DEF PatchInv
    <2>4. patches' = {Agents}
        BY <1>6 DEF DeletePatches, Replaced, PatchInv, Marked
    <2>5. /\ comments' \in [Comments -> Marking]
          /\ \A c \in Comments : comments'[c].patch = FALSE
        <3>1. comments' = [c \in Comments |-> Unmarked(comments[c])]
            BY <1>6 DEF DeletePatches
        <3>2. \A c \in Comments : Unmarked(comments[c]) \in Marking
                                  /\ Unmarked(comments[c]).patch = FALSE
            BY <1>0 DEF Unmarked, Marking
        <3> QED BY <3>1, <3>2
    <2>6. PatchTypes'
        BY <2>3, <2>4, <2>5 DEF PatchTypes
    <2>7. Marked'
        BY <1>0, <2>4, <2>5 DEF Marked
    <2>8. Suggested' = {}
        BY <2>4 DEF Suggested
    <2>9. OneAnswer'
        BY <2>3, <2>8 DEF OneAnswer, Busy
    <2> QED BY <2>6, <2>7, <2>9 DEF PatchInv
<1>7. ASSUME NEW j \in Regenerations, NEW c \in Comments, AddPatch(j, c)
      PROVE  PatchInv'
    <2>1. CASE comments[c].state = "deleted"
        BY <1>0, <1>7, <2>1, NextAttemptRow, RegenMoves DEF AddPatch
    <2>2. CASE comments[c].state # "deleted"
        <3> DEFINE record == [regens[j] EXCEPT !.blocks = @ \ {c}]
                   patch == [comment |-> c, by |-> <<j, regens[j].attempt>>]
        <3>1. /\ regens[j].pc = "add" /\ Regenerate(j, record)
              /\ patches' = patches \cup {patch}
              /\ comments' = [comments EXCEPT ![c].patch = TRUE]
            BY <1>7, <2>2 DEF AddPatch
        <3>2. /\ record \in Regen /\ record.alone = regens[j].alone
              /\ record.pc = regens[j].pc /\ record.attempt = regens[j].attempt
            BY <1>0 DEF Regen
        <3>3. /\ patch \in Patch /\ patch.comment = c
              /\ patch.by = <<j, regens[j].attempt>>
            <4>1. regens[j].attempt \in Nat \ {0}
                BY <1>0 DEF Regen
            <4> QED BY <4>1 DEF Patch
        <3> HIDE DEF record, patch
        <3>4. /\ regens' \in [Regenerations -> Regen]
              /\ regens'[j].pc = "add" /\ regens'[j].attempt = regens[j].attempt
              /\ \A i \in Regenerations \ {j} : regens'[i].pc = regens[i].pc
              /\ NoneMet' => NoneMet /\ \A i \in Regenerations \ {j} : ~Busy(i)
            BY <3>1, <3>2, RegenRows DEF PatchInv
        <3>5. /\ comments' \in [Comments -> Marking] /\ comments'[c].patch = TRUE
              /\ \A d \in Comments \ {c} : comments'[d] = comments[d]
            <4>1. [comments[c] EXCEPT !.patch = TRUE] \in Marking
                BY <1>0 DEF Marking
            <4>2. [comments[c] EXCEPT !.patch = TRUE].patch = TRUE
                BY <1>0 DEF Marking
            <4> QED BY <3>1, <4>1, <4>2 DEF PatchInv, PatchTypes
        <3>6. PatchTypes'
            BY <3>1, <3>3, <3>4, <3>5 DEF PatchInv, PatchTypes
        <3>7. Marked'
            BY <3>1, <3>3, <3>5 DEF PatchInv, Marked
        <3>8. Suggested' = Suggested \cup {patch}
            BY <3>1, <3>3, SuggestionsDiffer DEF PatchInv, Suggested
        <3>9. NoneMet' => \A p \in Suggested' : p.by = <<j, regens[j].attempt>>
            BY <3>1, <3>3, <3>4, <3>8 DEF PatchInv, OneAnswer
        <3>10. OneAnswer'
            BY <3>4, <3>9 DEF OneAnswer, Busy
        <3> QED BY <3>6, <3>7, <3>10 DEF PatchInv
    <2> QED BY <2>1, <2>2
<1>8. ASSUME NEW c \in Comments, Resolve(c)
      PROVE  PatchInv'
    <2> DEFINE row == [comments[c] EXCEPT !.state = IF @ = "open" THEN "resolved" ELSE "open"]
    <2>1. comments' = [comments EXCEPT ![c] = row] /\ UNCHANGED <<patches, regens>>
        BY <1>8 DEF Resolve
    <2>2. row \in Marking /\ row.patch = comments[c].patch
        BY <1>0 DEF Marking
    <2> HIDE DEF row
    <2>3. /\ comments' \in [Comments -> Marking]
          /\ \A d \in Comments : comments'[d].patch = comments[d].patch
        BY <2>1, <2>2 DEF PatchInv, PatchTypes
    <2> QED BY <2>1, <2>3 DEF PatchInv, PatchTypes, Marked, OneAnswer, NoneMet, Busy, Suggested
<1>9. ASSUME NEW c \in Comments, DeleteComment(c)
      PROVE  PatchInv'
    <2> DEFINE Unbound(p) == IF p.comment = c THEN [p EXCEPT !.comment = "none"] ELSE p
    <2>1. /\ comments' = [comments EXCEPT ![c] = [state |-> "deleted", patch |-> FALSE]]
          /\ patches' = {Unbound(p) : p \in patches} /\ UNCHANGED regens
        BY <1>9 DEF DeleteComment
    <2>2. /\ comments' \in [Comments -> Marking] /\ comments'[c].patch = FALSE
          /\ \A d \in Comments \ {c} : comments'[d].patch = comments[d].patch
        <3>1. [state |-> "deleted", patch |-> FALSE] \in Marking
            BY DEF Marking
        <3> QED BY <2>1, <3>1 DEF PatchInv, PatchTypes
    <2>3. Unbound(Agents) = Agents
        BY <1>0
    <2>4. \A p \in Patch :
             /\ Unbound(p) \in Patch /\ Unbound(p).by = p.by
             /\ Unbound(p).comment = IF p.comment = c THEN "none" ELSE p.comment
        BY DEF Patch
    <2> HIDE DEF Unbound
    <2>5. patches' \subseteq Patch \cup {Agents} /\ Agents \in patches'
        BY <2>1, <2>3, <2>4 DEF PatchInv, PatchTypes, Marked
    <2>6. PatchTypes'
        BY <2>1, <2>2, <2>5 DEF PatchInv, PatchTypes
    <2>7. \A d \in Comments \ {c} :
             (\E p \in patches' : p.comment = d) <=> (\E p \in patches : p.comment = d)
        BY <1>0, <2>1, <2>3, <2>4 DEF PatchInv, PatchTypes
    <2>8. ~\E p \in patches' : p.comment = c
        BY <1>0, <2>1, <2>3, <2>4 DEF PatchInv, PatchTypes
    <2>9. Marked'
        BY <2>2, <2>5, <2>7, <2>8 DEF PatchInv, Marked
    <2>10. \A q \in Suggested' : \E p \in Suggested : q.by = p.by
        BY <2>1, <2>3, <2>4 DEF PatchInv, PatchTypes, Suggested
    <2>11. OneAnswer'
        BY <2>1, <2>10 DEF PatchInv, OneAnswer, NoneMet, Busy
    <2> QED BY <2>6, <2>9, <2>11 DEF PatchInv
<1> QED
    BY <1>1, <1>2, <1>3, <1>4, <1>5, <1>6, <1>7, <1>8, <1>9 DEF PatchStep, RegenerateStep

LEMMA PatchInvariant == ProducerSpec => []PatchInv
<1>1. ProducerInit => PatchInv
    <2> SUFFICES ASSUME ProducerInit PROVE PatchInv
        OBVIOUS
    <2>1. /\ comments = [c \in Comments |-> [state |-> "open", patch |-> FALSE]]
          /\ patches = {Agents} /\ regens = [j \in Regenerations |-> NoRegeneration]
        BY DEF ProducerInit
    <2>2. NoRegeneration \in Regen /\ NoRegeneration.pc = "idle"
        BY DEF NoRegeneration, Regen
    <2>3. PatchTypes
        BY <2>1, <2>2 DEF PatchTypes, Marking
    <2>4. Marked
        BY <2>1, ProducerAssumption DEF Marked, Agents
    <2>5. OneAnswer
        BY <2>1, <2>2 DEF OneAnswer, Busy, Suggested
    <2> QED BY <2>3, <2>4, <2>5 DEF PatchInv
<1>2. PatchInv /\ [ProducerNext]_producerVars => PatchInv'
    <2>1. PatchInv /\ UNCHANGED patchVars => PatchInv'
        BY DEF patchVars, PatchInv, PatchTypes, Marked, OneAnswer, NoneMet, Busy, Suggested
    <2> QED BY <2>1, Groups, PatchSteps
<1> QED BY <1>1, <1>2, PTL DEF ProducerSpec

(* However often attempts are cut off, fail or are made again, and         *)
(* whatever the user does to the comments: marks and suggestions agree, an *)
(* agent's edit stays, and the suggestions are those of one attempt unless *)
(* two regenerations overlapped (handle_regenerate, delete_patches).       *)
THEOREM OneAnswerStands == ProducerSpec => []PatchesAreOneAnswer
<1>1. PatchInv => PatchesAreOneAnswer
    BY DEF PatchInv, Marked, OneAnswer, NoneMet, PatchesAreOneAnswer
<1> QED BY <1>1, PatchInvariant, PTL

(* The rows of the three producers have their types.                       *)
THEOREM ProducersTyped == ProducerSpec => []ProducerTypeOK
<1>1. ProducerInit => makes \in ProducerScopes
    BY DEF ProducerInit
<1>2. makes \in ProducerScopes /\ [ProducerNext]_producerVars => (makes \in ProducerScopes)'
    BY Groups
<1>3. ProducerSpec => [](makes \in ProducerScopes)
    BY <1>1, <1>2, PTL DEF ProducerSpec
<1>4. ScheduleInv /\ RequestInv /\ PatchInv /\ makes \in ProducerScopes => ProducerTypeOK
    <2> SUFFICES ASSUME ScheduleInv, RequestInv, PatchInv, makes \in ProducerScopes
                 PROVE  ProducerTypeOK
        OBVIOUS
    <2>1. \A k \in DOMAIN syncs : syncs[k] \in Job
        BY DEF ScheduleInv, ScheduleTypes
    <2>2. \A j \in Regenerations : regens[j] \in Regen
        BY DEF PatchInv, PatchTypes
    <2>3. \A j \in Regenerations :
             regens[j].pc \in {"idle", "again", "ask", "delete", "add", "done", "failed"}
        BY <2>2 DEF Regen
    <2> QED BY <2>1, <2>3 DEF ScheduleInv, ScheduleTypes, Job, RequestInv, RequestTypes,
               PatchInv, PatchTypes, Marking, ProducerTypeOK
<1> QED BY <1>3, <1>4, ScheduleInvariant, RequestInvariant, PatchInvariant, PTL

-----------------------------------------------------------------------------
(* The workspace and the producers in one behaviour, as MC_Workspace has   *)
(* them: they share no state, and a step of one leaves the other alone.    *)

OnArticle(p, a) ==
    \/ \E text \in Texts : BeginCreate(p, a, text)
    \/ \E text \in Text : BeginSave(p, a, text)
    \/ BeginAsset(p, a) \/ BeginDelete(p, a)
ByProcess(p) ==
    \/ Continue(p)
    \/ Start(p) \/ Stop(p) \/ CommitLeftover(p) \/ BeginReset(p)
    \/ Fails(p) \/ Crash(p)
    \/ \E a \in Articles : OnArticle(p, a)
    \/ \E o \in {"backup", "due"} : BeginBackup(p, o)
    \/ \E b \in bundles : BeginRestore(p, b)
    \/ \E slot \in Slots : SaveSecret(p, slot) \/ EraseSecret(p, slot)
    \/ \E key \in Keys : RotateKey(p, key)
OnDisk ==
    \/ SwapStep \/ RestoreFails \/ RetireKeys \/ Tick
    \/ \E b \in bundles, a \in Articles : Damage(b, a)

LEMMA WorkDivides ==
    ASSUME (\E p \in Procs : ByProcess(p)) \/ OnDisk
    PROVE  WorkNext
BY Zenon DEF WorkNext, ByProcess, OnArticle, OnDisk

LEMMA ProcessDivides ==
    ASSUME NEW p \in Procs,
           \/ Write(p) /\ A
           \/ CommitWrite(p) /\ A
           \/ WriteRefused(p) /\ A
           \/ RemoveFiles(p) /\ A
           \/ CommitDelete(p) /\ A
           \/ ReencryptTokens(p) /\ A
           \/ ReencryptUrls(p) /\ A
           \/ SeedIfEmpty(p) /\ A
           \/ EnsureRevisions(p) /\ A
           \/ CopyFiles(p) /\ A
           \/ Publish(p) /\ A
           \/ Start(p) /\ A
           \/ Stop(p) /\ A
           \/ CommitLeftover(p) /\ A
           \/ BeginReset(p) /\ A
           \/ Fails(p) /\ A
           \/ Crash(p) /\ A
           \/ \E a \in Articles :
                \/ \E text \in Texts : BeginCreate(p, a, text) /\ A
                \/ \E text \in Text : BeginSave(p, a, text) /\ A
                \/ BeginAsset(p, a) /\ A
                \/ BeginDelete(p, a) /\ A
           \/ \E o \in {"backup", "due"} : BeginBackup(p, o) /\ A
           \/ \E b \in bundles : BeginRestore(p, b) /\ A
           \/ \E slot \in Slots :
                \/ SaveSecret(p, slot) /\ A
                \/ EraseSecret(p, slot) /\ A
           \/ \E key \in Keys : RotateKey(p, key) /\ A
    PROVE  ByProcess(p) /\ A
BY Zenon DEF ByProcess, OnArticle, Continue

LEMMA NextDivides ==
    ASSUME Next
    PROVE  \/ ((\E p \in Procs : ByProcess(p)) \/ OnDisk) /\ A
           \/ (ScheduleStep \/ RequestStep \/ PatchStep) /\ B
<1>1. CASE \/ MoveDatabaseOut /\ A
           \/ MoveFilesOut /\ A
           \/ MoveDatabaseIn /\ A
           \/ MoveFilesIn /\ A
           \/ DropOldDatabase /\ A
           \/ DropOldFiles /\ A
           \/ RestoreFails /\ A
           \/ RetireKeys /\ A
           \/ Tick /\ A
           \/ \E b \in bundles, a \in Articles : Damage(b, a) /\ A
    BY <1>1, Zenon DEF OnDisk, SwapStep
<1>2. CASE \/ \E i \in Intervals, on \in BOOLEAN : UpsertSchedule(i, on) /\ B
           \/ DeleteSchedule /\ B
           \/ Hour /\ B
           \/ \E w \in Workers :
                 \/ ReadDue(w) /\ B
                 \/ EnqueueDue(w) /\ B
                 \/ PassCut(w) /\ B
    BY <1>2, Zenon DEF ScheduleStep, PassStep
<1>3. CASE \E r \in Requests :
              \/ FindJob(r) /\ B
              \/ CreateDraft(r) /\ B
              \/ CreateSession(r) /\ B
              \/ CreateGenerateJob(r) /\ B
              \/ RequestCut(r) /\ B
    BY <1>3, Zenon DEF RequestStep
<1>4. CASE \/ \E j \in Regenerations :
                 \/ BeginRegenerate(j) /\ B
                 \/ AttemptAgain(j) /\ B
                 \/ AskProvider(j) /\ B
                 \/ ProviderFails(j) /\ B
                 \/ DeletePatches(j) /\ B
                 \/ \E c \in Comments : AddPatch(j, c) /\ B
                 \/ FinishRegenerate(j) /\ B
                 \/ RegenerateCut(j) /\ B
           \/ \E c \in Comments :
                 \/ Resolve(c) /\ B
                 \/ DeleteComment(c) /\ B
    BY <1>4, Zenon DEF PatchStep, RegenerateStep
<1> QED BY <1>1, <1>2, <1>3, <1>4, ProcessDivides, Zenon DEF Next

LEMMA BothSides == Next => [WorkNext]_workVars /\ [ProducerNext]_producerVars
<1> SUFFICES ASSUME Next PROVE [WorkNext]_workVars /\ [ProducerNext]_producerVars
    OBVIOUS
<1>1. CASE ((\E p \in Procs : ByProcess(p)) \/ OnDisk) /\ A
    BY <1>1, WorkDivides DEF A
<1>2. CASE (ScheduleStep \/ RequestStep \/ PatchStep) /\ B
    <2>1. ProducerNext
        BY <1>2, Zenon DEF ProducerNext, ScheduleStep, RequestStep, PatchStep
    <2> QED BY <1>2, <2>1 DEF B
<1> QED BY <1>1, <1>2, NextDivides

(* What runs beside the other is itself: in every behaviour of             *)
(* MC_Workspace the workspace follows Workspace.tla and the producers      *)
(* follow JobProducers.tla, so that what is proved of each holds in both.  *)
THEOREM SideBySide == Spec => WorkSpec /\ ProducerSpec
<1>1. Init => WorkInit /\ ProducerInit
    BY DEF Init
<1>2. [Next]_<<workVars, producerVars>> => [WorkNext]_workVars /\ [ProducerNext]_producerVars
    BY BothSides
<1> QED BY <1>1, <1>2, PTL DEF Spec, WorkSpec, ProducerSpec

(* What is on disk, what every process is doing to it, what a restore has  *)
(* moved and what the producers read and write keeps its type, in every    *)
(* behaviour of the composition (sqlite.py, backups.py, crypto.py,         *)
(* schedules.py, agent.py, generations.py).                                *)
THEOREM WorkspaceTyped == Spec => []TypesOK
BY SideBySide, WorkTypes, ProducersTyped, PTL DEF TypesOK

(* Where no scope takes a risk, as in the scopes of Protected, everything  *)
(* the run asks of the workspace and the producers holds together: rows    *)
(* have their files, bundles are of one moment, a restore is all or        *)
(* nothing, secrets survive, an outage is caught up by one job, an answer  *)
(* names its article and suggestions are those of one answer.              *)
THEOREM ProtectedWorkspace ==
    ASSUME \A s \in WorkScopes : s \cap WorkRisks = {}
    PROVE  Spec => [](/\ RowsMatchFiles /\ BundlesAreWhole /\ RestoreIsAtomic /\ SecretsSurvive
                      /\ OneCatchUp /\ AnswerNamesTheArticle /\ PatchesAreOneAnswer)
<1>1. WorkTypeOK => Uncrashed /\ Guarded
    BY DEF WorkTypeOK, WorkRisks, Uncrashed, Guarded, Whole
<1>2. WorkTypeOK => Whole
    BY <1>1 DEF Guarded
<1> QED BY <1>1, <1>2, SideBySide, WorkTypes, FilesFollowRows, BundlesOfOneMoment, AllOrNothing,
           NoSecretIsLost, CaughtUpByOneJob, OneKeyOneArticle, OneAnswerStands, PTL

=============================================================================
