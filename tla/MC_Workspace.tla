---------------------------- MODULE MC_Workspace ----------------------------
(* The workspace on disk and what puts work on the queue, one in a         *)
(* behaviour and a group of operations at a time.                          *)
EXTENDS Workspace, JobProducers

NoWork == {}
Protected ==
    {NoWork,
     {"create", "asset", "backup", "crash"}, {"save", "asset", "crash"},
     {"save", "backup", "crash"}, {"save", "delete", "backup", "disk"},
     {"save", "title", "reset", "crash"}, {"save", "title", "disk"},
     {"save", "backup", "restore", "replace"}, {"save", "due", "restore", "damage"},
     {"secret", "erase", "rotate", "retire", "crash"},
     {"secret", "rotate", "retire", "backup", "restore"}}

(* A restore that may also fail before anything was moved, or after.       *)
FailingRestore == {{"backup", "restore", "replace", "replace_early"}}

NoProducer == {}
NoProducers == {NoProducer}
Producing ==
    {NoProducer, {"schedule", "cut"}, {"generate", "cut"}, {"regenerate", "cut", "comments"}}

Init == /\ WorkInit /\ ProducerInit
        /\ (workScope = NoWork) # (makes = NoProducer)

A == makes = NoProducer /\ UNCHANGED producerVars
B == workScope = NoWork /\ UNCHANGED workVars
Next ==
    \/ \E p \in Procs :
          \/ Write(p) /\ A
          \/ CommitWrite(p) /\ A
          \/ WriteRefused(p) /\ A
          \/ RemoveFiles(p) /\ A
          \/ CommitDelete(p) /\ A
          \/ ReencryptTokens(p) /\ A
          \/ ReencryptUrls(p) /\ A
          \/ SeedIfEmpty(p) /\ A
          \/ EnsureRevisions(p) /\ A
          \/ CopyFiles(p) /\ A
          \/ Publish(p) /\ A
          \/ Start(p) /\ A
          \/ Stop(p) /\ A
          \/ CommitLeftover(p) /\ A
          \/ BeginReset(p) /\ A
          \/ Fails(p) /\ A
          \/ Crash(p) /\ A
          \/ \E a \in Articles :
                \/ \E text \in Texts : BeginCreate(p, a, text) /\ A
                \/ \E text \in Text : BeginSave(p, a, text) /\ A
                \/ BeginAsset(p, a) /\ A
                \/ BeginDelete(p, a) /\ A
          \/ \E o \in {"backup", "due"} : BeginBackup(p, o) /\ A
          \/ \E b \in bundles : BeginRestore(p, b) /\ A
          \/ \E slot \in Slots :
                \/ SaveSecret(p, slot) /\ A
                \/ EraseSecret(p, slot) /\ A
          \/ \E key \in Keys : RotateKey(p, key) /\ A
    \/ MoveDatabaseOut /\ A
    \/ MoveFilesOut /\ A
    \/ MoveDatabaseIn /\ A
    \/ MoveFilesIn /\ A
    \/ DropOldDatabase /\ A
    \/ DropOldFiles /\ A
    \/ RestoreFails /\ A
    \/ RetireKeys /\ A
    \/ Tick /\ A
    \/ \E b \in bundles, a \in Articles : Damage(b, a) /\ A
    \/ \E i \in Intervals, on \in BOOLEAN : UpsertSchedule(i, on) /\ B
    \/ DeleteSchedule /\ B
    \/ Hour /\ B
    \/ \E w \in Workers :
          \/ ReadDue(w) /\ B
          \/ EnqueueDue(w) /\ B
          \/ PassCut(w) /\ B
    \/ \E r \in Requests :
          \/ FindJob(r) /\ B
          \/ CreateDraft(r) /\ B
          \/ CreateSession(r) /\ B
          \/ CreateGenerateJob(r) /\ B
          \/ RequestCut(r) /\ B
    \/ \E j \in Regenerations :
          \/ BeginRegenerate(j) /\ B
          \/ AttemptAgain(j) /\ B
          \/ AskProvider(j) /\ B
          \/ ProviderFails(j) /\ B
          \/ DeletePatches(j) /\ B
          \/ \E c \in Comments : AddPatch(j, c) /\ B
          \/ FinishRegenerate(j) /\ B
          \/ RegenerateCut(j) /\ B
    \/ \E c \in Comments :
          \/ Resolve(c) /\ B
          \/ DeleteComment(c) /\ B

Spec == Init /\ [][Next]_<<workVars, producerVars>>
FairSpec == Spec /\ WorkFairness /\ ProducerFairness
-----------------------------------------------------------------------------

(* What is on disk and what the producers read and write keeps its type.   *)
TypesOK == WorkTypeOK /\ ProducerTypeOK

(* A schedule that is due is served, and a regeneration ends.              *)
ProducersEnd == DueIsServed /\ RegenerationEnds
=============================================================================
