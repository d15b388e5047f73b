---------------------------- MODULE TurnProofs ----------------------------
(***************************************************************************)
(* Theorems about the turns of an agent session, for any number of         *)
(* workers, requests, turns and faults: types, that a queued edit lands at *)
(* most once and only on the revision it was written for, that what is     *)
(* marked accepted is in the article, and that the provider is called at   *)
(* most once per attempt.  With one editor who waits: that turns do not    *)
(* overlap, are always backed by a job, and are refused over a queued edit *)
(* only when the editor has saved since.                                   *)
(***************************************************************************)
EXTENDS AgentTurns, SequenceTheorems, WellFoundedInduction, TLAPS

-----------------------------------------------------------------------------
(* The invariant.                                                          *)

(* Types alone are not inductive: a worker marks the session with the      *)
(* verdict it carries, and settles the job it claimed.                     *)
WorkerFrame ==
    \A w \in Workers :
        /\ worker[w].pc # "idle" => worker[w].turn \in Turns
        /\ worker[w].pc = "linking" => worker[w].patch \in DOMAIN patches
        /\ worker[w].pc = "marking" => worker[w].verdict \in {"failed", "canceled"}

TurnTypes == TypeOK /\ WorkerFrame

Landed(p) == \E i \in DOMAIN landings : landings[i].patch = p

(* A request about to save holds a patch whose base is the revision it     *)
(* expects; one about to mark a patch accepted has saved it.               *)
ClientFrame ==
    \A c \in Clients :
        /\ client[c].pc = "saving" => /\ client[c].patch \in DOMAIN patches
                                      /\ client[c].base = patches[client[c].patch].base
        /\ client[c].pc = "accepting" => Landed(client[c].patch)

(* What has landed met its base, and that revision is not the head any     *)
(* more: this is why it cannot land again.                                 *)
LandingInv ==
    /\ \A i \in DOMAIN landings :
          /\ landings[i].patch \in DOMAIN patches
          /\ landings[i].onto = patches[landings[i].patch].base
          /\ landings[i].onto < Current
    /\ \A i, k \in DOMAIN landings : landings[i].patch = landings[k].patch => i = k
    /\ AcceptedHasLanded

LandInv == ClientFrame /\ LandingInv
-----------------------------------------------------------------------------
(* Types.                                                                  *)

(* The moves of a worker and of a request lead to their states.            *)
LEMMA WorkerMoves ==
    ASSUME worker \in [Workers -> WorkerState], NEW w \in Workers
    PROVE  /\ IdleWorker \in WorkerState
           /\ \A pc \in WorkerSteps : [worker EXCEPT ![w].pc = pc] \in [Workers -> WorkerState]
           /\ [worker EXCEPT ![w].killed = TRUE] \in [Workers -> WorkerState]
           /\ [worker EXCEPT ![w] = IdleWorker] \in [Workers -> WorkerState]
           /\ \A v \in Verdicts, pc \in WorkerSteps :
                 [worker EXCEPT ![w].pc = pc, ![w].verdict = v] \in [Workers -> WorkerState]
           /\ \A p \in Nat, pc \in WorkerSteps :
                 [worker EXCEPT ![w].pc = pc, ![w].patch = p] \in [Workers -> WorkerState]
<1>1. IdleWorker \in WorkerState
    <2>1. 0 \in 0..MaxTurns
        BY AgentTurnsAssumption
    <2> QED BY <2>1 DEF IdleWorker, WorkerState, WorkerSteps, Verdicts
<1> QED BY <1>1 DEF WorkerState

LEMMA ClientMoves ==
    ASSUME client \in [Clients -> ClientState], NEW c \in Clients
    PROVE  /\ IdleClient \in ClientState
           /\ \A pc \in ClientSteps : [client EXCEPT ![c].pc = pc] \in [Clients -> ClientState]
           /\ \A b \in Nat, pc \in ClientSteps :
                 [client EXCEPT ![c].pc = pc, ![c].base = b] \in [Clients -> ClientState]
           /\ \A p, b \in Nat, pc \in ClientSteps :
                 [client EXCEPT ![c].pc = pc, ![c].patch = p, ![c].base = b]
                     \in [Clients -> ClientState]
<1>1. IdleClient \in ClientState
    BY DEF IdleClient, ClientState, ClientSteps, Requests, Active
<1> QED BY <1>1 DEF ClientState

(* A request arrives with the status and the head of the moment.           *)
LEMMA ArriveTypes ==
    ASSUME TypeOK, NEW c \in Clients, NEW kind \in Requests, NEW pc \in ClientSteps,
           Arrive(c, kind, pc)
    PROVE  client' \in [Clients -> ClientState]
<1>1. Current \in Nat
    BY DEF TypeOK, Current
<1>2. [IdleClient EXCEPT !.pc = pc, !.kind = kind, !.seen = status, !.base = Current]
            \in ClientState
    BY <1>1, ClientMoves DEF TypeOK, ClientState
<1> QED BY <1>2 DEF Arrive, TypeOK

(* A worker that moves on from a turn keeps its frame, unless it goes to    *)
(* link a patch or to mark the session.                                    *)
LEMMA FrameKept ==
    ASSUME TurnTypes, NEW w \in Workers, NEW pc \in WorkerSteps \ {"linking", "marking"},
           worker[w].pc # "idle", Step(w, pc), DOMAIN patches \subseteq DOMAIN patches'
    PROVE  worker' \in [Workers -> WorkerState] /\ WorkerFrame'
<1>1. worker' \in [Workers -> WorkerState]
    BY WorkerMoves DEF TurnTypes, TypeOK, Step
<1>2. \A v \in Workers : /\ worker'[v].turn = worker[v].turn
                         /\ worker'[v].patch = worker[v].patch
                         /\ worker'[v].verdict = worker[v].verdict
                         /\ worker'[v].pc = IF v = w THEN pc ELSE worker[v].pc
    BY DEF TurnTypes, TypeOK, Step, WorkerState
<1> QED BY <1>1, <1>2 DEF TurnTypes, WorkerFrame

(* A set of numbers under a bound has a greatest member: the least bound.  *)
LEMMA GreatestMember ==
    ASSUME NEW n \in Nat, NEW S \in SUBSET (1..n), S # {}
    PROVE  \E p \in S : \A q \in S : q <= p
<1> DEFINE Bounds == {u \in Nat : \A q \in S : q <= u}
<1>1. n \in Bounds /\ Bounds \subseteq Nat
    OBVIOUS
<1>2. IsWellFoundedOn({ss \in Nat \X Nat : ss[1] < ss[2]}, Nat)
    BY NatLessThanWellFounded DEF OpToRel
<1>3. PICK u \in Bounds : \A b \in Bounds : ~(<<b, u>> \in {ss \in Nat \X Nat : ss[1] < ss[2]})
    BY <1>1, <1>2, WFMin
<1>4. \A b \in Bounds : ~(b < u)
    BY <1>1, <1>3
<1>5. u # 0
    <2>1. PICK q \in S : TRUE
        OBVIOUS
    <2> QED BY <2>1
<1>6. u - 1 \in Nat /\ u - 1 < u
    BY <1>5
<1>7. u \in S
    <2>1. SUFFICES ASSUME u \notin S PROVE FALSE
        OBVIOUS
    <2>2. \A q \in S : q <= u - 1
        BY <1>6, <2>1
    <2> QED BY <1>4, <1>6, <2>2
<1> QED BY <1>7

LEMMA NewestQueued ==
    ASSUME patches \in Seq(Patch), Queued # {}
    PROVE  Newest(Queued) \in Queued
<1>1. Len(patches) \in Nat /\ DOMAIN patches = 1..Len(patches)
    OBVIOUS
<1>2. Queued \in SUBSET (1..Len(patches))
    BY <1>1 DEF Queued
<1>3. \E p \in Queued : \A q \in Queued : q <= p
    BY <1>1, <1>2, GreatestMember
<1> QED BY <1>3 DEF Newest

(* Overwriting the state of a patch leaves a list of as many patches.      *)
LEMMA PatchState ==
    ASSUME patches \in Seq(Patch), NEW p, NEW s \in {"pending", "accepted", "rejected"}
    PROVE  /\ [patches EXCEPT ![p].state = s] \in Seq(Patch)
           /\ DOMAIN [patches EXCEPT ![p].state = s] = DOMAIN patches
<1>1. CASE p \in DOMAIN patches
    <2>1. patches[p] \in Patch
        BY <1>1
    <2>2. [patches[p] EXCEPT !.state = s] \in Patch
        BY <2>1 DEF Patch
    <2>3. [patches EXCEPT ![p].state = s] = [patches EXCEPT ![p] = [patches[p] EXCEPT !.state = s]]
        OBVIOUS
    <2>4. p \in 1..Len(patches)
        BY <1>1
    <2> QED BY <2>2, <2>3, <2>4, ExceptSeq
<1>2. CASE p \notin DOMAIN patches
    <2>1. [patches EXCEPT ![p].state = s] = [i \in DOMAIN patches |-> patches[i]]
        BY <1>2
    <2>2. patches = [i \in DOMAIN patches |-> patches[i]]
        OBVIOUS
    <2> QED BY <2>1, <2>2
<1> QED BY <1>1, <1>2

(* The steps of run_turn and of the job after it.                          *)
LEMMA TurnStepTypes ==
    ASSUME TurnTypes, NEW w \in Workers, RunTurn(w)
    PROVE  TurnTypes'
<1> USE DEF session, article, history
<1>0. WorkerSteps \ {"linking", "marking"} =
        {"idle", "starting", "announcing", "reading", "streaming", "asking", "patching",
         "answering", "finishing", "checking", "idling", "erred", "failing",
         "returning", "settling"}
    BY DEF WorkerSteps, Streaming, Reporting
<1>1. CASE StreamChat(w)
    <2>1. worker[w].turn \in Turns /\ calls' \in [Turns -> Nat]
        BY <1>1 DEF StreamChat, TurnTypes, TypeOK, WorkerFrame
    <2>2. worker' \in [Workers -> WorkerState] /\ WorkerFrame'
        BY <1>0, <1>1, FrameKept DEF StreamChat
    <2> QED BY <1>1, <2>1, <2>2 DEF StreamChat, TurnTypes, TypeOK
<1>2. CASE RecordToolCall(w) \/ CompleteToolCall(w)
    <2>1. worker' \in [Workers -> WorkerState] /\ WorkerFrame'
        BY <1>0, <1>2, FrameKept DEF RecordToolCall, CompleteToolCall
    <2> QED BY <1>2, <2>1 DEF RecordToolCall, CompleteToolCall, Unregister, TurnTypes, TypeOK, ToolStatus
<1>3. CASE StreamFails(w) \/ CheckApproval(w) \/ StreamEnds(w)
    <2>1. worker' \in [Workers -> WorkerState] /\ WorkerFrame'
        BY <1>0, <1>3, FrameKept DEF StreamFails, CheckApproval, StreamEnds
    <2> QED BY <1>3, <2>1 DEF StreamFails, CheckApproval, StreamEnds, Unregister, TurnTypes, TypeOK
<1>4. CASE RequestApproval(w)
    <2>1. worker' \in [Workers -> WorkerState] /\ WorkerFrame'
        BY <1>0, <1>4, FrameKept DEF RequestApproval
    <2> QED BY <1>4, <2>1 DEF RequestApproval, TurnTypes, TypeOK, Active
<1>5. CASE AddPatch(w)
    <2>1. worker[w].turn \in Turns
        BY <1>5 DEF AddPatch, TurnTypes, WorkerFrame
    <2>2. jobs[worker[w].turn].base \in Nat
        BY <2>1 DEF TurnTypes, TypeOK, Job
    <2>3. [base |-> jobs[worker[w].turn].base, state |-> "pending", linked |-> FALSE] \in Patch
        BY <2>2 DEF Patch
    <2>4. patches \in Seq(Patch)
        BY DEF TurnTypes, TypeOK
    <2>5. patches' \in Seq(Patch) /\ Len(patches') = Len(patches) + 1
        BY <1>5, <2>3, <2>4 DEF AddPatch
    <2>6. Len(patches) \in Nat
        BY <2>4
    <2>7. worker' \in [Workers -> WorkerState]
        <3>1. "linking" \in WorkerSteps /\ Len(patches) + 1 \in Nat
            BY <2>6 DEF WorkerSteps, Reporting
        <3>2. worker' = [worker EXCEPT ![w].pc = "linking", ![w].patch = Len(patches) + 1]
            BY <1>5 DEF AddPatch
        <3> QED BY <3>1, <3>2, WorkerMoves DEF TurnTypes, TypeOK
    <2>8. \A v \in Workers : v # w => worker'[v] = worker[v]
        BY <1>5 DEF AddPatch, TurnTypes, TypeOK
    <2>9. /\ worker'[w].pc = "linking"
          /\ worker'[w].patch = Len(patches) + 1
          /\ worker'[w].turn = worker[w].turn
        BY <1>5 DEF AddPatch, TurnTypes, TypeOK, WorkerState
    <2>10. DOMAIN patches = 1..Len(patches) /\ DOMAIN patches' = 1..Len(patches')
        BY <2>4, <2>5
    <2>11. WorkerFrame'
        BY <2>1, <2>5, <2>6, <2>8, <2>9, <2>10 DEF TurnTypes, WorkerFrame, Turns
    <2> QED BY <1>5, <2>5, <2>7, <2>11 DEF AddPatch, TurnTypes, TypeOK
<1>6. CASE AddOutput(w)
    <2>1. patches \in Seq(Patch) /\ worker[w].patch \in DOMAIN patches
        BY <1>6 DEF AddOutput, TurnTypes, TypeOK, WorkerFrame
    <2>2. patches[worker[w].patch] \in Patch
        BY <2>1
    <2>3. [patches[worker[w].patch] EXCEPT !.linked = TRUE] \in Patch
        BY <2>2 DEF Patch
    <2>4. patches' = [patches EXCEPT ![worker[w].patch] =
                        [patches[worker[w].patch] EXCEPT !.linked = TRUE]]
        BY <1>6 DEF AddOutput
    <2>5. patches' \in Seq(Patch) /\ DOMAIN patches' = DOMAIN patches
        BY <2>1, <2>3, <2>4, ExceptSeq
    <2>6. worker' \in [Workers -> WorkerState] /\ WorkerFrame'
        BY <1>0, <1>6, <2>5, FrameKept DEF AddOutput
    <2> QED BY <1>6, <2>5, <2>6 DEF AddOutput, TurnTypes, TypeOK
<1>7. CASE AddReply(w) \/ TurnCompleted(w) \/ CheckRunning(w) \/ CheckFailure(w)
    <2>1. worker' \in [Workers -> WorkerState] /\ WorkerFrame'
        BY <1>0, <1>7, FrameKept DEF AddReply, TurnCompleted, CheckRunning, CheckFailure
    <2> QED BY <1>7, <2>1 DEF AddReply, TurnCompleted, CheckRunning, CheckFailure, TurnTypes, TypeOK
<1>8. CASE WaitForInput(w) \/ FailSession(w)
    <2>1. worker' \in [Workers -> WorkerState] /\ WorkerFrame'
        BY <1>0, <1>8, FrameKept DEF WaitForInput, FailSession
    <2> QED BY <1>8, <2>1 DEF WaitForInput, FailSession, TurnTypes, TypeOK, Active, Terminal
<1>9. CASE TurnReturns(w)
    <2>1. PICK verdict \in TurnVerdict(worker[w].turn) :
             worker' = [worker EXCEPT ![w].pc = "settling", ![w].verdict = verdict]
        BY <1>9 DEF TurnReturns
    <2>2. verdict \in Verdicts
        BY <2>1 DEF TurnVerdict, Verdicts
    <2>3. worker' \in [Workers -> WorkerState]
        BY <2>1, <2>2, WorkerMoves DEF TurnTypes, TypeOK, WorkerSteps
    <2>4. \A v \in Workers : v # w => worker'[v] = worker[v]
        BY <2>1 DEF TurnTypes, TypeOK
    <2>5. worker'[w].pc = "settling" /\ worker'[w].turn = worker[w].turn
        BY <2>1 DEF TurnTypes, TypeOK, WorkerState
    <2>6. worker[w].pc # "idle" /\ UNCHANGED patches
        BY <1>9 DEF TurnReturns
    <2>7. WorkerFrame'
        BY <2>4, <2>5, <2>6 DEF TurnTypes, WorkerFrame, Turns
    <2> QED BY <1>9, <2>3, <2>7 DEF TurnReturns, TurnTypes, TypeOK
<1>10. CASE SettleJob(w)
    <2> DEFINE t == worker[w].turn
               outcome == SettledStatus(jobs[t], worker[w].verdict)
    <2>1. t \in Turns /\ jobs[t] \in Job
        BY <1>10 DEF SettleJob, TurnTypes, TypeOK, WorkerFrame
    <2>2. outcome \in {"completed", "canceled", "queued", "failed"}
        BY <2>1 DEF SettledStatus, Job
    <2> HIDE DEF outcome
    <2>3. [jobs[t] EXCEPT !.status = outcome] \in Job
        BY <2>1, <2>2 DEF Job, JobStatus
    <2>4. jobs' = [jobs EXCEPT ![t] = [jobs[t] EXCEPT !.status = outcome]]
        BY <1>10 DEF SettleJob, outcome
    <2>5. jobs' \in [Turns -> Job]
        BY <2>3, <2>4 DEF TurnTypes, TypeOK
    <2>6. \/ /\ outcome \in {"failed", "canceled"}
             /\ worker' = [worker EXCEPT ![w].pc = "marking", ![w].verdict = outcome]
          \/ worker' = [worker EXCEPT ![w] = IdleWorker]
        BY <1>10 DEF SettleJob, outcome
    <2>7. worker' \in [Workers -> WorkerState]
        <3>1. /\ "marking" \in WorkerSteps
              /\ outcome \in {"failed", "canceled"} => outcome \in Verdicts
            BY DEF WorkerSteps, Verdicts
        <3>2. CASE /\ outcome \in {"failed", "canceled"}
                   /\ worker' = [worker EXCEPT ![w].pc = "marking", ![w].verdict = outcome]
            <4>1. [worker EXCEPT ![w].pc = "marking", ![w].verdict = outcome]
                        \in [Workers -> WorkerState]
                BY <3>1, <3>2, WorkerMoves DEF TurnTypes, TypeOK
            <4> QED BY <3>2, <4>1
        <3>3. CASE worker' = [worker EXCEPT ![w] = IdleWorker]
            BY <3>3, WorkerMoves DEF TurnTypes, TypeOK
        <3> QED BY <2>6, <3>2, <3>3
    <2>8. \A v \in Workers : v # w => worker'[v] = worker[v]
        BY <2>6 DEF TurnTypes, TypeOK
    <2>9. \/ /\ outcome \in {"failed", "canceled"}
             /\ worker'[w].pc = "marking" /\ worker'[w].verdict = outcome
             /\ worker'[w].turn = worker[w].turn
          \/ worker'[w].pc = "idle"
        BY <2>6 DEF TurnTypes, TypeOK, WorkerState, IdleWorker
    <2>10. UNCHANGED patches
        BY <1>10 DEF SettleJob
    <2>11. WorkerFrame'
        BY <2>1, <2>8, <2>9, <2>10 DEF TurnTypes, WorkerFrame, Turns
    <2> QED BY <1>10, <2>5, <2>7, <2>11 DEF SettleJob, TurnTypes, TypeOK
<1>11. CASE MarkSessionTerminal(w)
    <2>1. status' \in Active \cup Terminal
        BY <1>11 DEF MarkSessionTerminal, TurnTypes, WorkerFrame, Terminal
    <2>2. worker' \in [Workers -> WorkerState]
        BY <1>11, WorkerMoves DEF MarkSessionTerminal, TurnTypes, TypeOK
    <2>3. WorkerFrame'
        BY <1>11 DEF MarkSessionTerminal, TurnTypes, TypeOK, WorkerFrame, Turns, IdleWorker
    <2> QED BY <1>11, <2>1, <2>2, <2>3 DEF MarkSessionTerminal, TurnTypes, TypeOK
<1> QED BY <1>1, <1>2, <1>3, <1>4, <1>5, <1>6, <1>7, <1>8, <1>9, <1>10, <1>11 DEF RunTurn

(* The steps of a request, from its first read to its response.            *)
LEMMA RequestStepTypes ==
    ASSUME TurnTypes, NEW c \in Clients, Receive(c) \/ Proceed(c)
    PROVE  TurnTypes'
<1> USE DEF session, article, history
<1>0. /\ TypeOK
      /\ client \in [Clients -> ClientState]
      /\ Current \in Nat
      /\ patches \in Seq(Patch)
    BY DEF TurnTypes, TypeOK, Current
<1>a. ASSUME UNCHANGED <<worker, patches>>
      PROVE  WorkerFrame'
    BY <1>a DEF TurnTypes, WorkerFrame, Turns
<1>b. Respond(c) => client' \in [Clients -> ClientState]
    BY <1>0, ClientMoves DEF Respond
<1>c. ASSUME NEW pc \in ClientSteps, Request(c, pc)
      PROVE  client' \in [Clients -> ClientState]
    <2>1. [client EXCEPT ![c].pc = pc] \in [Clients -> ClientState]
        BY <1>0, ClientMoves
    <2> QED BY <1>c, <2>1 DEF Request
<1>d. \A base : Refuse(c, base) =>
          client' \in [Clients -> ClientState] /\ selfConflict' \in BOOLEAN
    BY <1>b DEF Refuse, OnlyAgentsSince, TurnTypes, TypeOK
<1>1. CASE ReadSession(c) \/ CheckResume(c) \/ CheckArchive(c)
    <2>1. client' \in [Clients -> ClientState]
        BY <1>0, <1>1, ArriveTypes DEF ReadSession, CheckResume, CheckArchive, ClientSteps, Requests
    <2> QED BY <1>a, <1>1, <2>1 DEF ReadSession, CheckResume, CheckArchive, TurnTypes, TypeOK
<1>2. CASE ReadUnlinkedPatch(c)
    <2>1. PICK p \in DOMAIN patches :
            client' = [client EXCEPT ![c] = [IdleClient EXCEPT
                         !.pc = "saving", !.kind = "accept", !.base = Current, !.patch = p]]
        BY <1>2 DEF ReadUnlinkedPatch
    <2>2. p \in Nat
        BY <1>0
    <2>3. [IdleClient EXCEPT !.pc = "saving", !.kind = "accept", !.base = Current, !.patch = p]
                \in ClientState
        BY <1>0, <2>2, ClientMoves DEF ClientState, ClientSteps, Requests
    <2>4. client' \in [Clients -> ClientState]
        BY <1>0, <2>1, <2>3
    <2> QED BY <1>a, <1>2, <2>4 DEF ReadUnlinkedPatch, TurnTypes, TypeOK
<1>3. CASE CancelChat(c)
    <2>1. client' \in [Clients -> ClientState]
        BY <1>0, <1>3, ArriveTypes DEF CancelChat, ClientSteps, Requests
    <2>2. worker' \in [Workers -> WorkerState]
        BY <1>3, WorkerMoves DEF CancelChat, TurnTypes, TypeOK
    <2>3. \A v \in Workers : /\ worker'[v].turn = worker[v].turn
                             /\ worker'[v].patch = worker[v].patch
                             /\ worker'[v].verdict = worker[v].verdict
                             /\ worker'[v].pc = worker[v].pc
        BY <1>3 DEF CancelChat, TurnTypes, TypeOK, WorkerState
    <2>4. WorkerFrame'
        BY <1>3, <2>3 DEF CancelChat, TurnTypes, WorkerFrame, Turns
    <2> QED BY <1>3, <2>1, <2>2, <2>4 DEF CancelChat, TurnTypes, TypeOK
<1>4. CASE ReadPatch(c)
    <2>1. CASE Queued = {} /\ Request(c, "boundary") /\ UNCHANGED history
        <3>1. client' \in [Clients -> ClientState]
            BY <1>c, <2>1 DEF ClientSteps
        <3> QED BY <1>a, <1>4, <2>1, <3>1 DEF ReadPatch, TurnTypes, TypeOK
    <2>2. CASE /\ client' = [client EXCEPT ![c].pc = "saving", ![c].patch = Newest(Queued),
                                          ![c].base = Current]
               /\ Queued # {}
               /\ UNCHANGED history
        <3>1. Newest(Queued) \in Queued
            BY <1>0, <2>2, NewestQueued
        <3>2. Newest(Queued) \in Nat /\ "saving" \in ClientSteps
            BY <1>0, <3>1 DEF Queued, ClientSteps
        <3>3. client' \in [Clients -> ClientState]
            BY <1>0, <2>2, <3>2, ClientMoves
        <3> QED BY <1>a, <1>4, <2>2, <3>3 DEF ReadPatch, TurnTypes, TypeOK
    <2>3. CASE Refuse(c, patches[Newest(Queued)].base)
        BY <1>a, <1>d, <1>4, <2>3 DEF ReadPatch, Refuse, TurnTypes, TypeOK
    <2> QED BY <1>4, <2>1, <2>2, <2>3 DEF ReadPatch
<1>5. CASE SavePatch(c)
    <2>1. CASE Refuse(c, client[c].base) /\ UNCHANGED authors
        BY <1>a, <1>d, <1>5, <2>1 DEF SavePatch, Refuse, TurnTypes, TypeOK
    <2>2. CASE /\ authors' = Append(authors, "agent")
               /\ landings' = Append(landings, [patch |-> client[c].patch, onto |-> Current])
               /\ client' = [client EXCEPT ![c].pc = "accepting", ![c].base = Current + 1]
               /\ UNCHANGED <<calls, selfConflict, crashes, retried>>
        <3>1. authors' \in Seq({"editor", "agent"})
            BY <2>2 DEF TurnTypes, TypeOK
        <3>2. client[c].patch \in Nat
            BY <1>0 DEF ClientState
        <3>3. landings' \in Seq([patch: Nat, onto: Nat])
            BY <1>0, <2>2, <3>2 DEF TurnTypes, TypeOK
        <3>4. "accepting" \in ClientSteps /\ Current + 1 \in Nat
            BY <1>0 DEF ClientSteps
        <3>5. [client EXCEPT ![c].pc = "accepting", ![c].base = Current + 1]
                    \in [Clients -> ClientState]
            BY <1>0, <3>4, ClientMoves
        <3>6. client' \in [Clients -> ClientState]
            BY <2>2, <3>5
        <3> QED BY <1>a, <1>5, <2>2, <3>1, <3>3, <3>6 DEF SavePatch, TurnTypes, TypeOK
    <2> QED BY <1>5, <2>1, <2>2 DEF SavePatch
<1>6. CASE AcceptPatch(c)
    <2>1. patches' \in Seq(Patch) /\ DOMAIN patches' = DOMAIN patches
        BY <1>0, <1>6, PatchState DEF AcceptPatch
    <2>2. client' \in [Clients -> ClientState]
        BY <1>b, <1>c, <1>6 DEF AcceptPatch, ClientSteps
    <2>3. WorkerFrame'
        BY <1>6, <2>1 DEF AcceptPatch, TurnTypes, WorkerFrame, Turns
    <2> QED BY <1>6, <2>1, <2>2, <2>3 DEF AcceptPatch, TurnTypes, TypeOK
<1>7. CASE PassBoundary(c) \/ CheckCancel(c)
    <2>1. client' \in [Clients -> ClientState]
        BY <1>b, <1>c, <1>7 DEF PassBoundary, CheckCancel, ClientSteps
    <2> QED BY <1>a, <1>7, <2>1 DEF PassBoundary, CheckCancel, TurnTypes, TypeOK
<1>8. CASE ResumeSession(c) \/ StartTurn(c) \/ CloseSession(c) \/ CancelSession(c) \/ ArchiveSession(c)
    <2>1. client' \in [Clients -> ClientState]
        BY <1>b, <1>c, <1>8
        DEF ResumeSession, StartTurn, CloseSession, CancelSession, ArchiveSession, ClientSteps
    <2> QED BY <1>a, <1>8, <2>1 DEF ResumeSession, StartTurn, CloseSession, CancelSession,
            ArchiveSession, TurnTypes, TypeOK, Active, Terminal
<1>9. CASE CreateJob(c)
    <2>1. PICK t \in Turns :
            jobs' = [jobs EXCEPT ![t].status = "queued", ![t].base = client[c].base]
        BY <1>9 DEF CreateJob
    <2>2. client[c].base \in Nat /\ jobs[t] \in Job
        BY <1>0 DEF ClientState, TypeOK
    <2>3. [jobs[t] EXCEPT !.status = "queued", !.base = client[c].base] \in Job
        BY <2>2 DEF Job, JobStatus
    <2>4. jobs' = [jobs EXCEPT ![t] = [jobs[t] EXCEPT !.status = "queued", !.base = client[c].base]]
        BY <1>0, <2>1 DEF TypeOK
    <2>5. jobs' \in [Turns -> Job]
        BY <2>3, <2>4 DEF TurnTypes, TypeOK
    <2>6. client' \in [Clients -> ClientState]
        BY <1>b, <1>9 DEF CreateJob
    <2> QED BY <1>a, <1>9, <2>5, <2>6 DEF CreateJob, TurnTypes, TypeOK
<1> QED BY <1>1, <1>2, <1>3, <1>4, <1>5, <1>6, <1>7, <1>8, <1>9 DEF Receive, Proceed

(* Everybody else.                                                         *)
LEMMA OtherStepTypes ==
    ASSUME TurnTypes,
           \/ \E w \in Workers : (\E t \in Turns : ClaimTurn(w, t)) \/ WorkerCrashes(w)
           \/ \E t \in Turns : RecoverJob(t) \/ CancelJob(t) \/ RetryJob(t)
           \/ \E p \in DOMAIN patches : RejectPatch(p)
           \/ EditorSaves \/ ResolveApproval \/ RestartApi \/ UNCHANGED vars
    PROVE  TurnTypes'
<1> USE DEF session, article, history
<1>a. ASSUME UNCHANGED <<worker, patches>>
      PROVE  WorkerFrame'
    BY <1>a DEF TurnTypes, WorkerFrame, Turns
<1>b. \A t \in Turns : jobs[t] \in Job
    BY DEF TurnTypes, TypeOK
<1>c. ASSUME NEW t \in Turns, NEW job \in Job, jobs' = [jobs EXCEPT ![t] = job]
      PROVE  jobs' \in [Turns -> Job]
    BY <1>c DEF TurnTypes, TypeOK
<1>1. ASSUME NEW w \in Workers, NEW t \in Turns, ClaimTurn(w, t)
      PROVE  TurnTypes'
    <2>0. jobs[t].attempts + 1 \in Nat /\ "running" \in JobStatus
        BY <1>b DEF Job, JobStatus
    <2>1. [jobs[t] EXCEPT !.status = "running", !.attempts = jobs[t].attempts + 1] \in Job
        BY <1>b, <2>0 DEF Job
    <2>2. jobs' = [jobs EXCEPT ![t] = [jobs[t] EXCEPT !.status = "running",
                                                      !.attempts = jobs[t].attempts + 1]]
        BY <1>1 DEF ClaimTurn, TurnTypes, TypeOK
    <2>3. jobs' \in [Turns -> Job]
        BY <1>c, <2>1, <2>2
    <2>4. t \in 0..MaxTurns
        BY AgentTurnsAssumption DEF Turns
    <2>5. [IdleWorker EXCEPT !.pc = "starting", !.turn = t] \in WorkerState
        BY <2>4, WorkerMoves DEF TurnTypes, TypeOK, WorkerState, WorkerSteps
    <2>6. worker' \in [Workers -> WorkerState]
        BY <1>1, <2>5 DEF ClaimTurn, TurnTypes, TypeOK
    <2>7. \A v \in Workers : worker'[v] = IF v = w THEN [IdleWorker EXCEPT !.pc = "starting", !.turn = t]
                                                   ELSE worker[v]
        BY <1>1 DEF ClaimTurn, TurnTypes, TypeOK
    <2>8. worker'[w].pc = "starting" /\ worker'[w].turn = t
        BY <2>7 DEF IdleWorker
    <2>9. UNCHANGED patches
        BY <1>1 DEF ClaimTurn
    <2>10. WorkerFrame'
        BY <2>7, <2>8, <2>9 DEF TurnTypes, WorkerFrame, Turns
    <2> QED BY <1>1, <2>3, <2>6, <2>10 DEF ClaimTurn, TurnTypes, TypeOK
<1>2. ASSUME NEW w \in Workers, WorkerCrashes(w)
      PROVE  TurnTypes'
    <2>1. worker' \in [Workers -> WorkerState]
        BY <1>2, WorkerMoves DEF WorkerCrashes, TurnTypes, TypeOK
    <2>2. WorkerFrame'
        BY <1>2 DEF WorkerCrashes, TurnTypes, TypeOK, WorkerFrame, Turns, IdleWorker
    <2> QED BY <1>2, <2>1, <2>2 DEF WorkerCrashes, TurnTypes, TypeOK
<1>3. ASSUME NEW t \in Turns, RecoverJob(t)
      PROVE  TurnTypes'
    <2>1. PICK s \in {"canceled", "failed", "queued"} :
            jobs' = [jobs EXCEPT ![t] = [jobs[t] EXCEPT !.status = s]]
        <3>1. jobs[t] \in Job /\ jobs[t].cancel \in BOOLEAN
                /\ jobs[t].attempts \in Nat /\ jobs[t].limit \in Nat
            BY <1>b DEF Job
        <3>2. CASE jobs[t].cancel
            BY <1>3, <3>1, <3>2 DEF RecoverJob
        <3>3. CASE ~jobs[t].cancel /\ jobs[t].attempts >= jobs[t].limit
            <4>1. ~(jobs[t].attempts < jobs[t].limit)
                BY <3>1, <3>3
            <4>2. jobs' = [jobs EXCEPT ![t] = [jobs[t] EXCEPT !.status = "failed"]]
                BY <1>3, <3>3, <4>1 DEF RecoverJob
            <4> QED BY <4>2
        <3>4. CASE ~jobs[t].cancel /\ jobs[t].attempts < jobs[t].limit
            <4>1. ~(jobs[t].attempts >= jobs[t].limit)
                BY <3>1, <3>4
            <4> QED BY <1>3, <3>1, <3>4, <4>1 DEF RecoverJob
        <3> QED BY <3>1, <3>2, <3>3, <3>4
    <2>2. [jobs[t] EXCEPT !.status = s] \in Job
        BY <1>b DEF Job, JobStatus
    <2>3. jobs' \in [Turns -> Job]
        BY <1>c, <2>1, <2>2
    <2> QED BY <1>a, <1>3, <2>3 DEF RecoverJob, TurnTypes, TypeOK
<1>4. ASSUME NEW t \in Turns, CancelJob(t)
      PROVE  TurnTypes'
    <2>1. PICK s \in {"canceled", "running"} :
            jobs' = [jobs EXCEPT ![t] = [jobs[t] EXCEPT !.cancel = TRUE, !.status = s]]
        BY <1>b, <1>4 DEF CancelJob, TurnTypes, TypeOK
    <2>2. [jobs[t] EXCEPT !.cancel = TRUE, !.status = s] \in Job
        BY <1>b DEF Job, JobStatus
    <2>3. jobs' \in [Turns -> Job]
        BY <1>c, <2>1, <2>2
    <2> QED BY <1>a, <1>4, <2>3 DEF CancelJob, TurnTypes, TypeOK
<1>5. ASSUME NEW t \in Turns, RetryJob(t)
      PROVE  TurnTypes'
    <2> DEFINE room == IF jobs[t].attempts >= jobs[t].limit
                       THEN jobs[t].attempts + 1 ELSE jobs[t].limit
    <2>1. room \in Nat
        BY <1>b DEF Job
    <2>2. jobs' = [jobs EXCEPT ![t] = [jobs[t] EXCEPT !.status = "queued", !.cancel = FALSE,
                                                      !.limit = room]]
        BY <1>5 DEF RetryJob, TurnTypes, TypeOK
    <2> HIDE DEF room
    <2>3. [jobs[t] EXCEPT !.status = "queued", !.cancel = FALSE, !.limit = room] \in Job
        BY <1>b, <2>1 DEF Job, JobStatus
    <2>4. jobs' \in [Turns -> Job]
        BY <1>c, <2>2, <2>3
    <2>5. retried' \in [Turns -> Nat]
        <3>1. retried \in [Turns -> Nat] /\ retried[t] + 1 \in Nat
            BY DEF TurnTypes, TypeOK
        <3>2. retried' = [retried EXCEPT ![t] = retried[t] + 1]
            BY <1>5 DEF RetryJob
        <3> QED BY <3>1, <3>2
    <2> QED BY <1>a, <1>5, <2>4, <2>5 DEF RetryJob, TurnTypes, TypeOK
<1>6. ASSUME NEW p \in DOMAIN patches, RejectPatch(p)
      PROVE  TurnTypes'
    <2>1. patches' \in Seq(Patch) /\ DOMAIN patches' = DOMAIN patches
        BY <1>6, PatchState DEF RejectPatch, TurnTypes, TypeOK
    <2>2. WorkerFrame'
        BY <1>6, <2>1 DEF RejectPatch, TurnTypes, WorkerFrame, Turns
    <2> QED BY <1>6, <2>1, <2>2 DEF RejectPatch, TurnTypes, TypeOK
<1>7. CASE EditorSaves
    <2>1. authors' \in Seq({"editor", "agent"})
        BY <1>7 DEF EditorSaves, TurnTypes, TypeOK
    <2> QED BY <1>a, <1>7, <2>1 DEF EditorSaves, TurnTypes, TypeOK
<1>8. CASE ResolveApproval
    <2>1. approvals' \in [asked: Nat, pending: Nat]
        BY <1>8 DEF ResolveApproval, TurnTypes, TypeOK
    <2> QED BY <1>a, <1>8, <2>1 DEF ResolveApproval, TurnTypes, TypeOK, Active
<1>9. CASE RestartApi
    <2>1. client' \in [Clients -> ClientState]
        <3>1. \A c \in Clients : IdleClient \in ClientState
            BY ClientMoves DEF TurnTypes, TypeOK
        <3> QED BY <1>9, <3>1 DEF RestartApi
    <2>2. tool' \in ToolStatus /\ status' \in Active \cup Terminal
        BY <1>9 DEF RestartApi, TurnTypes, TypeOK, ToolStatus, Active, Terminal
    <2> QED BY <1>a, <1>9, <2>1, <2>2 DEF RestartApi, TurnTypes, TypeOK
<1>10. CASE UNCHANGED vars
    BY <1>a, <1>10 DEF vars, TurnTypes, TypeOK
<1> QED BY <1>1, <1>2, <1>3, <1>4, <1>5, <1>6, <1>7, <1>8, <1>9, <1>10

LEMMA TurnTypesInit == Init => TurnTypes
<1> SUFFICES ASSUME Init PROVE TurnTypes
    OBVIOUS
<1>1. IdleWorker \in WorkerState
    <2>1. 0 \in 0..MaxTurns
        BY AgentTurnsAssumption
    <2> QED BY <2>1 DEF IdleWorker, WorkerState, WorkerSteps, Verdicts
<1>2. IdleClient \in ClientState
    BY DEF IdleClient, ClientState, ClientSteps, Requests, Active
<1>3. AbsentJob \in Job
    BY AgentTurnsAssumption DEF AbsentJob, Job, JobStatus
<1>4. /\ worker \in [Workers -> WorkerState]
      /\ client \in [Clients -> ClientState]
      /\ jobs \in [Turns -> Job]
    BY <1>1, <1>2, <1>3 DEF Init
<1>5. WorkerFrame
    BY DEF Init, WorkerFrame, IdleWorker
<1>6. /\ authors \in Seq({"editor", "agent"})
      /\ patches \in Seq(Patch)
      /\ landings \in Seq([patch: Nat, onto: Nat])
    BY DEF Init
<1>7. /\ status \in Active \cup Terminal
      /\ tool \in ToolStatus
      /\ approvals \in [asked: Nat, pending: Nat]
      /\ calls \in [Turns -> Nat]
      /\ retried \in [Turns -> Nat]
    BY DEF Init, Active, ToolStatus
<1> QED BY <1>4, <1>5, <1>6, <1>7 DEF Init, TurnTypes, TypeOK

LEMMA TurnTypesStep == TurnTypes /\ [Next]_vars => TurnTypes'
BY TurnStepTypes, RequestStepTypes, OtherStepTypes DEF Next

LEMMA TypesAlways == Spec => []TurnTypes
BY TurnTypesInit, TurnTypesStep, PTL DEF Spec

(* Every variable keeps its type, whatever fails, races or is retried; the *)
(* one that takes an argument is the status, which a worker sets to the    *)
(* verdict it carries (_mark_session_terminal).                            *)
THEOREM TurnTypeCorrect == Spec => []TypeOK
<1>1. TurnTypes => TypeOK
    BY DEF TurnTypes
<1> QED BY <1>1, TypesAlways, PTL

-----------------------------------------------------------------------------
(* Where queued edits land.                                                *)

LEMMA EntryOfSeq ==
    ASSUME NEW S, NEW s \in Seq(S)
    PROVE  \A i \in DOMAIN s : s[i] \in S
OBVIOUS

(* A step that saves nothing, keeps the bases and accepts nothing leaves   *)
(* the landings as they are.                                               *)
LEMMA NothingLands ==
    ASSUME TurnTypes, LandingInv, UNCHANGED landings,
           patches' \in Seq(Patch), authors' \in Seq({"editor", "agent"}),
           Len(authors) <= Len(authors'),
           \A p \in DOMAIN patches : /\ p \in DOMAIN patches'
                                     /\ patches'[p].base = patches[p].base,
           \A p \in DOMAIN patches' : patches'[p].state = "accepted" =>
               Landed(p) \/ (p \in DOMAIN patches /\ patches[p].state = "accepted")
    PROVE  LandingInv'
<1>1. /\ landings \in Seq([patch: Nat, onto: Nat])
      /\ \A i \in DOMAIN landings : landings[i].onto \in Nat
      /\ Len(authors) \in Nat /\ Len(authors') \in Nat
    <2>1. /\ landings \in Seq([patch: Nat, onto: Nat])
          /\ authors \in Seq({"editor", "agent"})
        BY DEF TurnTypes, TypeOK
    <2>2. \A i \in DOMAIN landings : landings[i] \in [patch: Nat, onto: Nat]
        BY <2>1, EntryOfSeq
    <2> QED BY <2>1, <2>2
<1>2. \A i \in DOMAIN landings : landings[i].onto < Len(authors')
    BY <1>1 DEF LandingInv, Current
<1>3. AcceptedHasLanded'
    BY DEF LandingInv, AcceptedHasLanded, Landed
<1> QED BY <1>2, <1>3 DEF LandingInv, Current

(* Requests that go on to anything but a save or an acceptance.            *)
LEMMA ClientsKept ==
    ASSUME ClientFrame, UNCHANGED landings,
           \A p \in DOMAIN patches : /\ p \in DOMAIN patches'
                                     /\ patches'[p].base = patches[p].base,
           \A d \in Clients : client'[d] = client[d] \/ client'[d].pc \notin {"saving", "accepting"}
    PROVE  ClientFrame'
BY DEF ClientFrame, Landed

LEMMA LandInvInit == Init => LandInv
BY DEF Init, LandInv, ClientFrame, LandingInv, AcceptedHasLanded, IdleClient

LEMMA LandInvStep == TurnTypes /\ TurnTypes' /\ LandInv /\ [Next]_vars => LandInv'
<1> SUFFICES ASSUME TurnTypes, TurnTypes', LandInv, [Next]_vars
             PROVE  LandInv'
    OBVIOUS
<1> USE DEF session, article, history
<1>0. /\ patches \in Seq(Patch) /\ patches' \in Seq(Patch)
      /\ authors' \in Seq({"editor", "agent"}) /\ authors \in Seq({"editor", "agent"})
      /\ Len(authors) \in Nat /\ Len(patches) \in Nat
      /\ DOMAIN patches = 1..Len(patches)
      /\ client \in [Clients -> ClientState]
      /\ ClientFrame /\ LandingInv
    BY DEF TurnTypes, TypeOK, LandInv
<1>a. ASSUME UNCHANGED article, UNCHANGED landings
      PROVE  LandingInv'
    BY <1>a, <1>0, NothingLands
<1>b. ASSUME UNCHANGED <<article, client>>, UNCHANGED landings
      PROVE  LandInv'
    BY <1>0, <1>a, <1>b, ClientsKept DEF LandInv
<1>c. ASSUME NEW c \in Clients, UNCHANGED article, UNCHANGED landings,
             \/ Respond(c)
             \/ \E pc \in ClientSteps \ {"saving", "accepting"} : Request(c, pc)
             \/ \E kind \in Requests, pc \in ClientSteps \ {"saving", "accepting"} : Arrive(c, kind, pc)
      PROVE  LandInv'
    <2>1. \A d \in Clients : client'[d] = client[d] \/ client'[d].pc \notin {"saving", "accepting"}
        <3>1. CASE Respond(c)
            BY <1>0, <3>1 DEF Respond, IdleClient
        <3>2. ASSUME NEW pc \in ClientSteps \ {"saving", "accepting"}, Request(c, pc)
              PROVE  \A d \in Clients : client'[d] = client[d] \/ client'[d].pc \notin {"saving", "accepting"}
            BY <1>0, <3>2 DEF Request, ClientState
        <3>3. ASSUME NEW kind \in Requests, NEW pc \in ClientSteps \ {"saving", "accepting"},
                     Arrive(c, kind, pc)
              PROVE  \A d \in Clients : client'[d] = client[d] \/ client'[d].pc \notin {"saving", "accepting"}
            BY <1>0, <3>3 DEF Arrive, IdleClient
        <3> QED BY <1>c, <3>1, <3>2, <3>3
    <2> QED BY <1>0, <1>a, <1>c, <2>1, ClientsKept DEF LandInv
<1>d. ClientSteps \ {"saving", "accepting"} =
        {"idle", "patch", "boundary", "resuming", "starting", "queueing", "closing",
         "cancel_read", "canceling", "archiving"}
    BY DEF ClientSteps
<1>1. ASSUME NEW w \in Workers, RunTurn(w)
      PROVE  LandInv'
    <2>1. CASE AddPatch(w)
        <3> DEFINE new == [base |-> jobs[worker[w].turn].base, state |-> "pending", linked |-> FALSE]
        <3>1. patches' = Append(patches, new)
            BY <2>1 DEF AddPatch
        <3>2. \A p \in DOMAIN patches : /\ p \in DOMAIN patches' /\ patches'[p] = patches[p]
            BY <1>0, <3>1
        <3>3. \A p \in DOMAIN patches' : p \in DOMAIN patches \/ patches'[p] = new
            BY <1>0, <3>1
        <3>4. \A p \in DOMAIN patches' : patches'[p].state = "accepted" =>
                  p \in DOMAIN patches /\ patches[p].state = "accepted"
            BY <3>2, <3>3
        <3>5. LandingInv'
            BY <1>0, <2>1, <3>2, <3>4, NothingLands DEF AddPatch
        <3>6. ClientFrame'
            BY <1>0, <2>1, <3>2, ClientsKept DEF AddPatch
        <3> QED BY <3>5, <3>6 DEF LandInv
    <2>2. CASE AddOutput(w)
        <3>1. /\ DOMAIN patches' = DOMAIN patches
              /\ \A p \in DOMAIN patches : /\ patches'[p].base = patches[p].base
                                            /\ patches'[p].state = patches[p].state
            BY <1>0, <2>2 DEF AddOutput, Patch
        <3>2. LandingInv'
            BY <1>0, <2>2, <3>1, NothingLands DEF AddOutput
        <3>3. ClientFrame'
            BY <1>0, <2>2, <3>1, ClientsKept DEF AddOutput
        <3> QED BY <3>2, <3>3 DEF LandInv
    <2>3. CASE \/ StreamChat(w) \/ RecordToolCall(w) \/ CompleteToolCall(w) \/ StreamFails(w)
               \/ CheckApproval(w) \/ RequestApproval(w) \/ StreamEnds(w) \/ AddReply(w)
               \/ TurnCompleted(w) \/ CheckRunning(w) \/ WaitForInput(w) \/ CheckFailure(w)
               \/ FailSession(w) \/ TurnReturns(w) \/ SettleJob(w) \/ MarkSessionTerminal(w)
        <3>1. UNCHANGED <<article, client>> /\ UNCHANGED landings
            BY <2>3 DEF StreamChat, RecordToolCall, CompleteToolCall, StreamFails, CheckApproval,
               RequestApproval, StreamEnds, AddReply, TurnCompleted, CheckRunning, WaitForInput,
               CheckFailure, FailSession, TurnReturns, SettleJob, MarkSessionTerminal
        <3> QED BY <1>b, <3>1
    <2> QED BY <1>1, <2>1, <2>2, <2>3 DEF RunTurn
<1>2. ASSUME NEW c \in Clients, Receive(c)
      PROVE  LandInv'
    <2>1. CASE ReadUnlinkedPatch(c)
        <3>1. PICK p \in DOMAIN patches :
                /\ patches[p].base = Current
                /\ client' = [client EXCEPT ![c] = [IdleClient EXCEPT
                                !.pc = "saving", !.kind = "accept", !.base = Current, !.patch = p]]
            BY <2>1 DEF ReadUnlinkedPatch
        <3>2. /\ client'[c].pc = "saving" /\ client'[c].patch = p /\ client'[c].base = Current
              /\ \A d \in Clients : d # c => client'[d] = client[d]
            BY <1>0, <3>1 DEF IdleClient
        <3>3. UNCHANGED article /\ UNCHANGED landings
            BY <2>1 DEF ReadUnlinkedPatch
        <3>4. ClientFrame'
            BY <1>0, <3>1, <3>2, <3>3 DEF ClientFrame, Landed
        <3> QED BY <1>a, <3>3, <3>4 DEF LandInv
    <2>2. CASE ReadSession(c) \/ CheckResume(c) \/ CancelChat(c) \/ CheckArchive(c)
        <3>1. UNCHANGED article /\ UNCHANGED landings
            BY <2>2 DEF ReadSession, CheckResume, CancelChat, CheckArchive
        <3>2. \E kind \in Requests, pc \in ClientSteps \ {"saving", "accepting"} : Arrive(c, kind, pc)
            BY <1>d, <2>2 DEF ReadSession, CheckResume, CancelChat, CheckArchive, Requests
        <3> QED BY <1>c, <3>1, <3>2
    <2> QED BY <1>2, <2>1, <2>2 DEF Receive
<1>3. ASSUME NEW c \in Clients, Proceed(c)
      PROVE  LandInv'
    <2>1. CASE ReadPatch(c)
        <3>1. UNCHANGED article
            BY <2>1 DEF ReadPatch
        <3>2. CASE Request(c, "boundary") /\ UNCHANGED history
            BY <1>c, <1>d, <3>1, <3>2
        <3>3. CASE Refuse(c, patches[Newest(Queued)].base)
            BY <1>c, <3>1, <3>3 DEF Refuse
        <3>4. CASE /\ Queued # {}
                   /\ patches[Newest(Queued)].base = Current
                   /\ client' = [client EXCEPT ![c].pc = "saving", ![c].patch = Newest(Queued),
                                              ![c].base = Current]
                   /\ UNCHANGED history
            <4>1. Newest(Queued) \in DOMAIN patches
                BY <1>0, <3>4, NewestQueued DEF Queued
            <4>2. /\ client'[c].patch = Newest(Queued) /\ client'[c].base = Current
                  /\ client'[c].pc = "saving"
                  /\ \A d \in Clients : d # c => client'[d] = client[d]
                BY <1>0, <3>4 DEF ClientState
            <4>3. ClientFrame'
                BY <1>0, <3>1, <3>4, <4>1, <4>2 DEF ClientFrame, Landed
            <4> QED BY <1>a, <3>1, <3>4, <4>3 DEF LandInv
        <3> QED BY <2>1, <3>2, <3>3, <3>4 DEF ReadPatch
    <2>2. CASE SavePatch(c)
        <3>1. UNCHANGED patches
            BY <2>2 DEF SavePatch
        <3>2. CASE Refuse(c, client[c].base) /\ UNCHANGED authors
            BY <1>c, <3>1, <3>2 DEF Refuse
        <3>3. CASE /\ client[c].base = Current
                   /\ authors' = Append(authors, "agent")
                   /\ landings' = Append(landings, [patch |-> client[c].patch, onto |-> Current])
                   /\ client' = [client EXCEPT ![c].pc = "accepting", ![c].base = Current + 1]
            <4> DEFINE landing == [patch |-> client[c].patch, onto |-> Current]
            <4>1. /\ client[c].patch \in DOMAIN patches
                  /\ patches[client[c].patch].base = Current
                BY <1>0, <2>2, <3>3 DEF SavePatch, ClientFrame
            <4>2. landings \in Seq([patch: Nat, onto: Nat])
                BY DEF TurnTypes, TypeOK
            <4>3. /\ Len(landings) \in Nat
                  /\ DOMAIN landings = 1..Len(landings)
                  /\ DOMAIN landings' = 1..(Len(landings) + 1)
                  /\ \A i \in 1..Len(landings) : landings'[i] = landings[i]
                  /\ landings'[Len(landings) + 1] = landing
                BY <3>3, <4>2
            <4>4. \A i \in DOMAIN landings : landings[i].onto \in Nat /\ landings[i].onto < Current
                <5>1. \A i \in DOMAIN landings : landings[i] \in [patch: Nat, onto: Nat]
                    BY <4>2, EntryOfSeq
                <5> QED BY <1>0, <5>1 DEF LandingInv
            <4>5. \A i \in DOMAIN landings : landings[i].patch # client[c].patch
                <5>1. SUFFICES ASSUME NEW i \in DOMAIN landings,
                                      landings[i].patch = client[c].patch
                               PROVE  FALSE
                    OBVIOUS
                <5>2. landings[i].onto = Current
                    BY <1>0, <4>1, <5>1 DEF LandingInv
                <5> QED BY <1>0, <4>4, <5>2 DEF Current
            <4>6. Current' = Current + 1 /\ Current \in Nat
                BY <1>0, <3>3 DEF Current
            <4>7. \A i \in DOMAIN landings' :
                     /\ landings'[i].patch \in DOMAIN patches'
                     /\ landings'[i].onto = patches'[landings'[i].patch].base
                     /\ landings'[i].onto < Current'
                <5>1. ASSUME NEW i \in 1..Len(landings)
                      PROVE  /\ landings'[i].patch \in DOMAIN patches'
                             /\ landings'[i].onto = patches'[landings'[i].patch].base
                             /\ landings'[i].onto < Current'
                    BY <1>0, <3>1, <4>3, <4>4, <4>6 DEF LandingInv
                <5>2. /\ landing.patch \in DOMAIN patches'
                      /\ landing.onto = patches'[landing.patch].base
                      /\ landing.onto < Current'
                    BY <3>1, <4>1, <4>6
                <5>3. \A i \in DOMAIN landings' : i \in 1..Len(landings) \/ i = Len(landings) + 1
                    BY <4>3
                <5> QED BY <4>3, <5>1, <5>2, <5>3
            <4>8. \A i, k \in DOMAIN landings' : landings'[i].patch = landings'[k].patch => i = k
                <5>1. \A i \in DOMAIN landings' : i \in 1..Len(landings) \/ i = Len(landings) + 1
                    BY <4>3
                <5>2. landing.patch = client[c].patch
                    OBVIOUS
                <5> HIDE DEF landing
                <5> QED BY <1>0, <4>3, <4>5, <5>1, <5>2 DEF LandingInv
            <4>9. \A p : Landed(p) => \E i \in DOMAIN landings' : landings'[i].patch = p
                BY <4>3 DEF Landed
            <4>10. \E i \in DOMAIN landings' : landings'[i].patch = client[c].patch
                <5>1. Len(landings) + 1 \in DOMAIN landings'
                    BY <4>3
                <5>2. landings'[Len(landings) + 1].patch = client[c].patch
                    BY <4>3
                <5> QED BY <5>1, <5>2
            <4>11. AcceptedHasLanded'
                BY <1>0, <3>1, <4>9 DEF LandingInv, AcceptedHasLanded, Landed
            <4>12. LandingInv'
                BY <4>7, <4>8, <4>11 DEF LandingInv
            <4>13. /\ client'[c].pc = "accepting" /\ client'[c].patch = client[c].patch
                   /\ \A d \in Clients : d # c => client'[d] = client[d]
                BY <1>0, <3>3 DEF ClientState
            <4>14. ClientFrame'
                <5>1. ASSUME NEW d \in Clients
                      PROVE  client'[d].pc = "saving" =>
                                   /\ client'[d].patch \in DOMAIN patches'
                                   /\ client'[d].base = patches'[client'[d].patch].base
                    BY <1>0, <3>1, <4>13 DEF ClientFrame
                <5>2. ASSUME NEW d \in Clients, client'[d].pc = "accepting"
                      PROVE  \E i \in DOMAIN landings' : landings'[i].patch = client'[d].patch
                    <6>1. CASE d = c
                        BY <4>10, <4>13, <6>1
                    <6>2. CASE d # c
                        <7>1. client'[d] = client[d] /\ Landed(client[d].patch)
                            BY <1>0, <4>13, <5>2, <6>2 DEF ClientFrame
                        <7> QED BY <4>9, <7>1
                    <6> QED BY <6>1, <6>2
                <5> QED BY <5>1, <5>2 DEF ClientFrame, Landed
            <4> QED BY <4>12, <4>14 DEF LandInv
        <3> QED BY <2>2, <3>2, <3>3 DEF SavePatch
    <2>3. CASE AcceptPatch(c)
        <3>1. Landed(client[c].patch) /\ UNCHANGED authors /\ UNCHANGED landings
            BY <1>0, <2>3 DEF AcceptPatch, ClientFrame
        <3>2. /\ DOMAIN patches' = DOMAIN patches
              /\ \A p \in DOMAIN patches :
                    /\ patches'[p].base = patches[p].base
                    /\ p # client[c].patch => patches'[p].state = patches[p].state
            BY <1>0, <2>3 DEF AcceptPatch, Patch
        <3>3. LandingInv'
            BY <1>0, <3>1, <3>2, NothingLands
        <3>4. \A d \in Clients : client'[d] = client[d] \/ client'[d].pc \notin {"saving", "accepting"}
            BY <1>0, <2>3 DEF AcceptPatch, Respond, Request, IdleClient, ClientState
        <3>5. ClientFrame'
            BY <1>0, <3>1, <3>2, <3>4, ClientsKept
        <3> QED BY <3>3, <3>5 DEF LandInv
    <2>4. CASE \/ PassBoundary(c) \/ ResumeSession(c) \/ StartTurn(c) \/ CreateJob(c)
               \/ CloseSession(c) \/ CheckCancel(c) \/ CancelSession(c) \/ ArchiveSession(c)
        <3>1. UNCHANGED article /\ UNCHANGED landings
            BY <2>4 DEF PassBoundary, ResumeSession, StartTurn, CreateJob, CloseSession,
               CheckCancel, CancelSession, ArchiveSession
        <3>2. Respond(c) \/ \E pc \in ClientSteps \ {"saving", "accepting"} : Request(c, pc)
            BY <1>d, <2>4 DEF PassBoundary, ResumeSession, StartTurn, CreateJob, CloseSession,
               CheckCancel, CancelSession, ArchiveSession
        <3> QED BY <1>c, <3>1, <3>2
    <2> QED BY <1>3, <2>1, <2>2, <2>3, <2>4 DEF Proceed
<1>4. ASSUME NEW p \in DOMAIN patches, RejectPatch(p)
      PROVE  LandInv'
    <2>1. /\ DOMAIN patches' = DOMAIN patches
          /\ \A q \in DOMAIN patches :
                /\ patches'[q].base = patches[q].base
                /\ patches'[q].state = "accepted" => patches[q].state = "accepted"
        BY <1>0, <1>4 DEF RejectPatch, Patch
    <2>2. LandingInv'
        BY <1>0, <1>4, <2>1, NothingLands DEF RejectPatch
    <2>3. ClientFrame'
        BY <1>0, <1>4, <2>1, ClientsKept DEF RejectPatch
    <2> QED BY <2>2, <2>3 DEF LandInv
<1>5. CASE EditorSaves
    <2>1. Len(authors') = Len(authors) + 1
        BY <1>0, <1>5 DEF EditorSaves
    <2>2. LandingInv'
        BY <1>0, <1>5, <2>1, NothingLands DEF EditorSaves
    <2>3. ClientFrame'
        BY <1>0, <1>5, ClientsKept DEF EditorSaves
    <2> QED BY <2>2, <2>3 DEF LandInv
<1>6. CASE RestartApi
    <2>1. \A d \in Clients : client'[d].pc \notin {"saving", "accepting"}
        BY <1>6 DEF RestartApi, IdleClient
    <2>2. UNCHANGED article /\ UNCHANGED landings
        BY <1>6 DEF RestartApi
    <2> QED BY <1>0, <1>a, <2>1, <2>2, ClientsKept DEF LandInv
<1>7. CASE \/ \E w \in Workers : (\E t \in Turns : ClaimTurn(w, t)) \/ WorkerCrashes(w)
           \/ \E t \in Turns : RecoverJob(t) \/ CancelJob(t) \/ RetryJob(t)
           \/ ResolveApproval \/ UNCHANGED vars
    <2>1. UNCHANGED <<article, client>> /\ UNCHANGED landings
        BY <1>7 DEF ClaimTurn, WorkerCrashes, RecoverJob, CancelJob, RetryJob, ResolveApproval, vars
    <2> QED BY <1>b, <2>1
<1> QED BY <1>1, <1>2, <1>3, <1>4, <1>5, <1>6, <1>7 DEF Next

LEMMA LandInvAlways == Spec => []LandInv
<1>1. Init => LandInv
    BY LandInvInit
<1>2. TurnTypes /\ TurnTypes' /\ LandInv /\ [Next]_vars => LandInv'
    BY LandInvStep
<1> QED BY <1>1, <1>2, TypesAlways, PTL DEF Spec

(* However many requests, turns and editors race, a queued edit is saved   *)
(* at most once, and onto the revision it was written for (apply_patch).   *)
THEOREM PatchesLandOnce == Spec => []LandsOnceOnItsBase
<1>1. LandInv => LandsOnceOnItsBase
    BY DEF LandInv, LandingInv, LandsOnceOnItsBase
<1> QED BY <1>1, LandInvAlways, PTL

(* An edit that is shown as accepted is in the article, although saving    *)
(* and marking are two transactions (apply_patch).                         *)
THEOREM AcceptedPatchesLanded == Spec => []AcceptedHasLanded
<1>1. LandInv => AcceptedHasLanded
    BY DEF LandInv, LandingInv
<1> QED BY <1>1, LandInvAlways, PTL

-----------------------------------------------------------------------------
(* A chat_turn job has one worker at a time, and the provider is called at *)
(* most once per attempt: for any number of workers, crashes, timeouts,    *)
(* cancellations and retries.                                              *)

Busy(w) == worker[w].pc \notin {"idle", "marking"}

(* Every attempt was granted by the limit, which only a retry raises; and  *)
(* an attempt that has not called the provider yet has a call left.        *)
BudgetInv ==
    /\ \A t \in Turns : /\ calls[t] <= jobs[t].attempts
                        /\ jobs[t].attempts <= jobs[t].limit
                        /\ jobs[t].limit <= MaxAttempts + retried[t]
    /\ \A w \in Workers : worker[w].pc = "starting"
                              => calls[worker[w].turn] < jobs[worker[w].turn].attempts

CallInv == SingleHolder /\ BudgetInv

(* Numbers and jobs as the leaves below need them.                         *)
LEMMA JobNumbers ==
    ASSUME TurnTypes
    PROVE  /\ \A t \in Turns : /\ jobs[t] \in Job
                               /\ jobs[t].attempts \in Nat /\ jobs[t].limit \in Nat
                               /\ calls[t] \in Nat /\ retried[t] \in Nat
           /\ MaxAttempts \in Nat
           /\ \A w \in Workers : worker[w].pc # "idle" => worker[w].turn \in Turns
BY AgentTurnsAssumption DEF TurnTypes, TypeOK, WorkerFrame, Job

(* A step after which every worker that is busy was busy with the same job *)
(* before, and every running job still runs, leaves one worker per job.    *)
LEMMA HoldersKept ==
    ASSUME SingleHolder,
           \A w \in Workers : Busy(w)' => Busy(w) /\ worker'[w].turn = worker[w].turn,
           \A w \in Workers : Busy(w)' => jobs'[worker[w].turn].status = jobs[worker[w].turn].status
    PROVE  SingleHolder'
BY DEF SingleHolder, Busy

(* A step that changes no counter and starts nobody keeps the budget.      *)
LEMMA BudgetKept ==
    ASSUME BudgetInv, UNCHANGED <<calls, retried>>,
           \A t \in Turns : /\ jobs'[t].attempts = jobs[t].attempts
                            /\ jobs'[t].limit = jobs[t].limit,
           \A w \in Workers : worker'[w].pc = "starting" =>
               worker[w].pc = "starting" /\ worker'[w].turn = worker[w].turn
               /\ worker[w].turn \in Turns
    PROVE  BudgetInv'
BY DEF BudgetInv

LEMMA CallInvInit == Init => CallInv
<1> SUFFICES ASSUME Init PROVE CallInv
    OBVIOUS
<1>1. \A t \in Turns : /\ calls[t] = 0 /\ retried[t] = 0
                       /\ jobs[t].attempts = 0 /\ jobs[t].limit = MaxAttempts
    BY DEF Init, AbsentJob
<1>2. \A w \in Workers : worker[w].pc = "idle"
    BY DEF Init, IdleWorker
<1>3. MaxAttempts \in Nat
    BY AgentTurnsAssumption
<1>4. BudgetInv
    BY <1>1, <1>2, <1>3 DEF BudgetInv
<1>5. SingleHolder
    BY <1>2 DEF SingleHolder
<1> QED BY <1>4, <1>5 DEF CallInv

LEMMA CallInvStep == TurnTypes /\ TurnTypes' /\ CallInv /\ [Next]_vars => CallInv'
<1> SUFFICES ASSUME TurnTypes, TurnTypes', CallInv, [Next]_vars
             PROVE  CallInv'
    OBVIOUS
<1> USE DEF session, article, history
<1>0. /\ worker \in [Workers -> WorkerState]
      /\ jobs \in [Turns -> Job]
      /\ calls \in [Turns -> Nat]
      /\ SingleHolder /\ BudgetInv
    BY DEF TurnTypes, TypeOK, CallInv
<1>a. ASSUME UNCHANGED <<jobs, calls, retried>>,
             \A w \in Workers : /\ Busy(w)' => Busy(w) /\ worker'[w].turn = worker[w].turn
                                /\ worker'[w].pc = "starting" => worker[w].pc = "starting"
      PROVE  CallInv'
    <2>1. SingleHolder'
        BY <1>0, <1>a, HoldersKept
    <2>2. \A w \in Workers : worker'[w].pc = "starting" =>
             worker[w].pc = "starting" /\ worker'[w].turn = worker[w].turn /\ worker[w].turn \in Turns
        BY <1>a, JobNumbers DEF Busy
    <2>3. BudgetInv'
        BY <1>0, <1>a, <2>2, BudgetKept
    <2> QED BY <2>1, <2>3 DEF CallInv
<1>b. ASSUME UNCHANGED <<worker, jobs, calls, retried>>
      PROVE  CallInv'
    BY <1>a, <1>b DEF Busy
<1>c. ASSUME NEW w \in Workers, NEW pc \in WorkerSteps \ {"starting"}, Step(w, pc), Busy(w),
             UNCHANGED <<jobs, calls, retried>>
      PROVE  CallInv'
    <2>1. \A v \in Workers : /\ Busy(v)' => Busy(v) /\ worker'[v].turn = worker[v].turn
                             /\ worker'[v].pc = "starting" => worker[v].pc = "starting"
        BY <1>0, <1>c DEF Busy, Step, WorkerState
    <2> QED BY <1>a, <1>c, <2>1
<1>d. WorkerSteps \ {"starting"} =
        {"idle", "linking", "marking", "announcing", "reading", "streaming", "asking", "patching",
         "answering", "finishing", "checking", "idling", "erred", "failing",
         "returning", "settling"}
    BY DEF WorkerSteps, Streaming, Reporting
<1>1. ASSUME NEW w \in Workers, NEW t \in Turns, ClaimTurn(w, t)
      PROVE  CallInv'
    <2>1. \A v \in Workers : v # w => worker'[v] = worker[v]
        BY <1>0, <1>1 DEF ClaimTurn
    <2>2. worker'[w].pc = "starting" /\ worker'[w].turn = t
        BY <1>0, <1>1 DEF ClaimTurn, IdleWorker
    <2>3. /\ jobs'[t].status = "running"
          /\ jobs'[t].attempts = jobs[t].attempts + 1
          /\ jobs'[t].limit = jobs[t].limit
          /\ \A s \in Turns : s # t => jobs'[s] = jobs[s]
        BY <1>0, <1>1, JobNumbers DEF ClaimTurn, Job
    <2>4. jobs[t].status = "queued" /\ jobs[t].attempts < jobs[t].limit
          /\ UNCHANGED <<calls, retried>>
        BY <1>1 DEF ClaimTurn
    <2>5. \A v \in Workers : Busy(v) => worker[v].turn # t
        BY <1>0, <2>4 DEF SingleHolder, Busy
    <2>6. SingleHolder'
        <3>1. \A v \in Workers : v # w /\ Busy(v)' =>
                  Busy(v) /\ worker'[v].turn = worker[v].turn /\ worker'[v].turn # t
            BY <2>1, <2>5 DEF Busy
        <3>2. \A v \in Workers : Busy(v)' => jobs'[worker'[v].turn].status = "running"
            <4>1. \A v \in Workers : Busy(v) => worker[v].turn \in Turns
                BY JobNumbers DEF Busy
            <4> QED BY <1>0, <2>2, <2>3, <3>1, <4>1 DEF SingleHolder, Busy
        <3>3. \A u, v \in Workers : Busy(u)' /\ Busy(v)' /\ worker'[u].turn = worker'[v].turn => u = v
            BY <1>0, <2>2, <3>1 DEF SingleHolder, Busy
        <3> QED BY <3>2, <3>3 DEF SingleHolder, Busy
    <2>7. BudgetInv'
        <3>1. \A s \in Turns : /\ calls'[s] <= jobs'[s].attempts
                               /\ jobs'[s].attempts <= jobs'[s].limit
                               /\ jobs'[s].limit <= MaxAttempts + retried'[s]
            <4>1. ASSUME NEW s \in Turns, s # t
                  PROVE  /\ calls'[s] <= jobs'[s].attempts
                         /\ jobs'[s].attempts <= jobs'[s].limit
                         /\ jobs'[s].limit <= MaxAttempts + retried'[s]
                BY <1>0, <2>3, <2>4, <4>1 DEF BudgetInv
            <4>2. /\ calls'[t] <= jobs'[t].attempts
                  /\ jobs'[t].attempts <= jobs'[t].limit
                  /\ jobs'[t].limit <= MaxAttempts + retried'[t]
                BY <1>0, <2>3, <2>4, JobNumbers DEF BudgetInv
            <4> QED BY <4>1, <4>2
        <3>2. ASSUME NEW v \in Workers, worker'[v].pc = "starting"
              PROVE  calls'[worker'[v].turn] < jobs'[worker'[v].turn].attempts
            <4>1. CASE v = w
                BY <1>0, <2>2, <2>3, <2>4, <4>1, JobNumbers DEF BudgetInv
            <4>2. CASE v # w
                <5>1. worker'[v] = worker[v] /\ worker[v].turn # t /\ worker[v].turn \in Turns
                    BY <2>1, <2>5, <3>2, <4>2, JobNumbers DEF Busy
                <5> QED BY <1>0, <2>3, <2>4, <3>2, <5>1 DEF BudgetInv
            <4> QED BY <4>1, <4>2
        <3> QED BY <3>1, <3>2 DEF BudgetInv
    <2> QED BY <2>6, <2>7 DEF CallInv
<1>2. ASSUME NEW w \in Workers, StreamChat(w)
      PROVE  CallInv'
    <2> DEFINE t == worker[w].turn
    <2>1. Busy(w) /\ worker[w].pc = "starting" /\ t \in Turns
        BY <1>2, JobNumbers DEF StreamChat, Busy
    <2>2. PICK pc \in {"announcing", "streaming"} : Step(w, pc)
        BY <1>2 DEF StreamChat
    <2>3. /\ worker'[w].pc # "starting" /\ worker'[w].turn = t
          /\ \A v \in Workers : v # w => worker'[v] = worker[v]
        BY <1>0, <2>2 DEF Step, WorkerState
    <2>4. UNCHANGED <<jobs, retried>> /\ calls' = [calls EXCEPT ![t] = calls[t] + 1]
        BY <1>2 DEF StreamChat
    <2>5. SingleHolder'
        BY <1>0, <2>1, <2>3, <2>4, HoldersKept DEF Busy
    <2>6. \A s \in Turns : calls'[s] <= jobs'[s].attempts
        <3>1. calls'[t] = calls[t] + 1 /\ \A s \in Turns : s # t => calls'[s] = calls[s]
            BY <1>0, <2>1, <2>4
        <3>2. calls[t] + 1 <= jobs[t].attempts
            BY <1>0, <2>1, JobNumbers DEF BudgetInv
        <3> QED BY <1>0, <2>4, <3>1, <3>2 DEF BudgetInv
    <2>7. ASSUME NEW v \in Workers, worker'[v].pc = "starting"
          PROVE  calls'[worker'[v].turn] < jobs'[worker'[v].turn].attempts
        <3>1. v # w /\ worker'[v] = worker[v]
            BY <2>3, <2>7
        <3>2. Busy(v) /\ worker[v].turn \in Turns
            BY <2>7, <3>1, JobNumbers DEF Busy
        <3>3. worker[v].turn # t
            BY <1>0, <2>1, <3>1, <3>2 DEF SingleHolder, Busy
        <3>4. calls'[worker[v].turn] = calls[worker[v].turn]
            BY <1>0, <2>4, <3>2, <3>3
        <3> QED BY <1>0, <2>4, <2>7, <3>1, <3>4 DEF BudgetInv
    <2>8. BudgetInv'
        BY <1>0, <2>4, <2>6, <2>7 DEF BudgetInv
    <2> QED BY <2>5, <2>8 DEF CallInv
<1>3. ASSUME NEW w \in Workers,
             \/ RecordToolCall(w) \/ CompleteToolCall(w) \/ StreamFails(w)
             \/ CheckApproval(w) \/ RequestApproval(w) \/ StreamEnds(w) \/ AddOutput(w)
             \/ AddReply(w) \/ TurnCompleted(w) \/ CheckRunning(w) \/ WaitForInput(w)
             \/ CheckFailure(w) \/ FailSession(w)
      PROVE  CallInv'
    <2>1. Busy(w) /\ UNCHANGED <<jobs, calls, retried>>
        BY <1>3 DEF Busy, RecordToolCall, CompleteToolCall, StreamFails, CheckApproval,
           RequestApproval, StreamEnds, AddOutput, AddReply, TurnCompleted, CheckRunning,
           WaitForInput, CheckFailure, FailSession
    <2>2. \E pc \in WorkerSteps \ {"starting"} : Step(w, pc)
        BY <1>d, <1>3 DEF RecordToolCall, CompleteToolCall, StreamFails, CheckApproval,
           RequestApproval, StreamEnds, AddOutput, AddReply, TurnCompleted, CheckRunning,
           WaitForInput, CheckFailure, FailSession
    <2> QED BY <1>c, <2>1, <2>2
<1>4. ASSUME NEW w \in Workers, AddPatch(w) \/ TurnReturns(w)
      PROVE  CallInv'
    <2>1. /\ \A v \in Workers : v # w => worker'[v] = worker[v]
          /\ worker'[w].pc \in {"linking", "settling"} /\ worker'[w].turn = worker[w].turn
          /\ Busy(w)
        BY <1>0, <1>4 DEF AddPatch, TurnReturns, WorkerState, Busy
    <2>2. UNCHANGED <<jobs, calls, retried>>
        BY <1>4 DEF AddPatch, TurnReturns
    <2> QED BY <1>a, <2>1, <2>2 DEF Busy
<1>5. ASSUME NEW w \in Workers, SettleJob(w)
      PROVE  CallInv'
    <2> DEFINE t == worker[w].turn
    <2>1. Busy(w) /\ t \in Turns /\ UNCHANGED <<calls, retried>>
        BY <1>5, JobNumbers DEF SettleJob, Busy
    <2>2. /\ \A v \in Workers : v # w => worker'[v] = worker[v]
          /\ worker'[w].pc \in {"marking", "idle"}
        BY <1>0, <1>5 DEF SettleJob, IdleWorker, WorkerState
    <2>3. /\ jobs'[t].attempts = jobs[t].attempts /\ jobs'[t].limit = jobs[t].limit
          /\ \A s \in Turns : s # t => jobs'[s] = jobs[s]
        BY <1>0, <1>5, <2>1, JobNumbers DEF SettleJob, Job
    <2>4. \A v \in Workers : Busy(v)' => v # w /\ Busy(v) /\ worker'[v].turn = worker[v].turn
        BY <2>2 DEF Busy
    <2>5. \A v \in Workers : Busy(v)' => jobs'[worker[v].turn].status = jobs[worker[v].turn].status
        <3>1. \A v \in Workers : Busy(v)' => worker[v].turn # t /\ worker[v].turn \in Turns
            BY <1>0, <2>1, <2>4, JobNumbers DEF SingleHolder, Busy
        <3> QED BY <2>3, <3>1
    <2>6. SingleHolder'
        BY <1>0, <2>4, <2>5, HoldersKept
    <2>7. \A v \in Workers : worker'[v].pc = "starting" =>
             worker[v].pc = "starting" /\ worker'[v].turn = worker[v].turn /\ worker[v].turn \in Turns
        BY <2>2, JobNumbers
    <2>8. BudgetInv'
        BY <1>0, <2>1, <2>3, <2>7, BudgetKept
    <2> QED BY <2>6, <2>8 DEF CallInv
<1>6. ASSUME NEW w \in Workers, MarkSessionTerminal(w) \/ WorkerCrashes(w)
      PROVE  CallInv'
    <2>1. /\ \A v \in Workers : v # w => worker'[v] = worker[v]
          /\ worker'[w].pc = "idle"
        BY <1>0, <1>6 DEF MarkSessionTerminal, WorkerCrashes, IdleWorker
    <2>2. UNCHANGED <<jobs, calls, retried>>
        BY <1>6 DEF MarkSessionTerminal, WorkerCrashes
    <2> QED BY <1>a, <2>1, <2>2 DEF Busy
<1>7. ASSUME NEW c \in Clients, Receive(c) \/ Proceed(c)
      PROVE  CallInv'
    <2>1. CASE CancelChat(c)
        <3>1. \A v \in Workers : worker'[v].pc = worker[v].pc /\ worker'[v].turn = worker[v].turn
            BY <1>0, <2>1 DEF CancelChat, WorkerState
        <3>2. UNCHANGED <<jobs, calls, retried>>
            BY <2>1 DEF CancelChat
        <3> QED BY <1>a, <3>1, <3>2 DEF Busy
    <2>2. CASE CreateJob(c)
        <3>1. PICK t \in Turns :
                /\ jobs[t].status = "absent"
                /\ jobs' = [jobs EXCEPT ![t].status = "queued", ![t].base = client[c].base]
            BY <2>2 DEF CreateJob
        <3>2. /\ jobs'[t].attempts = jobs[t].attempts /\ jobs'[t].limit = jobs[t].limit
              /\ \A s \in Turns : s # t => jobs'[s] = jobs[s]
            BY <1>0, <3>1, JobNumbers DEF Job
        <3>3. UNCHANGED <<worker, calls, retried>>
            BY <2>2 DEF CreateJob
        <3>4. \A v \in Workers : Busy(v) => worker[v].turn # t /\ worker[v].turn \in Turns
            BY <1>0, <3>1, JobNumbers DEF SingleHolder, Busy
        <3>5. SingleHolder'
            BY <1>0, <3>2, <3>3, <3>4, HoldersKept DEF Busy
        <3>6. BudgetInv'
            BY <1>0, <3>2, <3>3, JobNumbers, BudgetKept
        <3> QED BY <3>5, <3>6 DEF CallInv
    <2>3. CASE \/ ReadSession(c) \/ ReadUnlinkedPatch(c) \/ CheckResume(c) \/ CheckArchive(c)
               \/ ReadPatch(c) \/ SavePatch(c) \/ AcceptPatch(c) \/ PassBoundary(c)
               \/ ResumeSession(c) \/ StartTurn(c) \/ CloseSession(c)
               \/ CheckCancel(c) \/ CancelSession(c) \/ ArchiveSession(c)
        <3>1. UNCHANGED <<worker, jobs, calls, retried>>
            BY <2>3 DEF ReadSession, ReadUnlinkedPatch, CheckResume, CheckArchive, ReadPatch,
               SavePatch, AcceptPatch, PassBoundary, ResumeSession, StartTurn, CloseSession,
               CheckCancel, CancelSession, ArchiveSession, Refuse
        <3> QED BY <1>b, <3>1
    <2> QED BY <1>7, <2>1, <2>2, <2>3 DEF Receive, Proceed
<1>8. ASSUME NEW t \in Turns, RecoverJob(t) \/ CancelJob(t)
      PROVE  CallInv'
    <2>1. /\ jobs'[t].attempts = jobs[t].attempts /\ jobs'[t].limit = jobs[t].limit
          /\ \A s \in Turns : s # t => jobs'[s] = jobs[s]
          /\ UNCHANGED <<worker, calls, retried>>
        BY <1>0, <1>8, JobNumbers DEF RecoverJob, CancelJob, Job
    <2>2. \A v \in Workers : Busy(v) => worker[v].turn \in Turns /\ jobs[worker[v].turn].status = "running"
        BY <1>0, JobNumbers DEF SingleHolder, Busy
    <2>3. \A v \in Workers : Busy(v) => jobs'[worker[v].turn].status = jobs[worker[v].turn].status
        <3>1. CASE RecoverJob(t)
            <4>1. \A v \in Workers : Busy(v) => worker[v].turn # t
                BY <3>1 DEF RecoverJob, Held, Busy
            <4> QED BY <2>1, <2>2, <4>1
        <3>2. CASE CancelJob(t)
            <4>1. jobs[t].status # "queued" => jobs'[t].status = jobs[t].status
                BY <1>0, <3>2, JobNumbers DEF CancelJob, Job
            <4> QED BY <2>1, <2>2, <4>1
        <3> QED BY <1>8, <3>1, <3>2
    <2>4. SingleHolder'
        BY <1>0, <2>1, <2>3, HoldersKept DEF Busy
    <2>5. BudgetInv'
        BY <1>0, <2>1, JobNumbers, BudgetKept
    <2> QED BY <2>4, <2>5 DEF CallInv
<1>9. ASSUME NEW t \in Turns, RetryJob(t)
      PROVE  CallInv'
    <2> DEFINE room == IF jobs[t].attempts >= jobs[t].limit
                       THEN jobs[t].attempts + 1 ELSE jobs[t].limit
    <2>1. /\ jobs[t].status \in {"failed", "canceled"}
          /\ jobs' = [jobs EXCEPT ![t] = [jobs[t] EXCEPT !.status = "queued", !.cancel = FALSE,
                                                         !.limit = room]]
          /\ UNCHANGED <<worker, calls>>
        BY <1>0, <1>9 DEF RetryJob
    <2>2. retried'[t] = retried[t] + 1 /\ \A s \in Turns : s # t => retried'[s] = retried[s]
        BY <1>9 DEF RetryJob, TurnTypes, TypeOK
    <2>3. /\ jobs[t].attempts <= room
          /\ room <= MaxAttempts + (retried[t] + 1)
        BY <1>0, JobNumbers DEF BudgetInv
    <2> HIDE DEF room
    <2>4. /\ jobs'[t].attempts = jobs[t].attempts /\ jobs'[t].limit = room
          /\ \A s \in Turns : s # t => jobs'[s] = jobs[s]
        BY <1>0, <2>1, JobNumbers DEF Job
    <2>5. \A v \in Workers : Busy(v) => worker[v].turn # t /\ worker[v].turn \in Turns
        BY <1>0, <2>1, JobNumbers DEF SingleHolder, Busy
    <2>6. SingleHolder'
        BY <1>0, <2>1, <2>4, <2>5, HoldersKept DEF Busy
    <2>7. \A s \in Turns : /\ calls'[s] <= jobs'[s].attempts
                           /\ jobs'[s].attempts <= jobs'[s].limit
                           /\ jobs'[s].limit <= MaxAttempts + retried'[s]
        <3>1. ASSUME NEW s \in Turns, s # t
              PROVE  /\ calls'[s] <= jobs'[s].attempts
                     /\ jobs'[s].attempts <= jobs'[s].limit
                     /\ jobs'[s].limit <= MaxAttempts + retried'[s]
            BY <1>0, <2>1, <2>2, <2>4, <3>1 DEF BudgetInv
        <3>2. /\ calls'[t] <= jobs'[t].attempts
              /\ jobs'[t].attempts <= jobs'[t].limit
              /\ jobs'[t].limit <= MaxAttempts + retried'[t]
            BY <1>0, <2>1, <2>2, <2>3, <2>4 DEF BudgetInv
        <3> QED BY <3>1, <3>2
    <2>8. \A w \in Workers : worker'[w].pc = "starting"
                              => calls'[worker'[w].turn] < jobs'[worker'[w].turn].attempts
        BY <1>0, <2>1, <2>4, <2>5 DEF BudgetInv, Busy
    <2>9. BudgetInv'
        BY <2>7, <2>8 DEF BudgetInv
    <2> QED BY <2>6, <2>9 DEF CallInv
<1>10. CASE \/ \E p \in DOMAIN patches : RejectPatch(p)
            \/ EditorSaves \/ ResolveApproval \/ RestartApi \/ UNCHANGED vars
    <2>1. UNCHANGED <<worker, jobs, calls, retried>>
        BY <1>10 DEF RejectPatch, EditorSaves, ResolveApproval, RestartApi, vars
    <2> QED BY <1>b, <2>1
<1> QED BY <1>1, <1>2, <1>3, <1>4, <1>5, <1>6, <1>7, <1>8, <1>9, <1>10 DEF Next, RunTurn

LEMMA CallInvAlways == Spec => []CallInv
<1>1. Init => CallInv
    BY CallInvInit
<1>2. TurnTypes /\ TurnTypes' /\ CallInv /\ [Next]_vars => CallInv'
    BY CallInvStep
<1> QED BY <1>1, <1>2, TypesAlways, PTL DEF Spec

(* A running chat_turn has at most one worker, and a worker in a turn holds *)
(* its job (claim_job, _recover_orphans_in_transaction).                   *)
THEOREM OneWorkerPerTurn == Spec => []SingleHolder
<1>1. CallInv => SingleHolder
    BY DEF CallInv
<1> QED BY <1>1, CallInvAlways, PTL

(* The provider is called at most once per attempt, and there are at most  *)
(* max_attempts attempts and one more per explicit retry (run_turn).       *)
THEOREM CallsAreBudgeted == Spec => []CallBudget
<1>1. TurnTypes /\ CallInv => CallBudget
    BY JobNumbers DEF CallInv, BudgetInv, CallBudget
<1> QED BY <1>1, TypesAlways, CallInvAlways, PTL

-----------------------------------------------------------------------------
(* Requests that do not meet half-way, at any moment of a turn but its     *)
(* last, and a provider that answers: turns do not overlap, because the    *)
(* request that comes while one is open is refused, and a refusal over a   *)
(* queued edit is the editor's own doing.                                  *)

OrderlyUse ==
    /\ Spaced /\ ~Codex
    /\ Operations \subseteq {"turn", "close", "accept", "resume", "archive", "edit", "reject"}

(* A turn is under way from its queued job to the moment the session rests. *)
Early == {"starting", "streaming", "patching"}
InTurn == Early \cup {"linking", "answering", "finishing"}
Resting == {"checking", "idling"}
Waiting(t) == jobs[t].status = "queued"
UnderWay(w) == worker[w].pc \in InTurn \cup Resting
Occupied == (\E t \in Turns : Waiting(t)) \/ (\E w \in Workers : UnderWay(w))

(* What such an editor never meets: failures, cancellations, approvals.    *)
Undisturbed ==
    /\ status \in {"running", "waiting_for_input", "completed"}
    /\ approvals.pending = 0
    /\ \A t \in Turns : /\ jobs[t].status \in {"absent", "queued", "running", "completed"}
                        /\ ~jobs[t].cancel
    /\ \A w \in Workers :
          /\ worker[w].pc \in InTurn \cup Resting \cup {"idle", "returning", "settling"}
          /\ ~worker[w].killed
          /\ worker[w].pc = "settling" => worker[w].verdict = "completed"

(* A request that can change the session.                                  *)
Acting(c) == client[c].pc # "idle" /\ client[c].kind # "accept"

(* A turn under way keeps the session running, and requests out: its event *)
(* is open from the moment it is announced until it has completed.         *)
TurnOrder ==
    /\ \A s, t \in Turns : Waiting(s) /\ Waiting(t) => s = t
    /\ \A v, w \in Workers : UnderWay(v) /\ UnderWay(w) => v = w
    /\ \A t \in Turns, w \in Workers : ~(Waiting(t) /\ UnderWay(w))
    /\ \A t \in Turns : jobs[t].status = "running" =>
          \E w \in Workers : worker[w].turn = t /\ worker[w].pc # "idle"
    /\ Occupied => status = "running"
    /\ \A b, c \in Clients : Acting(b) /\ Acting(c) => b = c
    /\ \A c \in Clients :
          /\ Acting(c) => ~Occupied
          /\ client[c].kind = "accept" => client[c].pc \in {"saving", "accepting"}
          /\ client[c].pc \notin {"cancel_read", "canceling"}
          /\ client[c].pc \in {"starting", "queueing"} => status = "running"
          /\ client[c].kind = "turn" /\ client[c].pc \in {"patch", "saving", "accepting", "boundary"}
                => client[c].seen = status
    /\ turnOpen <=> \/ \E c \in Clients : client[c].pc = "queueing"
                    \/ \E t \in Turns : Waiting(t)
                    \/ \E w \in Workers : worker[w].pc \in InTurn

OrderInv == Undisturbed /\ TurnOrder

-----------------------------------------------------------------------------
(* What a step of a worker or of the client does to its fields.            *)

LEMMA WorkerStep ==
    ASSUME TypeOK, NEW w \in Workers, NEW pc \in WorkerSteps, Step(w, pc)
    PROVE  /\ \A v \in Workers : v # w => worker'[v] = worker[v]
           /\ worker'[w].pc = pc /\ worker'[w].turn = worker[w].turn
           /\ worker'[w].patch = worker[w].patch
           /\ worker'[w].killed = worker[w].killed
           /\ worker'[w].verdict = worker[w].verdict
BY DEF TypeOK, Step, WorkerState

LEMMA RequestStep ==
    ASSUME TypeOK, NEW c \in Clients, NEW pc \in ClientSteps, Request(c, pc)
    PROVE  /\ client'[c].pc = pc /\ client'[c].kind = client[c].kind
           /\ client'[c].seen = client[c].seen
           /\ client'[c].base = client[c].base /\ client'[c].patch = client[c].patch
BY DEF TypeOK, Request, ClientState

LEMMA RespondStep ==
    ASSUME TypeOK, NEW c \in Clients, Respond(c)
    PROVE  client'[c].pc = "idle" /\ client'[c].kind = "none"
BY DEF TypeOK, Respond, IdleClient

LEMMA ArriveStep ==
    ASSUME TypeOK, NEW c \in Clients, NEW kind, NEW pc, Arrive(c, kind, pc)
    PROVE  /\ client[c].pc = "idle"
           /\ client'[c].pc = pc /\ client'[c].kind = kind
           /\ client'[c].seen = status /\ client'[c].base = Current
BY DEF TypeOK, Arrive, IdleClient

(* What the occupants of a session are, as an assumption of the leaves.    *)
LEMMA TheOccupant ==
    ASSUME TurnOrder, NEW w \in Workers, UnderWay(w)
    PROVE  /\ Occupied /\ status = "running"
           /\ \A t \in Turns : ~Waiting(t)
           /\ \A v \in Workers : UnderWay(v) => v = w
           /\ \A c \in Clients : ~Acting(c)
BY DEF TurnOrder, Occupied

(* A worker that goes on in its turn, completes it, or leaves the session  *)
(* to rest.                                                                *)
LEMMA TurnGoesOn ==
    ASSUME TurnOrder, NEW w \in Workers,
           \A v \in Workers : v # w => worker'[v] = worker[v],
           worker'[w].turn = worker[w].turn,
           worker[w].pc # "idle", worker'[w].pc # "idle",
           jobs' = jobs, client' = client,
           UnderWay(w)' => UnderWay(w),
           worker'[w].pc \in InTurn => worker[w].pc \in InTurn,
           turnOpen' = IF worker[w].pc \in InTurn /\ worker'[w].pc \notin InTurn
                       THEN FALSE ELSE turnOpen,
           status' = status \/ (UnderWay(w) /\ ~UnderWay(w)')
    PROVE  TurnOrder'
<1>1. \A v \in Workers : UnderWay(v)' => UnderWay(v)
    BY DEF UnderWay
<1>2. \A t \in Turns : Waiting(t)' <=> Waiting(t)
    BY DEF Waiting
<1>3. Occupied' => Occupied
    BY <1>1, <1>2 DEF Occupied
<1>4. UnderWay(w) => \A c \in Clients : ~Acting(c)
    BY TheOccupant
<1>5. Occupied' => status' = "running"
    <2>1. CASE status' = status
        BY <1>3, <2>1 DEF TurnOrder
    <2>2. CASE UnderWay(w) /\ ~UnderWay(w)'
        <3>1. \A v \in Workers : UnderWay(v)' => v = w
            BY <1>1, <2>2, TheOccupant
        <3>2. \A t \in Turns : ~Waiting(t)'
            BY <1>2, <2>2, TheOccupant
        <3> QED BY <2>2, <3>1, <3>2 DEF Occupied
    <2> QED BY <2>1, <2>2
<1>6. ASSUME NEW c \in Clients
      PROVE  /\ Acting(c)' => ~Occupied'
             /\ client'[c].kind = "accept" => client'[c].pc \in {"saving", "accepting"}
             /\ client'[c].pc \notin {"cancel_read", "canceling"}
             /\ client'[c].pc \in {"starting", "queueing"} => status' = "running"
             /\ client'[c].kind = "turn"
                /\ client'[c].pc \in {"patch", "saving", "accepting", "boundary"}
                => client'[c].seen = status'
    <2>1. /\ Acting(c) => ~Occupied
          /\ client[c].kind = "accept" => client[c].pc \in {"saving", "accepting"}
          /\ client[c].pc \notin {"cancel_read", "canceling"}
          /\ client[c].pc \in {"starting", "queueing"} => status = "running"
          /\ client[c].kind = "turn"
             /\ client[c].pc \in {"patch", "saving", "accepting", "boundary"}
             => client[c].seen = status
        BY DEF TurnOrder
    <2> QED BY <1>3, <1>4, <2>1 DEF Acting
<1>7. \A t \in Turns : jobs'[t].status = "running" =>
          \E v \in Workers : worker'[v].turn = t /\ worker'[v].pc # "idle"
    BY DEF TurnOrder
<1>8. turnOpen' <=> \/ \E c \in Clients : client'[c].pc = "queueing"
                    \/ \E t \in Turns : Waiting(t)'
                    \/ \E v \in Workers : worker'[v].pc \in InTurn
    <2>1. CASE worker[w].pc \in InTurn /\ worker'[w].pc \notin InTurn
        <3>1. UnderWay(w)
            BY <2>1 DEF UnderWay
        <3>2. /\ \A t \in Turns : ~Waiting(t)
              /\ \A v \in Workers : UnderWay(v) => v = w
              /\ \A c \in Clients : client[c].pc # "queueing"
            BY <3>1, TheOccupant DEF TurnOrder, Acting
        <3>3. \A v \in Workers : worker'[v].pc \notin InTurn
            BY <2>1, <3>2 DEF UnderWay
        <3> QED BY <1>2, <2>1, <3>2, <3>3
    <2>2. CASE ~(worker[w].pc \in InTurn /\ worker'[w].pc \notin InTurn)
        <3>1. \A v \in Workers : worker'[v].pc \in InTurn <=> worker[v].pc \in InTurn
            BY <2>2
        <3> QED BY <1>2, <2>2, <3>1 DEF TurnOrder
    <2> QED BY <2>1, <2>2
<1>9. /\ \A s, t \in Turns : Waiting(s)' /\ Waiting(t)' => s = t
      /\ \A u, v \in Workers : UnderWay(u)' /\ UnderWay(v)' => u = v
      /\ \A t \in Turns, v \in Workers : ~(Waiting(t)' /\ UnderWay(v)')
    BY <1>1, <1>2 DEF TurnOrder
<1>10. \A b, c \in Clients : Acting(b)' /\ Acting(c)' => b = c
    BY DEF TurnOrder, Acting
<1> QED BY <1>5, <1>6, <1>7, <1>8, <1>9, <1>10 DEF TurnOrder

(* The steps of a turn that an orderly session can take.                   *)
LEMMA OrderlySteps ==
    ASSUME OrderlyUse, Undisturbed, NEW w \in Workers, RunTurn(w)
    PROVE  \/ StreamChat(w) \/ StreamEnds(w) \/ AddPatch(w) \/ AddOutput(w) \/ AddReply(w)
           \/ TurnCompleted(w) \/ CheckRunning(w) \/ WaitForInput(w) \/ TurnReturns(w)
           \/ SettleJob(w)
<1>1. ~worker[w].killed /\ worker[w].pc \in InTurn \cup Resting \cup {"idle", "returning", "settling"}
    BY DEF Undisturbed
<1>2. worker[w].pc \notin {"announcing", "reading", "asking", "erred", "failing", "marking"}
    BY <1>1 DEF InTurn, Early, Resting
<1>3. /\ ~RecordToolCall(w) /\ ~CompleteToolCall(w) /\ ~RequestApproval(w)
      /\ ~CheckFailure(w) /\ ~FailSession(w) /\ ~MarkSessionTerminal(w)
    BY <1>2 DEF RecordToolCall, CompleteToolCall, RequestApproval, CheckFailure, FailSession,
       MarkSessionTerminal
<1>4. ~StreamFails(w) /\ ~CheckApproval(w)
    BY <1>1 DEF OrderlyUse, StreamFails, CheckApproval
<1> QED BY <1>3, <1>4 DEF RunTurn

(* A worker that has taken a step of its own, and nothing else, is as      *)
(* undisturbed as before.                                                  *)
LEMMA StaysUndisturbed ==
    ASSUME Undisturbed, NEW w \in Workers,
           \A v \in Workers : v # w => worker'[v] = worker[v],
           worker'[w].pc \in InTurn \cup Resting \cup {"idle", "returning"},
           worker'[w].killed = worker[w].killed,
           status' \in {"running", "waiting_for_input", "completed"},
           approvals' = approvals, jobs' = jobs
    PROVE  Undisturbed'
BY DEF Undisturbed, InTurn, Early, Resting

LEMMA RunTurnOrder ==
    ASSUME OrderlyUse, TurnTypes, CallInv, OrderInv, NEW w \in Workers, RunTurn(w)
    PROVE  OrderInv'
<1> USE DEF session, article, history
<1>0. Undisturbed /\ TurnOrder /\ TypeOK /\ SingleHolder /\ ~Codex
    BY DEF OrderInv, TurnTypes, CallInv, OrderlyUse
<1>1. CASE \/ StreamChat(w) \/ StreamEnds(w) \/ AddPatch(w) \/ AddOutput(w) \/ AddReply(w)
           \/ TurnCompleted(w) \/ CheckRunning(w) \/ WaitForInput(w)
    <2>1. \A v \in Workers : v # w => worker'[v] = worker[v]
        BY <1>0, <1>1 DEF StreamChat, StreamEnds, AddPatch, AddOutput, AddReply, TurnCompleted,
           CheckRunning, WaitForInput, Step, TypeOK
    <2>2. worker'[w].turn = worker[w].turn /\ worker'[w].killed = worker[w].killed
        BY <1>0, <1>1 DEF StreamChat, StreamEnds, AddPatch, AddOutput, AddReply, TurnCompleted,
           CheckRunning, WaitForInput, Step, TypeOK, WorkerState
    <2>3. /\ jobs' = jobs /\ client' = client /\ approvals' = approvals
          /\ status' = status \/ (WaitForInput(w) /\ status' = "waiting_for_input")
          /\ TurnCompleted(w) => turnOpen' = FALSE
          /\ ~TurnCompleted(w) => turnOpen' = turnOpen
        BY <1>1 DEF StreamChat, StreamEnds, AddPatch, AddOutput, AddReply, TurnCompleted,
           CheckRunning, WaitForInput
    <2>4. \/ worker[w].pc \in InTurn /\ worker'[w].pc \in InTurn
          \/ TurnCompleted(w) /\ worker[w].pc \in InTurn /\ worker'[w].pc = "checking"
          \/ worker[w].pc = "checking" /\ worker'[w].pc \in {"idling", "returning"}
          \/ WaitForInput(w) /\ worker[w].pc = "idling" /\ worker'[w].pc = "returning"
        <3>1. CASE StreamChat(w) \/ StreamEnds(w) \/ AddPatch(w) \/ AddOutput(w) \/ AddReply(w)
            <4>1. worker[w].pc \in InTurn
                BY <3>1 DEF StreamChat, StreamEnds, AddPatch, AddOutput, AddReply, InTurn, Early
            <4>2. worker'[w].pc \in {"streaming", "patching", "answering", "finishing", "linking"}
                BY <1>0, <3>1 DEF StreamChat, StreamEnds, AddPatch, AddOutput, AddReply, Step,
                   TypeOK, WorkerState
            <4> QED BY <4>1, <4>2 DEF InTurn, Early
        <3>2. CASE TurnCompleted(w)
            BY <1>0, <3>2 DEF TurnCompleted, Step, TypeOK, WorkerState, InTurn
        <3>3. CASE CheckRunning(w)
            BY <1>0, <3>3 DEF CheckRunning, Step, TypeOK, WorkerState
        <3>4. CASE WaitForInput(w)
            BY <1>0, <3>4 DEF WaitForInput, Step, TypeOK, WorkerState
        <3> QED BY <1>1, <3>1, <3>2, <3>3, <3>4
    <2>5. /\ worker[w].pc # "idle" /\ worker'[w].pc # "idle"
          /\ UnderWay(w)
          /\ UnderWay(w)' <=> worker'[w].pc # "returning"
          /\ worker'[w].pc \in InTurn \cup Resting \cup {"idle", "returning"}
          /\ worker'[w].pc \in InTurn => worker[w].pc \in InTurn
        BY <2>4 DEF UnderWay, InTurn, Early, Resting
    <2>6. turnOpen' = IF worker[w].pc \in InTurn /\ worker'[w].pc \notin InTurn
                      THEN FALSE ELSE turnOpen
        <3>1. TurnCompleted(w) <=> worker[w].pc \in InTurn /\ worker'[w].pc \notin InTurn
            BY <1>0, <2>4 DEF InTurn, Early, TurnCompleted, Step, TypeOK, WorkerState
        <3> QED BY <2>3, <3>1
    <2>7. status' = status \/ (UnderWay(w) /\ ~UnderWay(w)')
        <3>1. WaitForInput(w) => worker'[w].pc = "returning"
            BY <1>0 DEF WaitForInput, Step, TypeOK, WorkerState
        <3> QED BY <2>3, <2>5, <3>1
    <2>8. TurnOrder'
        BY <1>0, <2>1, <2>2, <2>3, <2>5, <2>6, <2>7, TurnGoesOn
    <2>9. status' \in {"running", "waiting_for_input", "completed"}
        BY <1>0, <2>3 DEF Undisturbed
    <2>10. Undisturbed'
        BY <1>0, <2>1, <2>2, <2>3, <2>5, <2>9, StaysUndisturbed
    <2> QED BY <2>8, <2>10 DEF OrderInv
<1>2. CASE TurnReturns(w)
    <2>1. worker[w].pc = "returning" /\ worker[w].turn \in Turns
        BY <1>2, JobNumbers DEF TurnReturns
    <2>2. TurnVerdict(worker[w].turn) = {"completed"}
        BY <1>0, <2>1 DEF TurnVerdict, Undisturbed, OrderlyUse
    <2>3. worker' = [worker EXCEPT ![w].pc = "settling", ![w].verdict = "completed"]
        BY <1>2, <2>2 DEF TurnReturns
    <2>4. /\ \A v \in Workers : v # w => worker'[v] = worker[v]
          /\ worker'[w].pc = "settling" /\ worker'[w].verdict = "completed"
          /\ worker'[w].turn = worker[w].turn /\ worker'[w].killed = worker[w].killed
        BY <1>0, <2>3 DEF TypeOK, WorkerState
    <2>5. /\ jobs' = jobs /\ client' = client /\ approvals' = approvals
          /\ status' = status /\ turnOpen' = turnOpen
        BY <1>2 DEF TurnReturns
    <2>6. worker[w].pc \notin InTurn /\ worker'[w].pc \notin InTurn /\ ~UnderWay(w)'
        BY <2>1, <2>4 DEF UnderWay, InTurn, Early, Resting
    <2>7. TurnOrder'
        BY <1>0, <2>1, <2>4, <2>5, <2>6, TurnGoesOn
    <2>8. Undisturbed'
        BY <1>0, <2>4, <2>5 DEF Undisturbed
    <2> QED BY <2>7, <2>8 DEF OrderInv
<1>3. CASE SettleJob(w)
    <2> DEFINE t == worker[w].turn
    <2>1. worker[w].pc = "settling" /\ t \in Turns /\ worker[w].verdict = "completed"
        BY <1>0, <1>3, JobNumbers DEF SettleJob, Undisturbed
    <2>2. SettledStatus(jobs[t], worker[w].verdict) = "completed"
        BY <2>1 DEF SettledStatus
    <2>3. /\ jobs' = [jobs EXCEPT ![t].status = "completed"]
          /\ worker' = [worker EXCEPT ![w] = IdleWorker]
        BY <1>3, <2>2 DEF SettleJob
    <2>4. /\ \A v \in Workers : v # w => worker'[v] = worker[v]
          /\ worker'[w].pc = "idle" /\ ~worker'[w].killed
        BY <1>0, <2>3 DEF TypeOK, IdleWorker
    <2>5. /\ jobs'[t].status = "completed" /\ jobs'[t].cancel = jobs[t].cancel
          /\ \A s \in Turns : s # t => jobs'[s] = jobs[s]
        BY <1>0, <2>1, <2>3 DEF TypeOK, Job
    <2>6. /\ client' = client /\ approvals' = approvals
          /\ status' = status /\ turnOpen' = turnOpen
        BY <1>3 DEF SettleJob
    <2>7. jobs[t].status = "running"
        BY <1>0, <2>1 DEF SingleHolder
    <2>8. Undisturbed'
        BY <1>0, <2>1, <2>4, <2>5, <2>6 DEF Undisturbed
    <2>9. /\ \A s \in Turns : Waiting(s)' <=> Waiting(s)
          /\ \A v \in Workers : UnderWay(v)' <=> UnderWay(v)
          /\ \A v \in Workers : worker'[v].pc \in InTurn <=> worker[v].pc \in InTurn
        BY <2>1, <2>4, <2>5, <2>7 DEF Waiting, UnderWay, InTurn, Early, Resting
    <2>10. Occupied' <=> Occupied
        BY <2>9 DEF Occupied
    <2>11. \A s \in Turns : jobs'[s].status = "running" =>
              \E v \in Workers : worker'[v].turn = s /\ worker'[v].pc # "idle"
        <3>1. SUFFICES ASSUME NEW s \in Turns, s # t, jobs[s].status = "running"
                       PROVE  \E v \in Workers : worker'[v].turn = s /\ worker'[v].pc # "idle"
            BY <2>5
        <3>2. PICK v \in Workers : worker[v].turn = s /\ worker[v].pc # "idle"
            BY <1>0, <3>1 DEF TurnOrder
        <3>3. v # w
            BY <3>1, <3>2
        <3> QED BY <2>4, <3>2, <3>3
    <2>12. TurnOrder'
        BY <1>0, <2>6, <2>9, <2>10, <2>11 DEF TurnOrder, Acting
    <2> QED BY <2>8, <2>12 DEF OrderInv
<1> QED BY <1>0, <1>1, <1>2, <1>3, OrderlySteps

LEMMA ClaimOrder ==
    ASSUME OrderlyUse, TurnTypes, CallInv, OrderInv,
           NEW w \in Workers, NEW t \in Turns, ClaimTurn(w, t)
    PROVE  OrderInv'
<1> USE DEF session, article, history
<1>0. Undisturbed /\ TurnOrder /\ TypeOK
    BY DEF OrderInv, TurnTypes
<1>1. /\ \A v \in Workers : v # w => worker'[v] = worker[v]
      /\ worker'[w].pc = "starting" /\ worker'[w].turn = t /\ ~worker'[w].killed
      /\ worker[w].pc = "idle"
    BY <1>0 DEF ClaimTurn, TypeOK, IdleWorker
<1>2. /\ jobs[t].status = "queued"
      /\ jobs'[t].status = "running" /\ jobs'[t].cancel = jobs[t].cancel
      /\ \A s \in Turns : s # t => jobs'[s] = jobs[s]
    BY <1>0 DEF ClaimTurn, TypeOK, Job
<1>3. /\ client' = client /\ approvals' = approvals
      /\ status' = status /\ turnOpen' = turnOpen
    BY DEF ClaimTurn
<1>4. Undisturbed'
    BY <1>0, <1>1, <1>2, <1>3 DEF Undisturbed, InTurn, Early
<1>5. /\ Waiting(t) /\ Occupied
      /\ \A s \in Turns : Waiting(s) => s = t
      /\ \A v \in Workers : ~UnderWay(v)
    BY <1>0, <1>2 DEF TurnOrder, Waiting, Occupied
<1>6. /\ \A s \in Turns : ~Waiting(s)'
      /\ \A v \in Workers : UnderWay(v)' <=> v = w
      /\ worker'[w].pc \in InTurn
    BY <1>1, <1>2, <1>5 DEF Waiting, UnderWay, InTurn, Early
<1>7. \A s \in Turns : jobs'[s].status = "running" =>
          \E v \in Workers : worker'[v].turn = s /\ worker'[v].pc # "idle"
    BY <1>0, <1>1, <1>2 DEF TurnOrder
<1>8. TurnOrder'
    BY <1>0, <1>3, <1>5, <1>6, <1>7 DEF TurnOrder, Acting
<1> QED BY <1>4, <1>8 DEF OrderInv

(* A request's step is its own.                                            *)
LEMMA OwnRequest ==
    ASSUME TypeOK, NEW c \in Clients, Receive(c) \/ Proceed(c), OrderlyUse
    PROVE  \A d \in Clients : d # c => client'[d] = client[d]
<1>1. CASE Receive(c)
    <2>1. CASE ReadUnlinkedPatch(c)
        BY <2>1 DEF ReadUnlinkedPatch, TypeOK
    <2>2. CASE ReadSession(c) \/ CheckResume(c) \/ CancelChat(c) \/ CheckArchive(c)
        BY <2>2 DEF ReadSession, CheckResume, CancelChat, CheckArchive, Arrive, TypeOK
    <2> QED BY <1>1, <2>1, <2>2 DEF Receive
<1>2. CASE Proceed(c)
    BY <1>2 DEF Proceed, ReadPatch, SavePatch, AcceptPatch, PassBoundary, ResumeSession,
       StartTurn, CreateJob, CloseSession, CheckCancel, CancelSession, ArchiveSession,
       Refuse, Respond, Request, TypeOK
<1> QED BY <1>1, <1>2

(* Others than the busy request see the status and the turn as they were,  *)
(* but for the turn it starts.                                             *)
LEMMA OneRequest ==
    ASSUME TurnOrder, NEW c \in Clients,
           worker' = worker,
           \A t \in Turns : jobs'[t].status = jobs[t].status,
           \A d \in Clients : d # c => client'[d] = client[d],
           Acting(c)' => Acting(c) \/ \A d \in Clients : d # c => ~Acting(d),
           status' = status \/ Acting(c),
           client[c].pc # "queueing",
           /\ Acting(c)' => ~Occupied
           /\ client'[c].kind = "accept" => client'[c].pc \in {"saving", "accepting"}
           /\ client'[c].pc \notin {"cancel_read", "canceling"}
           /\ client'[c].pc \in {"starting", "queueing"} => status' = "running"
           /\ client'[c].kind = "turn"
              /\ client'[c].pc \in {"patch", "saving", "accepting", "boundary"}
              => client'[c].seen = status',
           Occupied => status' = "running",
           turnOpen' <=> turnOpen \/ client'[c].pc = "queueing"
    PROVE  TurnOrder'
<1>1. (\A t \in Turns : Waiting(t)' <=> Waiting(t)) /\ \A w \in Workers : UnderWay(w)' <=> UnderWay(w)
    BY DEF Waiting, UnderWay
<1>2. Occupied' <=> Occupied
    BY <1>1 DEF Occupied
<1>3. \A d \in Clients : d # c => (Acting(d)' <=> Acting(d))
    BY DEF Acting
<1>4. \A b, d \in Clients : Acting(b)' /\ Acting(d)' => b = d
    BY <1>3 DEF TurnOrder
<1>5. ASSUME NEW d \in Clients
      PROVE  /\ Acting(d)' => ~Occupied'
             /\ client'[d].kind = "accept" => client'[d].pc \in {"saving", "accepting"}
             /\ client'[d].pc \notin {"cancel_read", "canceling"}
             /\ client'[d].pc \in {"starting", "queueing"} => status' = "running"
             /\ client'[d].kind = "turn"
                /\ client'[d].pc \in {"patch", "saving", "accepting", "boundary"}
                => client'[d].seen = status'
    <2>1. CASE d = c
        BY <1>2, <2>1
    <2>2. CASE d # c /\ ~Acting(d)
        BY <1>2, <2>2 DEF TurnOrder, Acting
    <2>3. CASE d # c /\ Acting(d)
        <3>1. status' = status
            BY <2>3 DEF TurnOrder
        <3> QED BY <1>2, <2>3, <3>1 DEF TurnOrder
    <2> QED BY <2>1, <2>2, <2>3
<1>6. turnOpen' <=> \/ \E d \in Clients : client'[d].pc = "queueing"
                    \/ \E t \in Turns : Waiting(t)'
                    \/ \E w \in Workers : worker'[w].pc \in InTurn
    <2>1. (\E d \in Clients : client'[d].pc = "queueing")
          <=> (\E d \in Clients : client[d].pc = "queueing") \/ client'[c].pc = "queueing"
        OBVIOUS
    <2> QED BY <1>1, <2>1 DEF TurnOrder
<1>7. /\ \A s, t \in Turns : Waiting(s)' /\ Waiting(t)' => s = t
      /\ \A v, w \in Workers : UnderWay(v)' /\ UnderWay(w)' => v = w
      /\ \A t \in Turns, w \in Workers : ~(Waiting(t)' /\ UnderWay(w)')
      /\ \A t \in Turns : jobs'[t].status = "running" =>
            \E w \in Workers : worker'[w].turn = t /\ worker'[w].pc # "idle"
      /\ Occupied' => status' = "running"
    BY <1>1, <1>2 DEF TurnOrder
<1> QED BY <1>4, <1>5, <1>6, <1>7 DEF TurnOrder

LEMMA RequestOrder ==
    ASSUME OrderlyUse, TurnTypes, CallInv, OrderInv, NEW c \in Clients, Receive(c) \/ Proceed(c)
    PROVE  OrderInv'
<1> USE DEF session, article, history
<1>0. Undisturbed /\ TurnOrder /\ TypeOK
    BY DEF OrderInv, TurnTypes
<1>f. \A d \in Clients : d # c => client'[d] = client[d]
    BY <1>0, OwnRequest
<1>a. /\ Acting(c) => ~Occupied
      /\ client[c].kind = "accept" => client[c].pc \in {"saving", "accepting"}
      /\ client[c].pc \notin {"cancel_read", "canceling"}
      /\ client[c].pc \in {"starting", "queueing"} => status = "running"
      /\ client[c].kind = "turn" /\ client[c].pc \in {"patch", "saving", "accepting", "boundary"}
            => client[c].seen = status
      /\ Occupied => status = "running"
    BY <1>0 DEF TurnOrder
<1>b. ASSUME UNCHANGED <<worker, jobs, approvals>>,
             status' \in {"running", "waiting_for_input", "completed"}
      PROVE  Undisturbed'
    BY <1>0, <1>b DEF Undisturbed
(* A response leaves no trace in the order of turns.                       *)
<1>c. ASSUME Respond(c), UNCHANGED <<worker, jobs, approvals, turnOpen>>, client[c].pc # "queueing",
             status' = status \/ (Acting(c) /\ status' \in {"running", "completed"})
      PROVE  OrderInv'
    <2>1. client'[c].pc = "idle" /\ client'[c].kind = "none"
        BY <1>0, <1>c, RespondStep
    <2>2. TurnOrder'
        BY <1>0, <1>a, <1>c, <1>f, <2>1, OneRequest DEF Acting
    <2> QED BY <1>0, <1>b, <1>c, <2>2 DEF OrderInv, Undisturbed
<1>d. ASSUME NEW pc \in ClientSteps \ {"idle", "starting", "queueing", "cancel_read", "canceling"},
             Request(c, pc),
             UNCHANGED <<worker, jobs, approvals, turnOpen, status>>, client[c].pc # "idle",
             client[c].pc \in {"patch", "saving", "accepting", "boundary"} \/ client[c].kind # "turn"
                \/ pc \notin {"patch", "saving", "accepting", "boundary"},
             client[c].kind = "accept" => pc \in {"saving", "accepting"},
             client[c].pc # "queueing"
      PROVE  OrderInv'
    <2>1. /\ client'[c].pc = pc /\ client'[c].kind = client[c].kind
          /\ client'[c].seen = client[c].seen
        BY <1>0, <1>d, RequestStep
    <2>2. TurnOrder'
        BY <1>0, <1>a, <1>d, <1>f, <2>1, OneRequest DEF Acting
    <2> QED BY <1>0, <1>b, <1>d, <2>2 DEF OrderInv, Undisturbed
<1>1. CASE ReadSession(c) \/ CheckResume(c) \/ CheckArchive(c)
    <2>1. /\ UNCHANGED <<worker, jobs, approvals, turnOpen, status>>
          /\ \E kind \in {"turn", "close", "resume", "archive"},
                pc \in {"patch", "resuming", "archiving"} : Arrive(c, kind, pc)
        BY <1>1 DEF ReadSession, CheckResume, CheckArchive
    <2>2. /\ client[c].pc = "idle"
          /\ client'[c].kind \in {"turn", "close", "resume", "archive"}
          /\ client'[c].pc \in {"patch", "resuming", "archiving"}
          /\ client'[c].seen = status
        BY <1>0, <2>1, ArriveStep
    <2>3. Alone(c) /\ ~Lingering
        BY <1>1, <2>2 DEF Receive, OrderlyUse, Proceed, ReadPatch, SavePatch, AcceptPatch,
           PassBoundary, ResumeSession, StartTurn, CreateJob, CloseSession, CheckCancel,
           CancelSession, ArchiveSession
    (* An open turn runs, and then nobody passes the guards.                *)
    <2>4. ~(status = "running" /\ turnOpen)
        BY <1>1 DEF ReadSession, TurnInProgress, CheckResume, MayResume, Resumable,
           CheckArchive, Active
    <2>5. ~Occupied
        <3>1. Occupied => turnOpen
            BY <1>0, <2>3 DEF TurnOrder, Occupied, UnderWay, Lingering, Resting
        <3> QED BY <1>a, <2>4, <3>1
    <2>6. \A d \in Clients : d # c => ~Acting(d)
        <3>1. SUFFICES ASSUME NEW d \in Clients, client[d].pc = "queueing" PROVE FALSE
            BY <2>3 DEF Alone, Acting
        <3> QED BY <1>0, <2>4, <3>1 DEF TurnOrder
    <2>7. TurnOrder'
        BY <1>0, <1>a, <1>f, <2>1, <2>2, <2>5, <2>6, OneRequest
    <2> QED BY <1>0, <1>b, <2>1, <2>7 DEF OrderInv, Undisturbed
<1>2. CASE ReadUnlinkedPatch(c)
    <2>1. /\ client'[c].pc = "saving" /\ client'[c].kind = "accept" /\ client[c].pc = "idle"
          /\ UNCHANGED <<worker, jobs, approvals, turnOpen, status>>
        BY <1>0, <1>2 DEF ReadUnlinkedPatch, TypeOK, IdleClient
    <2>2. TurnOrder'
        BY <1>0, <1>a, <1>f, <2>1, OneRequest DEF Acting
    <2> QED BY <1>0, <1>b, <2>1, <2>2 DEF OrderInv, Undisturbed
<1>3. CASE ReadPatch(c)
    <2>1. UNCHANGED <<worker, jobs, approvals, turnOpen, status>> /\ client[c].pc = "patch"
        BY <1>3 DEF ReadPatch
    <2>2. CASE Request(c, "boundary")
        BY <1>a, <1>d, <2>1, <2>2 DEF ClientSteps
    <2>3. CASE Respond(c)
        BY <1>c, <2>1, <2>3
    <2>4. CASE client' = [client EXCEPT ![c].pc = "saving", ![c].patch = Newest(Queued),
                                        ![c].base = Current]
        <3>1. /\ client'[c].pc = "saving" /\ client'[c].kind = client[c].kind
              /\ client'[c].seen = client[c].seen
            BY <1>0, <2>4 DEF TypeOK, ClientState
        <3>2. TurnOrder'
            BY <1>0, <1>a, <1>f, <2>1, <3>1, OneRequest DEF Acting
        <3> QED BY <1>0, <1>b, <2>1, <3>2 DEF OrderInv, Undisturbed
    <2> QED BY <1>3, <2>2, <2>3, <2>4 DEF ReadPatch, Refuse
<1>4. CASE SavePatch(c)
    <2>1. UNCHANGED <<worker, jobs, approvals, turnOpen, status>> /\ client[c].pc = "saving"
        BY <1>4 DEF SavePatch
    <2>2. CASE Respond(c)
        BY <1>c, <2>1, <2>2
    <2>3. CASE client' = [client EXCEPT ![c].pc = "accepting", ![c].base = Current + 1]
        <3>1. /\ client'[c].pc = "accepting" /\ client'[c].kind = client[c].kind
              /\ client'[c].seen = client[c].seen
            BY <1>0, <2>3 DEF TypeOK, ClientState
        <3>2. TurnOrder'
            BY <1>0, <1>a, <1>f, <2>1, <3>1, OneRequest DEF Acting
        <3> QED BY <1>0, <1>b, <2>1, <3>2 DEF OrderInv, Undisturbed
    <2> QED BY <1>4, <2>2, <2>3 DEF SavePatch, Refuse
<1>5. CASE AcceptPatch(c)
    <2>1. UNCHANGED <<worker, jobs, approvals, turnOpen, status>> /\ client[c].pc = "accepting"
        BY <1>5 DEF AcceptPatch
    <2>2. CASE client[c].kind = "accept"
        BY <1>5, <1>c, <2>1, <2>2 DEF AcceptPatch
    <2>3. CASE client[c].kind # "accept"
        <3>1. Request(c, "boundary")
            BY <1>5, <2>3 DEF AcceptPatch
        <3> QED BY <1>d, <2>1, <2>3, <3>1 DEF ClientSteps
    <2> QED BY <2>2, <2>3
<1>6. CASE PassBoundary(c)
    <2>1. UNCHANGED <<worker, jobs, approvals, turnOpen, status>> /\ client[c].pc = "boundary"
        BY <1>6 DEF PassBoundary
    <2>2. CASE Respond(c)
        BY <1>c, <2>1, <2>2
    <2>3. CASE Request(c, "resuming") \/ Request(c, "closing")
        BY <1>a, <1>d, <2>1, <2>3 DEF ClientSteps
    <2>4. CASE client[c].kind = "turn" /\ client[c].seen = "running" /\ Request(c, "starting")
        <3>1. client'[c].pc = "starting" /\ client'[c].kind = "turn" /\ status = "running"
            BY <1>0, <1>a, <2>1, <2>4, RequestStep DEF ClientSteps
        <3>2. TurnOrder'
            BY <1>0, <1>a, <2>1, <1>f, <2>4, <3>1, OneRequest DEF Acting
        <3> QED BY <1>0, <1>b, <2>1, <3>2 DEF OrderInv, Undisturbed
    <2> QED BY <1>6, <2>2, <2>3, <2>4 DEF PassBoundary
<1>7. CASE ResumeSession(c)
    <2>1. /\ UNCHANGED <<worker, jobs, approvals, turnOpen>> /\ client[c].pc = "resuming"
          /\ status' = "running" /\ Acting(c) /\ ~Occupied
        BY <1>7, <1>a DEF ResumeSession, Acting
    <2>2. CASE Respond(c)
        BY <1>c, <2>1, <2>2
    <2>3. CASE Request(c, "starting")
        <3>1. client'[c].pc = "starting" /\ client'[c].kind = client[c].kind
            BY <1>0, <2>3, RequestStep DEF ClientSteps
        <3>2. TurnOrder'
            BY <1>0, <1>a, <1>f, <2>1, <3>1, OneRequest DEF Acting
        <3> QED BY <1>b, <2>1, <3>2 DEF OrderInv
    <2> QED BY <1>7, <2>2, <2>3 DEF ResumeSession
<1>8. CASE StartTurn(c)
    <2>1. /\ UNCHANGED <<worker, jobs, approvals, status>> /\ client[c].pc = "starting"
          /\ client'[c].pc = "queueing" /\ client'[c].kind = client[c].kind
          /\ turnOpen' = TRUE
        BY <1>0, <1>8, RequestStep DEF StartTurn, ClientSteps
    <2>2. TurnOrder'
        BY <1>0, <1>a, <1>f, <2>1, OneRequest DEF Acting
    <2> QED BY <1>0, <1>b, <2>1, <2>2 DEF OrderInv, Undisturbed
<1>9. CASE CreateJob(c)
    <2>1. /\ client[c].pc = "queueing" /\ Acting(c) /\ ~Occupied
          /\ status = "running" /\ turnOpen
          /\ UNCHANGED <<worker, approvals, status, turnOpen>>
        BY <1>0, <1>9, <1>a DEF CreateJob, Acting, TurnOrder
    <2>2. client'[c].pc = "idle" /\ client'[c].kind = "none"
        BY <1>0, <1>9, RespondStep DEF CreateJob
    <2>3. PICK t \in Turns :
            /\ jobs[t].status = "absent"
            /\ jobs' = [jobs EXCEPT ![t].status = "queued", ![t].base = client[c].base]
        BY <1>9 DEF CreateJob
    <2>4. /\ jobs'[t].status = "queued" /\ jobs'[t].cancel = jobs[t].cancel
          /\ \A s \in Turns : s # t => jobs'[s] = jobs[s]
        BY <1>0, <2>3 DEF TypeOK, Job
    <2>5. Undisturbed'
        BY <1>0, <2>1, <2>4 DEF Undisturbed
    <2>6. /\ \A s \in Turns : Waiting(s)' <=> s = t
          /\ \A w \in Workers : ~UnderWay(w)'
        BY <2>1, <2>4 DEF Occupied, Waiting, UnderWay
    <2>7. \A d \in Clients : ~Acting(d)'
        BY <1>0, <1>f, <2>1, <2>2 DEF TurnOrder, Acting
    <2>8. \A s \in Turns : jobs'[s].status = "running" =>
              \E w \in Workers : worker'[w].turn = s /\ worker'[w].pc # "idle"
        BY <1>0, <2>1, <2>4 DEF TurnOrder
    <2>9. ASSUME NEW d \in Clients
          PROVE  /\ client'[d].kind = "accept" => client'[d].pc \in {"saving", "accepting"}
                 /\ client'[d].pc \notin {"cancel_read", "canceling"}
                 /\ client'[d].kind # "turn" \/ client'[d].pc = "idle"
        BY <1>0, <1>f, <2>2, <2>7 DEF TurnOrder, Acting
    <2>10. TurnOrder'
        <3>1. (\E s \in Turns : Waiting(s)') /\ turnOpen'
            BY <2>1, <2>6
        <3> QED BY <2>1, <2>6, <2>7, <2>8, <2>9, <3>1 DEF TurnOrder, Acting
    <2> QED BY <2>5, <2>10 DEF OrderInv
<1>10. CASE CloseSession(c)
    <2>1. client[c].pc = "closing" /\ Acting(c)
        BY <1>10, <1>a DEF CloseSession, Acting
    <2> QED BY <1>10, <1>a, <1>c, <2>1 DEF CloseSession
<1>11. CASE ArchiveSession(c)
    BY <1>11, <1>c DEF ArchiveSession
<1>12. CASE CancelChat(c)
    BY <1>12 DEF CancelChat, Arrive, OrderlyUse
<1>13. CASE CheckCancel(c) \/ CancelSession(c)
    BY <1>a, <1>13 DEF CheckCancel, CancelSession
<1> QED BY <1>1, <1>2, <1>3, <1>4, <1>5, <1>6, <1>7, <1>8, <1>9, <1>10, <1>11, <1>12, <1>13
        DEF Receive, Proceed

(* Nobody dies, so a running job is held.                                  *)
LEMMA NothingToRecover ==
    ASSUME Undisturbed, TurnOrder, NEW t \in Turns
    PROVE  ~RecoverJob(t)
<1>1. SUFFICES ASSUME jobs[t].status = "running" PROVE Held(t)
    BY DEF RecoverJob
<1>2. PICK w \in Workers : worker[w].turn = t /\ worker[w].pc # "idle"
    BY <1>1 DEF TurnOrder
<1>3. worker[w].pc # "marking"
    BY DEF Undisturbed, InTurn, Early, Resting
<1> QED BY <1>2, <1>3 DEF Held

LEMMA OrderInvInit == Init => OrderInv
<1>1. SUFFICES ASSUME Init PROVE OrderInv
    OBVIOUS
<1>2. \A w \in Workers : worker[w].pc = "idle" /\ ~worker[w].killed
    BY <1>1 DEF Init, IdleWorker
<1>3. \A t \in Turns : jobs[t].status = "absent" /\ ~jobs[t].cancel
    BY <1>1 DEF Init, AbsentJob
<1>4. \A c \in Clients : client[c].pc = "idle" /\ client[c].kind = "none"
    BY <1>1 DEF Init, IdleClient
<1>5. status = "running" /\ ~turnOpen /\ approvals.pending = 0
    BY <1>1 DEF Init
<1>6. ~Occupied /\ \A w \in Workers : ~UnderWay(w) /\ worker[w].pc \notin InTurn
    BY <1>2, <1>3 DEF Occupied, Waiting, UnderWay, InTurn, Early, Resting
<1>7. TurnOrder
    BY <1>3, <1>4, <1>5, <1>6 DEF TurnOrder, Waiting, Acting
<1>8. Undisturbed
    BY <1>2, <1>3, <1>5 DEF Undisturbed
<1> QED BY <1>7, <1>8 DEF OrderInv

LEMMA OrderInvStep ==
    ASSUME OrderlyUse, TurnTypes, CallInv, OrderInv, [Next]_vars
    PROVE  OrderInv'
<1> USE DEF session, article, history
<1>0. Undisturbed /\ TurnOrder
    BY DEF OrderInv
<1>1. ASSUME NEW w \in Workers, (\E t \in Turns : ClaimTurn(w, t)) \/ RunTurn(w) \/ WorkerCrashes(w)
      PROVE  OrderInv'
    <2>1. ~WorkerCrashes(w)
        BY DEF OrderlyUse, WorkerCrashes
    <2> QED BY <1>1, <2>1, ClaimOrder, RunTurnOrder
<1>2. ASSUME NEW c \in Clients, Receive(c) \/ Proceed(c)
      PROVE  OrderInv'
    BY <1>2, RequestOrder
<1>3. ASSUME NEW t \in Turns, RecoverJob(t) \/ CancelJob(t) \/ RetryJob(t)
      PROVE  OrderInv'
    <2>1. ~CancelJob(t) /\ ~RetryJob(t)
        BY DEF OrderlyUse, CancelJob, RetryJob
    <2>2. ~RecoverJob(t)
        BY <1>0, NothingToRecover
    <2> QED BY <1>3, <2>1, <2>2
<1>4. CASE \/ \E p \in DOMAIN patches : RejectPatch(p)
           \/ EditorSaves \/ UNCHANGED vars
    <2>1. UNCHANGED <<status, turnOpen, approvals, jobs, worker, client>>
        BY <1>4 DEF RejectPatch, EditorSaves, vars
    <2>2. Undisturbed'
        BY <1>0, <2>1 DEF Undisturbed
    <2>3. Occupied' <=> Occupied
        BY <2>1 DEF Occupied, Waiting, UnderWay
    <2>4. TurnOrder'
        BY <1>0, <2>1, <2>3 DEF TurnOrder, Waiting, UnderWay, Acting
    <2> QED BY <2>2, <2>4 DEF OrderInv
<1>5. ~ResolveApproval
    BY <1>0 DEF Undisturbed, ResolveApproval
<1>6. ~RestartApi
    BY DEF OrderlyUse, RestartApi
<1> QED BY <1>1, <1>2, <1>3, <1>4, <1>5, <1>6 DEF Next

LEMMA OrderInvAlways == ASSUME OrderlyUse PROVE Spec => []OrderInv
<1>1. TurnTypes /\ CallInv /\ OrderInv /\ [Next]_vars => OrderInv'
    BY OrderInvStep
<1> QED BY <1>1, OrderInvInit, TypesAlways, CallInvAlways, PTL DEF Spec

(* At most one worker carries the conversation on: run_chat_turn refuses   *)
(* whoever asks for a turn while one is announced, queued or running ("A   *)
(* response is already running"), for any number of clients, as long as    *)
(* their requests do not meet half-way (Spaced).                           *)
THEOREM TurnsDoNotOverlap ==
    ASSUME OrderlyUse PROVE Spec => []OneTurnAtATime
<1>1. OrderInv => OneTurnAtATime
    BY DEF OrderInv, Undisturbed, TurnOrder, OneTurnAtATime, Talking, Streaming, Reporting,
       UnderWay, InTurn, Early, Resting
<1> QED BY <1>1, OrderInvAlways, PTL

(* What refuses further turns is a turn that a worker will end, or a       *)
(* request that is about to queue it (run_chat_turn, _turn_in_progress).   *)
THEOREM TurnsAreBacked ==
    ASSUME OrderlyUse PROVE Spec => []NoOrphanTurn
<1>1. TurnTypes /\ CallInv /\ OrderInv => NoOrphanTurn
    <2>1. SUFFICES ASSUME TurnTypes, CallInv, OrderInv, turnOpen, NEW w \in Workers,
                          worker[w].pc \in InTurn
                   PROVE  \E t \in Turns : jobs[t].status = "running"
        BY DEF OrderInv, TurnOrder, NoOrphanTurn, TurnInProgress, Waiting
    <2>2. worker[w].pc \notin {"idle", "marking"}
        BY <2>1 DEF InTurn, Early
    <2>3. worker[w].turn \in Turns /\ jobs[worker[w].turn].status = "running"
        BY <2>1, <2>2, JobNumbers DEF CallInv, SingleHolder
    <2> QED BY <2>3
<1> QED BY <1>1, OrderInvAlways, TypesAlways, CallInvAlways, PTL

-----------------------------------------------------------------------------
(* Revision b is the head, or the editor has saved since.                  *)
FreshIn(list, b) ==
    b \in 0..Len(list) /\ ((\A n \in (b + 1)..Len(list) : list[n] = "agent") => b = Len(list))
Fresh(b) == FreshIn(authors, b)
Pending(p) == patches[p].state = "pending"
NoPending == \A p \in DOMAIN patches : ~Pending(p)

(* Whoever will save or queue an edit names a fresh revision, and the next *)
(* edit is made when the last one is in the article or refused.            *)
FreshInv ==
    /\ ~selfConflict
    /\ \A b, c \in Clients : client[b].pc # "idle" /\ client[c].pc # "idle" => b = c
    /\ \A t \in Turns : Waiting(t) => Fresh(jobs[t].base) /\ NoPending
    /\ \A w \in Workers : worker[w].pc \in Early =>
          Fresh(jobs[worker[w].turn].base) /\ NoPending
    /\ \A c \in Clients :
          /\ client[c].pc # "idle" => Fresh(client[c].base)
          /\ client[c].pc \in {"saving", "accepting"} =>
                /\ \A t \in Turns : ~Waiting(t)
                /\ \A w \in Workers : worker[w].pc \notin Early
                /\ \A p \in DOMAIN patches : Pending(p) => p = client[c].patch
          /\ \/ client[c].pc \in {"starting", "queueing"}
             \/ client[c].kind = "turn" /\ client[c].pc \in {"boundary", "resuming"}
             => NoPending
    /\ \A p, q \in DOMAIN patches : Pending(p) /\ Pending(q) => p = q
    /\ \A p \in DOMAIN patches : Pending(p) =>
          /\ \/ Fresh(patches[p].base)
             \/ \E c \in Clients : client[c].pc = "accepting" /\ client[c].patch = p
          /\ patches[p].linked \/ \E w \in Workers : worker[w].pc = "linking" /\ worker[w].patch = p

LEMMA FreshHead == ASSUME NEW list \in Seq({"editor", "agent"}) PROVE FreshIn(list, Len(list))
BY DEF FreshIn

LEMMA FreshAfterEdit ==
    ASSUME NEW list \in Seq({"editor", "agent"}), NEW b, FreshIn(list, b)
    PROVE  FreshIn(Append(list, "editor"), b)
<1> DEFINE new == Append(list, "editor")
<1>1. Len(new) = Len(list) + 1 /\ new[Len(list) + 1] = "editor" /\ Len(list) \in Nat
    OBVIOUS
<1>2. b \in 0..Len(list)
    BY DEF FreshIn
<1>3. Len(list) + 1 \in (b + 1)..Len(new) /\ b \in 0..Len(new)
    BY <1>1, <1>2
<1>4. ~(\A n \in (b + 1)..Len(new) : new[n] = "agent")
    BY <1>1, <1>3
<1> QED BY <1>3, <1>4 DEF FreshIn

(* A refusal over a fresh revision that is not the head is the editor's.   *)
LEMMA RefusedByEditor ==
    ASSUME NEW b, Fresh(b), b # Current
    PROVE  ~OnlyAgentsSince(b)
BY DEF Fresh, FreshIn, Current, OnlyAgentsSince

(* Steps that leave the article and the requests alone, and neither start  *)
(* a turn nor link an edit.                                                *)
LEMMA FreshStill ==
    ASSUME FreshInv, authors' = authors, patches' = patches, selfConflict' = selfConflict,
           client' = client,
           \A t \in Turns : (Waiting(t)' => Waiting(t)) /\ jobs'[t].base = jobs[t].base,
           \A v \in Workers : worker'[v].pc \in Early =>
               /\ worker[v].pc \in Early /\ worker'[v].turn = worker[v].turn
               /\ worker[v].turn \in Turns,
           \A v \in Workers : worker[v].pc = "linking" =>
               worker'[v].pc = "linking" /\ worker'[v].patch = worker[v].patch
    PROVE  FreshInv'
<1>1. NoPending' <=> NoPending
    BY DEF NoPending, Pending
<1>2. \A t \in Turns : Waiting(t)' => FreshIn(authors, jobs'[t].base) /\ NoPending
    BY DEF FreshInv, Fresh
<1>3. \A v \in Workers : worker'[v].pc \in Early =>
          FreshIn(authors, jobs'[worker'[v].turn].base) /\ NoPending
    BY DEF FreshInv, Fresh
<1>4. ASSUME NEW c \in Clients, client[c].pc \in {"saving", "accepting"}
      PROVE  /\ \A t \in Turns : ~Waiting(t)'
             /\ \A v \in Workers : worker'[v].pc \notin Early
             /\ \A p \in DOMAIN patches : Pending(p) => p = client[c].patch
    BY <1>4 DEF FreshInv
<1>5. \A p \in DOMAIN patches : Pending(p) =>
          patches[p].linked \/ \E v \in Workers : worker'[v].pc = "linking" /\ worker'[v].patch = p
    BY DEF FreshInv
<1> QED BY <1>1, <1>2, <1>3, <1>4, <1>5 DEF FreshInv, Fresh, Pending

LEMMA RunTurnFresh ==
    ASSUME OrderlyUse, TurnTypes, TurnTypes', LandInv, CallInv, OrderInv, FreshInv,
           NEW w \in Workers, RunTurn(w)
    PROVE  FreshInv'
<1> USE DEF session, article, history
<1>0. Undisturbed /\ TurnOrder /\ TypeOK /\ SingleHolder
    BY DEF OrderInv, TurnTypes, CallInv
<1>1. CASE \/ StreamChat(w) \/ StreamEnds(w) \/ AddReply(w) \/ TurnCompleted(w)
           \/ CheckRunning(w) \/ WaitForInput(w) \/ TurnReturns(w)
    <2>1. /\ authors' = authors /\ patches' = patches /\ selfConflict' = selfConflict
          /\ client' = client /\ jobs' = jobs
          /\ worker[w].pc \notin {"idle", "linking"}
        BY <1>1 DEF StreamChat, StreamEnds, AddReply, TurnCompleted, CheckRunning, WaitForInput,
           TurnReturns
    <2>2. /\ \A v \in Workers : v # w => worker'[v] = worker[v]
          /\ worker'[w].turn = worker[w].turn
        BY <1>0, <1>1 DEF StreamChat, StreamEnds, AddReply, TurnCompleted, CheckRunning,
           WaitForInput, TurnReturns, Step, TypeOK, WorkerState
    <2>3. worker'[w].pc \in Early => worker[w].pc \in Early
        BY <1>0, <1>1 DEF StreamChat, StreamEnds, AddReply, TurnCompleted, CheckRunning,
           WaitForInput, TurnReturns, Step, TypeOK, WorkerState, Early
    <2>4. \A v \in Workers : worker[v].pc \in Early => worker[v].turn \in Turns
        BY JobNumbers DEF Early
    <2>5. \A t \in Turns : Waiting(t)' => Waiting(t)
        BY <2>1 DEF Waiting
    <2> QED BY <2>1, <2>2, <2>3, <2>4, <2>5, FreshStill
<1>2. CASE SettleJob(w)
    <2> DEFINE t == worker[w].turn
    <2>1. /\ authors' = authors /\ patches' = patches /\ selfConflict' = selfConflict
          /\ client' = client /\ worker[w].pc = "settling" /\ worker[w].verdict = "completed"
        BY <1>0, <1>2 DEF SettleJob, Undisturbed
    <2>2. t \in Turns /\ SettledStatus(jobs[t], worker[w].verdict) = "completed"
        BY <2>1, JobNumbers DEF SettledStatus
    <2>3. /\ jobs' = [jobs EXCEPT ![t].status = "completed"]
          /\ worker' = [worker EXCEPT ![w] = IdleWorker]
        BY <1>2, <2>2 DEF SettleJob
    <2>4. /\ \A v \in Workers : v # w => worker'[v] = worker[v]
          /\ worker'[w].pc = "idle"
        BY <1>0, <2>3 DEF TypeOK, IdleWorker
    <2>5. \A s \in Turns : (Waiting(s)' => Waiting(s)) /\ jobs'[s].base = jobs[s].base
        BY <1>0, <2>2, <2>3 DEF TypeOK, Job, Waiting
    <2>6. \A v \in Workers : worker[v].pc \in Early => worker[v].turn \in Turns
        BY JobNumbers DEF Early
    <2>7. \A v \in Workers : worker'[v].pc \in Early => worker'[v] = worker[v]
        BY <2>4 DEF Early
    <2> QED BY <2>1, <2>4, <2>5, <2>6, <2>7, FreshStill
<1>3. CASE AddPatch(w)
    <2> DEFINE base == jobs[worker[w].turn].base
               n == Len(patches) + 1
    <2>1. worker[w].pc = "patching" /\ UnderWay(w)
        BY <1>3 DEF AddPatch, UnderWay, InTurn, Early
    <2>2. Fresh(base) /\ NoPending
        BY <2>1 DEF FreshInv, Early
    <2>3. /\ \A t \in Turns : ~Waiting(t)
          /\ \A v \in Workers : UnderWay(v) => v = w
          /\ \A c \in Clients : client[c].pc = "idle" \/ client[c].kind = "accept"
        BY <1>0, <2>1, TheOccupant DEF Acting
    <2>4. \A c \in Clients : client[c].pc = "idle"
        <3>1. SUFFICES ASSUME NEW c \in Clients, client[c].kind = "accept" PROVE FALSE
            BY <2>3
        <3>2. client[c].pc \in {"saving", "accepting"}
            BY <1>0, <3>1 DEF TurnOrder
        <3> QED BY <2>1, <3>2 DEF FreshInv, Early
    <2>5. /\ authors' = authors /\ selfConflict' = selfConflict /\ client' = client /\ jobs' = jobs
          /\ patches' = Append(patches, [base |-> base, state |-> "pending", linked |-> FALSE])
        BY <1>3 DEF AddPatch
    <2>6. /\ Len(patches) \in Nat /\ DOMAIN patches' = 1..n /\ DOMAIN patches = 1..Len(patches)
          /\ \A p \in 1..Len(patches) : patches'[p] = patches[p]
          /\ patches'[n].base = base /\ patches'[n].state = "pending"
        BY <1>0, <2>5 DEF TypeOK
    <2>7. \A p \in DOMAIN patches' : Pending(p)' => p = n
        BY <2>2, <2>6 DEF NoPending, Pending
    <2>8. /\ \A v \in Workers : v # w => worker'[v] = worker[v]
          /\ worker'[w].pc = "linking" /\ worker'[w].patch = n
        BY <1>0, <1>3 DEF AddPatch, TypeOK, WorkerState
    <2>9. \A v \in Workers : worker'[v].pc \notin Early
        BY <2>3, <2>8 DEF UnderWay, InTurn, Early
    <2>10. \A t \in Turns : ~Waiting(t)'
        BY <2>3, <2>5 DEF Waiting
    <2>11. FreshIn(authors', patches'[n].base)
        BY <2>2, <2>5, <2>6 DEF Fresh
    <2> HIDE DEF n, base
    <2> QED BY <2>4, <2>5, <2>7, <2>8, <2>9, <2>10, <2>11 DEF FreshInv, Fresh
<1>4. CASE AddOutput(w)
    <2> DEFINE q == worker[w].patch
    <2>1. /\ worker[w].pc = "linking" /\ authors' = authors /\ selfConflict' = selfConflict
          /\ client' = client /\ jobs' = jobs
          /\ patches' = [patches EXCEPT ![q].linked = TRUE]
        BY <1>4 DEF AddOutput
    <2>2. /\ \A v \in Workers : v # w => worker'[v] = worker[v]
          /\ worker'[w].pc = "answering"
        BY <1>0, <1>4, WorkerStep DEF AddOutput, WorkerSteps, Reporting
    <2>3. q \in DOMAIN patches
        BY <2>1 DEF TurnTypes, WorkerFrame
    <2>4. /\ DOMAIN patches' = DOMAIN patches
          /\ \A p \in DOMAIN patches :
                /\ patches'[p].state = patches[p].state /\ patches'[p].base = patches[p].base
                /\ patches'[p].linked = IF p = q THEN TRUE ELSE patches[p].linked
        BY <1>0, <2>1, <2>3, EntryOfSeq DEF TypeOK, Patch
    <2>5. \A v \in Workers : worker'[v].pc \in Early => v # w
        BY <2>2 DEF Early
    <2>6. \A p \in DOMAIN patches : Pending(p)' <=> Pending(p)
        BY <2>4 DEF Pending
    <2>7. NoPending' <=> NoPending
        BY <2>4, <2>6 DEF NoPending
    <2>8. \A t \in Turns : Waiting(t)' <=> Waiting(t)
        BY <2>1 DEF Waiting
    <2>9. \A p \in DOMAIN patches : Pending(p) =>
              patches'[p].linked \/ \E v \in Workers : worker'[v].pc = "linking" /\ worker'[v].patch = p
        <3>1. SUFFICES ASSUME NEW p \in DOMAIN patches, Pending(p), p # q, ~patches[p].linked
                       PROVE  \E v \in Workers : worker'[v].pc = "linking" /\ worker'[v].patch = p
            BY <2>4
        <3>2. PICK v \in Workers : worker[v].pc = "linking" /\ worker[v].patch = p
            BY <3>1 DEF FreshInv
        <3>3. v # w
            BY <3>1, <3>2
        <3> QED BY <2>2, <3>2, <3>3
    <2>10. \A p \in DOMAIN patches : Pending(p) =>
              \/ FreshIn(authors, patches'[p].base)
              \/ \E c \in Clients : client[c].pc = "accepting" /\ client[c].patch = p
        BY <2>4 DEF FreshInv, Fresh
    <2>11. \A v \in Workers : worker'[v].pc \in Early =>
              FreshIn(authors, jobs[worker'[v].turn].base) /\ NoPending
        BY <2>2, <2>5 DEF FreshInv, Fresh
    <2>12. ASSUME NEW c \in Clients, client[c].pc \in {"saving", "accepting"}
           PROVE  /\ \A t \in Turns : ~Waiting(t)
                  /\ \A v \in Workers : worker'[v].pc \notin Early
                  /\ \A p \in DOMAIN patches : Pending(p) => p = client[c].patch
        BY <2>2, <2>5, <2>12 DEF FreshInv
    <2> HIDE DEF q
    <2> QED BY <2>1, <2>4, <2>6, <2>7, <2>8, <2>9, <2>10, <2>11, <2>12 DEF FreshInv, Fresh
<1> QED BY <1>0, <1>1, <1>2, <1>3, <1>4, OrderlySteps

LEMMA ClaimFresh ==
    ASSUME OrderlyUse, TurnTypes, OrderInv, FreshInv,
           NEW w \in Workers, NEW t \in Turns, ClaimTurn(w, t)
    PROVE  FreshInv'
<1> USE DEF session, article, history
<1>0. TurnOrder /\ TypeOK
    BY DEF OrderInv, TurnTypes
<1>1. /\ \A v \in Workers : v # w => worker'[v] = worker[v]
      /\ worker'[w].pc = "starting" /\ worker'[w].turn = t /\ worker[w].pc = "idle"
    BY <1>0 DEF ClaimTurn, TypeOK, IdleWorker
<1>2. /\ Waiting(t)
      /\ \A s \in Turns : jobs'[s].base = jobs[s].base
      /\ \A s \in Turns : ~Waiting(s)'
    BY <1>0 DEF ClaimTurn, TypeOK, Job, Waiting, TurnOrder
<1>3. /\ authors' = authors /\ patches' = patches /\ selfConflict' = selfConflict
      /\ client' = client
    BY DEF ClaimTurn
<1>4. Fresh(jobs[t].base) /\ NoPending
    BY <1>2 DEF FreshInv
<1>5. \A v \in Workers : worker[v].pc \notin Early
    BY <1>0, <1>2 DEF TurnOrder, UnderWay, InTurn
<1>6. \A c \in Clients : client[c].pc \notin {"saving", "accepting"}
    BY <1>2 DEF FreshInv
<1>7. \A v \in Workers : worker'[v].pc \in Early => v = w
    BY <1>1, <1>5
<1>8. \A p \in DOMAIN patches : ~Pending(p)
    BY <1>4 DEF NoPending
<1> QED BY <1>1, <1>2, <1>3, <1>4, <1>6, <1>7, <1>8 DEF FreshInv, Fresh, NoPending, Pending

(* A request that takes a step is the only one: no other has read the      *)
(* session, and one that is about to queue its turn keeps the others out.  *)
LEMMA OnlyRequest ==
    ASSUME OrderlyUse, TurnTypes, OrderInv, FreshInv, NEW c \in Clients, Receive(c) \/ Proceed(c)
    PROVE  \A d \in Clients : d # c => client[d].pc = "idle" /\ client'[d] = client[d]
<1>0. TurnOrder /\ TypeOK
    BY DEF OrderInv, TurnTypes
<1>1. \A d \in Clients : d # c => client'[d] = client[d]
    BY <1>0, OwnRequest
<1>2. CASE client[c].pc # "idle"
    BY <1>1, <1>2 DEF FreshInv
<1>3. CASE client[c].pc = "idle"
    <2>1. Receive(c)
        BY <1>3 DEF Proceed, ReadPatch, SavePatch, AcceptPatch, PassBoundary, ResumeSession,
           StartTurn, CreateJob, CloseSession, CheckCancel, CancelSession, ArchiveSession
    <2>2. Alone(c)
        BY <2>1 DEF Receive, OrderlyUse
    <2>3. SUFFICES ASSUME NEW d \in Clients, client[d].pc = "queueing" PROVE FALSE
        BY <1>1, <2>2 DEF Alone
    <2>4. status = "running" /\ turnOpen /\ ~Occupied
        BY <1>0, <2>3 DEF TurnOrder, Acting
    <2>5. CASE ReadSession(c) \/ CheckResume(c) \/ CheckArchive(c)
        BY <2>4, <2>5 DEF ReadSession, TurnInProgress, CheckResume, MayResume, Resumable,
           CheckArchive, Active
    <2>6. CASE ReadUnlinkedPatch(c)
        <3>1. PICK p \in DOMAIN patches : Pending(p) /\ ~patches[p].linked
            BY <2>6 DEF ReadUnlinkedPatch, Pending
        <3>2. \E w \in Workers : worker[w].pc = "linking"
            BY <3>1 DEF FreshInv
        <3> QED BY <2>4, <3>2 DEF Occupied, UnderWay, InTurn
    <2>7. CASE CancelChat(c)
        BY <2>7 DEF CancelChat, Arrive, OrderlyUse
    <2> QED BY <2>1, <2>5, <2>6, <2>7 DEF Receive
<1> QED BY <1>2, <1>3

(* A step of the only request that leaves the article alone, and does not  *)
(* mark a patch.                                                           *)
LEMMA FreshRequest ==
    ASSUME FreshInv, NEW c \in Clients,
           \A d \in Clients : d # c => client[d].pc = "idle" /\ client'[d] = client[d],
           authors' = authors, patches' = patches, selfConflict' = selfConflict,
           worker' = worker, jobs' = jobs, client[c].pc # "accepting",
           client'[c].pc # "idle" => FreshIn(authors, client'[c].base),
           client'[c].pc \in {"saving", "accepting"} =>
               /\ \A t \in Turns : ~Waiting(t)
               /\ \A w \in Workers : worker[w].pc \notin Early
               /\ \A p \in DOMAIN patches : Pending(p) => p = client'[c].patch,
           \/ client'[c].pc \in {"starting", "queueing"}
           \/ client'[c].kind = "turn" /\ client'[c].pc \in {"boundary", "resuming"}
           => NoPending
    PROVE  FreshInv'
<1>2. NoPending' <=> NoPending
    BY DEF NoPending, Pending
<1>3. \A p \in DOMAIN patches : Pending(p) => FreshIn(authors, patches[p].base)
    BY DEF FreshInv, Fresh
<1> QED BY <1>2, <1>3 DEF FreshInv, Fresh, Pending, Waiting

LEMMA RequestFresh ==
    ASSUME OrderlyUse, TurnTypes, LandInv, OrderInv, OrderInv', FreshInv,
           NEW c \in Clients, Receive(c) \/ Proceed(c)
    PROVE  FreshInv'
<1> USE DEF session, article, history
<1>0. TurnOrder /\ TypeOK
    BY DEF OrderInv, TurnTypes
<1>g. \A d \in Clients : d # c => client[d].pc = "idle" /\ client'[d] = client[d]
    BY OnlyRequest
<1>a. Current \in Nat /\ FreshIn(authors, Current)
    BY <1>0, FreshHead DEF TypeOK, Current
<1>b. client[c].pc # "idle" /\ client[c].kind # "accept" =>
          /\ \A t \in Turns : ~Waiting(t)
          /\ \A w \in Workers : ~UnderWay(w)
          /\ \A w \in Workers : worker[w].pc \notin Early /\ worker[w].pc # "linking"
    BY <1>0 DEF TurnOrder, Acting, Occupied, UnderWay, InTurn
<1>c. client[c].kind = "accept" => client[c].pc \in {"saving", "accepting"}
    BY <1>0 DEF TurnOrder
(* A response, and a request that goes on with the revision it names.      *)
<1>d. ASSUME Respond(c), UNCHANGED <<article, worker, jobs, selfConflict>>, client[c].pc # "accepting"
      PROVE  FreshInv'
    <2>1. client'[c].pc = "idle" /\ client'[c].kind = "none"
        BY <1>0, <1>d, RespondStep
    <2> QED BY <1>g, <1>d, <2>1, FreshRequest
<1>e. ASSUME NEW pc \in ClientSteps \ {"idle", "saving", "accepting"}, Request(c, pc),
             UNCHANGED <<article, worker, jobs, selfConflict>>,
             client[c].pc \notin {"idle", "accepting"},
             \/ pc \in {"starting", "queueing"}
             \/ client[c].kind = "turn" /\ pc \in {"boundary", "resuming"}
             => NoPending
      PROVE  FreshInv'
    <2>1. /\ client'[c].pc = pc /\ client'[c].kind = client[c].kind
          /\ client'[c].base = client[c].base
        BY <1>0, <1>e, RequestStep
    <2>2. FreshIn(authors, client[c].base)
        BY <1>e DEF FreshInv, Fresh
    <2> QED BY <1>g, <1>e, <2>1, <2>2, FreshRequest
<1>1. CASE ReadSession(c) \/ CheckResume(c) \/ CheckArchive(c)
    <2>1. /\ UNCHANGED <<article, worker, jobs, selfConflict>>
          /\ \/ \E kind \in {"turn", "close"} : Arrive(c, kind, "patch")
             \/ Arrive(c, "resume", "resuming")
             \/ Arrive(c, "archive", "archiving")
        BY <1>1 DEF ReadSession, CheckResume, CheckArchive
    <2>2. /\ client[c].pc = "idle" /\ client'[c].base = Current
          /\ \/ client'[c].pc \in {"patch", "archiving"}
             \/ client'[c].pc = "resuming" /\ client'[c].kind = "resume"
        BY <1>0, <2>1, ArriveStep
    <2> QED BY <1>g, <1>a, <2>1, <2>2, FreshRequest
<1>2. CASE ReadUnlinkedPatch(c)
    <2>1. PICK p \in DOMAIN patches :
            /\ ~patches[p].linked /\ patches[p].state = "pending"
            /\ client' = [client EXCEPT ![c] = [IdleClient EXCEPT
                             !.pc = "saving", !.kind = "accept", !.base = Current, !.patch = p]]
        BY <1>2, Zenon DEF ReadUnlinkedPatch
    <2>2. /\ client'[c].pc = "saving" /\ client'[c].base = Current /\ client'[c].patch = p
          /\ client'[c].kind = "accept"
        BY <1>0, <2>1 DEF TypeOK, IdleClient
    <2>3. UNCHANGED <<article, worker, jobs, selfConflict>> /\ client[c].pc = "idle"
        BY <1>2 DEF ReadUnlinkedPatch
    <2>4. PICK w \in Workers : worker[w].pc = "linking"
        BY <2>1 DEF FreshInv, Pending
    <2>5. UnderWay(w) /\ worker[w].pc \notin Early
        BY <2>4 DEF UnderWay, InTurn, Early
    <2>6. (\A t \in Turns : ~Waiting(t)) /\ \A v \in Workers : UnderWay(v) => v = w
        BY <1>0, <2>5, TheOccupant
    <2>7. \A v \in Workers : worker[v].pc \notin Early
        BY <2>5, <2>6 DEF UnderWay, InTurn
    <2>8. \A q \in DOMAIN patches : Pending(q) => q = p
        BY <2>1 DEF FreshInv, Pending
    <2> QED BY <1>g, <1>a, <2>2, <2>3, <2>6, <2>7, <2>8, FreshRequest
<1>3. CASE ReadPatch(c)
    <2>1. client[c].pc = "patch" /\ client[c].kind # "accept"
        BY <1>3, <1>c DEF ReadPatch
    <2>2. UNCHANGED <<article, worker, jobs>>
        BY <1>3 DEF ReadPatch
    <2>3. CASE Queued = {} /\ Request(c, "boundary") /\ selfConflict' = selfConflict
        <3>1. NoPending
            <4>1. ASSUME NEW p \in DOMAIN patches, Pending(p) PROVE FALSE
                <5>1. ~patches[p].linked
                    BY <2>3, <4>1 DEF Queued, Pending
                <5>2. PICK w \in Workers : worker[w].pc = "linking"
                    BY <4>1, <5>1 DEF FreshInv
                <5> QED BY <1>b, <2>1, <5>2
            <4> QED BY <4>1 DEF NoPending
        <3> QED BY <1>e, <2>1, <2>2, <2>3, <3>1 DEF ClientSteps
    <2>4. ASSUME Queued # {}
          PROVE  LET p == Newest(Queued) IN
                 /\ p \in DOMAIN patches /\ Pending(p) /\ Fresh(patches[p].base)
                 /\ \A q \in DOMAIN patches : Pending(q) => q = p
        <3>1. Newest(Queued) \in Queued
            BY <1>0, <2>4, NewestQueued DEF TypeOK
        <3>2. Newest(Queued) \in DOMAIN patches /\ Pending(Newest(Queued))
            BY <3>1 DEF Queued, Pending
        <3>3. Fresh(patches[Newest(Queued)].base)
            BY <1>0, <2>1, <3>2 DEF FreshInv
        <3> QED BY <3>2, <3>3 DEF FreshInv
    <2>5. CASE Queued # {} /\ patches[Newest(Queued)].base # Current
               /\ Refuse(c, patches[Newest(Queued)].base)
        <3>1. ~OnlyAgentsSince(patches[Newest(Queued)].base)
            BY <2>4, <2>5, RefusedByEditor
        <3>2. Respond(c) /\ selfConflict' = selfConflict
            BY <1>0, <2>5, <3>1 DEF Refuse, FreshInv, TypeOK
        <3> QED BY <1>d, <2>1, <2>2, <3>2
    <2>6. CASE /\ Queued # {} /\ patches[Newest(Queued)].base = Current
               /\ client' = [client EXCEPT ![c].pc = "saving", ![c].patch = Newest(Queued),
                                           ![c].base = Current]
               /\ selfConflict' = selfConflict
        <3>1. /\ client'[c].pc = "saving" /\ client'[c].patch = Newest(Queued)
              /\ client'[c].base = Current
            BY <1>0, <2>6 DEF TypeOK, ClientState
        <3> QED BY <1>g, <1>a, <1>b, <2>1, <2>2, <2>4, <2>6, <3>1, FreshRequest
    <2> QED BY <1>3, <2>3, <2>5, <2>6 DEF ReadPatch
<1>4. CASE SavePatch(c)
    <2>1. client[c].pc = "saving" /\ Fresh(client[c].base)
          /\ (\A t \in Turns : ~Waiting(t))
          /\ (\A w \in Workers : worker[w].pc \notin Early)
          /\ (\A p \in DOMAIN patches : Pending(p) => p = client[c].patch)
        BY <1>4 DEF SavePatch, FreshInv
    <2>2. UNCHANGED <<patches, worker, jobs>>
        BY <1>4 DEF SavePatch
    <2>3. CASE client[c].base # Current /\ Refuse(c, client[c].base) /\ authors' = authors
        <3>1. ~OnlyAgentsSince(client[c].base)
            BY <2>1, <2>3, RefusedByEditor
        <3>2. Respond(c) /\ selfConflict' = selfConflict
            BY <1>0, <2>3, <3>1 DEF Refuse, FreshInv, TypeOK
        <3> QED BY <1>d, <2>1, <2>2, <2>3, <3>2
    <2>4. CASE /\ authors' = Append(authors, "agent") /\ selfConflict' = selfConflict
               /\ client' = [client EXCEPT ![c].pc = "accepting", ![c].base = Current + 1]
        <3>1. /\ client'[c].pc = "accepting" /\ client'[c].patch = client[c].patch
              /\ client'[c].base = Current + 1 /\ client'[c].kind = client[c].kind
            BY <1>0, <2>4 DEF TypeOK, ClientState
        <3>2. authors' \in Seq({"editor", "agent"}) /\ Len(authors') = Current + 1
            BY <1>0, <2>4 DEF TypeOK, Current
        <3>3. FreshIn(authors', Current + 1)
            BY <3>2, FreshHead
        <3>4. /\ \A t \in Turns : ~Waiting(t)'
              /\ \A p \in DOMAIN patches : Pending(p)' <=> Pending(p)
            BY <2>1, <2>2 DEF Waiting, Pending
        <3>5. \A p \in DOMAIN patches : Pending(p) =>
                  client'[c].pc = "accepting" /\ client'[c].patch = p
            BY <2>1, <3>1
        <3>6. \A p \in DOMAIN patches : Pending(p) =>
                  \/ patches[p].linked
                  \/ \E w \in Workers : worker[w].pc = "linking" /\ worker[w].patch = p
            BY DEF FreshInv
        <3>7. selfConflict' = FALSE /\ \A p, q \in DOMAIN patches : Pending(p) /\ Pending(q) => p = q
            BY <2>4 DEF FreshInv
        <3> QED BY <1>g, <2>1, <2>2, <3>1, <3>3, <3>4, <3>5, <3>6, <3>7 DEF FreshInv, Fresh
    <2> QED BY <1>4, <2>3, <2>4 DEF SavePatch
<1>5. CASE AcceptPatch(c)
    <2>1. /\ client[c].pc = "accepting" /\ Fresh(client[c].base)
          /\ (\A t \in Turns : ~Waiting(t))
          /\ (\A w \in Workers : worker[w].pc \notin Early)
          /\ (\A p \in DOMAIN patches : Pending(p) => p = client[c].patch)
        BY <1>5 DEF AcceptPatch, FreshInv
    <2>2. /\ UNCHANGED <<authors, worker, jobs, selfConflict>>
          /\ patches' = [patches EXCEPT ![client[c].patch].state = "accepted"]
        BY <1>5 DEF AcceptPatch
    <2>3. /\ DOMAIN patches' = DOMAIN patches
          /\ \A p \in DOMAIN patches : p # client[c].patch => patches'[p] = patches[p]
          /\ client[c].patch \in DOMAIN patches => patches'[client[c].patch].state = "accepted"
        BY <1>0, <2>2, EntryOfSeq DEF TypeOK, Patch
    <2>4. \A p \in DOMAIN patches' : ~Pending(p)'
        BY <2>1, <2>3 DEF Pending
    <2>5. \/ client'[c].pc = "idle"
          \/ client'[c].pc = "boundary" /\ client'[c].base = client[c].base
        BY <1>0, <1>5, RespondStep, RequestStep DEF AcceptPatch, ClientSteps
    <2> QED BY <1>g, <2>1, <2>2, <2>4, <2>5 DEF FreshInv, Fresh, NoPending, Waiting
<1>6. CASE PassBoundary(c)
    <2>1. client[c].pc = "boundary" /\ UNCHANGED <<article, worker, jobs, selfConflict>>
        BY <1>6 DEF PassBoundary
    <2>2. client[c].kind = "turn" => NoPending
        BY <2>1 DEF FreshInv
    <2>3. CASE Respond(c)
        BY <1>d, <2>1, <2>3
    <2>4. CASE client[c].kind = "turn" /\ (Request(c, "resuming") \/ Request(c, "starting"))
        BY <1>e, <2>1, <2>2, <2>4 DEF ClientSteps
    <2>5. CASE Request(c, "closing")
        BY <1>e, <2>1, <2>5 DEF ClientSteps
    <2> QED BY <1>6, <2>3, <2>4, <2>5 DEF PassBoundary
<1>7. CASE ResumeSession(c)
    <2>1. client[c].pc = "resuming" /\ UNCHANGED <<article, worker, jobs, selfConflict>>
        BY <1>7 DEF ResumeSession
    <2>2. CASE Respond(c)
        BY <1>d, <2>1, <2>2
    <2>3. CASE client[c].kind = "turn" /\ Request(c, "starting")
        <3>1. NoPending
            BY <2>1, <2>3 DEF FreshInv
        <3> QED BY <1>e, <2>1, <2>3, <3>1 DEF ClientSteps
    <2> QED BY <1>7, <2>2, <2>3 DEF ResumeSession
<1>8. CASE StartTurn(c)
    <2>1. /\ client[c].pc = "starting" /\ UNCHANGED <<article, worker, jobs, selfConflict>>
          /\ Request(c, "queueing")
        BY <1>8 DEF StartTurn
    <2>2. NoPending
        BY <2>1 DEF FreshInv
    <2> QED BY <1>e, <2>1, <2>2 DEF ClientSteps
<1>9. CASE CreateJob(c)
    <2>1. client[c].pc = "queueing" /\ UNCHANGED <<article, worker, selfConflict>>
        BY <1>9 DEF CreateJob
    <2>2. /\ NoPending /\ FreshIn(authors, client[c].base)
          /\ client[c].kind # "accept"
        BY <1>c, <2>1 DEF FreshInv, Fresh
    <2>3. client'[c].pc = "idle" /\ client'[c].kind = "none"
        BY <1>0, <1>9, RespondStep DEF CreateJob
    <2>4. PICK t \in Turns :
            jobs' = [jobs EXCEPT ![t].status = "queued", ![t].base = client[c].base]
        BY <1>9 DEF CreateJob
    <2>5. jobs'[t].base = client[c].base /\ \A s \in Turns : s # t => jobs'[s] = jobs[s]
        BY <1>0, <2>4 DEF TypeOK, Job
    <2>6. \A s \in Turns : Waiting(s)' => s = t
        BY <1>b, <2>1, <2>2, <2>5 DEF Waiting
    <2>7. \A w \in Workers : worker[w].pc \notin Early
        BY <1>b, <2>1, <2>2
    <2>8. NoPending'
        BY <2>1, <2>2 DEF NoPending, Pending
    <2>9. \A p \in DOMAIN patches' : ~Pending(p)'
        BY <2>8 DEF NoPending
    <2> QED BY <1>g, <2>1, <2>2, <2>3, <2>5, <2>6, <2>7, <2>8, <2>9 DEF FreshInv, Fresh
<1>10. CASE CloseSession(c) \/ ArchiveSession(c)
    BY <1>10, <1>d DEF CloseSession, ArchiveSession
<1>11. CASE CancelChat(c) \/ CheckCancel(c) \/ CancelSession(c)
    BY <1>0, <1>11 DEF CancelChat, CheckCancel, CancelSession, Arrive, OrderlyUse, TurnOrder
<1> QED BY <1>1, <1>2, <1>3, <1>4, <1>5, <1>6, <1>7, <1>8, <1>9, <1>10, <1>11
        DEF Receive, Proceed

LEMMA FreshInvInit == Init => FreshInv
<1>1. SUFFICES ASSUME Init PROVE FreshInv
    OBVIOUS
<1>2. /\ \A w \in Workers : worker[w].pc = "idle"
      /\ \A t \in Turns : jobs[t].status = "absent"
      /\ \A c \in Clients : client[c].pc = "idle" /\ client[c].kind = "none"
      /\ patches = <<>> /\ selfConflict = FALSE
    BY <1>1 DEF Init, IdleWorker, AbsentJob, IdleClient
<1> QED BY <1>2 DEF FreshInv, Waiting, Early

LEMMA FreshInvStep ==
    ASSUME OrderlyUse, TurnTypes, TurnTypes', LandInv, CallInv, OrderInv, OrderInv', FreshInv,
           [Next]_vars
    PROVE  FreshInv'
<1> USE DEF session, article, history
<1>0. Undisturbed /\ TurnOrder /\ TypeOK
    BY DEF OrderInv, TurnTypes
<1>1. ASSUME NEW w \in Workers, (\E t \in Turns : ClaimTurn(w, t)) \/ RunTurn(w) \/ WorkerCrashes(w)
      PROVE  FreshInv'
    <2>1. ~WorkerCrashes(w)
        BY DEF OrderlyUse, WorkerCrashes
    <2> QED BY <1>1, <2>1, ClaimFresh, RunTurnFresh
<1>2. ASSUME NEW c \in Clients, Receive(c) \/ Proceed(c)
      PROVE  FreshInv'
    BY <1>2, RequestFresh
<1>3. ASSUME NEW t \in Turns, RecoverJob(t) \/ CancelJob(t) \/ RetryJob(t)
      PROVE  FreshInv'
    <2>1. ~CancelJob(t) /\ ~RetryJob(t)
        BY DEF OrderlyUse, CancelJob, RetryJob
    <2>2. ~RecoverJob(t)
        BY <1>0, NothingToRecover
    <2> QED BY <1>3, <2>1, <2>2
<1>4. ASSUME NEW p \in DOMAIN patches, RejectPatch(p)
      PROVE  FreshInv'
    <2>1. /\ UNCHANGED <<authors, jobs, worker, client, selfConflict>>
          /\ patches' = [patches EXCEPT ![p].state = "rejected"]
        BY <1>4 DEF RejectPatch
    <2>2. /\ DOMAIN patches' = DOMAIN patches
          /\ \A q \in DOMAIN patches : q # p => patches'[q] = patches[q]
          /\ patches'[p].state = "rejected"
        <3>1. patches \in Seq(Patch) /\ patches[p] \in Patch
            BY <1>0, <1>4, EntryOfSeq DEF TypeOK
        <3> QED BY <1>4, <2>1, <3>1 DEF Patch
    <2>3. \A q \in DOMAIN patches' : Pending(q)' => Pending(q) /\ patches'[q] = patches[q]
        BY <2>2 DEF Pending
    <2>4. NoPending => NoPending'
        BY <2>2, <2>3 DEF NoPending
    <2> QED BY <2>1, <2>2, <2>3, <2>4 DEF FreshInv, Fresh, Waiting
<1>5. CASE EditorSaves
    <2>1. /\ UNCHANGED <<patches, jobs, worker, client, selfConflict>>
          /\ authors' = Append(authors, "editor")
        BY <1>5 DEF EditorSaves
    <2>2. \A b : FreshIn(authors, b) => FreshIn(authors', b)
        BY <1>0, <2>1, FreshAfterEdit DEF TypeOK
    <2> QED BY <2>1, <2>2 DEF FreshInv, Fresh, Waiting, NoPending, Pending
<1>6. CASE UNCHANGED vars
    BY <1>6 DEF vars, FreshInv, Fresh, Waiting, NoPending, Pending
<1>7. ~ResolveApproval /\ ~RestartApi
    BY <1>0 DEF Undisturbed, ResolveApproval, OrderlyUse, RestartApi
<1> QED BY <1>1, <1>2, <1>3, <1>4, <1>5, <1>6, <1>7 DEF Next

LEMMA FreshInvAlways == ASSUME OrderlyUse PROVE Spec => []FreshInv
<1>1. /\ TurnTypes /\ TurnTypes' /\ LandInv /\ CallInv /\ OrderInv /\ OrderInv' /\ FreshInv
      /\ [Next]_vars
      => FreshInv'
    BY FreshInvStep
<1> QED BY <1>1, FreshInvInit, OrderInvAlways, TypesAlways, LandInvAlways, CallInvAlways, PTL
    DEF Spec

(* A turn or a close under orderly use is refused over the revision of     *)
(* a queued edit only when the editor has saved since, never because of an *)
(* edit the session itself has applied ("rather than overwriting newer     *)
(* editor work", apply_pending_session_patch).                             *)
THEOREM RefusalsAreEditors ==
    ASSUME OrderlyUse PROVE Spec => []RefusalIsEditors
<1>1. FreshInv => RefusalIsEditors
    BY DEF FreshInv, RefusalIsEditors
<1> QED BY <1>1, FreshInvAlways, PTL
=============================================================================
