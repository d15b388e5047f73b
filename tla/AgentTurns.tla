----------------------------- MODULE AgentTurns -----------------------------
(***************************************************************************)
(* One agent session of BlogHub and the chat turns it takes: the durable   *)
(* session (backend/store/agent_sessions.py), the API that accepts turns,  *)
(* closes, cancels and resumes it (backend/routers/agent_sessions.py), the *)
(* chat_turn jobs and the workers that run them                            *)
(* (backend/workers/handlers.py, backend/services/agent_chat.py), and the  *)
(* article edits a turn leaves behind: patches bound to the revision they  *)
(* were written for (backend/services/article_patches.py).                 *)
(*                                                                         *)
(* Every store call commits on its own, so a request and a turn are        *)
(* sequences of steps between which anybody else may act.  Reads that      *)
(* follow each other are one step.  The jobs are the durable queue of      *)
(* DurableJobs with punctual heartbeats, reduced to what a turn sees of    *)
(* it: a job is claimed, run, taken back from a dead worker, canceled and  *)
(* retried.  The article is the list of the authors of its revisions.      *)
(***************************************************************************)
EXTENDS Naturals, Sequences, FiniteSets

CONSTANTS
    Workers,       (* worker processes                                      *)
    Clients,       (* API requests in flight at the same time               *)
    Operations,    (* what may happen in this instance: requests and faults *)
    Spaced,        (* TRUE: no two requests, and no request and a turn that *)
                   (* comes to rest, meet half-way                          *)
    Codex,         (* TRUE: the provider is Codex, which reports its read   *)
    MaxAttempts,   (* attempts of a chat_turn job (3 in the code)           *)
    MaxTurns,      (* bound: turns of the session                           *)
    MaxEdits,      (* bound: revisions saved by the editor                  *)
    MaxApprovals,  (* bound: approvals requested                            *)
    MaxCrashes,    (* bound: worker crashes                                 *)
    MaxRetries,    (* bound: explicit retries of jobs                       *)
    Nobody         (* no worker                                             *)

AllOperations ==
    {"turn", "close", "accept", "reject", "resume", "cancel", "archive", "edit",
     "cancel_job", "retry_job", "approval", "provider_error", "timeout",
     "worker_crash", "api_restart", "expiry"}

ASSUME AgentTurnsAssumption ==
    /\ Operations \subseteq AllOperations
    /\ {Codex, Spaced} \subseteq BOOLEAN
    /\ MaxAttempts \in Nat \ {0}
    /\ {MaxTurns, MaxEdits, MaxApprovals, MaxCrashes, MaxRetries} \subseteq Nat
    /\ Nobody \notin Workers

VARIABLES
    status,       (* agent_sessions.status                                  *)
    archived,     (* agent_sessions.archived_at is set                      *)
    turnOpen,     (* the last turn event is a turn_started                  *)
    tool,         (* the row of Codex's article read in agent_tool_calls    *)
    approvals,    (* agent_approvals: how many were asked, how many pend    *)
    authors,      (* who wrote each revision of the article                 *)
    patches,      (* article_patches with their base and their output link  *)
    jobs,         (* the chat_turn jobs of the session                      *)
    process,      (* the runner's _chat_processes entry for the session     *)
    worker,       (* what each worker is doing                              *)
    client,       (* what each API request is doing                         *)
    calls,        (* history: times a turn was sent to the provider         *)
    landings,     (* history: patches saved, with the revision they met     *)
    selfConflict, (* history: a request was refused without an editor's fault *)
    crashes,      (* history: workers that died                             *)
    retried       (* history: explicit retries of a job                     *)

session == <<status, archived, turnOpen, tool, approvals>>
article == <<authors, patches>>
history == <<calls, landings, selfConflict, crashes, retried>>
vars == <<session, article, jobs, process, worker, client, history>>

Turns == 1..MaxTurns

-----------------------------------------------------------------------------

Active == {"running", "waiting_for_input", "waiting_for_approval", "waiting_for_resume"}
Terminal == {"completed", "failed", "canceled", "expired"}
Resumable == {"waiting_for_input", "waiting_for_resume", "failed"}
ToolStatus == {"none", "running", "completed", "interrupted"}
JobStatus == {"absent", "queued", "running", "completed", "failed", "canceled"}

Job == [status: JobStatus, attempts: Nat, limit: Nat, base: Nat, cancel: BOOLEAN]
AbsentJob == [status |-> "absent", attempts |-> 0, limit |-> MaxAttempts,
              base |-> 0, cancel |-> FALSE]

Patch == [base: Nat, state: {"pending", "accepted", "rejected"}, linked: BOOLEAN]

(* The steps of run_turn, of its except clause, and of run_once after it.  *)
Streaming == {"announcing", "reading", "streaming", "asking"}
Reporting == {"patching", "linking", "answering", "finishing"}
WorkerSteps == {"idle", "starting"} \cup Streaming \cup Reporting \cup
               {"checking", "idling", "erred", "failing",
                "returning", "settling", "marking"}
Verdicts == {"none", "completed", "permanent", "canceled", "timedout", "failed"}

WorkerState == [pc: WorkerSteps, turn: 0..MaxTurns, patch: Nat,
                killed: BOOLEAN, verdict: Verdicts]
IdleWorker == [pc |-> "idle", turn |-> 0, patch |-> 0,
               killed |-> FALSE, verdict |-> "none"]

ClientSteps == {"idle", "patch", "saving", "accepting", "boundary", "resuming",
                "starting", "queueing", "closing", "cancel_read", "canceling",
                "archiving"}
Requests == {"none", "turn", "close", "accept", "resume", "cancel", "archive"}

ClientState == [pc: ClientSteps, kind: Requests, seen: Active \cup Terminal,
                base: Nat, patch: Nat]
IdleClient == [pc |-> "idle", kind |-> "none", seen |-> "running",
               base |-> 0, patch |-> 0]

(* A session is created running, without a turn, on an imported article.   *)
Init ==
    /\ status = "running"
    /\ archived = FALSE
    /\ turnOpen = FALSE
    /\ tool = "none"
    /\ approvals = [asked |-> 0, pending |-> 0]
    /\ authors = <<"editor">>
    /\ patches = <<>>
    /\ jobs = [t \in Turns |-> AbsentJob]
    /\ process = Nobody
    /\ worker = [w \in Workers |-> IdleWorker]
    /\ client = [c \in Clients |-> IdleClient]
    /\ calls = [t \in Turns |-> 0]
    /\ landings = <<>>
    /\ selfConflict = FALSE
    /\ crashes = 0
    /\ retried = [t \in Turns |-> 0]

Current == Len(authors)

-----------------------------------------------------------------------------
(* A chat_turn job on a worker: claim_job, then run_turn.                  *)

Step(w, pc) == worker' = [worker EXCEPT ![w].pc = pc]

ClaimTurn(w, t) ==
    /\ worker[w].pc = "idle"
    /\ jobs[t].status = "queued"
    /\ jobs[t].attempts < jobs[t].limit
    /\ jobs' = [jobs EXCEPT ![t].status = "running", ![t].attempts = @ + 1]
    /\ worker' = [worker EXCEPT ![w] = [IdleWorker EXCEPT !.pc = "starting", !.turn = t]]
    /\ UNCHANGED <<session, article, process, client, history>>

(* run_turn reads the session and sends the conversation to the provider,  *)
(* whatever the status it read.                                            *)
StreamChat(w) ==
    /\ worker[w].pc = "starting"
    /\ calls' = [calls EXCEPT ![worker[w].turn] = @ + 1]
    /\ process' = w
    /\ Step(w, IF Codex THEN "announcing" ELSE "streaming")
    /\ UNCHANGED <<session, article, jobs, client, landings, selfConflict, crashes, retried>>

(* The runner removes the session's entry from its table, whoever's it is, *)
(* when the stream is over or abandoned.                                   *)
Unregister == process' = Nobody

(* tool_started: record_agent_tool_call finds the row of an earlier turn,  *)
(* whose id is the same, and claim_agent_tool_call takes a pending one.    *)
RecordToolCall(w) ==
    /\ worker[w].pc = "announcing"
    /\ tool' = IF tool = "none" THEN "running" ELSE tool
    /\ Step(w, "reading")
    /\ UNCHANGED <<status, archived, turnOpen, approvals, article, jobs, process, client, history>>

(* tool_completed: complete_agent_tool_call raises for a call that is      *)
(* neither pending nor running.                                            *)
CompleteToolCall(w) ==
    /\ worker[w].pc = "reading"
    /\ \/ /\ tool = "running"
          /\ tool' = "completed"
          /\ Step(w, "streaming")
          /\ UNCHANGED process
       \/ /\ tool # "running"
          /\ Step(w, "erred")
          /\ Unregister
          /\ UNCHANGED tool
    /\ UNCHANGED <<status, archived, turnOpen, approvals, article, jobs, client, history>>

(* The provider fails, never answers, or its process was terminated.       *)
StreamFails(w) ==
    /\ worker[w].pc = "streaming"
    /\ worker[w].killed \/ "provider_error" \in Operations
    /\ Step(w, "erred")
    /\ Unregister
    /\ UNCHANGED <<session, article, jobs, client, history>>

(* request_agent_approval refuses a terminal session, and then writes.     *)
CheckApproval(w) ==
    /\ worker[w].pc = "streaming"
    /\ ~worker[w].killed
    /\ "approval" \in Operations
    /\ approvals.asked < MaxApprovals
    /\ \/ status \notin Terminal /\ Step(w, "asking") /\ UNCHANGED process
       \/ status \in Terminal /\ Step(w, "erred") /\ Unregister
    /\ UNCHANGED <<session, article, jobs, client, history>>

RequestApproval(w) ==
    /\ worker[w].pc = "asking"
    /\ approvals' = [asked |-> approvals.asked + 1, pending |-> approvals.pending + 1]
    /\ status' = "waiting_for_approval"
    /\ Step(w, "streaming")
    /\ UNCHANGED <<archived, turnOpen, tool, article, jobs, process, client, history>>

(* The stream ends with an edited article, with a reply only, or with      *)
(* nothing.                                                                *)
StreamEnds(w) ==
    /\ worker[w].pc = "streaming"
    /\ ~worker[w].killed
    /\ \E next \in {"patching", "answering", "finishing"} : Step(w, next)
    /\ Unregister
    /\ UNCHANGED <<session, article, jobs, client, history>>

AddPatch(w) ==
    /\ worker[w].pc = "patching"
    /\ patches' = Append(patches, [base |-> jobs[worker[w].turn].base,
                                   state |-> "pending", linked |-> FALSE])
    /\ worker' = [worker EXCEPT ![w].pc = "linking", ![w].patch = Len(patches) + 1]
    /\ UNCHANGED <<session, authors, jobs, process, client, history>>

(* add_agent_output makes it the session's patch.                          *)
AddOutput(w) ==
    /\ worker[w].pc = "linking"
    /\ patches' = [patches EXCEPT ![worker[w].patch].linked = TRUE]
    /\ Step(w, "answering")
    /\ UNCHANGED <<session, authors, jobs, process, client, history>>

(* The assistant's message is stored.                                      *)
AddReply(w) ==
    /\ worker[w].pc = "answering"
    /\ Step(w, "finishing")
    /\ UNCHANGED <<session, article, jobs, process, client, history>>

(* Seeded fault: no turn_completed event.                                  *)
TurnStaysOpen(w) ==
    /\ worker[w].pc = "finishing"
    /\ Step(w, "checking")
    /\ UNCHANGED <<session, article, jobs, process, client, history>>

TurnCompleted(w) ==
    /\ worker[w].pc = "finishing"
    /\ turnOpen' = FALSE
    /\ Step(w, "checking")
    /\ UNCHANGED <<status, archived, tool, approvals, article, jobs, process, client, history>>

CheckRunning(w) ==
    /\ worker[w].pc = "checking"
    /\ Step(w, IF status = "running" THEN "idling" ELSE "returning")
    /\ UNCHANGED <<session, article, jobs, process, client, history>>

WaitForInput(w) ==
    /\ worker[w].pc = "idling"
    /\ status' = "waiting_for_input"
    /\ Step(w, "returning")
    /\ UNCHANGED <<archived, turnOpen, tool, approvals, article, jobs, process, client, history>>

(* Seeded fault: an exception is swallowed.                                *)
FailureIsSilent(w) ==
    /\ worker[w].pc = "erred"
    /\ Step(w, "returning")
    /\ UNCHANGED <<session, article, jobs, process, client, history>>

(* The except clause: it leaves the turn open.                             *)
CheckFailure(w) ==
    /\ worker[w].pc = "erred"
    /\ Step(w, IF status \in {"canceled", "waiting_for_approval"} THEN "returning" ELSE "failing")
    /\ UNCHANGED <<session, article, jobs, process, client, history>>

FailSession(w) ==
    /\ worker[w].pc = "failing"
    /\ status' = "failed"
    /\ Step(w, "returning")
    /\ UNCHANGED <<archived, turnOpen, tool, approvals, article, jobs, process, client, history>>

-----------------------------------------------------------------------------
(* The job after run_turn: handle_chat_turn, run_once, fail_job.           *)

(* A failed session makes the job fail for good; otherwise the checkpoint  *)
(* meets a cancellation or the deadline.                                   *)
TurnVerdict(t) ==
    IF status = "failed" THEN {"permanent"}
    ELSE IF jobs[t].cancel THEN {"canceled"}
    ELSE {"completed"} \cup (IF "timeout" \in Operations THEN {"timedout"} ELSE {})

TurnReturns(w) ==
    /\ worker[w].pc = "returning"
    /\ \E verdict \in TurnVerdict(worker[w].turn) :
          worker' = [worker EXCEPT ![w].pc = "settling", ![w].verdict = verdict]
    /\ UNCHANGED <<session, article, jobs, process, client, history>>

SettledStatus(job, verdict) ==
    CASE verdict = "completed" -> "completed"
      [] verdict # "completed" /\ job.cancel -> "canceled"
      [] verdict = "timedout" /\ ~job.cancel /\ job.attempts < job.limit -> "queued"
      [] verdict # "completed" /\ ~job.cancel /\
         (verdict = "timedout" => job.attempts >= job.limit) -> "failed"

(* Seeded fault: the session is marked with the verdict, not the outcome.  *)
MarkWithVerdict(w) ==
    LET t == worker[w].turn
        outcome == SettledStatus(jobs[t], worker[w].verdict) IN
    /\ worker[w].pc = "settling"
    /\ jobs' = [jobs EXCEPT ![t].status = outcome]
    /\ worker' = [worker EXCEPT ![w] =
                    IF outcome \in {"failed", "canceled"}
                    THEN [@ EXCEPT !.pc = "marking"] ELSE IdleWorker]
    /\ UNCHANGED <<session, article, process, client, history>>

(* complete_job or fail_job; run_once goes on to mark the session when the *)
(* job did not complete and will not run again.                            *)
SettleJob(w) ==
    LET t == worker[w].turn
        outcome == SettledStatus(jobs[t], worker[w].verdict) IN
    /\ worker[w].pc = "settling"
    /\ jobs' = [jobs EXCEPT ![t].status = outcome]
    /\ worker' = [worker EXCEPT ![w] =
                    IF outcome \in {"failed", "canceled"}
                    THEN [@ EXCEPT !.pc = "marking", !.verdict = outcome]
                    ELSE IdleWorker]
    /\ UNCHANGED <<session, article, process, client, history>>

MarkSessionTerminal(w) ==
    /\ worker[w].pc = "marking"
    /\ status' = worker[w].verdict
    /\ worker' = [worker EXCEPT ![w] = IdleWorker]
    /\ UNCHANGED <<archived, turnOpen, tool, approvals, article, jobs, process, client, history>>

(* A worker dies and is started again; the runner drops its stream.        *)
WorkerCrashes(w) ==
    /\ "worker_crash" \in Operations
    /\ crashes < MaxCrashes
    /\ worker[w].pc # "idle"
    /\ worker' = [worker EXCEPT ![w] = IdleWorker]
    /\ process' = IF process = w THEN Nobody ELSE process
    /\ crashes' = crashes + 1
    /\ UNCHANGED <<session, article, jobs, client, calls, landings, selfConflict, retried>>

Held(t) == \E w \in Workers : worker[w].turn = t /\ worker[w].pc # "marking"

(* The lease of a dead worker runs out.  Recovery tells the session        *)
(* nothing.                                                                *)
RecoverJob(t) ==
    /\ jobs[t].status = "running"
    /\ ~Held(t)
    /\ jobs' = [jobs EXCEPT ![t].status =
                  CASE jobs[t].cancel -> "canceled"
                    [] ~jobs[t].cancel /\ jobs[t].attempts >= jobs[t].limit -> "failed"
                    [] ~jobs[t].cancel /\ jobs[t].attempts < jobs[t].limit -> "queued"]
    /\ UNCHANGED <<session, article, process, worker, client, history>>

-----------------------------------------------------------------------------
(* Requests that read and write in several steps.                          *)

Request(c, pc) == client' = [client EXCEPT ![c].pc = pc]
Respond(c) == client' = [client EXCEPT ![c] = IdleClient]

Arrive(c, kind, pc) ==
    /\ client[c].pc = "idle"
    /\ kind \in Operations
    /\ client' = [client EXCEPT ![c] = [IdleClient EXCEPT
                     !.pc = pc, !.kind = kind, !.seen = status, !.base = Current]]

TurnInProgress == status = "running" /\ turnOpen

(* Bound: every request that gets through creates one job.                 *)
TurnsLeft ==
    Cardinality({t \in Turns : jobs[t].status = "absent"}) >
        Cardinality({c \in Clients : client[c].kind = "turn"})

(* Seeded fault: nobody asks whether a turn is running.                    *)
ReadSessionUnguarded(c) ==
    /\ \/ TurnsLeft /\ Arrive(c, "turn", "patch")
       \/ Arrive(c, "close", "patch")
    /\ UNCHANGED <<session, article, jobs, process, worker, history>>

(* run_chat_turn and close_session read the session, refuse while a turn   *)
(* is running, and refuse a request that does not name the head.           *)
ReadSession(c) ==
    /\ ~TurnInProgress
    /\ \/ TurnsLeft /\ Arrive(c, "turn", "patch")
       \/ Arrive(c, "close", "patch")
    /\ UNCHANGED <<session, article, jobs, process, worker, history>>

Queued == {p \in DOMAIN patches : patches[p].linked /\ patches[p].state = "pending"}

Newest(S) == CHOOSE p \in S : \A q \in S : q <= p

(* Everything the editor has not written since revision r.                 *)
OnlyAgentsSince(r) == \A n \in (r + 1)..Current : authors[n] = "agent"

Refuse(c, base) ==
    /\ Respond(c)
    /\ selfConflict' = (selfConflict \/ OnlyAgentsSince(base))
    /\ UNCHANGED <<calls, landings, crashes, retried>>

AcceptStalePatch(c) ==
    /\ client[c].pc = "patch"
    /\ client' = IF Queued = {} THEN [client EXCEPT ![c].pc = "boundary"]
                 ELSE [client EXCEPT
                         ![c].pc = IF patches[Newest(Queued)].base = Current
                                   THEN "saving" ELSE "accepting",
                         ![c].patch = Newest(Queued), ![c].base = Current]
    /\ UNCHANGED <<session, article, jobs, process, worker, history>>

(* apply_pending_session_patch and apply_patch up to the revision check.   *)
ReadPatch(c) ==
    /\ client[c].pc = "patch"
    /\ \/ /\ Queued = {}
          /\ Request(c, "boundary")
          /\ UNCHANGED history
       \/ /\ Queued # {}
          /\ patches[Newest(Queued)].base = Current
          /\ client' = [client EXCEPT ![c].pc = "saving", ![c].patch = Newest(Queued),
                                      ![c].base = Current]
          /\ UNCHANGED history
       \/ /\ Queued # {}
          /\ patches[Newest(Queued)].base # Current
          /\ Refuse(c, patches[Newest(Queued)].base)
    /\ UNCHANGED <<session, article, jobs, process, worker>>

(* The accept endpoint refuses a patch that some session has as an output. *)
ReadUnlinkedPatch(c) ==
    /\ client[c].pc = "idle"
    /\ "accept" \in Operations
    /\ \E p \in DOMAIN patches :
          /\ ~patches[p].linked
          /\ patches[p].state = "pending"
          /\ patches[p].base = Current
          /\ client' = [client EXCEPT ![c] = [IdleClient EXCEPT
                           !.pc = "saving", !.kind = "accept", !.base = Current, !.patch = p]]
    /\ UNCHANGED <<session, article, jobs, process, worker, history>>

(* Seeded fault: the save does not name the revision it expects.           *)
SaveOntoAnything(c) ==
    /\ client[c].pc = "saving"
    /\ authors' = Append(authors, "agent")
    /\ landings' = Append(landings, [patch |-> client[c].patch, onto |-> Current])
    /\ client' = [client EXCEPT ![c].pc = "accepting", ![c].base = Current + 1]
    /\ UNCHANGED <<calls, selfConflict, crashes, retried>>
    /\ UNCHANGED <<session, patches, jobs, process, worker>>

(* save_article_revision compares the head again, under the lock.          *)
SavePatch(c) ==
    /\ client[c].pc = "saving"
    /\ \/ /\ client[c].base = Current
          /\ authors' = Append(authors, "agent")
          /\ landings' = Append(landings, [patch |-> client[c].patch, onto |-> Current])
          /\ client' = [client EXCEPT ![c].pc = "accepting", ![c].base = Current + 1]
          /\ UNCHANGED <<calls, selfConflict, crashes, retried>>
       \/ /\ client[c].base # Current
          /\ Refuse(c, client[c].base)
          /\ UNCHANGED authors
    /\ UNCHANGED <<session, patches, jobs, process, worker>>

(* Seeded fault: the saved patch stays pending.                            *)
SavedStaysPending(c) ==
    /\ client[c].pc = "accepting"
    /\ IF client[c].kind = "accept" THEN Respond(c) ELSE Request(c, "boundary")
    /\ UNCHANGED <<session, article, jobs, process, worker, history>>

AcceptPatch(c) ==
    /\ client[c].pc = "accepting"
    /\ patches' = [patches EXCEPT ![client[c].patch].state = "accepted"]
    /\ IF client[c].kind = "accept" THEN Respond(c) ELSE Request(c, "boundary")
    /\ UNCHANGED <<session, authors, jobs, process, worker, history>>

(* resume_agent_session refuses, with an error of its own, what it finds   *)
(* archived or not waiting.                                                *)
MayResume == ~archived /\ status \in Resumable

(* Past the patch, the request acts on the status it read at the start.    *)
PassBoundary(c) ==
    /\ client[c].pc = "boundary"
    /\ \/ /\ client[c].kind = "turn"
          /\ client[c].seen \in Resumable
          /\ IF MayResume THEN Request(c, "resuming") ELSE Respond(c)
       \/ client[c].kind = "turn" /\ client[c].seen = "running" /\ Request(c, "starting")
       \/ /\ client[c].kind = "turn"
          /\ client[c].seen \notin Resumable \cup {"running"}
          /\ Respond(c)
       \/ /\ client[c].kind = "close"
          /\ IF client[c].seen \in {"completed", "canceled", "expired"}
             THEN Respond(c) ELSE Request(c, "closing")
    /\ UNCHANGED <<session, article, jobs, process, worker, history>>

CheckResume(c) ==
    /\ MayResume
    /\ Arrive(c, "resume", "resuming")
    /\ UNCHANGED <<session, article, jobs, process, worker, history>>

ResumeSession(c) ==
    /\ client[c].pc = "resuming"
    /\ status' = "running"
    /\ IF client[c].kind = "turn" THEN Request(c, "starting") ELSE Respond(c)
    /\ UNCHANGED <<archived, turnOpen, tool, approvals, article, jobs, process, worker, history>>

(* The user's message and the turn_started event.                          *)
StartTurn(c) ==
    /\ client[c].pc = "starting"
    /\ turnOpen' = TRUE
    /\ Request(c, "queueing")
    /\ UNCHANGED <<status, archived, tool, approvals, article, jobs, process, worker, history>>

CreateJob(c) ==
    /\ client[c].pc = "queueing"
    /\ \E t \in Turns :
          /\ jobs[t].status = "absent"
          /\ \A s \in 1..(t - 1) : jobs[s].status # "absent"
          /\ jobs' = [jobs EXCEPT ![t].status = "queued", ![t].base = client[c].base]
    /\ Respond(c)
    /\ UNCHANGED <<session, article, process, worker, history>>

CloseSession(c) ==
    /\ client[c].pc = "closing"
    /\ status' = "completed"
    /\ Respond(c)
    /\ UNCHANGED <<archived, turnOpen, tool, approvals, article, jobs, process, worker, history>>

(* cancel_session first terminates the process the runner has registered,  *)
CancelChat(c) ==
    /\ Arrive(c, "cancel", "cancel_read")
    /\ worker' = IF process = Nobody THEN worker
                 ELSE [worker EXCEPT ![process].killed = TRUE]
    /\ UNCHANGED <<session, article, jobs, process, history>>

(* and then reads and writes the session; its job is not touched.          *)
CheckCancel(c) ==
    /\ client[c].pc = "cancel_read"
    /\ IF status \in Terminal THEN Respond(c) ELSE Request(c, "canceling")
    /\ UNCHANGED <<session, article, jobs, process, worker, history>>

CancelSession(c) ==
    /\ client[c].pc = "canceling"
    /\ status' = "canceled"
    /\ Respond(c)
    /\ UNCHANGED <<archived, turnOpen, tool, approvals, article, jobs, process, worker, history>>

CheckArchive(c) ==
    /\ status \notin Active
    /\ ~archived
    /\ Arrive(c, "archive", "archiving")
    /\ UNCHANGED <<session, article, jobs, process, worker, history>>

ArchiveSession(c) ==
    /\ client[c].pc = "archiving"
    /\ archived' = TRUE
    /\ Respond(c)
    /\ UNCHANGED <<status, turnOpen, tool, approvals, article, jobs, process, worker, history>>

-----------------------------------------------------------------------------
(* Requests that are one transaction, and restarts.                        *)

(* An editor's save names the head it was made from.                       *)
EditorSaves ==
    /\ "edit" \in Operations
    /\ Cardinality({n \in DOMAIN authors : authors[n] = "editor"}) <= MaxEdits
    /\ authors' = Append(authors, "editor")
    /\ UNCHANGED <<session, patches, jobs, process, worker, client, history>>

RejectPatch(p) ==
    /\ "reject" \in Operations
    /\ patches' = [patches EXCEPT ![p].state = "rejected"]
    /\ UNCHANGED <<session, authors, jobs, process, worker, client, history>>

(* resolve_agent_approval: guarded by the approval's status alone.         *)
ResolveApproval ==
    /\ approvals.pending > 0
    /\ approvals' = [approvals EXCEPT !.pending = @ - 1]
    /\ status' = "waiting_for_resume"
    /\ UNCHANGED <<archived, turnOpen, tool, article, jobs, process, worker, client, history>>

CancelJob(t) ==
    /\ "cancel_job" \in Operations
    /\ jobs[t].status \in {"queued", "running"}
    /\ jobs' = [jobs EXCEPT ![t].cancel = TRUE,
                            ![t].status = IF @ = "queued" THEN "canceled" ELSE @]
    /\ UNCHANGED <<session, article, process, worker, client, history>>

RetryJob(t) ==
    /\ "retry_job" \in Operations
    /\ retried[t] < MaxRetries
    /\ jobs[t].status \in {"failed", "canceled"}
    /\ jobs' = [jobs EXCEPT ![t].status = "queued", ![t].cancel = FALSE,
                            ![t].limit = IF jobs[t].attempts >= @
                                         THEN jobs[t].attempts + 1 ELSE @]
    /\ retried' = [retried EXCEPT ![t] = @ + 1]
    /\ UNCHANGED <<session, article, process, worker, client, calls, landings,
                   selfConflict, crashes>>

(* The API stops and starts: its requests are gone, a running session is   *)
(* interrupted and an old one may expire.  The workers go on.              *)
RestartApi ==
    /\ "api_restart" \in Operations
    /\ client' = [c \in Clients |-> IdleClient]
    /\ tool' = IF status = "running" /\ tool = "running" THEN "interrupted" ELSE tool
    /\ \/ status' = IF status = "running" THEN "waiting_for_resume" ELSE status
       \/ "expiry" \in Operations /\ status \in Active /\ status' = "expired"
    /\ UNCHANGED <<archived, turnOpen, approvals, article, jobs, process, worker, history>>

-----------------------------------------------------------------------------

RunTurn(w) ==
    \/ StreamChat(w) \/ RecordToolCall(w) \/ CompleteToolCall(w) \/ StreamFails(w)
    \/ CheckApproval(w) \/ RequestApproval(w) \/ StreamEnds(w)
    \/ AddPatch(w) \/ AddOutput(w) \/ AddReply(w) \/ TurnCompleted(w)
    \/ CheckRunning(w) \/ WaitForInput(w) \/ CheckFailure(w) \/ FailSession(w)
    \/ TurnReturns(w) \/ SettleJob(w) \/ MarkSessionTerminal(w)

(* A request that has been accepted goes on to its response.               *)
Proceed(c) ==
    \/ ReadPatch(c) \/ SavePatch(c) \/ AcceptPatch(c) \/ PassBoundary(c)
    \/ ResumeSession(c) \/ StartTurn(c) \/ CreateJob(c) \/ CloseSession(c)
    \/ CheckCancel(c) \/ CancelSession(c) \/ ArchiveSession(c)

(* A turn has completed, and may still write its waiting_for_input over    *)
(* the status of the next one.                                             *)
Lingering == \E w \in Workers : worker[w].pc \in {"checking", "idling"}

(* Nobody else has read the session and not yet written to it.  A turn is  *)
(* past that point with its turn_started: run_chat_turn's own check has to *)
(* keep the others out from then on.                                       *)
Alone(c) == \A d \in Clients \ {c} : client[d].pc \in {"idle", "queueing"}

Receive(c) ==
    /\ Spaced => Alone(c) /\ ~Lingering
    /\ \/ ReadSession(c) \/ ReadUnlinkedPatch(c) \/ CheckResume(c)
       \/ CancelChat(c) \/ CheckArchive(c)

Next ==
    \/ \E w \in Workers : \/ \E t \in Turns : ClaimTurn(w, t)
                          \/ RunTurn(w)
                          \/ WorkerCrashes(w)
    \/ \E c \in Clients : Receive(c) \/ Proceed(c)
    \/ \E t \in Turns : RecoverJob(t) \/ CancelJob(t) \/ RetryJob(t)
    \/ \E p \in DOMAIN patches : RejectPatch(p)
    \/ EditorSaves
    \/ ResolveApproval
    \/ RestartApi

Spec == Init /\ [][Next]_vars

(* Workers poll and execute, an accepted request is carried through, and   *)
(* the lease of a dead worker runs out.                                    *)
Fairness ==
    /\ \A w \in Workers : /\ WF_vars(RunTurn(w))
                          /\ WF_vars(\E t \in Turns : ClaimTurn(w, t))
    /\ \A c \in Clients : WF_vars(Proceed(c))
    /\ \A t \in Turns : WF_vars(RecoverJob(t))

FairSpec == Spec /\ Fairness
-----------------------------------------------------------------------------
(* Properties.                                                             *)

TypeOK ==
    /\ status \in Active \cup Terminal
    /\ archived \in BOOLEAN
    /\ turnOpen \in BOOLEAN
    /\ tool \in ToolStatus
    /\ approvals \in [asked: Nat, pending: Nat]
    /\ authors \in Seq({"editor", "agent"})
    /\ patches \in Seq(Patch)
    /\ jobs \in [Turns -> Job]
    /\ process \in Workers \cup {Nobody}
    /\ worker \in [Workers -> WorkerState]
    /\ client \in [Clients -> ClientState]
    /\ calls \in [Turns -> Nat]
    /\ landings \in Seq([patch: Nat, onto: Nat])
    /\ selfConflict \in BOOLEAN
    /\ crashes \in Nat
    /\ retried \in [Turns -> Nat]

Talking(w) == worker[w].pc \in Streaming \cup Reporting

(* A patch is saved at most once, and onto the very revision it was        *)
(* written for: no newer work is ever overwritten by a queued edit, however *)
(* many requests, restarts and editors race (apply_patch).                 *)
LandsOnceOnItsBase ==
    /\ \A i \in DOMAIN landings : landings[i].onto = patches[landings[i].patch].base
    /\ \A i, k \in DOMAIN landings : landings[i].patch = landings[k].patch => i = k

(* A patch the user sees as accepted is in the article (apply_patch).      *)
AcceptedHasLanded ==
    \A p \in DOMAIN patches :
        patches[p].state = "accepted" => \E i \in DOMAIN landings : landings[i].patch = p

(* At most one worker carries the conversation with the provider on,       *)
(* though other clients may ask for a turn at any moment but the last of   *)
(* one ("A response is already running", run_chat_turn).                   *)
OneTurnAtATime == \A v, w \in Workers : Talking(v) /\ Talking(w) => v = w

(* A session that refuses further turns because one is running has a job   *)
(* that will end it, or the request that is creating one (run_chat_turn,   *)
(* _turn_in_progress).                                                     *)
NoOrphanTurn ==
    TurnInProgress =>
        \/ \E t \in Turns : jobs[t].status \in {"queued", "running"}
        \/ \E c \in Clients : client[c].pc = "queueing"

(* A turn or a close is refused over the revision of a queued edit only    *)
(* when the editor has saved since ("rather than overwriting newer editor  *)
(* work").                                                                 *)
RefusalIsEditors == ~selfConflict

(* A turn is sent to the provider at most once per attempt of its job,     *)
(* and attempts are bounded by the job's budget and its explicit retries.  *)
CallBudget == \A t \in Turns : calls[t] <= jobs[t].attempts
                              /\ jobs[t].attempts <= MaxAttempts + retried[t]

(* A running job has at most one worker, and a worker inside a turn holds  *)
(* its job (claim_job, recovery).                                          *)
SingleHolder ==
    /\ \A w \in Workers : worker[w].pc \notin {"idle", "marking"}
                              => jobs[worker[w].turn].status = "running"
    /\ \A v, w \in Workers :
          /\ {worker[v].pc, worker[w].pc} \cap {"idle", "marking"} = {}
          /\ worker[v].turn = worker[w].turn
          => v = w

(* A turn under way ends: the session does not refuse turns for ever.      *)
BusyEnds == TurnInProgress ~> ~TurnInProgress
=============================================================================
