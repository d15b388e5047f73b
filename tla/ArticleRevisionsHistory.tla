---------------------- MODULE ArticleRevisionsHistory ----------------------
(***************************************************************************)
(* The store of the revisions implements ArticleHistory: what its requests *)
(* do in several steps, between which others take theirs, looks to every   *)
(* caller as if it had been done at one moment.                            *)
(***************************************************************************)
EXTENDS ArticleRevisions

RevisionTexts == [n \in 1..Latest |-> revisions[n].text]

(* A call that is reading, checking or writing has had no effect yet.      *)
CallState(call) ==
    CASE call.pc = "idle" -> "none"
      [] call.pc = "marking" -> "applied"
      [] call.pc = "answered" -> "answered"
      [] OTHER -> "asked"

(* What a call has read is its own affair until it is answered.            *)
Told(call) == call.pc = "answered" /\ call.answer = "ok" /\ call.op # "apply"

CallOf(call) ==
    [op |-> call.op, state |-> CallState(call),
     text |-> IF call.op = "save" \/ Told(call) THEN call.text ELSE {},
     base |-> IF call.op = "apply" THEN 1 ELSE call.expected,
     force |-> call.force, answer |-> call.answer, number |-> call.rev]

CallsOf == [c \in Callers |-> CallOf(calls[c])]

Promise == INSTANCE ArticleHistory
    WITH Proposal <- {0}, texts <- RevisionTexts, accepted <- patch, calls <- CallsOf

(* Loads, saves, checkpoints, restores and patches of any number of        *)
(* requests and jobs, and the death of their processes, are the atomic     *)
(* steps of ArticleHistory (article_revisions.py, WorkspaceLock).          *)
KeepsHistory == Promise!Spec
=============================================================================
