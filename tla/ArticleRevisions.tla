-------------------------- MODULE ArticleRevisions --------------------------
(***************************************************************************)
(* The revisions of one article (backend/store/article_revisions.py) and   *)
(* the text beside them: save_article_revision writes the body into a file *)
(* and then commits the row of the article and a new revision, all under   *)
(* the workspace lock (backend/store/locking.py); the article endpoint     *)
(* (backend/routers/articles.py) reads the file and the latest revision    *)
(* one after the other and takes no lock.                                  *)
(*                                                                         *)
(* The callers are API requests and jobs of the workers.  A text is the    *)
(* set of the edits it contains: typing adds an edit, and a text that      *)
(* lacks an edit of another has lost it.  A revision's number stands for   *)
(* its identifier.                                                         *)
(***************************************************************************)
EXTENDS Naturals, Sequences

CONSTANTS
    Requests,      (* API requests in flight at the same time                *)
    Writers,       (* jobs of the workers that save the article              *)
    Nobody,        (* no holder of the workspace lock                        *)
    Risks,         (* what may happen at a bad moment, see Risk              *)
    MaxEdits,      (* bound: edits ever made, after the pending patch's      *)
    MaxRevisions   (* bound: revisions of the article                        *)

(* racing_load: the article is loaded while it is being saved, or while    *)
(* the network returns; torn_save: a process dies inside a save; and what  *)
(* an editor may do: slow_save: the next save is due before the last one   *)
(* is answered; hasty: the user does not wait for saves and responses;     *)
(* trusting: the user keeps a draft that the editor does not show.         *)
Risk == {"racing_load", "torn_save", "slow_save", "hasty", "trusting"}

ASSUME RevisionsAssumption ==
    /\ Nobody \notin Requests \cup Writers
    /\ Requests \cap Writers = {}
    /\ Risks \subseteq Risk
    /\ {MaxEdits, MaxRevisions} \subseteq Nat

VARIABLES
    revisions,   (* article_revisions, in the order of their numbers         *)
    body,        (* the text in the article's body file                      *)
    lock,        (* who holds the workspace lock                             *)
    patch,       (* TRUE: the pending patch of revision 1 is accepted        *)
    calls        (* what each request or job is doing in the store           *)

store == <<revisions, body, lock, patch>>

-----------------------------------------------------------------------------

Callers == Requests \cup Writers

(* Edit 0 is the one a pending patch would make to the first revision.     *)
Edits == 0..MaxEdits
Text == SUBSET Edits

(* A revision, the base its writer named (0: none) and the edits of the    *)
(* base that its writer had seen and chose to replace.                     *)
Revision == [text: Text, expected: Nat, waived: Text]

Ops == {"none", "load", "save", "checkpoint", "apply"}
CallSteps == {"idle", "sent", "reading", "checking", "writing", "marking", "answered"}
Answers == {"none", "ok", "conflict", "error"}

Call == [op: Ops, pc: CallSteps, text: Text, expected: Nat, waived: Text,
         force: BOOLEAN, answer: Answers, rev: Nat]
IdleCall == [op |-> "none", pc |-> "idle", text |-> {}, expected |-> 0,
             waived |-> {}, force |-> FALSE, answer |-> "none", rev |-> 0]

Latest == Len(revisions)

(* The article exists with its initial revision and a patch made for it.   *)
StoreInit ==
    /\ revisions = <<[text |-> {}, expected |-> 0, waived |-> {}]>>
    /\ body = {}
    /\ lock = Nobody
    /\ patch = FALSE
    /\ calls = [c \in Callers |-> IdleCall]

(* A call that has arrived.                                                *)
Load == [IdleCall EXCEPT !.op = "load", !.pc = "sent"]
Save(text, expected, waived) ==
    [IdleCall EXCEPT !.op = "save", !.pc = "checking", !.text = text,
                     !.expected = expected, !.waived = waived]
Restore(n, expected) ==
    [Save(revisions[n].text, expected, Edits) EXCEPT !.force = TRUE]
Checkpoint(expected) ==
    [IdleCall EXCEPT !.op = "checkpoint", !.pc = "sent", !.expected = expected,
                     !.force = TRUE]
Apply == [IdleCall EXCEPT !.op = "apply", !.pc = "sent"]

Reply(call, answer, rev) ==
    [call EXCEPT !.pc = "answered", !.answer = answer, !.rev = rev]

Answer(c, answer, rev) ==
    calls' = [calls EXCEPT ![c] = Reply(calls[c], answer, rev)]

-----------------------------------------------------------------------------

(* Without racing loads, a load waits for a save under way, and a save for *)
(* the load.                                                               *)
ReadBody(c) ==
    /\ calls[c].pc = "sent"
    /\ calls[c].op \in {"load", "checkpoint"}
    /\ calls[c].op = "load" => "racing_load" \in Risks \/ lock = Nobody
    /\ calls' = [calls EXCEPT ![c].text = body,
                              ![c].pc = IF calls[c].op = "load" THEN "reading" ELSE "checking"]
    /\ UNCHANGED store

(* ... and get_current_article_revision answers with the head.             *)
ReadHead(c) ==
    /\ calls[c].pc = "reading"
    /\ Answer(c, "ok", Latest)
    /\ UNCHANGED store

(* apply_patch compares the patch's base with the head and edits its text. *)
ReadPatch(c) ==
    /\ calls[c].pc = "sent"
    /\ calls[c].op = "apply"
    /\ CASE patch -> Answer(c, "ok", Latest)
         [] ~patch /\ Latest # 1 -> Answer(c, "conflict", Latest)
         [] ~patch /\ Latest = 1 ->
              calls' = [calls EXCEPT ![c].text = revisions[1].text \cup {0},
                                     ![c].expected = 1, ![c].pc = "checking"]
    /\ UNCHANGED store

-----------------------------------------------------------------------------
(* save_article_revision, under the workspace lock.                        *)

Conflicts(c) == calls[c].expected \notin {0, Latest}
Unchanged(c) == ~calls[c].force /\ calls[c].text = revisions[Latest].text

(* Seeded fault: the revisions are compared outside the workspace lock.    *)
EntersUnlocked(c) == calls[c].pc = "checking"

EntersSave(c) ==
    /\ calls[c].pc = "checking"
    /\ lock = Nobody
    /\ "racing_load" \in Risks \/ \A d \in Callers : calls[d].pc # "reading"

RefuseSave(c) ==
    /\ EntersSave(c)
    /\ Conflicts(c)
    /\ Answer(c, "conflict", Latest)
    /\ UNCHANGED store

(* What follows the save: apply_patch goes on to mark its patch.           *)
Saved(c, rev) ==
    calls' = [calls EXCEPT ![c] = IF calls[c].op = "apply"
                                  THEN [calls[c] EXCEPT !.pc = "marking"]
                                  ELSE Reply(calls[c], "ok", rev)]

SkipSave(c) ==
    /\ EntersSave(c)
    /\ ~Conflicts(c)
    /\ Unchanged(c)
    /\ Saved(c, Latest)
    /\ UNCHANGED store

(* _write_body replaces the file in place.                                 *)
WriteBody(c) ==
    /\ EntersSave(c)
    /\ ~Conflicts(c)
    /\ ~Unchanged(c)
    /\ Latest < MaxRevisions
    /\ lock' = c
    /\ body' = calls[c].text
    /\ calls' = [calls EXCEPT ![c].pc = "writing"]
    /\ UNCHANGED <<revisions, patch>>

CommitRevision(c) ==
    /\ calls[c].pc = "writing"
    /\ revisions' = Append(revisions, [text |-> calls[c].text,
                                       expected |-> calls[c].expected,
                                       waived |-> calls[c].waived])
    /\ lock' = Nobody
    /\ Saved(c, Latest + 1)
    /\ UNCHANGED <<body, patch>>

(* set_patch_state, in a transaction of its own.                           *)
MarkAccepted(c) ==
    /\ calls[c].pc = "marking"
    /\ patch' = TRUE
    /\ Answer(c, "ok", Latest)
    /\ UNCHANGED <<revisions, body, lock>>

StoreStep(c) ==
    \/ ReadBody(c) \/ ReadHead(c) \/ ReadPatch(c)
    \/ RefuseSave(c) \/ SkipSave(c) \/ WriteBody(c) \/ CommitRevision(c)
    \/ MarkAccepted(c)

(* The process of the callers dies: its transactions roll back, its lock   *)
(* is released by the system, the file stays as it was written.            *)
Dying(dead) ==
    /\ "torn_save" \in Risks \/ lock \notin dead
    /\ lock' = IF lock \in dead THEN Nobody ELSE lock
    /\ calls' = [c \in Callers |->
                    IF c \in dead /\ calls[c].pc \notin {"idle", "answered"}
                    THEN Reply(calls[c], "error", 0) ELSE calls[c]]
    /\ UNCHANGED <<revisions, body, patch>>
=============================================================================
