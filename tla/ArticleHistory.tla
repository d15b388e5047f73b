--------------------------- MODULE ArticleHistory ---------------------------
(***************************************************************************)
(* What the store of the revisions promises to its callers, without files, *)
(* rows, locks or processes (docs/ARTICLE_REVISIONS.md).  An article is    *)
(* the sequence of its texts.  A request takes effect at one moment        *)
(* between its arrival and its answer, or fails: a load sees the newest    *)
(* text and its number; a save adds a text unless the article moved on     *)
(* from the revision it names; a checkpoint adds the newest text again; a  *)
(* patch is made for the first text and is accepted after it was saved.    *)
(***************************************************************************)
EXTENDS Naturals, Sequences

CONSTANTS
    Callers,     (* requests and jobs                                       *)
    Edits,       (* a text is a set of edits                                *)
    Proposal     (* the edits of the patch                                  *)

VARIABLES
    texts,       (* the texts of the article, in the order they were saved  *)
    accepted,    (* TRUE: the patch is accepted                             *)
    calls        (* what each caller asked for, and its answer              *)

vars == <<texts, accepted, calls>>

Saves == {"save", "checkpoint", "apply"}
Call == [op: {"none", "load"} \cup Saves, state: {"none", "asked", "applied", "answered"},
         text: SUBSET Edits, base: Nat, force: BOOLEAN,
         answer: {"none", "ok", "conflict", "error"}, number: Nat]
Idle == [op |-> "none", state |-> "none", text |-> {}, base |-> 0, force |-> FALSE,
         answer |-> "none", number |-> 0]

Init ==
    /\ texts = <<{}>>
    /\ accepted = FALSE
    /\ calls = [c \in Callers |-> Idle]

Latest == Len(texts)
Put(c, call) == calls' = [calls EXCEPT ![c] = call]
Reply(call, answer, number) ==
    [call EXCEPT !.state = "answered", !.answer = answer, !.number = number]
Asked(c, ops) == calls[c].state = "asked" /\ calls[c].op \in ops

(* A request names a revision there is, or none; a checkpoint names one,   *)
(* and so does the patch, the first.                                       *)
Request(call) ==
    /\ call.state = "asked" /\ call.answer = "none" /\ call.number = 0
    /\ call \in Call
    /\ call.op # "none"
    /\ call.base <= Latest
    /\ call.op = "checkpoint" => call.base # 0 /\ call.force
    /\ call.op = "apply" => call.base = 1 /\ ~call.force

Arrive(c) ==
    /\ calls[c].state \in {"none", "answered"}
    /\ Request(calls'[c]) \/ calls'[c] = Reply(Idle, "error", 0)
    /\ Put(c, calls'[c])
    /\ UNCHANGED <<texts, accepted>>

(* The caller has its answer, or nobody waits for one any more.            *)
Forget(c) ==
    /\ calls[c].state \in {"asked", "answered"}
    /\ Put(c, Idle)
    /\ UNCHANGED <<texts, accepted>>

Load(c) ==
    /\ Asked(c, {"load"})
    /\ Put(c, [Reply(calls[c], "ok", Latest) EXCEPT !.text = texts[Latest]])
    /\ UNCHANGED <<texts, accepted>>

Current(c) == calls[c].base \in {0, Latest}
Wanted(c) ==
    CASE calls[c].op = "save" -> calls[c].text
      [] calls[c].op = "checkpoint" -> texts[Latest]
      [] calls[c].op = "apply" -> texts[1] \cup Proposal
Unchanged(c) == ~calls[c].force /\ Wanted(c) = texts[Latest]

(* A patch that was saved has yet to be accepted.                          *)
Done(c, number) ==
    Put(c, IF calls[c].op = "apply" THEN [calls[c] EXCEPT !.state = "applied"]
           ELSE [Reply(calls[c], "ok", number) EXCEPT !.text = Wanted(c)])

Refuse(c) ==
    /\ Asked(c, Saves)
    /\ ~Current(c)
    /\ Put(c, Reply(calls[c], "conflict", Latest))
    /\ UNCHANGED <<texts, accepted>>

Skip(c) ==
    /\ Asked(c, Saves)
    /\ Current(c)
    /\ Unchanged(c)
    /\ Done(c, Latest)
    /\ UNCHANGED <<texts, accepted>>

Commit(c) ==
    /\ Asked(c, Saves)
    /\ Current(c)
    /\ ~Unchanged(c)
    /\ texts' = Append(texts, Wanted(c))
    /\ Done(c, Latest + 1)
    /\ UNCHANGED accepted

Accept(c) ==
    /\ calls[c].state = "applied" \/ (Asked(c, {"apply"}) /\ accepted)
    /\ accepted' = TRUE
    /\ Put(c, Reply(calls[c], "ok", Latest))
    /\ UNCHANGED texts

(* Whatever was asked of a process that dies fails, applied or not.        *)
Fail ==
    /\ UNCHANGED <<texts, accepted>>
    /\ \A c \in Callers :
          \/ calls'[c] = calls[c]
          \/ calls[c].state \in {"asked", "applied"} /\ calls'[c] = Reply(calls[c], "error", 0)
    /\ calls' = [c \in Callers |-> calls'[c]]

Step(c) ==
    \/ Arrive(c) \/ Forget(c)
    \/ Load(c) \/ Refuse(c) \/ Skip(c) \/ Commit(c) \/ Accept(c)

Next ==
    \/ Fail
    \/ \E c \in Callers : Step(c)

Spec == Init /\ [][Next]_vars
=============================================================================
