---------------------------- MODULE DraftProofs ----------------------------
(***************************************************************************)
(* A save that names its base replaces that very revision, for any number  *)
(* of requests, jobs, tabs and browsers and under every risk.  That is not *)
(* inductive: the revision is appended one step after the comparison.  The *)
(* invariant adds that whoever is between the two holds the workspace lock *)
(* and still agrees with the head (Serial), and, for the types, that no    *)
(* request, answer or tab names a revision that does not exist.            *)
(*                                                                         *)
(* Then, under the hypotheses named there: nobody overwrites what he has   *)
(* not seen (KeepInv, and RestInv when the network may be gone), and no    *)
(* edit is lost (LossInv).  All rest on ShownInv: what a tab was shown was *)
(* once saved.                                                             *)
(*                                                                         *)
(* Last, the store implements ArticleHistory: each of its steps, and of    *)
(* the steps of the tabs and jobs that call it, is an atomic step of the   *)
(* abstract specification or a stutter (FitInv, StoreKeepsHistory).        *)
(***************************************************************************)
EXTENDS DraftEditor, ArticleRevisionsHistory, SequenceTheorems, TLAPS

StoreGood ==
    /\ revisions \in Seq(Revision)
    /\ Latest >= 1
    /\ body \in Text
    /\ lock \in Callers \cup {Nobody}
    /\ patch \in BOOLEAN

KnownCall(call) ==
    /\ call \in Call
    /\ call.rev <= Latest
    /\ call.answer = "conflict" => call.rev >= 1
CallsGood == calls \in [Callers -> Call] /\ \A c \in Callers : KnownCall(calls[c])

KnownTab(new) ==
    /\ new \in Tab
    /\ new.base <= Latest
    /\ new.conflict.id <= Latest
TabsGood == tab \in [Tabs -> Tab] /\ \A t \in Tabs : KnownTab(tab[t])

FetchGood == fetch \in [Requests -> Fetch]
DraftsGood == draft \in [Browsers -> Draft]

Counts == [opens: Nat, failures: Nat, generations: Nat]
HistoryGood ==
    /\ online \in BOOLEAN
    /\ typed \in Edits
    /\ mine \in Text
    /\ discarded \in Text
    /\ count \in Counts

(* Between the comparison and the commit nobody else moves the head.       *)
Serial ==
    \A c \in Callers : calls[c].pc = "writing" =>
        lock = c /\ calls[c].expected \in {0, Latest}

DraftInv ==
    /\ StoreGood /\ CallsGood /\ TabsGood /\ FetchGood /\ DraftsGood /\ HistoryGood
    /\ Serial
    /\ SaveReplacesItsBase

(* A call that has just been made, or that is none.                        *)
NewCall(call) == KnownCall(call) /\ call.pc # "writing"

-----------------------------------------------------------------------------
(* The values the actions are built from.                                  *)

LEMMA Empty == {} \in Text /\ Edits \in Text /\ 0 \in Nat
BY DEF Text

LEMMA Idle ==
    /\ IdleCall \in Call /\ NoFetch \in Fetch /\ NoDraft \in Draft
    /\ NoConflict \in Conflict /\ ClosedTab \in Tab
<1>1. IdleCall \in Call
    BY Empty DEF IdleCall, Call, Ops, CallSteps, Answers
<1>2. NoFetch \in Fetch
    BY Empty DEF NoFetch, Fetch, Kinds
<1>3. NoDraft \in Draft
    BY Empty DEF NoDraft, Draft
<1>4. NoConflict \in Conflict
    BY Empty DEF NoConflict, Conflict
<1>5. ClosedTab \in Tab
    BY Empty, <1>4 DEF ClosedTab, Tab, Shown
<1> QED BY <1>1, <1>2, <1>3, <1>4, <1>5

LEMMA LatestIsNat == ASSUME StoreGood PROVE Latest \in Nat /\ 1 <= Latest
BY DEF StoreGood, Latest

LEMMA NoCallIsNew == ASSUME StoreGood PROVE NewCall(IdleCall)
<1>1. IdleCall.rev = 0 /\ IdleCall.answer = "none" /\ IdleCall.pc = "idle"
    BY DEF IdleCall
<1> QED BY <1>1, Idle, LatestIsNat DEF NewCall, KnownCall

LEMMA SentIsNew ==
    ASSUME StoreGood, NEW text \in Text, NEW expected \in Nat, NEW waived \in Text
    PROVE  /\ NewCall(Load)
           /\ NewCall(Save(text, expected, waived))
           /\ NewCall(Checkpoint(expected))
           /\ NewCall(Apply)
<1>1. /\ Load \in Call /\ Load.rev = 0 /\ Load.answer = "none" /\ Load.pc = "sent"
    BY Empty DEF Load, IdleCall, Call, Ops, CallSteps, Answers
<1>2. LET s == Save(text, expected, waived)
      IN  s \in Call /\ s.rev = 0 /\ s.answer = "none" /\ s.pc = "checking"
    BY Empty DEF Save, IdleCall, Call, Ops, CallSteps, Answers
<1>3. LET s == Checkpoint(expected)
      IN  s \in Call /\ s.rev = 0 /\ s.answer = "none" /\ s.pc = "sent"
    BY Empty DEF Checkpoint, IdleCall, Call, Ops, CallSteps, Answers
<1>4. /\ Apply \in Call /\ Apply.rev = 0 /\ Apply.answer = "none" /\ Apply.pc = "sent"
    BY Empty DEF Apply, IdleCall, Call, Ops, CallSteps, Answers
<1> QED BY <1>1, <1>2, <1>3, <1>4, LatestIsNat DEF NewCall, KnownCall

LEMMA RevisionOf ==
    ASSUME StoreGood, NEW n \in 1..Latest
    PROVE  /\ n \in DOMAIN revisions
           /\ revisions[n].text \in Text
           /\ revisions[n].expected \in Nat
<1>1. revisions \in Seq(Revision)
    BY DEF StoreGood
<1>2. n \in DOMAIN revisions
    BY <1>1 DEF Latest
<1>3. revisions[n] \in Revision
    BY <1>1, <1>2
<1> QED BY <1>2, <1>3 DEF Revision

LEMMA RestoreIsNew ==
    ASSUME StoreGood, NEW n \in 1..Latest, NEW expected \in Nat
    PROVE  NewCall(Restore(n, expected))
<1>1. revisions[n].text \in Text
    BY RevisionOf
<1>2. LET s == Restore(n, expected)
      IN  s \in Call /\ s.rev = 0 /\ s.answer = "none" /\ s.pc = "checking"
    BY <1>1, Empty DEF Restore, Save, IdleCall, Call, Ops, CallSteps, Answers
<1> QED BY <1>2, LatestIsNat DEF NewCall, KnownCall

LEMMA Replied ==
    ASSUME NEW call \in Call, NEW answer \in Answers, NEW rev \in Nat
    PROVE  LET s == Reply(call, answer, rev)
           IN  s \in Call /\ s.rev = rev /\ s.answer = answer /\ s.pc = "answered"
BY DEF Reply, Call, CallSteps

LEMMA ReplyIsNew ==
    ASSUME StoreGood, NEW call \in Call, NEW answer \in Answers, NEW rev \in Nat,
           rev <= Latest, answer = "conflict" => rev >= 1
    PROVE  NewCall(Reply(call, answer, rev))
BY Replied DEF NewCall, KnownCall

-----------------------------------------------------------------------------
(* How the variables change.                                               *)

LEMMA StoreKept ==
    ASSUME StoreGood, SaveReplacesItsBase, UNCHANGED store
    PROVE  StoreGood' /\ SaveReplacesItsBase' /\ Latest' = Latest
BY DEF store, StoreGood, SaveReplacesItsBase, Latest

LEMMA CallsStay ==
    ASSUME CallsGood, Serial, UNCHANGED <<calls, lock, revisions>>
    PROVE  CallsGood' /\ Serial'
BY DEF CallsGood, KnownCall, Serial, Latest

LEMMA CallsStep ==
    ASSUME CallsGood, Serial, UNCHANGED <<lock, revisions>>,
           NEW c \in Callers, NEW call, NewCall(call),
           calls' = [calls EXCEPT ![c] = call]
    PROVE  CallsGood' /\ Serial'
<1>1. call \in Call /\ call.pc # "writing" /\ KnownCall(call)
    BY DEF NewCall, KnownCall
<1>2. \A d \in Callers : calls'[d] = IF d = c THEN call ELSE calls[d]
    BY DEF CallsGood
<1>3. calls' \in [Callers -> Call]
    BY <1>1 DEF CallsGood
<1>4. Latest' = Latest
    BY DEF Latest
<1>5. CallsGood'
    <2>1. \A d \in Callers : KnownCall(calls'[d])
        BY <1>1, <1>2 DEF CallsGood
    <2> QED BY <2>1, <1>3, <1>4 DEF CallsGood, KnownCall
<1>6. Serial'
    BY <1>1, <1>2, <1>4 DEF Serial
<1> QED BY <1>5, <1>6

LEMMA TabsStay ==
    ASSUME TabsGood, UNCHANGED <<tab, revisions>>
    PROVE  TabsGood'
BY DEF TabsGood, KnownTab, Latest

LEMMA TabsStep ==
    ASSUME TabsGood, UNCHANGED revisions, NEW t \in Tabs, NEW new, KnownTab(new),
           SetTab(t, new)
    PROVE  TabsGood'
<1>1. new \in Tab
    BY DEF KnownTab
<1>2. tab' \in [Tabs -> Tab]
    BY <1>1 DEF TabsGood, SetTab
<1>3. \A u \in Tabs : tab'[u] = IF u = t THEN new ELSE tab[u]
    BY DEF TabsGood, SetTab
<1>4. \A u \in Tabs : KnownTab(tab'[u])
    BY <1>3 DEF TabsGood
<1>5. Latest' = Latest
    BY DEF Latest
<1> QED BY <1>2, <1>4, <1>5 DEF TabsGood, KnownTab

LEMMA DraftsStep ==
    ASSUME DraftsGood, NEW t \in Tabs, NEW d \in Draft, KeepDraft(t, d)
    PROVE  DraftsGood'
BY EditorAssumption DEF DraftsGood, KeepDraft

LEMMA DraftsDropped ==
    ASSUME DraftsGood, NEW t \in Tabs, DropDraft(t)
    PROVE  DraftsGood'
BY DraftsStep, Idle DEF DropDraft

LEMMA SendStep ==
    ASSUME CallsGood, Serial, FetchGood, UNCHANGED <<lock, revisions>>,
           NEW r \in Requests, NEW t \in Tabs, NEW kind \in Kinds, NEW text \in Text,
           NEW call, NewCall(call), Send(r, t, kind, text, call)
    PROVE  CallsGood' /\ Serial' /\ FetchGood'
<1>1. r \in Callers
    BY DEF Callers
<1>2. CallsGood' /\ Serial'
    BY <1>1, CallsStep DEF Send
<1>3. [tab |-> t, kind |-> kind, text |-> text] \in Fetch
    BY DEF Fetch
<1> QED BY <1>2, <1>3 DEF FetchGood, Send

LEMMA ReceivedStep ==
    ASSUME StoreGood, CallsGood, Serial, FetchGood, UNCHANGED <<lock, revisions>>,
           NEW r \in Requests, Received(r)
    PROVE  CallsGood' /\ Serial' /\ FetchGood'
<1>1. r \in Callers
    BY DEF Callers
<1>2. CallsGood' /\ Serial'
    BY <1>1, NoCallIsNew, CallsStep DEF Received
<1> QED BY <1>2, Idle DEF FetchGood, Received

LEMMA FailsStep ==
    ASSUME StoreGood, CallsGood, Serial, FetchGood, UNCHANGED <<lock, revisions>>,
           NEW r \in Requests, Fails(r)
    PROVE  CallsGood' /\ Serial' /\ FetchGood'
<1>1. CASE Received(r)
    BY <1>1, ReceivedStep
<1>2. CASE fetch' = [fetch EXCEPT ![r].tab = Nobody] /\ UNCHANGED calls
    <2>1. [fetch[r] EXCEPT !.tab = Nobody] \in Fetch
        BY DEF FetchGood, Fetch
    <2>2. FetchGood'
        BY <1>2, <2>1 DEF FetchGood
    <2> QED BY <1>2, <2>2, CallsStay
<1> QED BY <1>1, <1>2 DEF Fails

LEMMA EditorStays ==
    ASSUME StoreGood, StoreGood', TabsGood, FetchGood, DraftsGood, HistoryGood,
           UNCHANGED <<editor, history>>, Latest <= Latest'
    PROVE  TabsGood' /\ FetchGood' /\ DraftsGood' /\ HistoryGood'
<1>1. Latest \in Nat /\ Latest' \in Nat
    BY DEF StoreGood, Latest
<1>2. \A t \in Tabs : tab[t] \in Tab /\ tab[t].base <= Latest'
                                  /\ tab[t].conflict.id <= Latest'
    <2> TAKE t \in Tabs
    <2>1. tab[t] \in Tab /\ tab[t].base <= Latest /\ tab[t].conflict.id <= Latest
        BY DEF TabsGood, KnownTab
    <2>2. tab[t].base \in Nat /\ tab[t].conflict \in Conflict
        BY <2>1 DEF Tab
    <2>3. tab[t].conflict.id \in Nat
        BY <2>2 DEF Conflict
    <2> QED BY <1>1, <2>1, <2>2, <2>3
<1>3. TabsGood'
    BY <1>2 DEF TabsGood, KnownTab, editor
<1> QED BY <1>3 DEF editor, history, FetchGood, DraftsGood, HistoryGood

-----------------------------------------------------------------------------
(* The store.                                                              *)

(* The steps of a call that leave the store as it is.                      *)
LEMMA ReadSteps ==
    ASSUME StoreGood, CallsGood, Serial, NEW c \in Callers,
           \/ ReadBody(c) \/ ReadHead(c) \/ ReadPatch(c) \/ RefuseSave(c) \/ SkipSave(c)
    PROVE  UNCHANGED store /\ CallsGood' /\ Serial'
<1>1. UNCHANGED store
    BY DEF ReadBody, ReadHead, ReadPatch, RefuseSave, SkipSave
<1>2. UNCHANGED <<lock, revisions>>
    BY <1>1 DEF store
<1>3. /\ calls[c] \in Call /\ KnownCall(calls[c])
      /\ calls \in [Callers -> Call]
    BY DEF CallsGood, KnownCall
<1>4. Latest \in Nat /\ 1 <= Latest
    BY LatestIsNat
<1>5. \A answer \in {"ok", "conflict"} : NewCall(Reply(calls[c], answer, Latest))
    BY <1>3, <1>4, ReplyIsNew DEF Answers
<1>6. SUFFICES \E call : NewCall(call) /\ calls' = [calls EXCEPT ![c] = call]
    BY <1>1, <1>2, CallsStep
<1>7. CASE ReadBody(c)
    <2> DEFINE next == [calls[c] EXCEPT !.text = body,
                          !.pc = IF calls[c].op = "load" THEN "reading" ELSE "checking"]
    <2>1. calls' = [calls EXCEPT ![c] = next]
        BY <1>3, <1>7 DEF ReadBody
    <2>2. /\ next \in Call /\ next.pc # "writing"
          /\ next.rev = calls[c].rev /\ next.answer = calls[c].answer
        BY <1>3 DEF StoreGood, Call, CallSteps
    <2>3. NewCall(next)
        BY <1>3, <2>2 DEF NewCall, KnownCall
    <2> QED BY <2>1, <2>3
<1>8. CASE ReadHead(c)
    BY <1>5, <1>8 DEF ReadHead, Answer
<1>9. CASE ReadPatch(c)
    <2>1. CASE calls' = [calls EXCEPT ![c].text = revisions[1].text \cup {0},
                                      ![c].expected = 1, ![c].pc = "checking"]
        <3> DEFINE next == [calls[c] EXCEPT !.text = revisions[1].text \cup {0},
                                            !.expected = 1, !.pc = "checking"]
        <3>1. calls' = [calls EXCEPT ![c] = next]
            BY <1>3, <2>1
        <3>2. revisions[1].text \in Text
            BY <1>4, RevisionOf
        <3>3. revisions[1].text \cup {0} \in Text
            BY <3>2, RevisionsAssumption DEF Text, Edits
        <3>4. /\ next \in Call /\ next.pc # "writing"
              /\ next.rev = calls[c].rev /\ next.answer = calls[c].answer
            BY <1>3, <3>3 DEF Call, CallSteps
        <3>5. NewCall(next)
            BY <1>3, <3>4 DEF NewCall, KnownCall
        <3> QED BY <3>1, <3>5
    <2>2. CASE \E answer \in {"ok", "conflict"} : Answer(c, answer, Latest)
        BY <1>5, <2>2 DEF Answer
    <2> QED BY <1>9, <2>1, <2>2 DEF ReadPatch
<1>10. CASE RefuseSave(c)
    BY <1>5, <1>10 DEF RefuseSave, Answer
<1>11. CASE SkipSave(c)
    <2> DEFINE next == [calls[c] EXCEPT !.pc = "marking"]
    <2>1. /\ next \in Call /\ next.pc # "writing"
          /\ next.rev = calls[c].rev /\ next.answer = calls[c].answer
        BY <1>3 DEF Call, CallSteps
    <2>2. NewCall(next)
        BY <1>3, <2>1 DEF NewCall, KnownCall
    <2> QED BY <1>5, <1>11, <2>2 DEF SkipSave, Saved
<1> QED BY <1>7, <1>8, <1>9, <1>10, <1>11

(* Who writes compared its base with the head, and found the lock free.    *)
LEMMA WriteStep ==
    ASSUME StoreGood, CallsGood, Serial, SaveReplacesItsBase, NEW c \in Callers, WriteBody(c)
    PROVE  StoreGood' /\ CallsGood' /\ Serial' /\ SaveReplacesItsBase' /\ Latest' = Latest
<1> DEFINE next == [calls[c] EXCEPT !.pc = "writing"]
<1>1. calls[c] \in Call /\ KnownCall(calls[c]) /\ calls \in [Callers -> Call]
    BY DEF CallsGood, KnownCall
<1>2. calls' = [calls EXCEPT ![c] = next] /\ lock = Nobody /\ lock' = c
    BY <1>1 DEF WriteBody, EntersSave
<1>3. /\ next \in Call /\ next.rev = calls[c].rev /\ next.answer = calls[c].answer
      /\ next.expected = calls[c].expected
    BY <1>1 DEF Call, CallSteps
<1>4. UNCHANGED <<revisions, patch>> /\ body' = calls[c].text
    BY DEF WriteBody
<1>5. Latest' = Latest
    BY <1>4 DEF Latest
<1>6. StoreGood'
    BY <1>1, <1>2, <1>4, <1>5 DEF StoreGood, Call
<1>7. CallsGood'
    <2>1. KnownCall(next)
        BY <1>1, <1>3 DEF KnownCall
    <2>2. \A d \in Callers : KnownCall(calls'[d])
        BY <1>1, <1>2, <2>1 DEF CallsGood
    <2> QED BY <1>1, <1>2, <1>3, <1>5, <2>2 DEF CallsGood, KnownCall
<1>8. \A d \in Callers : calls[d].pc # "writing"
    BY <1>2, RevisionsAssumption DEF Serial, Callers
<1>9. calls[c].expected \in {0, Latest}
    BY DEF WriteBody, Conflicts
<1>10. Serial'
    BY <1>1, <1>2, <1>3, <1>5, <1>8, <1>9 DEF Serial
<1> QED BY <1>4, <1>5, <1>6, <1>7, <1>10 DEF SaveReplacesItsBase

(* ... so the revision it appends follows the one it named.                *)
LEMMA CommitStep ==
    ASSUME StoreGood, CallsGood, Serial, SaveReplacesItsBase, NEW c \in Callers,
           CommitRevision(c)
    PROVE  StoreGood' /\ CallsGood' /\ Serial' /\ SaveReplacesItsBase'
           /\ Latest' = Latest + 1
<1> DEFINE new == [text |-> calls[c].text, expected |-> calls[c].expected,
                   waived |-> calls[c].waived]
           next == IF calls[c].op = "apply" THEN [calls[c] EXCEPT !.pc = "marking"]
                   ELSE Reply(calls[c], "ok", Latest + 1)
<1>1. calls[c] \in Call /\ KnownCall(calls[c]) /\ calls \in [Callers -> Call]
    BY DEF CallsGood, KnownCall
<1>2. new \in Revision
    BY <1>1 DEF Call, Revision
<1>3. revisions \in Seq(Revision) /\ revisions' = Append(revisions, new)
    BY DEF CommitRevision, StoreGood
<1>4. /\ revisions' \in Seq(Revision)
      /\ Len(revisions') = Len(revisions) + 1
      /\ DOMAIN revisions' = 1..(Len(revisions) + 1)
      /\ \A n \in 1..Len(revisions) : revisions'[n] = revisions[n]
      /\ revisions'[Len(revisions) + 1] = new
    BY <1>2, <1>3, AppendProperties
<1>5. Latest \in Nat /\ 1 <= Latest
    BY LatestIsNat
<1>6. Latest' = Latest + 1
    BY <1>4 DEF Latest
<1>7. StoreGood'
    BY <1>4, <1>5, <1>6 DEF StoreGood, CommitRevision
<1>8. /\ next \in Call /\ next.pc # "writing"
      /\ next.rev \in {calls[c].rev, Latest + 1} /\ next.answer \in {calls[c].answer, "ok"}
      /\ next.answer = "conflict" => next.rev = calls[c].rev
    <2>1. CASE calls[c].op = "apply"
        <3>1. LET moved == [calls[c] EXCEPT !.pc = "marking"]
              IN  /\ moved \in Call /\ moved.pc = "marking"
                  /\ moved.rev = calls[c].rev /\ moved.answer = calls[c].answer
            BY <1>1 DEF Call, CallSteps
        <3> QED BY <2>1, <3>1
    <2>2. CASE calls[c].op # "apply"
        <3>1. LET replied == Reply(calls[c], "ok", Latest + 1)
              IN  /\ replied \in Call /\ replied.pc = "answered"
                  /\ replied.rev = Latest + 1 /\ replied.answer = "ok"
            <4>1. Latest + 1 \in Nat /\ "ok" \in Answers
                BY <1>5 DEF Answers
            <4> QED BY <1>1, <4>1, Replied
        <3> QED BY <2>2, <3>1
    <2> QED BY <2>1, <2>2
<1>9. calls' = [calls EXCEPT ![c] = next]
    BY DEF CommitRevision, Saved
<1>10. \A d \in Callers : calls'[d] = IF d = c THEN next ELSE calls[d]
    BY <1>1, <1>9
<1>11. CallsGood'
    <2>1. ASSUME NEW d \in Callers
          PROVE  /\ calls'[d].rev <= Latest'
                 /\ calls'[d].answer = "conflict" => calls'[d].rev >= 1
                 /\ calls'[d] \in Call
        <3>1. KnownCall(calls[d]) /\ calls[d].rev \in Nat
            BY DEF CallsGood, Call
        <3>2. calls[d].rev <= Latest + 1
            BY <3>1, <1>5 DEF KnownCall
        <3>3. CASE d # c
            BY <1>1, <1>6, <1>10, <3>1, <3>2, <3>3 DEF KnownCall
        <3>4. CASE d = c
            <4>1. calls'[d] = next
                BY <1>10, <3>4
            <4>2. next.rev <= Latest + 1
                BY <1>5, <1>8, <3>2, <3>4
            <4>3. next.answer = "conflict" => next.rev >= 1
                BY <1>8, <3>1, <3>4 DEF KnownCall
            <4> QED BY <1>6, <1>8, <4>1, <4>2, <4>3
        <3> QED BY <3>3, <3>4
    <2>2. calls' \in [Callers -> Call]
        BY <1>1, <1>8, <1>9
    <2> QED BY <2>1, <2>2 DEF CallsGood, KnownCall
<1>12. \A d \in Callers : calls[d].pc = "writing" => d = c
    BY DEF Serial, CommitRevision
<1>13. Serial'
    BY <1>8, <1>10, <1>12 DEF Serial
<1>14. SaveReplacesItsBase'
    <2>1. calls[c].expected \in {0, Latest}
        BY DEF CommitRevision, Serial
    <2>2. ASSUME NEW n \in 1..(Latest + 1), n > 1
          PROVE  revisions'[n].expected \in {0, n - 1}
        <3>1. CASE n = Latest + 1
            BY <1>4, <1>5, <2>1, <3>1 DEF Latest
        <3>2. CASE n # Latest + 1
            <4>1. n \in 1..Latest /\ n \in DOMAIN revisions
                BY <1>5, <3>2, RevisionOf
            <4> QED BY <1>4, <2>2, <4>1 DEF SaveReplacesItsBase, Latest
        <3> QED BY <3>1, <3>2
    <2> QED BY <1>4, <2>2 DEF SaveReplacesItsBase, Latest
<1> QED BY <1>6, <1>7, <1>11, <1>13, <1>14

(* An accepted patch, and the death of some callers.                       *)
LEMMA MarkStep ==
    ASSUME StoreGood, CallsGood, Serial, SaveReplacesItsBase, NEW c \in Callers,
           MarkAccepted(c)
    PROVE  StoreGood' /\ CallsGood' /\ Serial' /\ SaveReplacesItsBase' /\ Latest' = Latest
<1>1. UNCHANGED <<lock, revisions>> /\ patch' = TRUE /\ body' = body
    BY DEF MarkAccepted
<1>2. calls[c] \in Call /\ Latest \in Nat /\ 1 <= Latest /\ "ok" \in Answers
    BY LatestIsNat DEF CallsGood, Answers
<1>3. NewCall(Reply(calls[c], "ok", Latest))
    BY <1>2, ReplyIsNew
<1>4. CallsGood' /\ Serial'
    BY <1>1, <1>3, CallsStep DEF MarkAccepted, Answer
<1> QED BY <1>1, <1>4 DEF StoreGood, SaveReplacesItsBase, Latest

LEMMA DyingStep ==
    ASSUME StoreGood, CallsGood, Serial, SaveReplacesItsBase, NEW dead \in SUBSET Callers,
           Dying(dead)
    PROVE  StoreGood' /\ CallsGood' /\ Serial' /\ SaveReplacesItsBase' /\ Latest' = Latest
<1>1. UNCHANGED <<revisions, body, patch>> /\ Latest' = Latest
    BY DEF Dying, Latest
<1>2. Latest \in Nat /\ 1 <= Latest /\ "error" \in Answers
    BY LatestIsNat DEF Answers
<1>3. ASSUME NEW c \in Callers
      PROVE  KnownCall(calls'[c]) /\ calls'[c] \in Call
             /\ (calls'[c].pc = "writing" => calls'[c] = calls[c] /\ c \notin dead)
    <2>1. calls[c] \in Call /\ KnownCall(calls[c])
        BY DEF CallsGood
    <2>2. CASE c \in dead /\ calls[c].pc \notin {"idle", "answered"}
        <3>1. calls'[c] = Reply(calls[c], "error", 0)
            BY <2>2 DEF Dying
        <3>2. NewCall(Reply(calls[c], "error", 0))
            BY <1>2, <2>1, ReplyIsNew
        <3> QED BY <3>1, <3>2 DEF NewCall, KnownCall
    <2>3. CASE ~(c \in dead /\ calls[c].pc \notin {"idle", "answered"})
        <3>1. calls'[c] = calls[c]
            BY <2>3 DEF Dying
        <3> QED BY <2>1, <2>3, <3>1
    <2> QED BY <2>2, <2>3
<1>4. calls' \in [Callers -> Call]
    <2>1. calls' = [c \in Callers |-> calls'[c]]
        BY DEF Dying
    <2> QED BY <1>3, <2>1
<1>5. CallsGood'
    BY <1>1, <1>3, <1>4 DEF CallsGood, KnownCall
<1>6. Serial'
    BY <1>1, <1>3 DEF Serial, Dying
<1>7. StoreGood'
    BY <1>1 DEF StoreGood, Dying
<1> QED BY <1>1, <1>5, <1>6, <1>7 DEF SaveReplacesItsBase

LEMMA StoreStepKeeps ==
    ASSUME DraftInv, NEW c \in Callers, StoreStep(c), UNCHANGED <<editor, history>>
    PROVE  DraftInv'
<1> USE DEF DraftInv
<1>1. Latest \in Nat
    BY LatestIsNat
<1>2. /\ StoreGood' /\ CallsGood' /\ Serial' /\ SaveReplacesItsBase'
      /\ Latest' \in {Latest, Latest + 1}
    <2>1. CASE \/ ReadBody(c) \/ ReadHead(c) \/ ReadPatch(c)
               \/ RefuseSave(c) \/ SkipSave(c)
        BY <2>1, ReadSteps, StoreKept
    <2>2. CASE WriteBody(c)
        BY <2>2, WriteStep
    <2>3. CASE CommitRevision(c)
        BY <2>3, CommitStep
    <2>4. CASE MarkAccepted(c)
        BY <2>4, MarkStep
    <2> QED BY <2>1, <2>2, <2>3, <2>4 DEF StoreStep
<1>3. Latest <= Latest'
    BY <1>1, <1>2
<1> QED BY <1>2, <1>3, EditorStays

-----------------------------------------------------------------------------
(* The editor.  A step of it leaves the store alone and keeps the rest.    *)

EditorGood ==
    /\ CallsGood /\ TabsGood /\ FetchGood /\ DraftsGood /\ HistoryGood
    /\ Serial

LEMMA EditorSuffices ==
    ASSUME DraftInv, UNCHANGED store, EditorGood'
    PROVE  DraftInv'
BY StoreKept DEF DraftInv, EditorGood

(* What the invariant says of a tab and of its recovery copy.              *)
LEMMA TabFacts ==
    ASSUME DraftInv, NEW t \in Tabs
    PROVE  /\ KnownTab(tab[t]) /\ tab[t] \in Tab
           /\ tab[t].text \in Text /\ tab[t].base \in Nat /\ tab[t].base <= Latest
           /\ tab[t].due \in BOOLEAN /\ tab[t].waived \in Text
           /\ tab[t].conflict \in Conflict
           /\ tab[t].conflict.id \in Nat /\ tab[t].conflict.id <= Latest
           /\ tab[t].conflict.text \in Text /\ tab[t].conflict.local \in Text
           /\ Stored(t) \in Draft
           /\ Stored(t).text \in Text /\ Stored(t).waived \in Text
<1>1. tab[t] \in Tab /\ KnownTab(tab[t])
    BY DEF DraftInv, TabsGood
<1>2. /\ tab[t].text \in Text /\ tab[t].base \in Nat
      /\ tab[t].due \in BOOLEAN /\ tab[t].waived \in Text
      /\ tab[t].conflict \in Conflict
    BY <1>1 DEF Tab
<1>3. /\ tab[t].conflict.id \in Nat
      /\ tab[t].conflict.text \in Text /\ tab[t].conflict.local \in Text
    BY <1>2 DEF Conflict
<1>4. Stored(t) \in Draft
    BY EditorAssumption DEF Stored, DraftInv, DraftsGood
<1>5. Stored(t).text \in Text /\ Stored(t).waived \in Text
    BY <1>4 DEF Draft
<1> QED BY <1>1, <1>2, <1>3, <1>4, <1>5 DEF KnownTab

(* ... and of a call and of what a tab awaits from it.                     *)
LEMMA CallFacts ==
    ASSUME DraftInv, NEW r \in Requests
    PROVE  /\ calls[r] \in Call /\ calls[r].text \in Text
           /\ calls[r].rev \in Nat /\ calls[r].rev <= Latest
           /\ calls[r].answer = "conflict" => calls[r].rev \in 1..Latest
           /\ fetch[r] \in Fetch /\ fetch[r].text \in Text
<1>1. r \in Callers /\ Latest \in Nat
    BY LatestIsNat DEF Callers, DraftInv
<1>2. calls[r] \in Call /\ KnownCall(calls[r])
    BY <1>1 DEF DraftInv, CallsGood
<1>3. calls[r].text \in Text /\ calls[r].rev \in Nat
    BY <1>2 DEF Call
<1>4. fetch[r] \in Fetch
    BY DEF DraftInv, FetchGood
<1> QED BY <1>1, <1>2, <1>3, <1>4 DEF KnownCall, Fetch

LEMMA TextUnion == \A a, b \in Text : a \cup b \in Text /\ a \ b \in Text
BY DEF Text

(* A tab whose fields are good is good.                                    *)
LEMMA MakesTab ==
    ASSUME DraftInv, NEW old \in Tab,
           NEW open \in {"closed", "loading", "open"}, NEW text \in Text,
           NEW base \in Nat, base <= Latest, NEW due \in BOOLEAN, NEW shown \in Shown,
           NEW conflict \in Conflict, conflict.id <= Latest, NEW waived \in Text
    PROVE  KnownTab([old EXCEPT !.open = open, !.text = text, !.base = base, !.due = due,
                       !.shown = shown, !.conflict = conflict, !.waived = waived])
<1> DEFINE new == [old EXCEPT !.open = open, !.text = text, !.base = base, !.due = due,
                       !.shown = shown, !.conflict = conflict, !.waived = waived]
<1>1. new \in Tab /\ new.base = base /\ new.conflict = conflict
    BY DEF Tab
<1> QED BY <1>1 DEF KnownTab

(* saveDraft.                                                              *)
LEMMA SaveDraftStep ==
    ASSUME DraftInv, UNCHANGED store, UNCHANGED <<online, history>>,
           NEW t \in Tabs, NEW new, KnownTab(new), SaveDraft(t, new)
    PROVE  EditorGood'
<1> USE DEF DraftInv
<1>1. UNCHANGED <<lock, revisions>>
    BY DEF store
<1>2. /\ new \in Tab /\ new.text \in Text /\ new.base \in Nat /\ new.waived \in Text
      /\ new.base <= Latest /\ new.conflict.id <= Latest
    BY DEF KnownTab, Tab
<1>3. DraftOf(new) \in Draft
    BY <1>2 DEF DraftOf, Draft
<1>4. DraftsGood'
    BY <1>3, DraftsStep DEF SaveDraft
<1>5. \A shown \in Shown : KnownTab([new EXCEPT !.due = FALSE, !.shown = shown])
    <2> TAKE shown \in Shown
    <2> DEFINE next == [new EXCEPT !.due = FALSE, !.shown = shown]
    <2>1. next \in Tab /\ next.base = new.base /\ next.conflict = new.conflict
        BY <1>2 DEF Tab
    <2> QED BY <1>2, <2>1 DEF KnownTab
<1>6. {"saving", "offline"} \subseteq Shown /\ "save" \in Kinds
    BY DEF Shown, Kinds
<1>7. TabsGood'
    BY <1>1, <1>5, <1>6, TabsStep DEF SaveDraft
<1>8. NewCall(SaveCall(new))
    <2>1. NewCall(Save(new.text, new.base, new.waived))
        BY <1>2, SentIsNew
    <2>2. NewCall(Reply(IdleCall, "error", 0))
        <3>1. "error" \in Answers /\ 0 <= Latest
            BY LatestIsNat DEF Answers
        <3> QED BY <3>1, Idle, Empty, ReplyIsNew
    <2> QED BY <2>1, <2>2 DEF SaveCall
<1>9. CallsGood' /\ Serial' /\ FetchGood'
    <2>1. CASE UNCHANGED <<fetch, calls>>
        BY <1>1, <2>1, CallsStay DEF FetchGood
    <2>2. CASE \E r \in Requests : Send(r, t, "save", new.text, SaveCall(new))
        BY <1>1, <1>2, <1>6, <1>8, <2>2, SendStep
    <2> QED BY <2>1, <2>2 DEF SaveDraft
<1>10. HistoryGood'
    BY DEF HistoryGood, history
<1> QED BY <1>4, <1>7, <1>9, <1>10 DEF EditorGood

(* A step that changes one tab and, perhaps, its recovery copy.            *)
LEMMA OneTab ==
    ASSUME DraftInv, UNCHANGED <<store, calls, fetch>>, HistoryGood',
           NEW t \in Tabs, NEW new, KnownTab(new), SetTab(t, new),
           NEW d \in Draft, UNCHANGED draft \/ KeepDraft(t, d)
    PROVE  DraftInv'
<1> USE DEF DraftInv
<1>1. UNCHANGED <<lock, revisions>>
    BY DEF store
<1>2. CallsGood' /\ Serial'
    BY <1>1, CallsStay
<1>3. TabsGood'
    BY <1>1, TabsStep
<1>4. DraftsGood'
    <2>1. CASE UNCHANGED draft
        BY <2>1 DEF DraftsGood
    <2>2. CASE KeepDraft(t, d)
        BY <2>2, DraftsStep
    <2> QED BY <2>1, <2>2
<1>5. FetchGood'
    BY DEF FetchGood
<1> QED BY <1>2, <1>3, <1>4, <1>5, EditorSuffices DEF EditorGood

(* A step that sends a request and leaves the rest of the editor alone.    *)
LEMMA OneRequest ==
    ASSUME DraftInv, UNCHANGED <<store, tab, draft, online, history>>,
           NEW r \in Requests, NEW t \in Tabs, NEW kind \in Kinds, NEW call,
           NewCall(call), Send(r, t, kind, {}, call)
    PROVE  DraftInv'
<1> USE DEF DraftInv
<1>1. UNCHANGED <<lock, revisions>>
    BY DEF store
<1>2. CallsGood' /\ Serial' /\ FetchGood'
    BY <1>1, Empty, SendStep
<1>3. TabsGood'
    BY <1>1, TabsStay
<1>4. DraftsGood' /\ HistoryGood'
    BY DEF DraftsGood, HistoryGood, history
<1> QED BY <1>2, <1>3, <1>4, EditorSuffices DEF EditorGood

(* A step that takes a response and changes one tab and its copy.          *)
LEMMA OneResponse ==
    ASSUME DraftInv, UNCHANGED <<store, online, history>>,
           CallsGood', Serial', FetchGood',
           NEW t \in Tabs, NEW new, KnownTab(new), UNCHANGED tab \/ SetTab(t, new),
           NEW d \in Draft, UNCHANGED draft \/ KeepDraft(t, d)
    PROVE  DraftInv'
<1> USE DEF DraftInv
<1>1. UNCHANGED <<lock, revisions>>
    BY DEF store
<1>2. TabsGood'
    BY <1>1, TabsStay, TabsStep
<1>3. DraftsGood'
    <2>1. CASE UNCHANGED draft
        BY <2>1 DEF DraftsGood
    <2>2. CASE KeepDraft(t, d)
        BY <2>2, DraftsStep
    <2> QED BY <2>1, <2>2
<1>4. HistoryGood'
    BY DEF HistoryGood, history
<1> QED BY <1>2, <1>3, <1>4, EditorSuffices DEF EditorGood

-----------------------------------------------------------------------------
(* What the user does.                                                     *)

LEMMA OpenTabKeeps ==
    ASSUME DraftInv, NEW t \in Tabs, OpenTab(t) PROVE DraftInv'
<1> USE DEF DraftInv
<1> DEFINE new == [ClosedTab EXCEPT !.open = "loading"]
<1>1. KnownTab(new)
    <2>1. new \in Tab /\ new.base = 0 /\ new.conflict = NoConflict
        BY Idle DEF ClosedTab, Tab
    <2> QED BY <2>1, LatestIsNat DEF KnownTab, NoConflict
<1>2. UNCHANGED <<lock, revisions>>
    BY DEF OpenTab, store
<1>3. TabsGood'
    BY <1>1, <1>2, TabsStep DEF OpenTab
<1>4. CallsGood' /\ Serial' /\ FetchGood'
    <2>1. PICK r \in Requests : Send(r, t, "load", {}, Load)
        BY DEF OpenTab
    <2>2. NewCall(Load) /\ "load" \in Kinds
        BY Empty, SentIsNew DEF Kinds
    <2> QED BY <1>2, <2>1, <2>2, Empty, SendStep
<1>5. DraftsGood' /\ HistoryGood'
    BY DEF OpenTab, DraftsGood, HistoryGood, Counts
<1> QED BY <1>3, <1>4, <1>5, EditorSuffices DEF EditorGood, OpenTab

LEMMA CloseTabKeeps ==
    ASSUME DraftInv, NEW t \in Tabs, CloseTab(t) PROVE DraftInv'
<1> USE DEF DraftInv
<1>1. KnownTab(ClosedTab)
    <2>1. ClosedTab.base = 0 /\ ClosedTab.conflict.id = 0
        BY DEF ClosedTab, NoConflict
    <2> QED BY <2>1, Idle, LatestIsNat DEF KnownTab
<1>2. FetchGood'
    <2>1. \A r \in Requests : [fetch[r] EXCEPT !.tab = Nobody] \in Fetch
        BY DEF FetchGood, Fetch
    <2> QED BY <2>1 DEF FetchGood, CloseTab
<1>3. UNCHANGED <<store, calls, draft, online, history, lock, revisions>>
    BY DEF CloseTab, store
<1>4. CallsGood' /\ Serial'
    BY <1>3, CallsStay
<1>5. SetTab(t, ClosedTab)
    BY DEF CloseTab
<1> QED BY <1>1, <1>2, <1>3, <1>4, <1>5, Idle, OneResponse

LEMMA TypeKeeps ==
    ASSUME DraftInv, NEW t \in Tabs, Type(t) PROVE DraftInv'
<1> USE DEF DraftInv
<1> DEFINE new == [tab[t] EXCEPT !.text = tab[t].text \cup {typed + 1},
                                 !.due = TRUE, !.shown = "unsaved"]
<1>1. typed \in Nat /\ typed + 1 \in Edits
    BY RevisionsAssumption DEF HistoryGood, Type, Edits
<1>2. {typed + 1} \in Text /\ tab[t].text \cup {typed + 1} \in Text
    BY <1>1, TabFacts DEF Text
<1>3. new \in Tab /\ new.base = tab[t].base /\ new.conflict = tab[t].conflict
      /\ new.waived = tab[t].waived /\ new.text = tab[t].text \cup {typed + 1}
    BY <1>2, TabFacts DEF Tab, Shown
<1>4. KnownTab(new)
    BY <1>3, TabFacts DEF KnownTab
<1>5. DraftOf(new) \in Draft
    BY <1>2, <1>3, TabFacts DEF DraftOf, Draft
<1>6. HistoryGood'
    BY <1>1, <1>2, TextUnion DEF HistoryGood, Type
<1>7. SetTab(t, new) /\ KeepDraft(t, DraftOf(new)) /\ UNCHANGED <<store, calls, fetch>>
    BY DEF Type
<1> QED BY <1>4, <1>5, <1>6, <1>7, OneTab

LEMMA TimerKeeps ==
    ASSUME DraftInv, NEW t \in Tabs, TimerFires(t) PROVE DraftInv'
<1>1. KnownTab(tab[t])
    BY TabFacts
<1>2. UNCHANGED <<store, online, history>> /\ SaveDraft(t, tab[t])
    BY DEF TimerFires
<1> QED BY <1>1, <1>2, SaveDraftStep, EditorSuffices

LEMMA UseLatestKeeps ==
    ASSUME DraftInv, NEW t \in Tabs, UseLatest(t) PROVE DraftInv'
<1> USE DEF DraftInv
<1> DEFINE latest == tab[t].conflict
           new == [tab[t] EXCEPT !.text = latest.text, !.base = latest.id,
                   !.conflict = NoConflict, !.shown = "saved",
                   !.waived = @ \cup ((tab[t].text \cup latest.local) \ latest.text)]
<1>1. new \in Tab /\ new.base = latest.id /\ new.conflict = NoConflict
    <2>1. tab[t].waived \cup ((tab[t].text \cup latest.local) \ latest.text) \in Text
        BY TabFacts, TextUnion
    <2> QED BY <2>1, TabFacts, Idle DEF Tab, Shown
<1>2. KnownTab(new)
    BY <1>1, TabFacts, LatestIsNat DEF KnownTab, NoConflict
<1>3. SetTab(t, new) /\ KeepDraft(t, NoDraft) /\ UNCHANGED <<store, calls, fetch>>
    BY DEF UseLatest, DropDraft
<1>4. ((tab[t].text \cup latest.local \cup Stored(t).text) \ latest.text) \in Text
    BY TabFacts DEF Text
<1>5. HistoryGood'
    BY <1>4, TextUnion DEF HistoryGood, UseLatest
<1> QED BY <1>2, <1>3, <1>5, Idle, OneTab

LEMMA KeepLocalKeeps ==
    ASSUME DraftInv, NEW t \in Tabs, KeepLocal(t) PROVE DraftInv'
<1> DEFINE seen == tab[t].waived \cup (tab[t].conflict.text \ tab[t].text)
           new == [tab[t] EXCEPT !.base = tab[t].conflict.id, !.conflict = NoConflict,
                                 !.waived = seen]
<1>1. seen \in Text
    BY TabFacts DEF Text
<1>2. new \in Tab /\ new.base = tab[t].conflict.id /\ new.conflict = NoConflict
    BY <1>1, TabFacts, Idle DEF Tab
<1>3. KnownTab(new)
    BY <1>2, TabFacts, LatestIsNat DEF KnownTab, NoConflict, DraftInv
<1>4. UNCHANGED <<store, online, history>> /\ SaveDraft(t, new)
    BY DEF KeepLocal
<1> QED BY <1>3, <1>4, SaveDraftStep, EditorSuffices

LEMMA MergeKeeps ==
    ASSUME DraftInv, NEW t \in Tabs, MergeManually(t) PROVE DraftInv'
<1> DEFINE new == [tab[t] EXCEPT !.text = tab[t].text \cup tab[t].conflict.text,
                     !.base = tab[t].conflict.id, !.conflict = NoConflict,
                     !.shown = "unsaved"]
<1>1. tab[t].text \cup tab[t].conflict.text \in Text
    BY TabFacts, TextUnion
<1>2. new \in Tab /\ new.base = tab[t].conflict.id /\ new.conflict = NoConflict
      /\ new.waived = tab[t].waived /\ new.text = tab[t].text \cup tab[t].conflict.text
    BY <1>1, TabFacts, Idle DEF Tab, Shown
<1>3. KnownTab(new)
    BY <1>2, TabFacts, LatestIsNat DEF KnownTab, NoConflict, DraftInv
<1>4. DraftOf(new) \in Draft
    BY <1>1, <1>2, TabFacts DEF DraftOf, Draft
<1>5. HistoryGood'
    BY DEF MergeManually, HistoryGood, history, DraftInv
<1>6. SetTab(t, new) /\ KeepDraft(t, DraftOf(new)) /\ UNCHANGED <<store, calls, fetch>>
    BY DEF MergeManually
<1> QED BY <1>3, <1>4, <1>5, <1>6, OneTab

LEMMA RequestsKeep ==
    ASSUME DraftInv, NEW t \in Tabs,
           CreateCheckpoint(t) \/ RestoreRevision(t) \/ AcceptPatch(t)
    PROVE  DraftInv'
<1>1. StoreGood /\ Latest \in Nat /\ tab[t].base \in Nat /\ tab[t].base <= Latest
    BY TabFacts, LatestIsNat DEF DraftInv
<1>2. {"checkpoint", "restore", "accept"} \subseteq Kinds
    BY DEF Kinds
<1>3. UNCHANGED <<store, tab, draft, online, history>>
    BY DEF CreateCheckpoint, RestoreRevision, AcceptPatch
<1>4. CASE CreateCheckpoint(t)
    <2>1. PICK r \in Requests : Send(r, t, "checkpoint", {}, Checkpoint(tab[t].base))
        BY <1>4 DEF CreateCheckpoint
    <2>2. NewCall(Checkpoint(tab[t].base))
        BY <1>1, Empty, SentIsNew
    <2> QED BY <1>2, <1>3, <2>1, <2>2, OneRequest
<1>5. CASE RestoreRevision(t)
    <2>1. PICK r \in Requests, n \in 1..(tab[t].base - 1) :
              Send(r, t, "restore", {}, Restore(n, tab[t].base))
        BY <1>5 DEF RestoreRevision
    <2>2. n \in 1..Latest
        BY <1>1
    <2>3. NewCall(Restore(n, tab[t].base))
        BY <1>1, <2>2, RestoreIsNew
    <2> QED BY <1>2, <1>3, <2>1, <2>3, OneRequest
<1>6. CASE AcceptPatch(t)
    <2>1. PICK r \in Requests : Send(r, t, "accept", {}, Apply)
        BY <1>6 DEF AcceptPatch
    <2>2. NewCall(Apply)
        BY <1>1, Empty, SentIsNew
    <2> QED BY <1>2, <1>3, <2>1, <2>2, OneRequest
<1> QED BY <1>4, <1>5, <1>6

-----------------------------------------------------------------------------
(* What the responses do.                                                  *)

(* What every response or failure leaves good.                             *)
LEMMA Answered ==
    ASSUME DraftInv, NEW r \in Requests, UNCHANGED store, Received(r) \/ Fails(r)
    PROVE  CallsGood' /\ Serial' /\ FetchGood'
<1>1. UNCHANGED <<lock, revisions>>
    BY DEF store
<1> QED BY <1>1, ReceivedStep, FailsStep DEF DraftInv

(* A tab whose text, base and indicator a response sets.                   *)
LEMMA SetTabFields ==
    ASSUME DraftInv, NEW t \in Tabs, NEW text \in Text, NEW base \in Nat, base <= Latest,
           NEW shown \in Shown
    PROVE  /\ KnownTab([tab[t] EXCEPT !.base = base, !.shown = shown])
           /\ KnownTab([tab[t] EXCEPT !.text = text, !.base = base, !.shown = shown])
           /\ KnownTab([tab[t] EXCEPT !.shown = shown])
<1> DEFINE new1 == [tab[t] EXCEPT !.base = base, !.shown = shown]
           new2 == [tab[t] EXCEPT !.text = text, !.base = base, !.shown = shown]
           new3 == [tab[t] EXCEPT !.shown = shown]
<1>1. new1 \in Tab /\ new1.base = base /\ new1.conflict = tab[t].conflict
    BY TabFacts DEF Tab
<1>2. new2 \in Tab /\ new2.base = base /\ new2.conflict = tab[t].conflict
    BY TabFacts DEF Tab
<1>3. new3 \in Tab /\ new3.base = tab[t].base /\ new3.conflict = tab[t].conflict
    BY TabFacts DEF Tab
<1> QED BY <1>1, <1>2, <1>3, TabFacts DEF KnownTab

(* The dialog shows a revision that exists.                                *)
LEMMA ShowsConflict ==
    ASSUME DraftInv, NEW new, KnownTab(new), NEW id \in Nat, id <= Latest,
           NEW text \in Text, NEW local \in Text
    PROVE  KnownTab(ShowConflict(new, id, text, local))
<1> DEFINE asked == [id |-> id, text |-> text, local |-> local]
           next == [new EXCEPT !.conflict = asked, !.shown = "conflict"]
<1>1. asked \in Conflict /\ asked.id = id
    BY DEF Conflict
<1>2. new \in Tab /\ new.base <= Latest
    BY DEF KnownTab
<1>3. next \in Tab /\ next.base = new.base /\ next.conflict = asked
    BY <1>1, <1>2 DEF Tab, Shown
<1> QED BY <1>1, <1>2, <1>3 DEF KnownTab, ShowConflict

LEMMA ArticleLoadedKeeps ==
    ASSUME DraftInv, NEW t \in Tabs, NEW r \in Requests, ArticleLoaded(t, r)
    PROVE  DraftInv'
<1> DEFINE served == [tab[t] EXCEPT !.open = "open", !.text = calls[r].text,
                                    !.base = calls[r].rev, !.shown = "saved"]
           recovered == [served EXCEPT !.text = Stored(t).text,
                           !.waived = Stored(t).waived, !.due = @ \/ online,
                           !.shown = IF online THEN "unsaved" ELSE "offline"]
<1>1. UNCHANGED <<store, online, history>> /\ Received(r)
    BY DEF ArticleLoaded
<1>2. CallsGood' /\ Serial' /\ FetchGood'
    BY <1>1, Answered
<1>3. /\ served \in Tab /\ served.base = calls[r].rev
      /\ served.conflict = tab[t].conflict /\ served.text = calls[r].text
    BY TabFacts, CallFacts DEF Tab, Shown
<1>4. KnownTab(served)
    BY <1>3, TabFacts, CallFacts DEF KnownTab
<1>5. KnownTab(recovered)
    <2>1. (IF online THEN "unsaved" ELSE "offline") \in Shown
        BY DEF Shown
    <2>2. served.due \in BOOLEAN /\ online \in BOOLEAN
        BY <1>3 DEF Tab, DraftInv, HistoryGood
    <2>3. (served.due \/ online) \in BOOLEAN
        OBVIOUS
    <2>4. /\ recovered \in Tab /\ recovered.base = served.base
          /\ recovered.conflict = served.conflict
        BY <1>3, <2>1, <2>3, TabFacts DEF Tab
    <2> QED BY <1>4, <2>4 DEF KnownTab
<1>6. KnownTab(ShowConflict(served, served.base, served.text, Stored(t).text))
    BY <1>3, <1>4, TabFacts, CallFacts, ShowsConflict
<1>7. \/ DropDraft(t) /\ SetTab(t, served)
      \/ SetTab(t, recovered) /\ UNCHANGED draft
      \/ /\ SetTab(t, ShowConflict(served, served.base, served.text, Stored(t).text))
         /\ UNCHANGED draft
    BY DEF ArticleLoaded
<1>8. CASE DropDraft(t) /\ SetTab(t, served)
    BY <1>1, <1>2, <1>4, <1>8, Idle, OneResponse DEF DropDraft
<1>9. CASE SetTab(t, recovered) /\ UNCHANGED draft
    BY <1>1, <1>2, <1>5, <1>9, Idle, OneResponse
<1>10. CASE /\ SetTab(t, ShowConflict(served, served.base, served.text, Stored(t).text))
            /\ UNCHANGED draft
    BY <1>1, <1>2, <1>6, <1>10, Idle, OneResponse
<1> QED BY <1>7, <1>8, <1>9, <1>10

LEMMA SaveAnsweredKeeps ==
    ASSUME DraftInv, NEW t \in Tabs, NEW r \in Requests,
           SaveSucceeds(t, r) \/ SaveFails(t, r)
    PROVE  DraftInv'
<1>1. UNCHANGED <<store, online, history>> /\ (Received(r) \/ Fails(r))
    BY DEF SaveSucceeds, SaveFails
<1>2. CallsGood' /\ Serial' /\ FetchGood'
    BY <1>1, Answered
<1>3. {"saved", "error", "offline"} \subseteq Shown /\ Failure \in Shown
    BY DEF Shown, Failure
<1>4. CASE SaveSucceeds(t, r)
    <2>1. KnownTab([tab[t] EXCEPT !.base = calls[r].rev, !.shown = "saved"])
        BY <1>3, CallFacts, SetTabFields
    <2>2. SetTab(t, [tab[t] EXCEPT !.base = calls[r].rev, !.shown = "saved"])
        BY <1>4 DEF SaveSucceeds
    <2>3. UNCHANGED draft \/ KeepDraft(t, NoDraft)
        BY <1>4 DEF SaveSucceeds, ClearIfMatches, DropDraft
    <2> QED BY <1>1, <1>2, <2>1, <2>2, <2>3, Idle, OneResponse
<1>5. CASE SaveFails(t, r)
    <2>1. KnownTab([tab[t] EXCEPT !.shown = Failure])
        BY <1>3, TabFacts, SetTabFields
    <2>2. SetTab(t, [tab[t] EXCEPT !.shown = Failure]) /\ UNCHANGED draft
        BY <1>5 DEF SaveFails
    <2> QED BY <1>1, <1>2, <2>1, <2>2, Idle, OneResponse
<1> QED BY <1>4, <1>5

LEMMA RefusedKeeps ==
    ASSUME DraftInv, NEW t \in Tabs, NEW r \in Requests, Refused(t, r)
    PROVE  DraftInv'
<1> DEFINE local == IF fetch[r].kind = "save" THEN fetch[r].text ELSE tab[t].text
           latest == revisions[calls[r].rev].text
<1>1. UNCHANGED <<store, online, history, draft>> /\ Received(r)
    BY DEF Refused
<1>2. CallsGood' /\ Serial' /\ FetchGood'
    BY <1>1, Answered
<1>3. calls[r].rev \in 1..Latest
    BY CallFacts DEF Refused
<1>4. latest \in Text
    BY <1>3, RevisionOf DEF DraftInv
<1>5. local \in Text
    BY TabFacts, CallFacts
<1>6. KnownTab(ShowConflict(tab[t], calls[r].rev, latest, local))
    BY <1>4, <1>5, TabFacts, CallFacts, ShowsConflict
<1>7. SetTab(t, ShowConflict(tab[t], calls[r].rev, latest, local))
    BY DEF Refused
<1> QED BY <1>1, <1>2, <1>6, <1>7, Idle, OneResponse

LEMMA ActionAnsweredKeeps ==
    ASSUME DraftInv, NEW t \in Tabs, NEW r \in Requests,
           \/ CheckpointCreated(t, r) \/ TextReplaced(t, r)
           \/ LoadFails(t, r) \/ ActionFails(t, r)
    PROVE  DraftInv'
<1>1. UNCHANGED <<store, online, history>> /\ (Received(r) \/ Fails(r))
    BY DEF CheckpointCreated, TextReplaced, LoadFails, ActionFails
<1>2. CallsGood' /\ Serial' /\ FetchGood'
    BY <1>1, Answered
<1>3. "saved" \in Shown
    BY DEF Shown
<1>4. CASE CheckpointCreated(t, r)
    <2>1. KnownTab([tab[t] EXCEPT !.base = calls[r].rev, !.shown = "saved"])
        BY <1>3, CallFacts, SetTabFields
    <2>2. SetTab(t, [tab[t] EXCEPT !.base = calls[r].rev, !.shown = "saved"])
          /\ UNCHANGED draft
        BY <1>4 DEF CheckpointCreated
    <2> QED BY <1>1, <1>2, <2>1, <2>2, Idle, OneResponse
<1>5. CASE TextReplaced(t, r)
    <2>1. KnownTab([tab[t] EXCEPT !.text = calls[r].text, !.base = calls[r].rev,
                                  !.shown = "saved"])
        BY <1>3, CallFacts, SetTabFields
    <2>2. SetTab(t, [tab[t] EXCEPT !.text = calls[r].text, !.base = calls[r].rev,
                                   !.shown = "saved"])
          /\ KeepDraft(t, NoDraft)
        BY <1>5 DEF TextReplaced, DropDraft
    <2> QED BY <1>1, <1>2, <2>1, <2>2, Idle, OneResponse
<1>6. CASE LoadFails(t, r) \/ ActionFails(t, r)
    <2>1. UNCHANGED <<tab, draft>>
        BY <1>6 DEF LoadFails, ActionFails
    <2>2. KnownTab(tab[t])
        BY TabFacts
    <2> QED BY <1>1, <1>2, <2>1, <2>2, Idle, OneResponse
<1> QED BY <1>4, <1>5, <1>6

LEMMA PatchAcceptedKeeps ==
    ASSUME DraftInv, NEW t \in Tabs, NEW r \in Requests, PatchAccepted(t, r)
    PROVE  DraftInv'
<1> USE DEF DraftInv
<1>1. UNCHANGED <<store, tab, draft, online, history, lock, revisions>>
    BY DEF PatchAccepted, store
<1>2. NewCall(Load) /\ r \in Callers
    BY Empty, SentIsNew DEF Callers
<1>3. CallsGood' /\ Serial'
    BY <1>1, <1>2, CallsStep DEF PatchAccepted
<1>4. FetchGood'
    <2> DEFINE next == [fetch[r] EXCEPT !.kind = "reload"]
    <2>1. next \in Fetch
        BY CallFacts DEF Fetch, Kinds
    <2>2. fetch' = [fetch EXCEPT ![r] = next]
        BY DEF PatchAccepted, FetchGood
    <2> QED BY <2>1, <2>2 DEF FetchGood
<1>5. KnownTab(tab[t])
    BY TabFacts
<1> QED BY <1>1, <1>3, <1>4, <1>5, Idle, OneResponse

-----------------------------------------------------------------------------
(* The network, the processes and the other writers.                       *)

(* A step of the surroundings that changes no tab.                         *)
LEMMA Outside ==
    ASSUME DraftInv, UNCHANGED <<tab, draft, revisions>>,
           StoreGood', SaveReplacesItsBase', CallsGood', Serial', FetchGood', HistoryGood'
    PROVE  DraftInv'
<1>1. TabsGood'
    BY TabsStay DEF DraftInv
<1>2. DraftsGood'
    BY DEF DraftInv, DraftsGood
<1> QED BY <1>1, <1>2 DEF DraftInv

LEMMA NetworkKeeps ==
    ASSUME DraftInv, GoOffline \/ GoOnline
    PROVE  DraftInv'
<1> USE DEF DraftInv
<1>1. UNCHANGED <<store, calls, fetch, draft, lock, revisions>>
    BY DEF GoOffline, GoOnline, store
<1>2. CallsGood' /\ Serial' /\ FetchGood' /\ DraftsGood'
    BY <1>1, CallsStay DEF FetchGood, DraftsGood
<1>3. HistoryGood'
    <2>1. CASE GoOffline
        <3>1. count' \in Counts
            BY <2>1 DEF GoOffline, HistoryGood, Counts
        <3>2. online' \in BOOLEAN /\ UNCHANGED <<typed, mine, discarded>>
            BY <2>1 DEF GoOffline
        <3> QED BY <3>1, <3>2 DEF HistoryGood
    <2>2. CASE GoOnline
        BY <2>2 DEF GoOnline, HistoryGood, history
    <2> QED BY <2>1, <2>2
<1>4. TabsGood'
    <2>1. CASE GoOffline
        BY <1>1, <2>1, TabsStay DEF GoOffline
    <2>2. CASE GoOnline
        <3>1. ASSUME NEW t \in Tabs
              PROVE  KnownTab([tab[t] EXCEPT !.due = TRUE]) /\ KnownTab(tab[t])
            <4> DEFINE new == [tab[t] EXCEPT !.due = TRUE]
            <4>1. new \in Tab /\ new.base = tab[t].base /\ new.conflict = tab[t].conflict
                BY TabFacts DEF Tab
            <4> QED BY <4>1, TabFacts DEF KnownTab
        <3>2. \A t \in Tabs : KnownTab(tab'[t])
            <4> TAKE t \in Tabs
            <4>1. tab'[t] \in {tab[t], [tab[t] EXCEPT !.due = TRUE]}
                BY <2>2 DEF GoOnline
            <4> QED BY <3>1, <4>1
        <3>3. tab' \in [Tabs -> Tab]
            <4>1. tab' = [t \in Tabs |-> tab'[t]]
                BY <2>2 DEF GoOnline
            <4> QED BY <3>2, <4>1 DEF KnownTab
        <3>4. Latest' = Latest
            BY <1>1 DEF Latest
        <3> QED BY <3>2, <3>3, <3>4 DEF TabsGood, KnownTab
    <2> QED BY <2>1, <2>2
<1> QED BY <1>1, <1>2, <1>3, <1>4, EditorSuffices DEF EditorGood

LEMMA AbandonedKeeps ==
    ASSUME DraftInv, NEW r \in Requests, Abandoned(r)
    PROVE  DraftInv'
<1>1. UNCHANGED <<store, tab, draft, online, history>> /\ Received(r)
    BY DEF Abandoned
<1>2. CallsGood' /\ Serial' /\ FetchGood'
    BY <1>1, Answered
<1>3. StoreGood' /\ SaveReplacesItsBase'
    BY <1>1, StoreKept DEF DraftInv
<1>4. HistoryGood' /\ UNCHANGED <<tab, draft, revisions>>
    BY <1>1 DEF DraftInv, HistoryGood, history, store
<1> QED BY <1>2, <1>3, <1>4, Outside

LEMMA WritersKeep ==
    ASSUME DraftInv, NEW w \in Writers,
           WriterReads(w) \/ PersistGeneration(w) \/ WriterReturns(w)
    PROVE  DraftInv'
<1> USE DEF DraftInv
<1>1. w \in Callers /\ UNCHANGED <<store, editor>>
    BY DEF Callers, WriterReads, PersistGeneration, WriterReturns
<1>2. UNCHANGED <<tab, fetch, draft, online, revisions, lock>>
    BY <1>1 DEF editor, store
<1>3. StoreGood' /\ SaveReplacesItsBase' /\ FetchGood'
    BY <1>1, <1>2, StoreKept DEF FetchGood
<1>4. typed \in Nat /\ (typed < MaxEdits => typed + 1 \in Edits /\ {typed + 1} \in Text)
    BY RevisionsAssumption DEF HistoryGood, Edits, Text
<1>5. HistoryGood'
    BY <1>2, <1>4 DEF HistoryGood, Counts, WriterReads, PersistGeneration,
                      WriterReturns, history
<1>6. CASE WriterReads(w)
    <2> DEFINE text == revisions[Latest].text \cup {typed + 1}
    <2>1. Latest \in Nat /\ Latest \in 1..Latest
        BY LatestIsNat
    <2>2. text \in Text
        BY <1>4, <1>6, <2>1, RevisionOf, TextUnion DEF WriterReads
    <2>3. NewCall(Save(text, Latest, {}))
        BY <2>1, <2>2, Empty, SentIsNew
    <2>4. CallsGood' /\ Serial'
        BY <1>1, <1>2, <1>6, <2>3, CallsStep DEF WriterReads
    <2> QED BY <1>2, <1>3, <1>5, <2>4, Outside
<1>7. CASE PersistGeneration(w)
    <2>1. NewCall(Save({typed + 1}, 0, Edits))
        BY <1>4, <1>7, Empty, SentIsNew DEF PersistGeneration
    <2>2. CallsGood' /\ Serial'
        BY <1>1, <1>2, <1>7, <2>1, CallsStep DEF PersistGeneration
    <2> QED BY <1>2, <1>3, <1>5, <2>2, Outside
<1>8. CASE WriterReturns(w)
    <2>1. CallsGood' /\ Serial'
        BY <1>1, <1>2, <1>8, NoCallIsNew, CallsStep DEF WriterReturns
    <2> QED BY <1>2, <1>3, <1>5, <2>1, Outside
<1> QED BY <1>6, <1>7, <1>8

LEMMA DiesKeeps ==
    ASSUME DraftInv, NEW dead \in SUBSET Callers, Dies(dead)
    PROVE  DraftInv'
<1> USE DEF DraftInv
<1>1. StoreGood' /\ CallsGood' /\ Serial' /\ SaveReplacesItsBase'
    BY DyingStep DEF Dies
<1>2. UNCHANGED <<tab, fetch, draft, online, revisions>>
    BY DEF Dies, Dying, editor
<1>3. FetchGood' /\ HistoryGood'
    BY <1>2 DEF FetchGood, HistoryGood, Counts, Dies
<1> QED BY <1>1, <1>2, <1>3, Outside

-----------------------------------------------------------------------------
(* The invariant and what follows from it.                                 *)

LEMMA DraftInvInit == Init => DraftInv
<1> SUFFICES ASSUME Init PROVE DraftInv
    OBVIOUS
<1> USE DEF Init, StoreInit
<1> DEFINE first == [text |-> {}, expected |-> 0, waived |-> {}]
<1>1. first \in Revision /\ revisions = <<first>>
    BY Empty DEF Revision
<1>2. revisions \in Seq(Revision) /\ Len(revisions) = 1 /\ DOMAIN revisions = 1..1
    BY <1>1
<1>3. StoreGood
    <2>1. Latest >= 1 /\ revisions \in Seq(Revision)
        BY <1>2 DEF Latest
    <2>2. body \in Text /\ lock \in Callers \cup {Nobody} /\ patch \in BOOLEAN
        BY Empty
    <2> QED BY <2>1, <2>2 DEF StoreGood
<1>4. NewCall(IdleCall)
    BY <1>3, NoCallIsNew
<1>5. CallsGood
    BY <1>4, Idle DEF CallsGood, NewCall
<1>6. Serial
    BY DEF Serial, IdleCall
<1>7. TabsGood
    <2>1. ClosedTab.base = 0 /\ ClosedTab.conflict.id = 0
        BY DEF ClosedTab, NoConflict
    <2>2. KnownTab(ClosedTab)
        BY <1>3, <2>1, Idle, LatestIsNat DEF KnownTab
    <2> QED BY <2>2, Idle DEF TabsGood
<1>8. FetchGood /\ DraftsGood
    BY Idle DEF FetchGood, DraftsGood
<1>9. HistoryGood
    BY Empty, RevisionsAssumption DEF HistoryGood, Counts, Edits
<1>10. SaveReplacesItsBase
    BY <1>2 DEF SaveReplacesItsBase
<1> QED BY <1>3, <1>5, <1>6, <1>7, <1>8, <1>9, <1>10 DEF DraftInv

LEMMA DraftInvNext == DraftInv /\ [Next]_vars => DraftInv'
<1> SUFFICES ASSUME DraftInv, [Next]_vars PROVE DraftInv'
    OBVIOUS
<1>1. ASSUME NEW t \in Tabs, TabStep(t) PROVE DraftInv'
    BY <1>1, OpenTabKeeps, CloseTabKeeps, TypeKeeps, TimerKeeps, UseLatestKeeps,
       KeepLocalKeeps, MergeKeeps, RequestsKeep DEF TabStep
<1>2. ASSUME NEW t \in Tabs, NEW r \in Requests, Response(t, r) PROVE DraftInv'
    BY <1>2, ArticleLoadedKeeps, SaveAnsweredKeeps, RefusedKeeps, ActionAnsweredKeeps,
       PatchAcceptedKeeps DEF Response
<1>3. ASSUME NEW r \in Requests, Abandoned(r) PROVE DraftInv'
    BY <1>3, AbandonedKeeps
<1>4. ASSUME NEW c \in Callers, StoreStep(c), UNCHANGED <<editor, history>>
      PROVE  DraftInv'
    BY <1>4, StoreStepKeeps
<1>5. ASSUME NEW w \in Writers,
             WriterReads(w) \/ PersistGeneration(w) \/ WriterReturns(w)
      PROVE  DraftInv'
    BY <1>5, WritersKeep
<1>6. ASSUME NEW w \in Writers, Dies({w}) PROVE DraftInv'
    BY <1>6, DiesKeeps DEF Callers
<1>7. CASE Dies(Requests)
    BY <1>7, DiesKeeps DEF Callers
<1>8. CASE GoOffline \/ GoOnline
    BY <1>8, NetworkKeeps
<1>9. CASE UNCHANGED vars
    <2>1. UNCHANGED <<store, calls, lock, revisions, editor, history, tab, fetch, draft>>
        BY <1>9 DEF vars, store, editor
    <2>2. CallsGood' /\ Serial' /\ StoreGood' /\ SaveReplacesItsBase'
        BY <2>1, CallsStay, StoreKept DEF DraftInv
    <2>3. FetchGood' /\ HistoryGood'
        BY <2>1 DEF DraftInv, FetchGood, HistoryGood, history, editor
    <2> QED BY <2>1, <2>2, <2>3, Outside
<1> QED BY <1>1, <1>2, <1>3, <1>4, <1>5, <1>6, <1>7, <1>8, <1>9 DEF Next

(* The inductive invariant holds in every reachable state: at most one     *)
(* save is between its comparison and its commit (save_article_revision    *)
(* under WorkspaceLock), and nobody names a revision that does not exist.  *)
THEOREM DraftInvariant == Spec => []DraftInv
BY DraftInvInit, DraftInvNext, PTL DEF Spec

(* Every variable of the article, its tabs and its requests keeps its type.*)
THEOREM DraftTypeCorrect == Spec => []TypeOK
<1>1. DraftInv => TypeOK
    <2>1. typed \in Edits => typed \in Nat
        BY DEF Edits
    <2> QED BY <2>1 DEF DraftInv, StoreGood, CallsGood, TabsGood, FetchGood, DraftsGood,
                        HistoryGood, Counts, TypeOK
<1> QED BY <1>1, DraftInvariant, PTL

(* A save that names its base replaces that very revision, whatever the    *)
(* other requests and jobs save at the same time and whoever dies          *)
(* (save_article_revision).                                                *)
THEOREM SavesReplaceTheirBase == Spec => []SaveReplacesItsBase
<1>1. DraftInv => SaveReplacesItsBase
    BY DEF DraftInv
<1> QED BY <1>1, DraftInvariant, PTL

-----------------------------------------------------------------------------
(* What a tab was shown was once saved, when nobody loads while a save is  *)
(* under way and no process dies inside one.                               *)

Attentive == Risks \subseteq {"trusting"}

(* What the store itself asks for, whatever the users do.                  *)
Quiet == Risks \cap {"racing_load", "torn_save"} = {}

LEMMA AttentiveIsQuiet == ASSUME Attentive PROVE Quiet
BY DEF Attentive, Quiet

TextOf(n) == revisions[n].text
Done(call) == call.pc = "answered" /\ call.answer = "ok"

(* A load reads body and head at one moment, and what a call answers with  *)
(* is the text of the revision it names.                                   *)
Truthful(call) ==
    /\ call.expected <= Latest
    /\ call.pc = "reading" => call.op = "load" /\ lock = Nobody /\ call.text = TextOf(Latest)
    /\ call.pc = "marking" => call.op = "apply"
    /\ Done(call) /\ call.op # "apply" => call.rev \in 1..Latest /\ call.text = TextOf(call.rev)
BodyInv ==
    IF lock = Nobody THEN body = TextOf(Latest)
    ELSE calls[lock].pc = "writing" /\ body = calls[lock].text
Asked(new) == new.conflict # NoConflict
OpenedTab(new) ==
    /\ new.open = "open" => new.base >= 1
    /\ new.open # "open" => new.base = 0 /\ ~new.due /\ ~Asked(new)
    /\ Asked(new) => new.conflict.id \in 1..Latest /\ new.conflict.text = TextOf(new.conflict.id)

(* The call of a request is the one its tab sent.                          *)
Awaited(wait, call, new) ==
    /\ new.open # "closed" /\ wait.kind # "none"
    /\ new.open = "loading" <=> wait.kind = "load"
    /\ wait.kind \in {"load", "reload"} => call.op = "load"
    /\ wait.kind = "save" => \/ call.op = "save" /\ call.text = wait.text
                             \/ call.pc = "answered" /\ call.answer = "error"
    /\ wait.kind = "restore" => call.op = "save"
    /\ wait.kind = "checkpoint" => call.op = "checkpoint"
    /\ wait.kind = "accept" => call.op = "apply"

ReadInv == BodyInv /\ \A c \in Callers : Truthful(calls[c])
WaitInv ==
    /\ \A t \in Tabs : OpenedTab(tab[t])
    /\ \A r \in Requests : fetch[r].tab \in Tabs =>
          Awaited(fetch[r], calls[r], tab[fetch[r].tab])
    /\ \A r, q \in Requests : fetch[r].tab \in Tabs /\ fetch[q].tab = fetch[r].tab
                                 /\ fetch[r].kind = "load" => q = r
ShownInv == ReadInv /\ WaitInv

(* What a step of the store makes of a call.                               *)
LEMMA CallMoves ==
    ASSUME CallsGood, NEW c \in Callers, StoreStep(c)
    PROVE  LET old == calls[c]
               new == calls'[c]
           IN  /\ \A d \in Callers : d # c => calls'[d] = calls[d]
               /\ new.op = old.op /\ new.waived = old.waived /\ old.pc \notin {"idle", "answered"}
               /\ ReadBody(c) =>
                     /\ new.text = body /\ new.expected = old.expected
                     /\ new.pc = IF old.op = "load" THEN "reading" ELSE "checking"
               /\ ReadHead(c) => /\ new.text = old.text /\ new.expected = old.expected
                                 /\ Done(new) /\ new.rev = Latest
               /\ ReadPatch(c) =>
                     /\ old.op = "apply"
                     /\ \/ /\ new.pc = "checking" /\ Latest = 1 /\ new.expected = 1
                           /\ new.text = TextOf(1) \cup {0}
                        \/ new.pc = "answered" /\ new.expected = old.expected
               /\ RefuseSave(c) => /\ new.text = old.text /\ new.expected = old.expected
                                   /\ new.pc = "answered" /\ new.answer = "conflict"
               /\ WriteBody(c) => /\ new.text = old.text /\ new.expected = old.expected
                                  /\ new.pc = "writing"
               /\ SkipSave(c) \/ CommitRevision(c) =>
                     /\ new.text = old.text /\ new.expected = old.expected
                     /\ \/ old.op = "apply" /\ new.pc = "marking"
                        \/ /\ old.op # "apply" /\ Done(new)
                           /\ new.rev = IF SkipSave(c) THEN Latest ELSE Latest + 1
               /\ MarkAccepted(c) => /\ new.text = old.text /\ new.expected = old.expected
                                     /\ new.pc = "answered"
<1> DEFINE old == calls[c]
           new == calls'[c]
<1>1. calls \in [Callers -> Call] /\ old \in Call
    BY DEF CallsGood
<1>2. CASE ReadBody(c)
    BY <1>1, <1>2 DEF ReadBody, ReadHead, ReadPatch, RefuseSave, SkipSave, WriteBody, EntersSave,
                      CommitRevision, MarkAccepted, Call
<1>3. CASE ReadHead(c)
    BY <1>1, <1>3 DEF ReadBody, ReadHead, ReadPatch, RefuseSave, SkipSave, WriteBody, EntersSave,
                      CommitRevision, MarkAccepted, Answer, Reply, Done, Call
<1>4. CASE ReadPatch(c)
    <2>1. old.pc = "sent" /\ old.op = "apply" /\ \A d \in Callers : d # c => calls'[d] = calls[d]
        BY <1>1, <1>4 DEF ReadPatch, Answer
    <2>2. CASE /\ Latest = 1
               /\ calls' = [calls EXCEPT ![c].text = revisions[1].text \cup {0},
                                         ![c].expected = 1, ![c].pc = "checking"]
        <3>1. new = [old EXCEPT !.text = TextOf(1) \cup {0}, !.expected = 1, !.pc = "checking"]
            BY <1>1, <2>2 DEF TextOf
        <3>2. new.text = TextOf(1) \cup {0} /\ new.expected = 1 /\ new.pc = "checking"
              /\ new.op = old.op /\ new.waived = old.waived
            BY <1>1, <3>1 DEF Call
        <3> QED BY <2>1, <2>2, <3>2 DEF ReadBody, ReadHead, RefuseSave, SkipSave,
                          WriteBody, EntersSave, CommitRevision, MarkAccepted
    <2>3. CASE \E answer \in {"ok", "conflict"} : Answer(c, answer, Latest)
        <3>1. new.text = old.text /\ new.expected = old.expected /\ new.pc = "answered"
              /\ new.op = old.op /\ new.waived = old.waived
            BY <1>1, <2>3 DEF Answer, Reply, Call
        <3> QED BY <2>1, <3>1 DEF ReadBody, ReadHead, RefuseSave, SkipSave,
                          WriteBody, EntersSave, CommitRevision, MarkAccepted
    <2> QED BY <1>4, <2>2, <2>3 DEF ReadPatch
<1>5. CASE RefuseSave(c)
    BY <1>1, <1>5 DEF ReadBody, ReadHead, ReadPatch, RefuseSave, SkipSave, WriteBody, EntersSave,
                      CommitRevision, MarkAccepted, Answer, Reply, Call
<1>6. CASE SkipSave(c) \/ CommitRevision(c)
    <2>1. old.pc \in {"checking", "writing"} /\ (SkipSave(c) <=> old.pc = "checking")
        BY <1>6 DEF SkipSave, EntersSave, CommitRevision
    <2>2. ~ReadBody(c) /\ ~ReadHead(c) /\ ~ReadPatch(c) /\ ~MarkAccepted(c)
          /\ ~RefuseSave(c) /\ ~WriteBody(c)
        BY <1>6, <2>1 DEF ReadBody, ReadHead, ReadPatch, RefuseSave, SkipSave, WriteBody,
                          EntersSave, MarkAccepted
    <2>3. Saved(c, IF SkipSave(c) THEN Latest ELSE Latest + 1)
        BY <1>6, <2>1 DEF SkipSave, EntersSave, CommitRevision
    <2>4. /\ \A d \in Callers : d # c => calls'[d] = calls[d]
          /\ new.op = old.op /\ new.waived = old.waived
          /\ new.text = old.text /\ new.expected = old.expected
          /\ \/ old.op = "apply" /\ new.pc = "marking"
             \/ /\ old.op # "apply" /\ Done(new)
                /\ new.rev = IF SkipSave(c) THEN Latest ELSE Latest + 1
        BY <1>1, <2>3 DEF Saved, Reply, Done, Call
    <2> QED BY <2>1, <2>2, <2>4
<1>7. CASE WriteBody(c)
    BY <1>1, <1>7 DEF ReadBody, ReadHead, ReadPatch, RefuseSave, SkipSave, WriteBody, EntersSave,
                      CommitRevision, MarkAccepted, Call
<1>8. CASE MarkAccepted(c)
    BY <1>1, <1>8 DEF ReadBody, ReadHead, ReadPatch, RefuseSave, SkipSave, WriteBody, EntersSave,
                      CommitRevision, MarkAccepted, Answer, Reply, Call
<1> QED BY <1>2, <1>3, <1>4, <1>5, <1>6, <1>7, <1>8 DEF StoreStep

LEMMA HistoryGrows ==
    ASSUME DraftInv, NEW c \in Callers, StoreStep(c)
    PROVE  /\ Latest \in Nat /\ Latest' \in Nat /\ 1 <= Latest /\ Latest <= Latest'
           /\ \A n \in 1..Latest : revisions'[n] = revisions[n]
           /\ CommitRevision(c) => /\ Latest' = Latest + 1 /\ lock = c /\ lock' = Nobody
                                   /\ body' = body /\ calls[c].pc = "writing"
                                   /\ revisions'[Latest + 1].text = calls[c].text
                                   /\ revisions'[Latest + 1].waived = calls[c].waived
                                   /\ revisions'[Latest + 1].expected = calls[c].expected
           /\ WriteBody(c) => /\ lock = Nobody /\ lock' = c /\ body' = calls[c].text
                              /\ revisions' = revisions /\ calls[c].pc = "checking"
           /\ ~CommitRevision(c) /\ ~WriteBody(c) =>
                 revisions' = revisions /\ body' = body /\ lock' = lock /\ calls[c].pc # "writing"
           /\ ~CommitRevision(c) => revisions' = revisions /\ Latest' = Latest
<1>1. Latest \in Nat /\ 1 <= Latest /\ revisions \in Seq(Revision)
    BY LatestIsNat DEF DraftInv, StoreGood
<1>2. CASE CommitRevision(c)
    <2>1. [text |-> calls[c].text, expected |-> calls[c].expected, waived |-> calls[c].waived]
              \in Revision
        BY DEF DraftInv, CallsGood, Call, Revision
    <2>2. /\ Len(revisions') = Len(revisions) + 1
          /\ \A n \in 1..Len(revisions) : revisions'[n] = revisions[n]
          /\ revisions'[Len(revisions) + 1] = [text |-> calls[c].text, waived |-> calls[c].waived,
                                               expected |-> calls[c].expected]
        BY <1>1, <1>2, <2>1, AppendProperties DEF CommitRevision
    <2>3. calls[c].pc = "writing" /\ lock = c /\ lock' = Nobody /\ body' = body
        BY <1>2 DEF CommitRevision, DraftInv, Serial
    <2>4. ~WriteBody(c)
        BY <2>3 DEF WriteBody, EntersSave
    <2> QED BY <1>1, <1>2, <2>2, <2>3, <2>4 DEF Latest
<1>3. CASE WriteBody(c)
    <2>1. /\ lock = Nobody /\ lock' = c /\ body' = calls[c].text /\ revisions' = revisions
          /\ calls[c].pc = "checking"
        BY <1>3 DEF WriteBody, EntersSave
    <2>2. ~CommitRevision(c)
        BY <2>1 DEF CommitRevision
    <2> QED BY <1>1, <1>3, <2>1, <2>2 DEF Latest
<1>4. CASE ~CommitRevision(c) /\ ~WriteBody(c)
    <2>1. UNCHANGED <<revisions, body, lock>> /\ calls[c].pc # "writing"
        BY <1>4 DEF StoreStep, ReadBody, ReadHead, ReadPatch, RefuseSave, SkipSave, EntersSave,
                    MarkAccepted, store
    <2> QED BY <1>1, <1>4, <2>1 DEF Latest
<1> QED BY <1>2, <1>3, <1>4

LEMMA ReadsStoreStep ==
    ASSUME DraftInv, Quiet, ReadInv, NEW c \in Callers, StoreStep(c)
    PROVE  ReadInv'
<1> DEFINE old == calls[c]
           new == calls'[c]
<1>1. CallsGood /\ Nobody \notin Callers /\ lock \in Callers \cup {Nobody}
    BY RevisionsAssumption DEF DraftInv, StoreGood, Callers
<1>2. \A d \in Callers : d # c => calls'[d] = calls[d]
    BY <1>1, CallMoves
<1>3. BodyInv'
    <2>1. CASE CommitRevision(c)
        BY <1>1, <2>1, HistoryGrows DEF ReadInv, BodyInv, TextOf
    <2>2. CASE WriteBody(c)
        <3>1. new.pc = "writing" /\ new.text = old.text
            BY <1>1, <2>2, CallMoves
        <3> QED BY <1>1, <2>2, <3>1, HistoryGrows DEF ReadInv, BodyInv, TextOf
    <2>3. CASE ~CommitRevision(c) /\ ~WriteBody(c)
        BY <1>1, <1>2, <2>3, HistoryGrows DEF ReadInv, BodyInv, TextOf
    <2> QED BY <2>1, <2>2, <2>3
<1>4. \A d \in Callers : calls[d].expected \in Nat /\ calls[d].rev \in Nat
    BY <1>1 DEF CallsGood, Call
<1>5. ASSUME NEW d \in Callers, d # c PROVE Truthful(calls[d])'
    <2>1. Truthful(calls[d]) /\ calls'[d] = calls[d]
        BY <1>2, <1>5 DEF ReadInv
    <2>2. calls[d].expected <= Latest'
        BY <1>4, <2>1, HistoryGrows DEF Truthful
    <2>3. calls[d].pc = "reading" => lock' = lock /\ Latest' = Latest
        <3>1. CASE WriteBody(c)
            BY <3>1 DEF WriteBody, EntersSave, Quiet
        <3>2. CASE CommitRevision(c)
            BY <1>1, <2>1, <3>2, HistoryGrows DEF Truthful
        <3>3. CASE ~CommitRevision(c) /\ ~WriteBody(c)
            BY <3>3, HistoryGrows
        <3> QED BY <3>1, <3>2, <3>3
    <2>4. \A n \in 1..Latest : revisions'[n] = revisions[n] /\ n \in 1..Latest'
        BY HistoryGrows
    <2>5. Latest \in 1..Latest
        BY HistoryGrows
    <2> QED BY <2>1, <2>2, <2>3, <2>4, <2>5 DEF Truthful, TextOf, Done
<1>6. Truthful(calls[c])'
    <2>1. Truthful(old) /\ old.expected \in Nat
        BY <1>4 DEF ReadInv
    <2>2. Latest \in 1..Latest /\ Latest <= Latest' /\ Latest' \in Nat /\ Latest \in Nat
        BY HistoryGrows
    <2>3. CASE ReadBody(c)
        <3>1. UNCHANGED <<revisions, lock>> /\ Latest' = Latest
            BY <2>3 DEF ReadBody, store, Latest
        <3>2. old.op = "load" => lock = Nobody /\ body = TextOf(Latest)
            BY <2>3 DEF ReadBody, Quiet, ReadInv, BodyInv
        <3>3. new.op = old.op /\ new.text = body /\ new.expected = old.expected
              /\ new.pc = IF old.op = "load" THEN "reading" ELSE "checking"
            BY <1>1, <2>3, CallMoves
        <3> QED BY <2>1, <3>1, <3>2, <3>3 DEF Truthful, Done, TextOf
    <2>4. CASE ReadHead(c)
        <3>1. UNCHANGED <<revisions, lock>> /\ Latest' = Latest /\ old.pc = "reading"
            BY <2>4 DEF ReadHead, store, Latest
        <3>2. new.op = old.op /\ new.text = old.text /\ new.expected = old.expected
              /\ Done(new) /\ new.rev = Latest
            BY <1>1, <2>4, CallMoves
        <3> QED BY <2>1, <2>2, <3>1, <3>2 DEF Truthful, Done, TextOf
    <2>5. CASE ReadPatch(c)
        <3>1. new.op = "apply" /\ new.pc \in {"checking", "answered"}
              /\ (new.expected = old.expected \/ (Latest = 1 /\ new.expected = 1))
            BY <1>1, <2>5, CallMoves
        <3> QED BY <2>1, <2>2, <3>1 DEF Truthful, Done
    <2>6. CASE RefuseSave(c)
        <3>1. new.expected = old.expected /\ new.pc = "answered" /\ new.answer = "conflict"
            BY <1>1, <2>6, CallMoves
        <3> QED BY <2>1, <2>2, <3>1 DEF Truthful, Done
    <2>7. CASE SkipSave(c)
        <3>1. old.text = TextOf(Latest) /\ Latest' = Latest /\ revisions' = revisions
            BY <2>7 DEF SkipSave, Unchanged, TextOf, store, Latest
        <3>2. /\ new.expected = old.expected /\ new.text = old.text /\ new.op = old.op
              /\ \/ new.pc = "marking" /\ new.op = "apply"
                 \/ new.pc = "answered" /\ new.rev = Latest
            BY <1>1, <2>7, CallMoves DEF Done
        <3> QED BY <2>1, <2>2, <3>1, <3>2 DEF Truthful, Done, TextOf
    <2>8. CASE CommitRevision(c)
        <3>1. revisions'[Latest + 1].text = old.text /\ Latest' = Latest + 1
            BY <2>8, HistoryGrows
        <3>2. ~SkipSave(c)
            BY <2>8 DEF CommitRevision, SkipSave, EntersSave
        <3>3. /\ new.expected = old.expected /\ new.text = old.text /\ new.op = old.op
              /\ \/ new.pc = "marking" /\ new.op = "apply"
                 \/ new.pc = "answered" /\ new.rev = Latest + 1
            BY <1>1, <2>8, <3>2, CallMoves DEF Done
        <3> QED BY <2>1, <2>2, <3>1, <3>3 DEF Truthful, Done, TextOf
    <2>9. CASE WriteBody(c)
        <3>1. new.expected = old.expected /\ new.pc = "writing"
            BY <1>1, <2>9, CallMoves
        <3> QED BY <2>1, <2>2, <3>1 DEF Truthful, Done
    <2>10. CASE MarkAccepted(c)
        <3>1. new.expected = old.expected /\ new.pc = "answered" /\ new.op = "apply"
            <4>1. old.pc = "marking"
                BY <2>10 DEF MarkAccepted
            <4> QED BY <1>1, <2>1, <2>10, <4>1, CallMoves DEF Truthful
        <3> QED BY <2>1, <2>2, <3>1 DEF Truthful, Done
    <2> QED BY <2>3, <2>4, <2>5, <2>6, <2>7, <2>8, <2>9, <2>10 DEF StoreStep
<1> QED BY <1>2, <1>3, <1>5, <1>6 DEF ReadInv

LEMMA WaitsStoreStep ==
    ASSUME DraftInv, ShownInv, NEW c \in Callers, StoreStep(c), UNCHANGED editor
    PROVE  WaitInv'
<1>1. UNCHANGED <<tab, fetch>> /\ CallsGood
    BY DEF editor, DraftInv
<1>2. ASSUME NEW t \in Tabs PROVE OpenedTab(tab[t])'
    <2>1. OpenedTab(tab[t]) /\ tab[t].conflict.id \in Nat
        BY TabFacts DEF ShownInv, WaitInv
    <2> QED BY <1>1, <2>1, HistoryGrows DEF OpenedTab, Asked, TextOf
<1>3. ASSUME NEW r \in Requests, fetch[r].tab \in Tabs
      PROVE  Awaited(fetch[r], calls'[r], tab[fetch[r].tab])
    <2>1. Awaited(fetch[r], calls[r], tab[fetch[r].tab]) /\ r \in Callers
        BY <1>3 DEF ShownInv, WaitInv, Callers
    <2>2. calls'[r].op = calls[r].op
          /\ (calls[r].op = "save" => calls'[r].text = calls[r].text)
          /\ (calls[r].pc = "answered" => calls'[r] = calls[r])
        <3>1. CASE r # c
            BY <1>1, <2>1, <3>1, CallMoves
        <3>2. CASE r = c
            <4>1. calls[r].pc # "answered" /\ calls'[r].op = calls[r].op
                BY <1>1, <2>1, <3>2, CallMoves
            <4>2. calls[r].op = "save" => ~ReadBody(c) /\ ~ReadPatch(c)
                BY <3>2 DEF ReadBody, ReadPatch
            <4>3. calls[r].op = "save" => calls'[r].text = calls[r].text
                BY <1>1, <2>1, <3>2, <4>2, CallMoves DEF StoreStep
            <4> QED BY <4>1, <4>3
        <3> QED BY <3>1, <3>2
    <2> QED BY <2>1, <2>2 DEF Awaited
<1> QED BY <1>1, <1>2, <1>3 DEF ShownInv, WaitInv

(* The calls a tab or a job sends.                                         *)
LEMMA SentFields ==
    ASSUME NEW text, NEW expected, NEW waived
    PROVE  /\ IdleCall.pc = "idle" /\ IdleCall.expected = 0 /\ IdleCall.answer = "none"
           /\ Load.op = "load" /\ Load.pc = "sent" /\ Load.expected = 0
           /\ LET s == Save(text, expected, waived)
              IN  /\ s.op = "save" /\ s.pc = "checking" /\ s.text = text
                  /\ s.expected = expected /\ s.waived = waived
           /\ Checkpoint(expected).op = "checkpoint" /\ Checkpoint(expected).pc = "sent"
           /\ Checkpoint(expected).expected = expected
           /\ Apply.op = "apply" /\ Apply.pc = "sent" /\ Apply.expected = 0
BY DEF IdleCall, Load, Save, Checkpoint, Apply

LEMMA RestoreFields ==
    ASSUME NEW n, NEW expected
    PROVE  LET s == Restore(n, expected)
           IN  /\ s.op = "save" /\ s.pc = "checking" /\ s.text = TextOf(n)
               /\ s.expected = expected /\ s.waived = Edits
BY DEF Restore, Save, IdleCall, TextOf

LEMMA RefusedCall ==
    LET s == Reply(IdleCall, "error", 0)
    IN  s.pc = "answered" /\ s.answer = "error" /\ s.expected = 0
BY DEF Reply, IdleCall

(* A call that is just sent has read nothing.                              *)
Unread(call) ==
    /\ call.expected <= Latest
    /\ call.pc \in {"idle", "sent", "checking"} \/ (call.pc = "answered" /\ call.answer = "error")

LEMMA ReadsStay ==
    ASSUME ReadInv, UNCHANGED store, UNCHANGED calls
    PROVE  ReadInv'
<1>1. UNCHANGED <<revisions, body, lock, calls>> /\ Latest' = Latest
    BY DEF store, Latest
<1> QED BY <1>1 DEF ReadInv, BodyInv, Truthful, Done, TextOf

LEMMA ReadsSet ==
    ASSUME DraftInv, ReadInv, UNCHANGED store, NEW c \in Callers, NEW call, Unread(call),
           calls' = [calls EXCEPT ![c] = call], calls[c].pc # "writing"
    PROVE  ReadInv'
<1>1. UNCHANGED <<revisions, body, lock>> /\ Latest' = Latest
    BY DEF store, Latest
<1>2. \A d \in Callers : calls'[d] = IF d = c THEN call ELSE calls[d]
    BY DEF DraftInv, CallsGood
<1>3. lock \in Callers \cup {Nobody}
    BY DEF DraftInv, StoreGood
<1>4. BodyInv'
    BY <1>1, <1>2, <1>3 DEF ReadInv, BodyInv, TextOf
<1>5. ASSUME NEW d \in Callers PROVE Truthful(calls[d])'
    <2>1. CASE d = c
        BY <1>1, <1>2, <2>1 DEF Unread, Truthful, Done
    <2>2. CASE d # c
        BY <1>1, <1>2, <2>2 DEF ReadInv, Truthful, Done, TextOf
    <2> QED BY <2>1, <2>2
<1> QED BY <1>4, <1>5 DEF ReadInv

LEMMA ReadsReceived ==
    ASSUME DraftInv, ReadInv, UNCHANGED store, NEW r \in Requests,
           \/ Received(r) /\ calls[r].pc # "writing"
           \/ Fails(r)
    PROVE  ReadInv'
<1>1. r \in Callers
    BY DEF Callers
<1>2. CASE UNCHANGED calls
    BY <1>2, ReadsStay
<1>3. CASE Received(r) /\ calls[r].pc # "writing"
    <2>1. Unread(IdleCall)
        BY LatestIsNat, SentFields DEF Unread, DraftInv
    <2> QED BY <1>1, <1>3, <2>1, ReadsSet DEF Received
<1> QED BY <1>2, <1>3 DEF Fails

LEMMA ReadsSent ==
    ASSUME DraftInv, ReadInv, UNCHANGED store, NEW r \in Requests, NEW t, NEW kind, NEW text,
           NEW call, Unread(call), Send(r, t, kind, text, call)
    PROVE  ReadInv'
BY ReadsSet DEF Send, Free, Callers

(* A step that leaves every awaited request but those of one tab.          *)
LEMMA WaitsStep ==
    ASSUME DraftInv, WaitInv, UNCHANGED store, NEW t \in Tabs, NEW new, OpenedTab(new),
           SetTab(t, new),
           \A r \in Requests : fetch'[r].tab \in Tabs \ {t} =>
               fetch'[r] = fetch[r] /\ calls'[r] = calls[r],
           \A r \in Requests : fetch'[r].tab = t => Awaited(fetch'[r], calls'[r], new),
           \A r, q \in Requests : fetch'[r].tab = t /\ fetch'[q].tab = t
                                     /\ fetch'[r].kind = "load" => q = r
    PROVE  WaitInv'
<1>1. \A u \in Tabs : tab'[u] = IF u = t THEN new ELSE tab[u]
    BY DEF SetTab, DraftInv, TabsGood
<1>2. UNCHANGED revisions /\ Latest' = Latest
    BY DEF store, Latest
<1>3. ASSUME NEW u \in Tabs PROVE OpenedTab(tab[u])'
    BY <1>1, <1>2 DEF WaitInv, OpenedTab, Asked, TextOf
<1>4. ASSUME NEW r \in Requests, fetch'[r].tab \in Tabs
      PROVE  Awaited(fetch'[r], calls'[r], tab'[fetch'[r].tab])
    BY <1>1, <1>4 DEF WaitInv
<1>5. ASSUME NEW r \in Requests, NEW q \in Requests, fetch'[r].tab \in Tabs,
             fetch'[q].tab = fetch'[r].tab, fetch'[r].kind = "load"
      PROVE  q = r
    BY <1>5 DEF WaitInv
<1> QED BY <1>3, <1>4, <1>5 DEF WaitInv

LEMMA WaitsStay ==
    ASSUME DraftInv, WaitInv, UNCHANGED store, UNCHANGED tab,
           \A r \in Requests : fetch'[r].tab \in Tabs =>
               fetch'[r] = fetch[r] /\ calls'[r] = calls[r]
    PROVE  WaitInv'
<1>1. UNCHANGED revisions /\ Latest' = Latest
    BY DEF store, Latest
<1> QED BY <1>1 DEF WaitInv, OpenedTab, Asked, TextOf

(* ... and one that keeps the tab open, or shut.                           *)
LEMMA WaitsKept ==
    ASSUME DraftInv, WaitInv, UNCHANGED store, NEW t \in Tabs, NEW new, OpenedTab(new),
           SetTab(t, new), new.open = tab[t].open,
           \A r \in Requests : fetch'[r].tab \in Tabs =>
               fetch'[r] = fetch[r] /\ calls'[r] = calls[r]
    PROVE  WaitInv'
<1>1. ASSUME NEW r \in Requests, fetch'[r].tab = t PROVE Awaited(fetch'[r], calls'[r], new)
    BY <1>1 DEF WaitInv, Awaited
<1>2. \A r, q \in Requests : fetch'[r].tab = t /\ fetch'[q].tab = t
                                /\ fetch'[r].kind = "load" => q = r
    BY DEF WaitInv
<1> QED BY <1>1, <1>2, WaitsStep

LEMMA WaitsSent ==
    ASSUME DraftInv, WaitInv, UNCHANGED store, NEW t \in Tabs, NEW new, OpenedTab(new),
           SetTab(t, new), new.open = "open", tab[t].open = "open",
           NEW r \in Requests, NEW kind \in Kinds \ {"load"}, NEW text, NEW call,
           Send(r, t, kind, text, call),
           Awaited([tab |-> t, kind |-> kind, text |-> text], call, new)
    PROVE  WaitInv'
<1> DEFINE wait == [tab |-> t, kind |-> kind, text |-> text]
<1>1. r \in Callers /\ \A q \in Requests : q \in Callers
    BY DEF Callers
<1>2. \A q \in Requests : /\ fetch'[q] = IF q = r THEN wait ELSE fetch[q]
                          /\ calls'[q] = IF q = r THEN call ELSE calls[q]
    BY <1>1 DEF Send, DraftInv, FetchGood, CallsGood
<1>3. wait.tab = t /\ wait.kind = kind
    OBVIOUS
<1>4. \A q \in Requests : fetch'[q].tab \in Tabs \ {t} =>
          fetch'[q] = fetch[q] /\ calls'[q] = calls[q]
    BY <1>2, <1>3
<1>5. ASSUME NEW q \in Requests, fetch'[q].tab = t PROVE Awaited(fetch'[q], calls'[q], new)
    BY <1>2, <1>5 DEF WaitInv, Awaited
<1>6. \A p, q \in Requests : fetch'[p].tab = t /\ fetch'[q].tab = t
                                /\ fetch'[p].kind = "load" => q = p
    BY <1>2, <1>3 DEF WaitInv, Awaited
<1> QED BY <1>4, <1>5, <1>6, WaitsStep

LEMMA WaitsReceived ==
    ASSUME DraftInv, NEW r \in Requests, Received(r) \/ Fails(r)
    PROVE  /\ \A q \in Requests : fetch'[q].tab \in Tabs =>
                  q # r /\ fetch'[q] = fetch[q] /\ calls'[q] = calls[q]
           /\ \A q \in Requests : q # r => fetch'[q] = fetch[q] /\ calls'[q] = calls[q]
<1>1. r \in Callers /\ Nobody \notin Tabs /\ \A q \in Requests : q \in Callers
    BY EditorAssumption DEF Callers
<1>2. fetch \in [Requests -> Fetch] /\ calls \in [Callers -> Call]
    BY DEF DraftInv, FetchGood, CallsGood
<1>3. CASE Received(r)
    BY <1>1, <1>2, <1>3 DEF Received, NoFetch
<1>4. CASE fetch' = [fetch EXCEPT ![r].tab = Nobody] /\ UNCHANGED calls
    <2>1. [fetch[r] EXCEPT !.tab = Nobody].tab = Nobody
        BY <1>2 DEF Fetch
    <2> QED BY <1>1, <1>2, <1>4, <2>1
<1> QED BY <1>3, <1>4 DEF Fails

(* saveDraft, of a tab that is open.                                       *)
LEMMA SaveDraftShows ==
    ASSUME DraftInv, ShownInv, UNCHANGED store, NEW t \in Tabs, NEW new, KnownTab(new),
           OpenedTab(new), new.open = "open", tab[t].open = "open", SaveDraft(t, new)
    PROVE  ShownInv'
<1>1. new \in Tab
    BY DEF KnownTab
<1>2. ASSUME NEW shown
      PROVE  LET next == [new EXCEPT !.due = FALSE, !.shown = shown]
             IN  /\ OpenedTab(next) /\ next.open = "open"
                 /\ next.base = new.base /\ next.text = new.text
    BY <1>1 DEF Tab, OpenedTab, Asked
<1>3. Unread(SaveCall(new))
    BY RefusedCall, SentFields, LatestIsNat DEF SaveCall, Unread, KnownTab, DraftInv
<1>4. CASE UNCHANGED <<fetch, calls>> /\ SetTab(t, [new EXCEPT !.due = FALSE, !.shown = "offline"])
    BY <1>2, <1>4, ReadsStay, WaitsKept DEF ShownInv
<1>5. ASSUME NEW r \in Requests, Send(r, t, "save", new.text, SaveCall(new)),
             SetTab(t, [new EXCEPT !.due = FALSE, !.shown = "saving"])
      PROVE  ShownInv'
    <2> DEFINE next == [new EXCEPT !.due = FALSE, !.shown = "saving"]
    <2>1. Awaited([tab |-> t, kind |-> "save", text |-> new.text], SaveCall(new), next)
        <3> DEFINE wait == [tab |-> t, kind |-> "save", text |-> new.text]
                   call == SaveCall(new)
        <3>1. wait.kind = "save" /\ wait.text = new.text
            OBVIOUS
        <3>2. \/ call.op = "save" /\ call.text = new.text
              \/ call.pc = "answered" /\ call.answer = "error"
            <4>1. CASE new.base = 0
                BY <4>1, RefusedCall DEF SaveCall
            <4>2. CASE new.base # 0
                BY <4>2, SentFields DEF SaveCall
            <4> QED BY <4>1, <4>2
        <3>3. next.open = "open"
            BY <1>2
        <3> HIDE DEF wait, call, next
        <3>4. Awaited(wait, call, next)
            BY <3>1, <3>2, <3>3 DEF Awaited
        <3> QED BY <3>4 DEF wait, call, next
    <2>2. "save" \in Kinds \ {"load"} /\ OpenedTab(next) /\ next.open = "open"
        BY <1>2 DEF Kinds
    <2>3. ReadInv'
        BY <1>3, <1>5, ReadsSent DEF ShownInv
    <2>4. WaitInv'
        BY <1>5, <2>1, <2>2, WaitsSent DEF ShownInv
    <2> QED BY <2>3, <2>4 DEF ShownInv
<1> QED BY <1>4, <1>5 DEF SaveDraft

LEMMA OpenTabShows ==
    ASSUME DraftInv, ShownInv, NEW t \in Tabs, OpenTab(t) PROVE ShownInv'
<1> DEFINE new == [ClosedTab EXCEPT !.open = "loading"]
<1>1. PICK r \in Requests : Send(r, t, "load", {}, Load)
    BY DEF OpenTab
<1>2. UNCHANGED store /\ SetTab(t, new) /\ tab[t].open = "closed"
    BY DEF OpenTab
<1>3. ReadInv'
    <2>1. Unread(Load)
        BY SentFields, LatestIsNat DEF Unread, DraftInv
    <2> QED BY <1>1, <1>2, <2>1, ReadsSent DEF ShownInv
<1>4. /\ new.open = "loading" /\ new.base = 0 /\ new.due = FALSE /\ new.conflict = NoConflict
    BY DEF ClosedTab
<1>5. OpenedTab(new)
    BY <1>4 DEF OpenedTab, Asked
<1>6. \A q \in Requests : fetch[q].tab # t
    BY <1>2 DEF ShownInv, WaitInv, Awaited
<1>7. r \in Callers /\ \A q \in Requests : q \in Callers
    BY DEF Callers
<1>8. \A q \in Requests : /\ fetch'[q] = IF q = r THEN [tab |-> t, kind |-> "load", text |-> {}]
                                         ELSE fetch[q]
                          /\ calls'[q] = IF q = r THEN Load ELSE calls[q]
    BY <1>1, <1>7 DEF Send, DraftInv, FetchGood, CallsGood
<1>9. Awaited([tab |-> t, kind |-> "load", text |-> {}], Load, new)
    BY <1>4, SentFields DEF Awaited
<1>10. \A q \in Requests : fetch'[q].tab = t => q = r
    BY <1>6, <1>8
<1>11. \A q \in Requests : fetch'[q].tab = t => Awaited(fetch'[q], calls'[q], new)
    BY <1>8, <1>9, <1>10
<1>12. \A q \in Requests : fetch'[q].tab \in Tabs \ {t} =>
           fetch'[q] = fetch[q] /\ calls'[q] = calls[q]
    BY <1>8
<1>13. WaitInv'
    BY <1>2, <1>5, <1>10, <1>11, <1>12, WaitsStep DEF ShownInv
<1> QED BY <1>3, <1>13 DEF ShownInv

LEMMA CloseTabShows ==
    ASSUME DraftInv, ShownInv, NEW t \in Tabs, CloseTab(t) PROVE ShownInv'
<1>1. UNCHANGED store /\ UNCHANGED calls /\ SetTab(t, ClosedTab)
    BY DEF CloseTab
<1>2. OpenedTab(ClosedTab)
    BY DEF OpenedTab, Asked, ClosedTab
<1>3. \A r \in Requests : fetch'[r].tab # t
          /\ (fetch'[r].tab \in Tabs => fetch'[r] = fetch[r] /\ calls'[r] = calls[r])
    <2> TAKE r \in Requests
    <2>1. fetch[r].tab = t => fetch'[r].tab = Nobody
        BY DEF CloseTab, DraftInv, FetchGood, Fetch
    <2>2. fetch[r].tab # t => fetch'[r] = fetch[r]
        BY DEF CloseTab
    <2> QED BY <1>1, <2>1, <2>2, EditorAssumption
<1>4. WaitInv'
    BY <1>1, <1>2, <1>3, WaitsStep DEF ShownInv
<1> QED BY <1>1, <1>4, ReadsStay DEF ShownInv

(* A tab whose text or indicator changes.                                  *)
LEMMA EditShows ==
    ASSUME DraftInv, ShownInv, Attentive, NEW t \in Tabs,
           Type(t) \/ UseLatest(t) \/ MergeManually(t)
    PROVE  ShownInv'
<1>1. UNCHANGED <<store, calls, fetch>>
    BY DEF Type, UseLatest, MergeManually
<1>2. OpenedTab(tab[t]) /\ tab[t] \in Tab /\ tab[t].conflict.id \in Nat
    BY TabFacts DEF ShownInv, WaitInv
<1>3. PICK new : /\ SetTab(t, new) /\ new.open = tab[t].open /\ OpenedTab(new)
    <2>1. CASE Type(t)
        <3> DEFINE new == [tab[t] EXCEPT !.text = tab[t].text \cup {typed + 1},
                             !.due = TRUE, !.shown = "unsaved"]
        <3>1. SetTab(t, new) /\ tab[t].open = "open"
            BY <2>1 DEF Type, Attentive
        <3>2. new.open = tab[t].open /\ new.base = tab[t].base /\ new.conflict = tab[t].conflict
            BY <1>2 DEF Tab
        <3>3. OpenedTab(new)
            BY <1>2, <3>1, <3>2 DEF OpenedTab, Asked
        <3> QED BY <3>1, <3>2, <3>3
    <2>2. CASE UseLatest(t)
        <3> DEFINE latest == tab[t].conflict
                   new == [tab[t] EXCEPT !.text = latest.text, !.base = latest.id,
                             !.conflict = NoConflict, !.shown = "saved",
                             !.waived = @ \cup ((tab[t].text \cup latest.local) \ latest.text)]
        <3>1. SetTab(t, new) /\ Asked(tab[t])
            BY <2>2 DEF UseLatest, Asks, Asked
        <3>2. new.open = tab[t].open /\ new.base = latest.id /\ new.conflict = NoConflict
            BY <1>2 DEF Tab
        <3>3. OpenedTab(new)
            BY <1>2, <3>1, <3>2 DEF OpenedTab, Asked
        <3> QED BY <3>1, <3>2, <3>3
    <2>3. CASE MergeManually(t)
        <3> DEFINE new == [tab[t] EXCEPT !.text = tab[t].text \cup tab[t].conflict.text,
                             !.base = tab[t].conflict.id, !.conflict = NoConflict,
                             !.shown = "unsaved"]
        <3>1. SetTab(t, new) /\ Asked(tab[t])
            BY <2>3 DEF MergeManually, MayKeep, Asks, Asked
        <3>2. new.open = tab[t].open /\ new.base = tab[t].conflict.id
              /\ new.conflict = NoConflict
            BY <1>2 DEF Tab
        <3>3. OpenedTab(new)
            BY <1>2, <3>1, <3>2 DEF OpenedTab, Asked
        <3> QED BY <3>1, <3>2, <3>3
    <2> QED BY <2>1, <2>2, <2>3
<1>4. WaitInv'
    BY <1>1, <1>3, WaitsKept DEF ShownInv
<1> QED BY <1>1, <1>4, ReadsStay DEF ShownInv

LEMMA SavesShow ==
    ASSUME DraftInv, ShownInv, NEW t \in Tabs, TimerFires(t) \/ KeepLocal(t)
    PROVE  ShownInv'
<1>1. UNCHANGED store
    BY DEF TimerFires, KeepLocal
<1>2. OpenedTab(tab[t]) /\ tab[t] \in Tab /\ KnownTab(tab[t])
    BY TabFacts DEF ShownInv, WaitInv
<1>3. CASE TimerFires(t)
    <2>1. tab[t].due /\ SaveDraft(t, tab[t])
        BY <1>3 DEF TimerFires
    <2>2. tab[t].open = "open"
        BY <1>2, <2>1 DEF OpenedTab
    <2> QED BY <1>1, <1>2, <2>1, <2>2, SaveDraftShows
<1>4. CASE KeepLocal(t)
    <2> DEFINE seen == tab[t].waived \cup (tab[t].conflict.text \ tab[t].text)
               new == [tab[t] EXCEPT !.base = tab[t].conflict.id, !.conflict = NoConflict,
                                     !.waived = seen]
    <2>1. Asked(tab[t]) /\ SaveDraft(t, new)
        BY <1>4 DEF KeepLocal, MayKeep, Asks, Asked
    <2>2. seen \in Text
        BY TabFacts DEF Text
    <2>3. /\ new \in Tab /\ new.open = tab[t].open /\ new.base = tab[t].conflict.id
          /\ new.conflict = NoConflict
        BY <1>2, <2>2, TabFacts, Idle DEF Tab
    <2>4. OpenedTab(new) /\ tab[t].open = "open"
        BY <1>2, <2>1, <2>3, TabFacts DEF OpenedTab, Asked
    <2>5. KnownTab(new)
        BY <2>3, TabFacts, LatestIsNat DEF KnownTab, NoConflict, DraftInv
    <2> QED BY <1>1, <2>1, <2>3, <2>4, <2>5, SaveDraftShows
<1> QED BY <1>3, <1>4

LEMMA RequestsShow ==
    ASSUME DraftInv, ShownInv, NEW t \in Tabs,
           CreateCheckpoint(t) \/ RestoreRevision(t) \/ AcceptPatch(t)
    PROVE  ShownInv'
<1>1. UNCHANGED store /\ UNCHANGED tab /\ tab[t].open = "open"
    BY DEF CreateCheckpoint, RestoreRevision, AcceptPatch, Ready
<1>2. OpenedTab(tab[t]) /\ SetTab(t, tab[t]) /\ tab[t].base <= Latest /\ tab[t].base \in Nat
    BY <1>1, TabFacts DEF ShownInv, WaitInv, SetTab, DraftInv, TabsGood
<1>3. PICK r \in Requests, kind \in Kinds \ {"load"} : \E call :
          /\ Send(r, t, kind, {}, call) /\ Unread(call)
          /\ Awaited([tab |-> t, kind |-> kind, text |-> {}], call, tab[t])
    <2>0. {"checkpoint", "restore", "accept"} \subseteq Kinds \ {"load"}
        BY DEF Kinds
    <2>1. CASE CreateCheckpoint(t)
        <3>1. PICK r \in Requests : Send(r, t, "checkpoint", {}, Checkpoint(tab[t].base))
            BY <2>1 DEF CreateCheckpoint
        <3>2. Unread(Checkpoint(tab[t].base))
            BY <1>2, SentFields DEF Unread
        <3>3. Awaited([tab |-> t, kind |-> "checkpoint", text |-> {}],
                      Checkpoint(tab[t].base), tab[t])
            BY <1>1, SentFields DEF Awaited
        <3> QED BY <2>0, <3>1, <3>2, <3>3
    <2>2. CASE RestoreRevision(t)
        <3>1. PICK r \in Requests, n \in 1..(tab[t].base - 1) :
                  Send(r, t, "restore", {}, Restore(n, tab[t].base))
            BY <2>2 DEF RestoreRevision
        <3>2. Unread(Restore(n, tab[t].base))
            BY <1>2, RestoreFields DEF Unread
        <3>3. Awaited([tab |-> t, kind |-> "restore", text |-> {}],
                      Restore(n, tab[t].base), tab[t])
            BY <1>1, RestoreFields DEF Awaited
        <3> QED BY <2>0, <3>1, <3>2, <3>3
    <2>3. CASE AcceptPatch(t)
        <3>1. PICK r \in Requests : Send(r, t, "accept", {}, Apply)
            BY <2>3 DEF AcceptPatch
        <3>2. Unread(Apply)
            BY LatestIsNat, SentFields DEF Unread, DraftInv
        <3>3. Awaited([tab |-> t, kind |-> "accept", text |-> {}], Apply, tab[t])
            BY <1>1, SentFields DEF Awaited
        <3> QED BY <2>0, <3>1, <3>2, <3>3
    <2> QED BY <2>1, <2>2, <2>3
<1>4. PICK call :
          /\ Send(r, t, kind, {}, call) /\ Unread(call)
          /\ Awaited([tab |-> t, kind |-> kind, text |-> {}], call, tab[t])
    BY <1>3
<1>5. ReadInv'
    BY <1>1, <1>4, ReadsSent DEF ShownInv
<1>6. WaitInv'
    BY <1>1, <1>2, <1>4, WaitsSent DEF ShownInv
<1> QED BY <1>5, <1>6 DEF ShownInv

(* The tab goes on with a response, or without one.                        *)
LEMMA TabAnswered ==
    ASSUME DraftInv, ShownInv, UNCHANGED store, NEW t \in Tabs, NEW r \in Requests,
           fetch[r].tab = t, (Received(r) /\ calls[r].pc # "writing") \/ Fails(r),
           NEW new, OpenedTab(new), SetTab(t, new),
           new.open = tab[t].open \/ (fetch[r].kind = "load" /\ new.open = "open")
    PROVE  ShownInv'
<1>1. ReadInv'
    BY ReadsReceived DEF ShownInv
<1>2. \A q \in Requests : fetch'[q].tab \in Tabs =>
          q # r /\ fetch'[q] = fetch[q] /\ calls'[q] = calls[q]
    BY WaitsReceived
<1>3. WaitInv'
    <2>1. CASE new.open = tab[t].open
        BY <1>2, <2>1, WaitsKept DEF ShownInv
    <2>2. CASE fetch[r].kind = "load"
        <3>1. \A q \in Requests : fetch'[q].tab # t
            BY <1>2, <2>2 DEF ShownInv, WaitInv
        <3>2. \A q \in Requests : fetch'[q].tab \in Tabs \ {t} =>
                  fetch'[q] = fetch[q] /\ calls'[q] = calls[q]
            BY <1>2
        <3> QED BY <3>1, <3>2, WaitsStep DEF ShownInv
    <2> QED BY <2>1, <2>2
<1> QED BY <1>1, <1>3 DEF ShownInv

(* What is known of the request a tab awaits.                              *)
LEMMA WaitFacts ==
    ASSUME DraftInv, ShownInv, NEW t \in Tabs, NEW r \in Requests, fetch[r].tab = t
    PROVE  /\ Awaited(fetch[r], calls[r], tab[t]) /\ OpenedTab(tab[t])
           /\ Truthful(calls[r]) /\ KnownCall(calls[r])
           /\ tab[t] \in Tab /\ tab[t].open = IF fetch[r].kind = "load" THEN "loading" ELSE "open"
<1>1. Awaited(fetch[r], calls[r], tab[t]) /\ OpenedTab(tab[t]) /\ tab[t] \in Tab
    BY TabFacts DEF ShownInv, WaitInv
<1>2. Truthful(calls[r]) /\ KnownCall(calls[r])
    BY DEF ShownInv, ReadInv, DraftInv, CallsGood, Callers
<1> QED BY <1>1, <1>2 DEF Awaited, Tab

LEMMA LoadedShows ==
    ASSUME DraftInv, ShownInv, NEW t \in Tabs, NEW r \in Requests, ArticleLoaded(t, r)
    PROVE  ShownInv'
<1> DEFINE served == [tab[t] EXCEPT !.open = "open", !.text = calls[r].text,
                                    !.base = calls[r].rev, !.shown = "saved"]
           recovered == [served EXCEPT !.text = Stored(t).text,
                           !.waived = Stored(t).waived, !.due = @ \/ online,
                           !.shown = IF online THEN "unsaved" ELSE "offline"]
           asked == ShowConflict(served, served.base, served.text, Stored(t).text)
<1>1. /\ UNCHANGED store /\ Received(r) /\ fetch[r].tab = t /\ fetch[r].kind = "load"
      /\ calls[r].pc = "answered" /\ Done(calls[r])
    BY DEF ArticleLoaded, Responds, Done
<1>2. /\ calls[r].op = "load" /\ OpenedTab(tab[t]) /\ Truthful(calls[r])
      /\ tab[t] \in Tab /\ tab[t].open = "loading"
    BY <1>1, WaitFacts DEF Awaited
<1>3. calls[r].rev \in 1..Latest /\ calls[r].text = TextOf(calls[r].rev) /\ calls[r].rev >= 1
    <2>1. calls[r].rev \in 1..Latest /\ calls[r].text = TextOf(calls[r].rev)
        BY <1>1, <1>2 DEF Truthful
    <2> QED BY <2>1, LatestIsNat DEF DraftInv
<1>4. /\ served.open = "open" /\ served.base = calls[r].rev /\ served.conflict = NoConflict
      /\ served.text = calls[r].text
    <2>1. tab[t].conflict = NoConflict
        BY <1>2 DEF OpenedTab, Asked
    <2> QED BY <1>2, <2>1 DEF Tab
<1>5. recovered.open = "open" /\ recovered.base = calls[r].rev /\ recovered.conflict = NoConflict
    <2> HIDE DEF served
    <2>1. recovered.open = served.open /\ recovered.base = served.base
          /\ recovered.conflict = served.conflict
        BY <1>2 DEF Tab, served
    <2> QED BY <1>4, <2>1
<1>6. /\ asked.open = "open" /\ asked.base = calls[r].rev
      /\ asked.conflict.id = calls[r].rev /\ asked.conflict.text = calls[r].text
    <2>1. asked.open = served.open /\ asked.base = served.base
          /\ asked.conflict = [id |-> served.base, text |-> served.text,
                               local |-> Stored(t).text]
        BY <1>2 DEF Tab, ShowConflict
    <2> HIDE DEF served, asked
    <2> QED BY <1>4, <2>1
<1>7. SetTab(t, served) \/ SetTab(t, recovered) \/ SetTab(t, asked)
    BY DEF ArticleLoaded
<1> HIDE DEF served, recovered, asked
<1>8. OpenedTab(served) /\ OpenedTab(recovered) /\ OpenedTab(asked)
    BY <1>3, <1>4, <1>5, <1>6 DEF OpenedTab, Asked
<1>9. calls[r].pc # "writing"
    BY <1>1
<1> QED BY <1>1, <1>4, <1>5, <1>6, <1>7, <1>8, <1>9, TabAnswered

(* A tab whose base, text and indicator a response sets.                   *)
LEMMA AnswersShow ==
    ASSUME DraftInv, ShownInv, NEW t \in Tabs, NEW r \in Requests,
           \/ SaveSucceeds(t, r) \/ SaveFails(t, r) \/ CheckpointCreated(t, r)
           \/ TextReplaced(t, r) \/ LoadFails(t, r) \/ ActionFails(t, r)
    PROVE  ShownInv'
<1>1. /\ UNCHANGED store /\ fetch[r].tab = t
      /\ (Received(r) /\ calls[r].pc # "writing") \/ Fails(r)
    BY DEF SaveSucceeds, SaveFails, CheckpointCreated, TextReplaced, LoadFails, ActionFails,
           Responds
<1>2. OpenedTab(tab[t]) /\ tab[t] \in Tab /\ Awaited(fetch[r], calls[r], tab[t])
      /\ Truthful(calls[r])
    BY <1>1, WaitFacts
<1>3. PICK new : SetTab(t, new) /\ OpenedTab(new) /\ new.open = tab[t].open
    <2>1. CASE LoadFails(t, r) \/ ActionFails(t, r)
        <3>1. SetTab(t, tab[t])
            BY <2>1 DEF LoadFails, ActionFails, SetTab, DraftInv, TabsGood
        <3> QED BY <1>2, <3>1
    <2>2. CASE SaveFails(t, r)
        <3> DEFINE new == [tab[t] EXCEPT !.shown = Failure]
        <3>1. SetTab(t, new)
            BY <2>2 DEF SaveFails
        <3>2. /\ new.open = tab[t].open /\ new.base = tab[t].base /\ new.due = tab[t].due
              /\ new.conflict = tab[t].conflict
            BY <1>2 DEF Tab
        <3>3. OpenedTab(new)
            BY <1>2, <3>2 DEF OpenedTab, Asked
        <3> QED BY <3>1, <3>2, <3>3
    <2>3. CASE SaveSucceeds(t, r) \/ CheckpointCreated(t, r) \/ TextReplaced(t, r)
        <3>1. /\ fetch[r].kind \in {"save", "checkpoint", "restore", "reload"}
              /\ Done(calls[r])
            BY <2>3 DEF SaveSucceeds, CheckpointCreated, TextReplaced, Responds, Done
        <3>2. tab[t].open = "open" /\ calls[r].op # "apply"
            BY <1>1, <1>2, <3>1, WaitFacts DEF Awaited, Done
        <3>3. calls[r].rev \in 1..Latest
            BY <1>2, <3>1, <3>2 DEF Truthful
        <3> DEFINE new1 == [tab[t] EXCEPT !.base = calls[r].rev, !.shown = "saved"]
                   new2 == [tab[t] EXCEPT !.text = calls[r].text, !.base = calls[r].rev,
                                          !.shown = "saved"]
        <3>4. SetTab(t, new1) \/ SetTab(t, new2)
            BY <2>3 DEF SaveSucceeds, CheckpointCreated, TextReplaced
        <3>5. /\ new1.open = tab[t].open /\ new1.base = calls[r].rev
              /\ new1.conflict = tab[t].conflict
              /\ new2.open = tab[t].open /\ new2.base = calls[r].rev
              /\ new2.conflict = tab[t].conflict
            BY <1>2 DEF Tab
        <3> HIDE DEF new1, new2
        <3>6. OpenedTab(new1) /\ OpenedTab(new2)
            BY <1>2, <3>2, <3>3, <3>5, LatestIsNat DEF OpenedTab, Asked, DraftInv
        <3> QED BY <3>4, <3>5, <3>6
    <2> QED BY <2>1, <2>2, <2>3
<1> QED BY <1>1, <1>3, TabAnswered

LEMMA RefusedShows ==
    ASSUME DraftInv, ShownInv, NEW t \in Tabs, NEW r \in Requests, Refused(t, r)
    PROVE  ShownInv'
<1> DEFINE local == IF fetch[r].kind = "save" THEN fetch[r].text ELSE tab[t].text
           latest == revisions[calls[r].rev].text
           new == ShowConflict(tab[t], calls[r].rev, latest, local)
<1>1. /\ UNCHANGED store /\ Received(r) /\ fetch[r].tab = t /\ fetch[r].kind # "load"
      /\ calls[r].pc = "answered" /\ calls[r].answer = "conflict" /\ SetTab(t, new)
    BY DEF Refused, Responds
<1>2. /\ OpenedTab(tab[t]) /\ KnownCall(calls[r]) /\ tab[t] \in Tab /\ tab[t].open = "open"
    BY <1>1, WaitFacts
<1>3. calls[r].rev \in 1..Latest
    BY <1>1, <1>2, LatestIsNat DEF KnownCall, Call, DraftInv
<1>4. /\ new.open = tab[t].open /\ new.base = tab[t].base
      /\ new.conflict.id = calls[r].rev /\ new.conflict.text = latest
    BY <1>2 DEF Tab, ShowConflict
<1> HIDE DEF new, local
<1>5. OpenedTab(new)
    BY <1>2, <1>3, <1>4 DEF OpenedTab, Asked, TextOf
<1> QED BY <1>1, <1>4, <1>5, TabAnswered

LEMMA PatchAcceptedShows ==
    ASSUME DraftInv, ShownInv, NEW t \in Tabs, NEW r \in Requests, PatchAccepted(t, r)
    PROVE  ShownInv'
<1>1. /\ UNCHANGED store /\ UNCHANGED tab /\ fetch[r].tab = t /\ calls[r].pc # "writing"
      /\ fetch[r].kind = "accept" /\ calls' = [calls EXCEPT ![r] = Load] /\ r \in Callers
      /\ fetch' = [fetch EXCEPT ![r].kind = "reload"]
    BY DEF PatchAccepted, Responds, Callers
<1>2. ReadInv'
    <2>1. Unread(Load)
        BY SentFields, LatestIsNat DEF Unread, DraftInv
    <2> QED BY <1>1, <2>1, ReadsSet DEF ShownInv
<1>3. OpenedTab(tab[t]) /\ SetTab(t, tab[t]) /\ tab[t].open = "open"
    BY <1>1, WaitFacts DEF SetTab, DraftInv, TabsGood
<1>4. fetch'[r].tab = t /\ fetch'[r].kind = "reload" /\ calls'[r] = Load
    BY <1>1 DEF DraftInv, FetchGood, Fetch, CallsGood
<1>5. \A q \in Requests : q # r => fetch'[q] = fetch[q] /\ calls'[q] = calls[q]
    BY <1>1 DEF DraftInv, FetchGood, CallsGood, Callers
<1>6. Awaited(fetch'[r], calls'[r], tab[t])
    BY <1>3, <1>4, SentFields DEF Awaited
<1>7. \A q \in Requests : fetch'[q].tab \in Tabs \ {t} =>
          fetch'[q] = fetch[q] /\ calls'[q] = calls[q]
    BY <1>4, <1>5
<1>8. \A q \in Requests : fetch'[q].tab = t => Awaited(fetch'[q], calls'[q], tab[t])
    BY <1>5, <1>6 DEF ShownInv, WaitInv
<1>9. \A p, q \in Requests : fetch'[p].tab = t /\ fetch'[q].tab = t
                                /\ fetch'[p].kind = "load" => q = p
    BY <1>3, <1>8 DEF Awaited
<1>10. WaitInv'
    BY <1>1, <1>3, <1>7, <1>8, <1>9, WaitsStep DEF ShownInv
<1> QED BY <1>2, <1>10 DEF ShownInv

LEMMA AbandonedShows ==
    ASSUME DraftInv, ShownInv, NEW r \in Requests, Abandoned(r)
    PROVE  ShownInv'
<1>1. UNCHANGED store /\ UNCHANGED tab /\ Received(r) /\ calls[r].pc # "writing"
    BY DEF Abandoned
<1>2. \A q \in Requests : fetch'[q].tab \in Tabs => fetch'[q] = fetch[q] /\ calls'[q] = calls[q]
    BY <1>1, WaitsReceived
<1> QED BY <1>1, <1>2, ReadsReceived, WaitsStay DEF ShownInv

LEMMA WritersShow ==
    ASSUME DraftInv, ShownInv, NEW w \in Writers,
           WriterReads(w) \/ PersistGeneration(w) \/ WriterReturns(w)
    PROVE  ShownInv'
<1>1. w \in Callers /\ UNCHANGED store /\ UNCHANGED <<tab, fetch>> /\ w \notin Requests
    BY RevisionsAssumption DEF Callers, WriterReads, PersistGeneration, WriterReturns, editor
<1>2. PICK call : calls' = [calls EXCEPT ![w] = call] /\ Unread(call)
    <2>1. Latest \in Nat /\ 1 <= Latest
        BY LatestIsNat DEF DraftInv
    <2>2. CASE WriterReads(w)
        <3> DEFINE text == revisions[Latest].text \cup {typed + 1}
        <3>1. Unread(Save(text, Latest, {}))
            BY <2>1, SentFields DEF Unread
        <3> QED BY <2>2, <3>1 DEF WriterReads
    <2>3. CASE PersistGeneration(w)
        <3>1. Unread(Save({typed + 1}, 0, Edits))
            BY <2>1, SentFields DEF Unread
        <3> QED BY <2>3, <3>1 DEF PersistGeneration
    <2>4. CASE WriterReturns(w)
        <3>1. Unread(IdleCall)
            BY <2>1, SentFields DEF Unread
        <3> QED BY <2>4, <3>1 DEF WriterReturns
    <2> QED BY <2>2, <2>3, <2>4
<1>3. calls[w].pc # "writing"
    BY DEF WriterReads, PersistGeneration, WriterReturns
<1>4. ReadInv'
    BY <1>1, <1>2, <1>3, ReadsSet DEF ShownInv
<1>5. \A q \in Requests : calls'[q] = calls[q]
    BY <1>1, <1>2 DEF DraftInv, CallsGood, Callers
<1>6. WaitInv'
    BY <1>1, <1>5, WaitsStay DEF ShownInv
<1> QED BY <1>4, <1>6 DEF ShownInv

(* A process dies outside a save: what it was asked is answered by an      *)
(* error, and nothing else changes.                                        *)
LEMMA DyingMoves ==
    ASSUME DraftInv, Quiet, NEW dead \in SUBSET Callers, Dies(dead)
    PROVE  /\ lock \notin dead /\ lock' = lock /\ revisions' = revisions /\ body' = body
           /\ tab' = tab /\ fetch' = fetch /\ draft' = draft /\ Latest' = Latest
           /\ online' = online /\ mine' = mine /\ discarded' = discarded
           /\ \A c \in Callers :
                 \/ calls'[c] = calls[c]
                 \/ /\ calls'[c].pc = "answered" /\ calls'[c].answer = "error"
                    /\ calls'[c].expected = calls[c].expected /\ calls'[c].text = calls[c].text
                    /\ calls'[c].op = calls[c].op /\ calls'[c].rev = 0
                    /\ calls[c].pc # "answered" /\ c \in dead
<1>1. /\ lock \notin dead /\ lock' = lock /\ UNCHANGED <<revisions, body, tab, fetch, draft>>
      /\ online' = online /\ mine' = mine /\ discarded' = discarded
    BY DEF Dies, Dying, Quiet, editor
<1>2. Latest' = Latest
    BY <1>1 DEF Latest
<1>3. ASSUME NEW c \in Callers, calls'[c] # calls[c]
      PROVE  /\ calls'[c].pc = "answered" /\ calls'[c].answer = "error"
             /\ calls'[c].expected = calls[c].expected /\ calls'[c].text = calls[c].text
             /\ calls'[c].op = calls[c].op /\ calls'[c].rev = 0
             /\ calls[c].pc # "answered" /\ c \in dead
    <2>1. /\ calls'[c] = Reply(calls[c], "error", 0)
          /\ calls[c].pc \notin {"idle", "answered"} /\ c \in dead
        BY <1>3 DEF Dies, Dying
    <2> QED BY <2>1 DEF Reply, DraftInv, CallsGood, Call
<1> QED BY <1>1, <1>2, <1>3

LEMMA DyingReads ==
    ASSUME DraftInv, ReadInv, Quiet, NEW dead \in SUBSET Callers, Dies(dead)
    PROVE  ReadInv'
<1>1. BodyInv'
    <2>1. lock \in Callers \cup {Nobody}
        BY DEF DraftInv, StoreGood
    <2>2. lock # Nobody => calls'[lock] = calls[lock]
        BY <2>1, DyingMoves
    <2> QED BY <2>2, DyingMoves DEF ReadInv, BodyInv, TextOf
<1>2. ASSUME NEW c \in Callers PROVE Truthful(calls[c])'
    <2>1. Truthful(calls[c])
        BY DEF ReadInv
    <2> QED BY <2>1, DyingMoves DEF Truthful, Done, TextOf
<1> QED BY <1>1, <1>2 DEF ReadInv

LEMMA DiesShows ==
    ASSUME DraftInv, ShownInv, Attentive, NEW dead \in SUBSET Callers, Dies(dead)
    PROVE  ShownInv'
<1>1. Quiet
    BY AttentiveIsQuiet
<1>2. ReadInv'
    BY <1>1, DyingReads DEF ShownInv
<1>3. ASSUME NEW t \in Tabs PROVE OpenedTab(tab[t])'
    BY <1>1, DyingMoves DEF ShownInv, WaitInv, OpenedTab, Asked, TextOf
<1>4. ASSUME NEW r \in Requests, fetch[r].tab \in Tabs
      PROVE  Awaited(fetch[r], calls'[r], tab[fetch[r].tab])
    <2>1. Awaited(fetch[r], calls[r], tab[fetch[r].tab]) /\ r \in Callers
        BY <1>4 DEF ShownInv, WaitInv, Callers
    <2> QED BY <1>1, <2>1, DyingMoves DEF Awaited
<1> QED BY <1>1, <1>2, <1>3, <1>4, DyingMoves DEF ShownInv, WaitInv

LEMMA NetworkShows ==
    ASSUME DraftInv, ShownInv, Attentive, GoOffline \/ GoOnline
    PROVE  ShownInv'
<1>1. UNCHANGED store /\ UNCHANGED calls /\ UNCHANGED fetch /\ UNCHANGED <<revisions>>
    BY DEF GoOffline, GoOnline, store
<1>2. Latest' = Latest
    BY <1>1 DEF Latest
<1>3. ReadInv'
    BY <1>1, ReadsStay DEF ShownInv
<1>4. CASE GoOffline
    BY <1>1, <1>3, <1>4, WaitsStay DEF ShownInv, GoOffline
<1>5. CASE GoOnline
    <2>1. ASSUME NEW t \in Tabs
          PROVE  /\ tab'[t].open = tab[t].open /\ OpenedTab(tab[t])'
        <3>1. /\ tab'[t].open = tab[t].open /\ tab'[t].base = tab[t].base
              /\ tab'[t].conflict = tab[t].conflict
              /\ (tab'[t].due = tab[t].due \/ tab[t].open = "open")
            <4>1. tab[t] \in Tab /\ (tab[t].open # "closed" => tab[t].open = "open")
                BY <1>5, TabFacts DEF GoOnline, Attentive, Tab
            <4>2. tab'[t] \in {tab[t], [tab[t] EXCEPT !.due = TRUE]}
                  /\ (tab'[t] # tab[t] => tab[t].open # "closed")
                BY <1>5 DEF GoOnline
            <4> QED BY <4>1, <4>2 DEF Tab
        <3>2. OpenedTab(tab[t])
            BY DEF ShownInv, WaitInv
        <3> QED BY <1>1, <1>2, <3>1, <3>2 DEF OpenedTab, Asked, TextOf
    <2>2. WaitInv'
        BY <1>1, <2>1 DEF ShownInv, WaitInv, Awaited
    <2> QED BY <1>3, <2>2 DEF ShownInv
<1> QED BY <1>4, <1>5

LEMMA ShownInit == Init => ShownInv
<1> SUFFICES ASSUME Init PROVE ShownInv
    OBVIOUS
<1>1. /\ revisions = <<[text |-> {}, expected |-> 0, waived |-> {}]>> /\ lock = Nobody
      /\ body = {} /\ calls = [c \in Callers |-> IdleCall]
      /\ tab = [t \in Tabs |-> ClosedTab] /\ fetch = [r \in Requests |-> NoFetch]
    BY DEF Init, StoreInit
<1>2. Latest = 1 /\ TextOf(1) = {}
    BY <1>1 DEF Latest, TextOf
<1>3. BodyInv
    BY <1>1, <1>2 DEF BodyInv
<1>4. \A c \in Callers : Truthful(calls[c])
    BY <1>1, <1>2, SentFields DEF Truthful, Done
<1>5. \A t \in Tabs : OpenedTab(tab[t])
    BY <1>1 DEF OpenedTab, Asked, ClosedTab
<1>6. \A r \in Requests : fetch[r].tab \notin Tabs
    BY <1>1, EditorAssumption DEF NoFetch
<1> QED BY <1>3, <1>4, <1>5, <1>6 DEF ShownInv, ReadInv, WaitInv

LEMMA ShownNext ==
    ASSUME Attentive PROVE DraftInv /\ ShownInv /\ [Next]_vars => ShownInv'
<1> SUFFICES ASSUME DraftInv, ShownInv, [Next]_vars PROVE ShownInv'
    OBVIOUS
<1>1. ASSUME NEW t \in Tabs, TabStep(t) PROVE ShownInv'
    BY <1>1, OpenTabShows, CloseTabShows, EditShows, SavesShow, RequestsShow DEF TabStep
<1>2. ASSUME NEW t \in Tabs, NEW r \in Requests, Response(t, r) PROVE ShownInv'
    BY <1>2, LoadedShows, AnswersShow, RefusedShows, PatchAcceptedShows DEF Response
<1>3. ASSUME NEW r \in Requests, Abandoned(r) PROVE ShownInv'
    BY <1>3, AbandonedShows
<1>4. ASSUME NEW c \in Callers, StoreStep(c), UNCHANGED <<editor, history>>
      PROVE  ShownInv'
    BY <1>4, AttentiveIsQuiet, ReadsStoreStep, WaitsStoreStep DEF ShownInv
<1>5. ASSUME NEW w \in Writers,
             WriterReads(w) \/ PersistGeneration(w) \/ WriterReturns(w)
      PROVE  ShownInv'
    BY <1>5, WritersShow
<1>6. ASSUME NEW w \in Writers, Dies({w}) PROVE ShownInv'
    BY <1>6, DiesShows DEF Callers
<1>7. CASE Dies(Requests)
    BY <1>7, DiesShows DEF Callers
<1>8. CASE GoOffline \/ GoOnline
    BY <1>8, NetworkShows
<1>9. CASE UNCHANGED vars
    <2>1. UNCHANGED store /\ UNCHANGED calls /\ UNCHANGED tab /\ UNCHANGED fetch
        BY <1>9 DEF vars, editor
    <2> QED BY <2>1, ReadsStay, WaitsStay DEF ShownInv
<1> QED BY <1>1, <1>2, <1>3, <1>4, <1>5, <1>6, <1>7, <1>8, <1>9 DEF Next

LEMMA ShownAlways == ASSUME Attentive PROVE Spec => []ShownInv
<1>1. DraftInv /\ ShownInv /\ [Next]_vars => ShownInv'
    BY ShownNext
<1> QED BY <1>1, DraftInvariant, ShownInit, PTL DEF Spec

-----------------------------------------------------------------------------
(* Whoever may replace the latest revision keeps what it says, or its      *)
(* author chose to drop it, as long as the network is there.               *)

(* The latest revision, in a text and what its author chose to drop.       *)
Keeps(x) == TextOf(Latest) \subseteq x.text \cup x.waived
Shows(new, text) == text \subseteq new.text \cup new.waived

(* A checkpoint may have read the body a save is writing, but is then      *)
(* refused.                                                                *)
CallKeeps(call) ==
    call.expected = Latest =>
        /\ call.pc = "checking" => Keeps(call) \/ (call.op = "checkpoint" /\ lock # Nobody)
        /\ call.pc = "writing" => Keeps(call)
TabKeeps(new) == new.base = Latest => Keeps(new)
DraftKeeps(d) == d.kept => d.base <= Latest /\ (d.base = Latest => Keeps(d))

(* The call will be the latest revision, or is.                            *)
Current(call) ==
    \/ call.pc = "checking" /\ call.expected = Latest /\ lock = Nobody
    \/ call.pc = "writing"
    \/ Done(call) /\ call.rev = Latest

(* What a tab awaits will not surprise it.                                 *)
WaitKeeps(wait, call, new) ==
    /\ wait.kind = "save" => Shows(new, wait.text)
    /\ wait.kind = "checkpoint" => /\ call.pc # "answered" => call.expected = new.base
                                   /\ Current(call) => Shows(new, call.text)
    /\ wait.kind \in Replacing => ~new.due /\ ~Asked(new)

OneWait ==
    \A r, q \in Requests : fetch[r].tab \in Tabs /\ fetch[q].tab = fetch[r].tab => q = r
KeepInv ==
    /\ NoBlindOverwrite
    /\ \A c \in Callers : CallKeeps(calls[c])
    /\ \A t \in Tabs : TabKeeps(tab[t])
    /\ \A b \in Browsers : DraftKeeps(draft[b])
    /\ \A r \in Requests : fetch[r].tab \in Tabs =>
          WaitKeeps(fetch[r], calls[r], tab[fetch[r].tab])
    /\ OneWait

LEMMA CommitKeeps ==
    ASSUME DraftInv, ShownInv, KeepInv, NEW c \in Callers, CommitRevision(c), UNCHANGED editor
    PROVE  KeepInv'
<1> DEFINE old == calls[c]
           new == calls'[c]
<1>1. UNCHANGED <<tab, fetch, draft>> /\ CallsGood /\ StoreStep(c)
    BY DEF editor, DraftInv, StoreStep
<1>2. /\ Latest \in Nat /\ 1 <= Latest /\ Latest' = Latest + 1 /\ old.pc = "writing"
      /\ \A n \in 1..Latest : revisions'[n] = revisions[n]
      /\ revisions'[Latest + 1].text = old.text
      /\ revisions'[Latest + 1].waived = old.waived
      /\ revisions'[Latest + 1].expected = old.expected
    BY <1>1, HistoryGrows
<1>3. /\ new.text = old.text /\ ~(new.pc = "checking") /\ ~(new.pc = "writing")
      /\ new.expected = old.expected /\ (old.op # "apply" => new.pc = "answered")
      /\ \A d \in Callers : d # c => calls'[d] = calls[d] /\ calls[d].pc # "writing"
    <2>1. \A d \in Callers : d # c => calls'[d] = calls[d]
        BY <1>1, CallMoves
    <2>2. new.text = old.text /\ new.expected = old.expected
          /\ new.pc \in {"marking", "answered"} /\ (old.op # "apply" => new.pc = "answered")
        BY <1>1, CallMoves DEF Done
    <2>3. \A d \in Callers : d # c => calls[d].pc # "writing"
        BY <1>2 DEF DraftInv, Serial
    <2> QED BY <2>1, <2>2, <2>3
<1>4. NoBlindOverwrite'
    <2>1. DOMAIN revisions = 1..Latest /\ DOMAIN revisions' = 1..(Latest + 1)
        <3>1. StoreGood'
            BY <1>1, CommitStep DEF DraftInv
        <3> QED BY <1>2, <3>1 DEF DraftInv, StoreGood, Latest
    <2>2. ASSUME NEW n \in 1..(Latest + 1), n > 1, revisions'[n].expected = n - 1
          PROVE  revisions'[n - 1].text
                     \subseteq revisions'[n].text \cup revisions'[n].waived
        <3>1. CASE n = Latest + 1
            <4>1. old.expected = Latest /\ revisions'[n - 1] = revisions[Latest]
                BY <1>2, <2>2, <3>1
            <4>2. Keeps(old)
                BY <1>2, <4>1 DEF KeepInv, CallKeeps
            <4> QED BY <1>2, <3>1, <4>1, <4>2 DEF Keeps, TextOf
        <3>2. CASE n # Latest + 1
            <4>1. n \in 1..Latest /\ n - 1 \in 1..Latest
                BY <1>2, <2>2, <3>2
            <4>2. revisions'[n] = revisions[n] /\ revisions'[n - 1] = revisions[n - 1]
                BY <1>2, <4>1
            <4> QED BY <2>1, <2>2, <4>1, <4>2 DEF KeepInv, NoBlindOverwrite
        <3> QED BY <3>1, <3>2
    <2> QED BY <2>1, <2>2 DEF NoBlindOverwrite
<1>5. ASSUME NEW d \in Callers PROVE CallKeeps(calls[d])'
    <2>1. calls[d].expected \in Nat /\ calls[d].expected <= Latest
        BY DEF ShownInv, ReadInv, Truthful, DraftInv, CallsGood, Call
    <2>2. calls'[d].expected # Latest'
        BY <1>2, <1>3, <2>1
    <2> QED BY <2>2 DEF CallKeeps
<1>6. ASSUME NEW t \in Tabs PROVE TabKeeps(tab[t])'
    <2>1. tab[t].base \in Nat /\ tab[t].base <= Latest
        BY TabFacts
    <2> QED BY <1>1, <1>2, <2>1 DEF TabKeeps
<1>7. ASSUME NEW b \in Browsers PROVE DraftKeeps(draft[b])'
    <2>1. draft[b].base \in Nat /\ (draft[b].kept => draft[b].base <= Latest)
        BY DEF KeepInv, DraftKeeps, DraftInv, DraftsGood, Draft
    <2> QED BY <1>1, <1>2, <2>1 DEF DraftKeeps
<1>8. ASSUME NEW r \in Requests, fetch[r].tab \in Tabs
      PROVE  WaitKeeps(fetch[r], calls[r], tab[fetch[r].tab])'
    <2> DEFINE t == fetch[r].tab
    <2>1. /\ WaitKeeps(fetch[r], calls[r], tab[t]) /\ r \in Callers
          /\ Awaited(fetch[r], calls[r], tab[t]) /\ Truthful(calls[r])
          /\ calls[r].expected \in Nat /\ calls[r].rev \in Nat
        BY <1>8, WaitFacts DEF KeepInv, Callers, DraftInv, CallsGood, Call
    <2>2. ASSUME fetch[r].kind = "checkpoint"
          PROVE  /\ calls'[r].pc # "answered" => calls'[r].expected = tab[t].base
                 /\ Current(calls[r])' => Shows(tab[t], calls'[r].text)
        <3>1. calls[r].op = "checkpoint"
            BY <2>1, <2>2 DEF Awaited
        <3>2. CASE r = c
            BY <1>2, <1>3, <2>1, <2>2, <3>1, <3>2 DEF WaitKeeps, Current
        <3>3. CASE r # c
            <4>1. calls'[r] = calls[r] /\ calls[r].pc # "writing"
                BY <1>3, <2>1, <3>3
            <4>2. ~(Done(calls[r]) /\ calls[r].rev = Latest')
                BY <1>2, <2>1, <3>1 DEF Truthful
            <4>3. calls[r].expected # Latest'
                BY <1>2, <2>1 DEF Truthful
            <4> QED BY <2>1, <2>2, <4>1, <4>2, <4>3 DEF WaitKeeps, Current, Done
        <3> QED BY <3>2, <3>3
    <2> QED BY <1>1, <2>1, <2>2 DEF WaitKeeps, Shows, Asked
<1>9. OneWait'
    BY <1>1 DEF KeepInv, OneWait
<1> QED BY <1>1, <1>4, <1>5, <1>6, <1>7, <1>8, <1>9 DEF KeepInv

(* The store's other steps leave the history as it is.                     *)
LEMMA OtherStepsKeep ==
    ASSUME DraftInv, ShownInv, KeepInv, Attentive, NEW c \in Callers, StoreStep(c),
           ~CommitRevision(c), UNCHANGED editor
    PROVE  KeepInv'
<1> DEFINE old == calls[c]
           new == calls'[c]
<1>1. UNCHANGED <<tab, fetch, draft>> /\ CallsGood
    BY DEF editor, DraftInv
<1>2. /\ Latest \in Nat /\ 1 <= Latest /\ Latest' = Latest /\ revisions' = revisions
      /\ lock' = lock \/ (lock = Nobody /\ lock' = c)
    BY HistoryGrows
<1>3. \A d \in Callers : d # c => calls'[d] = calls[d]
    BY <1>1, CallMoves
<1>4. lock' = Nobody => lock = Nobody
    BY <1>2, RevisionsAssumption DEF Callers
<1>5. TextOf(Latest) = TextOf(Latest)'
    BY <1>2 DEF TextOf
<1>6. \A d \in Callers : d # c => CallKeeps(calls[d])'
    BY <1>2, <1>3, <1>4, <1>5 DEF KeepInv, CallKeeps, Keeps
<1>7. /\ CallKeeps(calls[c])'
      /\ old.op = "checkpoint" => new.expected = old.expected
      /\ old.op = "checkpoint" /\ old.expected # 0 /\ Current(calls[c])' =>
            \/ Current(old) /\ new.text = old.text
            \/ old.expected = Latest /\ new.text = TextOf(Latest)
    <2>1. new.op = old.op /\ new.waived = old.waived /\ old.pc # "answered"
          /\ CallKeeps(old) /\ Truthful(old) /\ old \in Call
        BY <1>1, CallMoves DEF KeepInv, ShownInv, ReadInv, CallsGood
    <2>2. CASE ReadBody(c)
        <3>1. /\ new.text = body /\ new.expected = old.expected /\ lock' = lock
              /\ new.pc = IF old.op = "load" THEN "reading" ELSE "checking"
            BY <1>1, <2>2, CallMoves DEF ReadBody, store
        <3>2. old.op \in {"load", "checkpoint"}
            BY <2>2 DEF ReadBody
        <3>3. lock = Nobody => body = TextOf(Latest)
            BY DEF ShownInv, ReadInv, BodyInv
        <3> QED BY <1>2, <1>5, <2>1, <3>1, <3>2, <3>3 DEF CallKeeps, Keeps, Current, Done
    <2>3. CASE ReadHead(c)
        <3>1. new.pc = "answered" /\ old.op = "load" /\ new.expected = old.expected
            <4>1. old.pc = "reading"
                BY <2>3 DEF ReadHead
            <4> QED BY <1>1, <2>1, <2>3, <4>1, CallMoves DEF Done, Truthful
        <3> QED BY <3>1 DEF CallKeeps
    <2>4. CASE ReadPatch(c)
        <3>1. /\ old.op = "apply"
              /\ \/ /\ new.pc = "checking" /\ Latest = 1 /\ new.expected = 1
                    /\ new.text = TextOf(1) \cup {0}
                 \/ new.pc = "answered" /\ new.expected = old.expected
            BY <1>1, <2>4, CallMoves
        <3> QED BY <1>2, <1>5, <3>1 DEF CallKeeps, Keeps
    <2>5. CASE RefuseSave(c)
        <3>1. new.expected = old.expected /\ new.pc = "answered" /\ new.answer = "conflict"
            BY <1>1, <2>5, CallMoves
        <3> QED BY <3>1 DEF CallKeeps, Current, Done
    <2>6. CASE SkipSave(c)
        <3>1. old.pc = "checking" /\ lock = Nobody /\ old.expected \in {0, Latest}
            BY <2>6 DEF SkipSave, EntersSave, Conflicts
        <3>2. new.text = old.text /\ new.expected = old.expected
              /\ new.pc \in {"marking", "answered"}
            BY <1>1, <2>6, CallMoves DEF Done
        <3> QED BY <3>1, <3>2 DEF CallKeeps, Current
    <2>7. CASE WriteBody(c)
        <3>1. old.pc = "checking" /\ lock = Nobody /\ old.expected \in {0, Latest}
            BY <2>7 DEF WriteBody, EntersSave, Conflicts
        <3>2. new.text = old.text /\ new.expected = old.expected /\ new.pc = "writing"
            BY <1>1, <2>7, CallMoves
        <3> QED BY <1>2, <1>5, <2>1, <3>1, <3>2 DEF CallKeeps, Keeps, Current
    <2>8. CASE MarkAccepted(c)
        <3>1. new.expected = old.expected /\ new.pc = "answered" /\ old.op = "apply"
            <4>1. old.pc = "marking"
                BY <2>8 DEF MarkAccepted
            <4> QED BY <1>1, <2>1, <2>8, <4>1, CallMoves DEF Truthful
        <3> QED BY <3>1 DEF CallKeeps
    <2> QED BY <2>2, <2>3, <2>4, <2>5, <2>6, <2>7, <2>8 DEF StoreStep
<1>8. ASSUME NEW r \in Requests, fetch[r].tab \in Tabs
      PROVE  WaitKeeps(fetch[r], calls[r], tab[fetch[r].tab])'
    <2> DEFINE t == fetch[r].tab
    <2>1. /\ WaitKeeps(fetch[r], calls[r], tab[t]) /\ r \in Callers
          /\ Awaited(fetch[r], calls[r], tab[t]) /\ OpenedTab(tab[t]) /\ tab[t] \in Tab
          /\ TabKeeps(tab[t])
        BY <1>8, WaitFacts DEF KeepInv, Callers
    <2>2. ASSUME fetch[r].kind = "checkpoint"
          PROVE  /\ calls'[r].pc # "answered" => calls'[r].expected = tab[t].base
                 /\ Current(calls[r])' => Shows(tab[t], calls'[r].text)
        <3>1. calls[r].op = "checkpoint" /\ tab[t].base >= 1 /\ tab[t].base \in Nat
            BY <2>1, <2>2 DEF Awaited, OpenedTab, Tab
        <3>2. CASE r = c
            <4>1. old.pc # "answered" /\ old.expected = tab[t].base /\ old.expected # 0
                BY <1>1, <2>1, <2>2, <3>1, <3>2, CallMoves DEF WaitKeeps
            <4>2. CASE Current(old) /\ new.text = old.text
                BY <1>7, <2>1, <2>2, <3>1, <3>2, <4>1, <4>2 DEF WaitKeeps
            <4>3. CASE old.expected = Latest /\ new.text = TextOf(Latest)
                BY <1>7, <2>1, <3>1, <3>2, <4>1, <4>3 DEF TabKeeps, Keeps, Shows
            <4> QED BY <1>7, <3>1, <3>2, <4>1, <4>2, <4>3
        <3>3. CASE r # c
            <4>1. calls'[r] = calls[r]
                BY <1>3, <2>1, <3>3
            <4>2. Current(calls[r])' => Current(calls[r])
                BY <1>2, <1>4, <4>1 DEF Current, Done
            <4> QED BY <2>1, <2>2, <4>1, <4>2 DEF WaitKeeps
        <3> QED BY <3>2, <3>3
    <2> QED BY <1>1, <2>1, <2>2 DEF WaitKeeps, Shows, Asked
<1>9. NoBlindOverwrite' /\ OneWait'
    BY <1>1, <1>2 DEF KeepInv, NoBlindOverwrite, OneWait
<1>10. ASSUME NEW t \in Tabs PROVE TabKeeps(tab[t])'
    BY <1>1, <1>2, <1>5 DEF KeepInv, TabKeeps, Keeps
<1>11. ASSUME NEW b \in Browsers PROVE DraftKeeps(draft[b])'
    BY <1>1, <1>2, <1>5 DEF KeepInv, DraftKeeps, Keeps
<1>12. \A d \in Callers : CallKeeps(calls[d])'
    BY <1>6, <1>7
<1> QED BY <1>1, <1>8, <1>9, <1>10, <1>11, <1>12 DEF KeepInv

Unawaited(t) == \A q \in Requests : fetch[q].tab # t

(* A step of one tab, its recovery copy and its requests.                  *)
LEMMA KeepsStep ==
    ASSUME DraftInv, KeepInv, UNCHANGED store, NEW t \in Tabs, NEW new, TabKeeps(new),
           SetTab(t, new),
           NEW d, UNCHANGED draft \/ (KeepDraft(t, d) /\ DraftKeeps(d)),
           \A c \in Callers : calls'[c] = calls[c] \/ CallKeeps(calls'[c]),
           \A r \in Requests : fetch'[r].tab \in Tabs \ {t} =>
               fetch'[r] = fetch[r] /\ calls'[r] = calls[r],
           \A r \in Requests : fetch'[r].tab = t => WaitKeeps(fetch'[r], calls'[r], new),
           \A r, q \in Requests : fetch'[r].tab = t /\ fetch'[q].tab = t => q = r
    PROVE  KeepInv'
<1>1. \A u \in Tabs : tab'[u] = IF u = t THEN new ELSE tab[u]
    BY DEF SetTab, DraftInv, TabsGood
<1>2. UNCHANGED <<revisions, lock>> /\ Latest' = Latest /\ TextOf(Latest)' = TextOf(Latest)
    BY DEF store, Latest, TextOf
<1>3. ASSUME NEW c \in Callers PROVE CallKeeps(calls[c])'
    BY <1>2 DEF KeepInv, CallKeeps, Keeps
<1>4. ASSUME NEW u \in Tabs PROVE TabKeeps(tab[u])'
    BY <1>1, <1>2 DEF KeepInv, TabKeeps, Keeps
<1>5. ASSUME NEW b \in Browsers PROVE DraftKeeps(draft[b])'
    <2>1. draft'[b] = draft[b] \/ (draft'[b] = d /\ DraftKeeps(d))
        BY DEF KeepDraft, DraftInv, DraftsGood
    <2> QED BY <1>2, <2>1 DEF KeepInv, DraftKeeps, Keeps
<1>6. ASSUME NEW r \in Requests, fetch'[r].tab \in Tabs
      PROVE  WaitKeeps(fetch[r], calls[r], tab[fetch[r].tab])'
    <2>1. WaitKeeps(fetch'[r], calls'[r], tab'[fetch'[r].tab])
        BY <1>1, <1>6 DEF KeepInv
    <2> QED BY <1>2, <2>1 DEF WaitKeeps, Current, Shows, Asked, Done
<1>7. OneWait'
    <2> SUFFICES ASSUME NEW r \in Requests, NEW q \in Requests, fetch'[r].tab \in Tabs,
                        fetch'[q].tab = fetch'[r].tab
                 PROVE  q = r
        BY DEF OneWait
    <2> QED BY DEF KeepInv, OneWait
<1>8. NoBlindOverwrite'
    BY <1>2 DEF KeepInv, NoBlindOverwrite
<1> QED BY <1>3, <1>4, <1>5, <1>6, <1>7, <1>8 DEF KeepInv

(* ... whose requests stay as they are,                                    *)
LEMMA KeepsKept ==
    ASSUME DraftInv, KeepInv, UNCHANGED store, NEW t \in Tabs, NEW new, TabKeeps(new),
           SetTab(t, new), NEW d, UNCHANGED draft \/ (KeepDraft(t, d) /\ DraftKeeps(d)),
           UNCHANGED calls, UNCHANGED fetch,
           \A r \in Requests : fetch[r].tab = t => WaitKeeps(fetch[r], calls[r], new)
    PROVE  KeepInv'
<1>1. \A r, q \in Requests : fetch'[r].tab = t /\ fetch'[q].tab = t => q = r
    BY DEF KeepInv, OneWait
<1> QED BY <1>1, KeepsStep

(* ... which sends one and awaits no other,                                *)
LEMMA KeepsSent ==
    ASSUME DraftInv, KeepInv, UNCHANGED store, NEW t \in Tabs, NEW new, TabKeeps(new),
           SetTab(t, new), NEW d, UNCHANGED draft \/ (KeepDraft(t, d) /\ DraftKeeps(d)),
           Unawaited(t), NEW r \in Requests, NEW kind, NEW text, NEW call, CallKeeps(call),
           Send(r, t, kind, text, call),
           WaitKeeps([tab |-> t, kind |-> kind, text |-> text], call, new)
    PROVE  KeepInv'
<1> DEFINE wait == [tab |-> t, kind |-> kind, text |-> text]
<1>1. r \in Callers /\ \A q \in Requests : q \in Callers
    BY DEF Callers
<1>2. /\ \A q \in Requests : fetch'[q] = IF q = r THEN wait ELSE fetch[q]
      /\ \A c \in Callers : calls'[c] = IF c = r THEN call ELSE calls[c]
    BY <1>1 DEF Send, DraftInv, FetchGood, CallsGood
<1>3. wait.tab = t
    OBVIOUS
<1>4. \A q \in Requests : fetch'[q].tab = t => q = r
    BY <1>2 DEF Unawaited
<1>5. \A q \in Requests : fetch'[q].tab \in Tabs \ {t} =>
          fetch'[q] = fetch[q] /\ calls'[q] = calls[q]
    BY <1>1, <1>2, <1>3
<1>6. \A q \in Requests : fetch'[q].tab = t => WaitKeeps(fetch'[q], calls'[q], new)
    BY <1>1, <1>2, <1>4
<1>7. \A c \in Callers : calls'[c] = calls[c] \/ CallKeeps(calls'[c])
    BY <1>2
<1>8. \A p, q \in Requests : fetch'[p].tab = t /\ fetch'[q].tab = t => q = p
    BY <1>4
<1> HIDE DEF wait
<1> QED BY <1>5, <1>6, <1>7, <1>8, KeepsStep

LEMMA IdleKeeps == ASSUME DraftInv PROVE CallKeeps(IdleCall) /\ CallKeeps(Load)
BY SentFields DEF CallKeeps

(* ... or which goes on with a response.                                   *)
LEMMA KeepsAnswered ==
    ASSUME DraftInv, KeepInv, UNCHANGED store, NEW t \in Tabs, NEW new, TabKeeps(new),
           SetTab(t, new), NEW d, UNCHANGED draft \/ (KeepDraft(t, d) /\ DraftKeeps(d)),
           NEW r \in Requests, fetch[r].tab = t, Received(r) \/ Fails(r)
    PROVE  KeepInv'
<1>1. \A q \in Requests : fetch'[q].tab \in Tabs =>
          q # r /\ fetch'[q] = fetch[q] /\ calls'[q] = calls[q]
    BY WaitsReceived
<1>2. \A q \in Requests : fetch'[q].tab # t
    BY <1>1 DEF KeepInv, OneWait
<1>3. \A c \in Callers : calls'[c] = calls[c] \/ CallKeeps(calls'[c])
    <2>1. UNCHANGED calls \/ calls' = [calls EXCEPT ![r] = IdleCall]
        BY DEF Received, Fails
    <2>2. CallKeeps(IdleCall)
        BY IdleKeeps
    <2> QED BY <2>1, <2>2 DEF DraftInv, CallsGood
<1>4. \A q \in Requests : fetch'[q].tab \in Tabs \ {t} =>
          fetch'[q] = fetch[q] /\ calls'[q] = calls[q]
    BY <1>1
<1> QED BY <1>2, <1>3, <1>4, KeepsStep

(* A tab that asks, or whose timer is set, awaits a save at most.          *)
LEMMA NothingElse ==
    ASSUME DraftInv, ShownInv, KeepInv, NEW t \in Tabs, tab[t].open = "open",
           tab[t].due \/ Asked(tab[t]), ~Awaits(t, {"save"})
    PROVE  Unawaited(t)
<1> SUFFICES ASSUME NEW r \in Requests, fetch[r].tab = t PROVE FALSE
    BY DEF Unawaited
<1>1. Awaited(fetch[r], calls[r], tab[t]) /\ WaitKeeps(fetch[r], calls[r], tab[t])
    BY WaitFacts DEF KeepInv
<1>2. fetch[r].kind \notin Replacing /\ fetch[r].kind # "load" /\ fetch[r].kind # "save"
    BY <1>1 DEF WaitKeeps, Awaited, Awaits
<1>3. fetch[r].kind \in Kinds /\ fetch[r].kind # "none"
    BY <1>1 DEF Awaited, DraftInv, FetchGood, Fetch
<1> QED BY <1>2, <1>3 DEF Kinds, Replacing

LEMMA DraftOfKeeps ==
    ASSUME NEW new, new.base <= Latest, TabKeeps(new) PROVE DraftKeeps(DraftOf(new))
<1>1. DraftOf(new).base = new.base /\ DraftOf(new).text = new.text
      /\ DraftOf(new).waived = new.waived
    BY DEF DraftOf
<1> QED BY <1>1 DEF DraftKeeps, TabKeeps, Keeps

LEMMA SaveDraftKeeps ==
    ASSUME DraftInv, ShownInv, KeepInv, Attentive, UNCHANGED store, NEW t \in Tabs, NEW new,
           KnownTab(new), TabKeeps(new), tab[t].open = "open", tab[t].due \/ Asked(tab[t]),
           SaveDraft(t, new)
    PROVE  KeepInv'
<1>1. Unawaited(t)
    BY NothingElse DEF SaveDraft, Attentive
<1>2. KeepDraft(t, DraftOf(new)) /\ DraftKeeps(DraftOf(new))
    BY DraftOfKeeps DEF SaveDraft, KnownTab
<1>3. ASSUME NEW shown
      PROVE  LET next == [new EXCEPT !.due = FALSE, !.shown = shown]
             IN  /\ next.base = new.base /\ next.text = new.text /\ next.waived = new.waived
                 /\ TabKeeps(next)
    BY DEF KnownTab, Tab, TabKeeps, Keeps
<1>4. CASE UNCHANGED <<fetch, calls>> /\ SetTab(t, [new EXCEPT !.due = FALSE, !.shown = "offline"])
    BY <1>1, <1>2, <1>3, <1>4, KeepsKept DEF Unawaited
<1>5. ASSUME NEW r \in Requests, Send(r, t, "save", new.text, SaveCall(new)),
             SetTab(t, [new EXCEPT !.due = FALSE, !.shown = "saving"])
      PROVE  KeepInv'
    <2> DEFINE next == [new EXCEPT !.due = FALSE, !.shown = "saving"]
               wait == [tab |-> t, kind |-> "save", text |-> new.text]
    <2>1. CallKeeps(SaveCall(new))
        <3>1. CASE new.base = 0
            BY <3>1, RefusedCall DEF SaveCall, CallKeeps
        <3>2. CASE new.base # 0
            <4> DEFINE s == Save(new.text, new.base, new.waived)
            <4>1. s.pc = "checking" /\ s.text = new.text /\ s.expected = new.base
                  /\ s.waived = new.waived
                BY SentFields
            <4>2. SaveCall(new) = s
                BY <3>2 DEF SaveCall
            <4> HIDE DEF s
            <4> QED BY <4>1, <4>2 DEF CallKeeps, TabKeeps, Keeps
        <3> QED BY <3>1, <3>2
    <2>2. next.text = new.text /\ TabKeeps(next)
        BY <1>3
    <2>3. wait.kind = "save" /\ wait.text = new.text
        OBVIOUS
    <2>4. WaitKeeps(wait, SaveCall(new), next)
        <3> HIDE DEF wait, next
        <3> QED BY <2>2, <2>3 DEF WaitKeeps, Shows, Replacing
    <2> QED BY <1>1, <1>2, <1>5, <2>1, <2>2, <2>4, KeepsSent
<1> QED BY <1>4, <1>5 DEF SaveDraft

LEMMA SavesKeep ==
    ASSUME DraftInv, ShownInv, KeepInv, Attentive, NEW t \in Tabs,
           TimerFires(t) \/ KeepLocal(t)
    PROVE  KeepInv'
<1>1. UNCHANGED store
    BY DEF TimerFires, KeepLocal
<1>2. OpenedTab(tab[t]) /\ tab[t] \in Tab /\ KnownTab(tab[t]) /\ TabKeeps(tab[t])
    BY TabFacts DEF ShownInv, WaitInv, KeepInv
<1>3. CASE TimerFires(t)
    <2>1. tab[t].due /\ SaveDraft(t, tab[t])
        BY <1>3 DEF TimerFires
    <2>2. tab[t].open = "open"
        BY <1>2, <2>1 DEF OpenedTab
    <2> QED BY <1>1, <1>2, <2>1, <2>2, SaveDraftKeeps
<1>4. CASE KeepLocal(t)
    <2> DEFINE seen == tab[t].waived \cup (tab[t].conflict.text \ tab[t].text)
               new == [tab[t] EXCEPT !.base = tab[t].conflict.id, !.conflict = NoConflict,
                                     !.waived = seen]
    <2>1. Asked(tab[t]) /\ SaveDraft(t, new)
        BY <1>4 DEF KeepLocal, MayKeep, Asks, Asked
    <2>2. seen \in Text
        BY TabFacts DEF Text
    <2>3. /\ new \in Tab /\ new.base = tab[t].conflict.id /\ new.conflict = NoConflict
          /\ new.text = tab[t].text /\ new.waived = seen
        BY <1>2, <2>2, TabFacts, Idle DEF Tab
    <2>4. tab[t].open = "open" /\ tab[t].conflict.text = TextOf(tab[t].conflict.id)
        BY <1>2, <2>1 DEF OpenedTab, Asked
    <2>5. KnownTab(new)
        BY <2>3, TabFacts, LatestIsNat DEF KnownTab, NoConflict, DraftInv
    <2>6. TabKeeps(new)
        BY <2>3, <2>4 DEF TabKeeps, Keeps
    <2> QED BY <1>1, <2>1, <2>4, <2>5, <2>6, SaveDraftKeeps
<1> QED BY <1>3, <1>4

LEMMA OpenTabLosesNothing ==
    ASSUME DraftInv, ShownInv, KeepInv, NEW t \in Tabs, OpenTab(t) PROVE KeepInv'
<1> DEFINE new == [ClosedTab EXCEPT !.open = "loading"]
           wait == [tab |-> t, kind |-> "load", text |-> {}]
<1>1. PICK r \in Requests : Send(r, t, "load", {}, Load)
    BY DEF OpenTab
<1>2. UNCHANGED store /\ UNCHANGED draft /\ SetTab(t, new) /\ tab[t].open = "closed"
    BY DEF OpenTab
<1>3. TabKeeps(new)
    <2>1. new.base = 0
        BY DEF ClosedTab
    <2> HIDE DEF new
    <2> QED BY <2>1, LatestIsNat DEF TabKeeps, DraftInv
<1>4. Unawaited(t)
    BY <1>2 DEF Unawaited, ShownInv, WaitInv, Awaited
<1>5. WaitKeeps(wait, Load, new)
    <2>1. wait.kind = "load"
        OBVIOUS
    <2> HIDE DEF wait, new
    <2> QED BY <2>1 DEF WaitKeeps, Replacing
<1> QED BY <1>1, <1>2, <1>3, <1>4, <1>5, IdleKeeps, KeepsSent

LEMMA CloseTabLosesNothing ==
    ASSUME DraftInv, KeepInv, NEW t \in Tabs, CloseTab(t) PROVE KeepInv'
<1>1. UNCHANGED store /\ UNCHANGED calls /\ UNCHANGED draft /\ SetTab(t, ClosedTab)
    BY DEF CloseTab
<1>2. TabKeeps(ClosedTab)
    <2>1. ClosedTab.base = 0
        BY DEF ClosedTab
    <2> QED BY <2>1, LatestIsNat DEF TabKeeps, DraftInv
<1>3. \A r \in Requests : fetch'[r].tab # t
          /\ (fetch'[r].tab \in Tabs => fetch'[r] = fetch[r] /\ calls'[r] = calls[r])
    <2> TAKE r \in Requests
    <2>1. fetch[r].tab = t => fetch'[r].tab = Nobody
        BY DEF CloseTab, DraftInv, FetchGood, Fetch
    <2>2. fetch[r].tab # t => fetch'[r] = fetch[r]
        BY DEF CloseTab
    <2> QED BY <1>1, <2>1, <2>2, EditorAssumption
<1> QED BY <1>1, <1>2, <1>3, KeepsStep

LEMMA TypeLosesNothing ==
    ASSUME DraftInv, ShownInv, KeepInv, Attentive, NEW t \in Tabs, Type(t) PROVE KeepInv'
<1> DEFINE new == [tab[t] EXCEPT !.text = tab[t].text \cup {typed + 1},
                                 !.due = TRUE, !.shown = "unsaved"]
<1>1. /\ UNCHANGED store /\ UNCHANGED calls /\ UNCHANGED fetch /\ SetTab(t, new)
      /\ KeepDraft(t, DraftOf(new)) /\ ~Busy(t)
    BY DEF Type, Attentive
<1>2. /\ new.text = tab[t].text \cup {typed + 1} /\ new.base = tab[t].base
      /\ new.waived = tab[t].waived /\ new.base <= Latest
    BY TabFacts DEF Tab
<1> HIDE DEF new
<1>3. TabKeeps(new) /\ DraftKeeps(DraftOf(new))
    <2>1. TabKeeps(new)
        BY <1>2 DEF KeepInv, TabKeeps, Keeps
    <2> QED BY <1>2, <2>1, DraftOfKeeps
<1>4. ASSUME NEW r \in Requests, fetch[r].tab = t PROVE WaitKeeps(fetch[r], calls[r], new)
    <2>1. fetch[r].kind \notin Replacing
        BY <1>1, <1>4 DEF Busy, Awaits
    <2>2. WaitKeeps(fetch[r], calls[r], tab[t])
        BY <1>4 DEF KeepInv
    <2> QED BY <1>2, <2>1, <2>2 DEF WaitKeeps, Shows, Replacing
<1> QED BY <1>1, <1>3, <1>4, KeepsKept

(* An answer to the conflict: only a save can still be on its way.         *)
LEMMA AnsweredConflict ==
    ASSUME DraftInv, ShownInv, KeepInv, NEW t \in Tabs, Asked(tab[t]),
           NEW new, tab[t].text \cup tab[t].waived \subseteq new.text \cup new.waived,
           NEW r \in Requests, fetch[r].tab = t
    PROVE  WaitKeeps(fetch[r], calls[r], new)
<1>1. WaitKeeps(fetch[r], calls[r], tab[t])
    BY DEF KeepInv
<1> QED BY <1>1 DEF WaitKeeps, Shows, Replacing

LEMMA UseLatestLosesNothing ==
    ASSUME DraftInv, ShownInv, KeepInv, NEW t \in Tabs, UseLatest(t) PROVE KeepInv'
<1> DEFINE latest == tab[t].conflict
           seen == tab[t].waived \cup ((tab[t].text \cup latest.local) \ latest.text)
           new == [tab[t] EXCEPT !.text = latest.text, !.base = latest.id,
                     !.conflict = NoConflict, !.shown = "saved", !.waived = seen]
<1>1. /\ UNCHANGED store /\ UNCHANGED calls /\ UNCHANGED fetch /\ Asked(tab[t])
      /\ KeepDraft(t, NoDraft)
    BY DEF UseLatest, DropDraft, Asks, Asked
<1>2. OpenedTab(tab[t]) /\ tab[t] \in Tab
    BY TabFacts DEF ShownInv, WaitInv
<1>3. SetTab(t, new)
    <2>1. [tab[t] EXCEPT !.text = latest.text, !.base = latest.id,
             !.conflict = NoConflict, !.shown = "saved",
             !.waived = @ \cup ((tab[t].text \cup latest.local) \ latest.text)] = new
        BY <1>2 DEF Tab
    <2> QED BY <2>1 DEF UseLatest
<1>4. new.text = latest.text /\ new.base = latest.id /\ new.waived = seen
    BY <1>2 DEF Tab
<1>5. latest.text = TextOf(latest.id)
    BY <1>1, <1>2 DEF OpenedTab
<1> HIDE DEF new
<1>6. TabKeeps(new)
    BY <1>4, <1>5 DEF TabKeeps, Keeps
<1>7. DraftKeeps(NoDraft)
    BY DEF DraftKeeps, NoDraft
<1>8. tab[t].text \cup tab[t].waived \subseteq new.text \cup new.waived
    BY <1>4
<1>9. \A r \in Requests : fetch[r].tab = t => WaitKeeps(fetch[r], calls[r], new)
    BY <1>1, <1>8, AnsweredConflict
<1> QED BY <1>1, <1>3, <1>6, <1>7, <1>9, KeepsKept

LEMMA MergeLosesNothing ==
    ASSUME DraftInv, ShownInv, KeepInv, NEW t \in Tabs, MergeManually(t) PROVE KeepInv'
<1> DEFINE new == [tab[t] EXCEPT !.text = tab[t].text \cup tab[t].conflict.text,
                     !.base = tab[t].conflict.id, !.conflict = NoConflict,
                     !.shown = "unsaved"]
<1>1. /\ UNCHANGED store /\ UNCHANGED calls /\ UNCHANGED fetch /\ Asked(tab[t])
      /\ SetTab(t, new) /\ KeepDraft(t, DraftOf(new))
    BY DEF MergeManually, MayKeep, Asks, Asked
<1>2. OpenedTab(tab[t]) /\ tab[t] \in Tab
    BY TabFacts DEF ShownInv, WaitInv
<1>3. /\ new.text = tab[t].text \cup tab[t].conflict.text /\ new.base = tab[t].conflict.id
      /\ new.waived = tab[t].waived
    BY <1>2 DEF Tab
<1>4. tab[t].conflict.text = TextOf(tab[t].conflict.id) /\ tab[t].conflict.id <= Latest
    BY <1>1, <1>2, TabFacts DEF OpenedTab
<1> HIDE DEF new
<1>5. TabKeeps(new)
    BY <1>3, <1>4 DEF TabKeeps, Keeps
<1>6. DraftKeeps(DraftOf(new))
    BY <1>3, <1>4, <1>5, DraftOfKeeps
<1>7. tab[t].text \cup tab[t].waived \subseteq new.text \cup new.waived
    BY <1>3
<1>8. \A r \in Requests : fetch[r].tab = t => WaitKeeps(fetch[r], calls[r], new)
    BY <1>1, <1>7, AnsweredConflict
<1> QED BY <1>1, <1>5, <1>6, <1>8, KeepsKept

LEMMA RequestsLoseNothing ==
    ASSUME DraftInv, ShownInv, KeepInv, Attentive, NEW t \in Tabs,
           CreateCheckpoint(t) \/ RestoreRevision(t) \/ AcceptPatch(t)
    PROVE  KeepInv'
<1>1. /\ UNCHANGED store /\ UNCHANGED tab /\ UNCHANGED draft
      /\ ~Asked(tab[t]) /\ ~tab[t].due /\ ~Awaits(t, Kinds)
    BY DEF CreateCheckpoint, RestoreRevision, AcceptPatch, Ready, Settled, Attentive,
           Asks, Asked
<1>2. TabKeeps(tab[t]) /\ SetTab(t, tab[t])
    BY <1>1 DEF KeepInv, SetTab, DraftInv, TabsGood
<1>3. Unawaited(t)
    BY <1>1 DEF Unawaited, Awaits, DraftInv, FetchGood, Fetch
<1>4. PICK r \in Requests, kind \in Kinds : \E call :
          /\ Send(r, t, kind, {}, call) /\ CallKeeps(call) /\ kind # "save"
          /\ kind = "checkpoint" => call.expected = tab[t].base /\ ~Current(call)
    <2>0. {"checkpoint", "restore", "accept"} \subseteq Kinds
        BY DEF Kinds
    <2>1. CASE CreateCheckpoint(t)
        <3> DEFINE s == Checkpoint(tab[t].base)
        <3>1. PICK r \in Requests : Send(r, t, "checkpoint", {}, s)
            BY <2>1 DEF CreateCheckpoint
        <3>2. s.pc = "sent" /\ s.expected = tab[t].base
            BY SentFields
        <3> HIDE DEF s
        <3>3. CallKeeps(s) /\ ~Current(s)
            BY <3>2 DEF CallKeeps, Current, Done
        <3> QED BY <2>0, <3>1, <3>2, <3>3
    <2>2. CASE RestoreRevision(t)
        <3>1. PICK r \in Requests, n \in 1..(tab[t].base - 1) :
                  Send(r, t, "restore", {}, Restore(n, tab[t].base))
            BY <2>2 DEF RestoreRevision
        <3> DEFINE s == Restore(n, tab[t].base)
        <3>2. s.pc = "checking" /\ s.waived = Edits
            BY RestoreFields
        <3>3. TextOf(Latest) \subseteq Edits
            <4>1. Latest \in 1..Latest
                BY LatestIsNat DEF DraftInv
            <4> QED BY <4>1, RevisionOf DEF DraftInv, TextOf, Text
        <3>4. Send(r, t, "restore", {}, s)
            BY <3>1
        <3> HIDE DEF s
        <3>5. CallKeeps(s)
            BY <3>2, <3>3 DEF CallKeeps, Keeps
        <3> QED BY <2>0, <3>4, <3>5
    <2>3. CASE AcceptPatch(t)
        <3>1. PICK r \in Requests : Send(r, t, "accept", {}, Apply)
            BY <2>3 DEF AcceptPatch
        <3>2. CallKeeps(Apply)
            BY SentFields DEF CallKeeps
        <3> QED BY <2>0, <3>1, <3>2
    <2> QED BY <2>1, <2>2, <2>3
<1>5. PICK call :
          /\ Send(r, t, kind, {}, call) /\ CallKeeps(call) /\ kind # "save"
          /\ kind = "checkpoint" => call.expected = tab[t].base /\ ~Current(call)
    BY <1>4
<1>6. WaitKeeps([tab |-> t, kind |-> kind, text |-> {}], call, tab[t])
    <2> DEFINE wait == [tab |-> t, kind |-> kind, text |-> {}]
    <2>1. wait.kind = kind
        OBVIOUS
    <2> HIDE DEF wait
    <2>2. WaitKeeps(wait, call, tab[t])
        BY <1>1, <1>5, <2>1 DEF WaitKeeps
    <2> QED BY <2>2 DEF wait
<1> QED BY <1>1, <1>2, <1>3, <1>5, <1>6, KeepsSent

LEMMA LoadedLosesNothing ==
    ASSUME DraftInv, ShownInv, KeepInv, NEW t \in Tabs, NEW r \in Requests,
           ArticleLoaded(t, r)
    PROVE  KeepInv'
<1> DEFINE served == [tab[t] EXCEPT !.open = "open", !.text = calls[r].text,
                                    !.base = calls[r].rev, !.shown = "saved"]
           recovered == [served EXCEPT !.text = Stored(t).text,
                           !.waived = Stored(t).waived, !.due = @ \/ online,
                           !.shown = IF online THEN "unsaved" ELSE "offline"]
           asked == ShowConflict(served, served.base, served.text, Stored(t).text)
<1>1. /\ UNCHANGED store /\ Received(r) /\ fetch[r].tab = t /\ fetch[r].kind = "load"
      /\ Done(calls[r])
    BY DEF ArticleLoaded, Responds, Done
<1>2. calls[r].op = "load" /\ Truthful(calls[r]) /\ tab[t] \in Tab
    BY <1>1, WaitFacts DEF Awaited
<1>3. calls[r].text = TextOf(calls[r].rev)
    BY <1>1, <1>2 DEF Truthful
<1>4. served.base = calls[r].rev /\ served.text = calls[r].text
    BY <1>2 DEF Tab
<1>5. TabKeeps(served)
    <2> HIDE DEF served
    <2> QED BY <1>3, <1>4 DEF TabKeeps, Keeps
<1>6. /\ recovered.base = calls[r].rev /\ recovered.text = Stored(t).text
      /\ recovered.waived = Stored(t).waived
    BY <1>2 DEF Tab
<1>7. asked.base = calls[r].rev /\ asked.text = calls[r].text
    BY <1>2 DEF Tab, ShowConflict
<1>8. TabKeeps(asked)
    <2> HIDE DEF asked, served
    <2> QED BY <1>3, <1>7 DEF TabKeeps, Keeps
<1>9. \/ SetTab(t, served) /\ KeepDraft(t, NoDraft)
      \/ /\ SetTab(t, recovered) /\ UNCHANGED draft
         /\ Stored(t).kept /\ Stored(t).base = served.base
      \/ SetTab(t, asked) /\ UNCHANGED draft
    BY DEF ArticleLoaded, DropDraft, Recovers
<1> HIDE DEF served, recovered, asked
<1>10. DraftKeeps(NoDraft)
    BY DEF DraftKeeps, NoDraft
<1>11. CASE SetTab(t, served) /\ KeepDraft(t, NoDraft)
    BY <1>1, <1>5, <1>10, <1>11, KeepsAnswered
<1>12. CASE /\ SetTab(t, recovered) /\ UNCHANGED draft
            /\ Stored(t).kept /\ Stored(t).base = served.base
    <2>1. DraftKeeps(Stored(t))
        BY EditorAssumption DEF KeepInv, Stored
    <2>2. TabKeeps(recovered)
        BY <1>4, <1>6, <1>12, <2>1 DEF DraftKeeps, TabKeeps, Keeps
    <2> QED BY <1>1, <1>12, <2>2, KeepsAnswered
<1>13. CASE SetTab(t, asked) /\ UNCHANGED draft
    BY <1>1, <1>8, <1>13, KeepsAnswered
<1> QED BY <1>9, <1>11, <1>12, <1>13

LEMMA AnswersLoseNothing ==
    ASSUME DraftInv, ShownInv, KeepInv, NEW t \in Tabs, NEW r \in Requests,
           \/ SaveSucceeds(t, r) \/ SaveFails(t, r) \/ CheckpointCreated(t, r)
           \/ TextReplaced(t, r) \/ LoadFails(t, r) \/ ActionFails(t, r)
           \/ Refused(t, r)
    PROVE  KeepInv'
<1>1. UNCHANGED store /\ fetch[r].tab = t /\ (Received(r) \/ Fails(r))
    BY DEF SaveSucceeds, SaveFails, CheckpointCreated, TextReplaced, LoadFails, ActionFails,
           Refused
<1>2. /\ tab[t] \in Tab /\ Awaited(fetch[r], calls[r], tab[t]) /\ Truthful(calls[r])
      /\ TabKeeps(tab[t]) /\ WaitKeeps(fetch[r], calls[r], tab[t]) /\ OpenedTab(tab[t])
    BY <1>1, WaitFacts DEF KeepInv
<1>3. UNCHANGED draft \/ KeepDraft(t, NoDraft)
    BY DEF SaveSucceeds, SaveFails, CheckpointCreated, TextReplaced, LoadFails, ActionFails,
           Refused, ClearIfMatches, DropDraft
<1>4. DraftKeeps(NoDraft)
    BY DEF DraftKeeps, NoDraft
<1>5. PICK new : SetTab(t, new) /\ TabKeeps(new)
    <2>1. CASE LoadFails(t, r) \/ ActionFails(t, r)
        <3>1. SetTab(t, tab[t])
            BY <2>1 DEF LoadFails, ActionFails, SetTab, DraftInv, TabsGood
        <3> QED BY <1>2, <3>1
    <2>2. CASE SaveFails(t, r)
        <3> DEFINE new == [tab[t] EXCEPT !.shown = Failure]
        <3>1. SetTab(t, new)
            BY <2>2 DEF SaveFails
        <3>2. new.base = tab[t].base /\ new.text = tab[t].text /\ new.waived = tab[t].waived
            BY <1>2 DEF Tab
        <3> HIDE DEF new
        <3>3. TabKeeps(new)
            BY <1>2, <3>2 DEF TabKeeps, Keeps
        <3> QED BY <3>1, <3>3
    <2>3. CASE Refused(t, r)
        <3> DEFINE local == IF fetch[r].kind = "save" THEN fetch[r].text ELSE tab[t].text
                   new == ShowConflict(tab[t], calls[r].rev,
                                       revisions[calls[r].rev].text, local)
        <3>1. SetTab(t, new)
            BY <2>3 DEF Refused
        <3>2. new.base = tab[t].base /\ new.text = tab[t].text /\ new.waived = tab[t].waived
            BY <1>2 DEF Tab, ShowConflict
        <3> HIDE DEF new
        <3>3. TabKeeps(new)
            BY <1>2, <3>2 DEF TabKeeps, Keeps
        <3> QED BY <3>1, <3>3
    <2>4. CASE SaveSucceeds(t, r) \/ CheckpointCreated(t, r)
        <3> DEFINE new == [tab[t] EXCEPT !.base = calls[r].rev, !.shown = "saved"]
        <3>1. SetTab(t, new) /\ Done(calls[r])
            BY <2>4 DEF SaveSucceeds, CheckpointCreated, Responds, Done
        <3>2. new.base = calls[r].rev /\ new.text = tab[t].text /\ new.waived = tab[t].waived
            BY <1>2 DEF Tab
        <3> HIDE DEF new
        <3>3. calls[r].text = TextOf(calls[r].rev)
            <4>1. fetch[r].kind \in {"save", "checkpoint"}
                BY <2>4 DEF SaveSucceeds, CheckpointCreated, Responds
            <4>2. calls[r].op # "apply"
                BY <1>2, <3>1, <4>1 DEF Awaited, Done
            <4> QED BY <1>2, <3>1, <4>2 DEF Truthful
        <3>4. calls[r].rev = Latest => Shows(tab[t], calls[r].text)
            <4>1. CASE fetch[r].kind = "save"
                BY <1>2, <3>1, <4>1 DEF WaitKeeps, Awaited, Done
            <4>2. CASE fetch[r].kind = "checkpoint"
                BY <1>2, <3>1, <4>2 DEF WaitKeeps, Current
            <4> QED BY <2>4, <4>1, <4>2 DEF SaveSucceeds, CheckpointCreated, Responds
        <3>5. TabKeeps(new)
            BY <3>2, <3>3, <3>4 DEF TabKeeps, Keeps, Shows
        <3> QED BY <3>1, <3>5
    <2>5. CASE TextReplaced(t, r)
        <3> DEFINE new == [tab[t] EXCEPT !.text = calls[r].text, !.base = calls[r].rev,
                                         !.shown = "saved"]
        <3>1. /\ SetTab(t, new) /\ Done(calls[r])
              /\ fetch[r].kind \in {"restore", "reload"}
            BY <2>5 DEF TextReplaced, Responds, Done
        <3>2. new.base = calls[r].rev /\ new.text = calls[r].text
            BY <1>2 DEF Tab
        <3> HIDE DEF new
        <3>3. calls[r].text = TextOf(calls[r].rev)
            BY <1>2, <3>1 DEF Truthful, Awaited
        <3>4. TabKeeps(new)
            BY <3>2, <3>3 DEF TabKeeps, Keeps
        <3> QED BY <3>1, <3>4
    <2> QED BY <2>1, <2>2, <2>3, <2>4, <2>5
<1> QED BY <1>1, <1>3, <1>4, <1>5, KeepsAnswered

LEMMA PatchAcceptedLosesNothing ==
    ASSUME DraftInv, ShownInv, KeepInv, NEW t \in Tabs, NEW r \in Requests,
           PatchAccepted(t, r)
    PROVE  KeepInv'
<1>1. /\ UNCHANGED store /\ UNCHANGED tab /\ UNCHANGED draft /\ fetch[r].tab = t
      /\ fetch[r].kind = "accept" /\ calls' = [calls EXCEPT ![r] = Load] /\ r \in Callers
      /\ fetch' = [fetch EXCEPT ![r].kind = "reload"]
    BY DEF PatchAccepted, Responds, Callers
<1>2. TabKeeps(tab[t]) /\ SetTab(t, tab[t]) /\ WaitKeeps(fetch[r], calls[r], tab[t])
    BY <1>1 DEF KeepInv, SetTab, DraftInv, TabsGood
<1>3. fetch'[r].tab = t /\ fetch'[r].kind = "reload"
    BY <1>1 DEF DraftInv, FetchGood, Fetch
<1>4. \A q \in Requests : q # r => fetch'[q] = fetch[q] /\ calls'[q] = calls[q]
    BY <1>1 DEF DraftInv, FetchGood, CallsGood, Callers
<1>5. \A q \in Requests : fetch'[q].tab = t => q = r
    BY <1>1, <1>4 DEF KeepInv, OneWait
<1>6. WaitKeeps(fetch'[r], calls'[r], tab[t])
    BY <1>1, <1>2, <1>3 DEF WaitKeeps, Replacing
<1>7. \A q \in Requests : fetch'[q].tab \in Tabs \ {t} =>
          fetch'[q] = fetch[q] /\ calls'[q] = calls[q]
    BY <1>3, <1>4
<1>8. \A q \in Requests : fetch'[q].tab = t => WaitKeeps(fetch'[q], calls'[q], tab[t])
    BY <1>5, <1>6
<1>9. \A p, q \in Requests : fetch'[p].tab = t /\ fetch'[q].tab = t => q = p
    BY <1>5
<1>10. \A c \in Callers : calls'[c] = calls[c] \/ CallKeeps(calls'[c])
    BY <1>1, IdleKeeps DEF DraftInv, CallsGood
<1> QED BY <1>1, <1>2, <1>7, <1>8, <1>9, <1>10, KeepsStep

(* A step of the surroundings, which changes calls that nobody waits for.  *)
LEMMA KeepsOutside ==
    ASSUME DraftInv, KeepInv, UNCHANGED store, UNCHANGED tab, UNCHANGED draft,
           \A c \in Callers : calls'[c] = calls[c] \/ CallKeeps(calls'[c]),
           \A r \in Requests : fetch'[r].tab \in Tabs =>
               fetch'[r] = fetch[r] /\ calls'[r] = calls[r]
    PROVE  KeepInv'
<1>1. UNCHANGED <<revisions, lock>> /\ Latest' = Latest /\ TextOf(Latest)' = TextOf(Latest)
    BY DEF store, Latest, TextOf
<1>2. ASSUME NEW c \in Callers PROVE CallKeeps(calls[c])'
    BY <1>1 DEF KeepInv, CallKeeps, Keeps
<1>3. \A u \in Tabs : TabKeeps(tab[u])'
    BY <1>1 DEF KeepInv, TabKeeps, Keeps
<1>4. \A b \in Browsers : DraftKeeps(draft[b])'
    BY <1>1 DEF KeepInv, DraftKeeps, Keeps
<1>5. ASSUME NEW r \in Requests, fetch'[r].tab \in Tabs
      PROVE  WaitKeeps(fetch[r], calls[r], tab[fetch[r].tab])'
    BY <1>1, <1>5 DEF KeepInv, WaitKeeps, Current, Shows, Asked, Done
<1>6. OneWait'
    <2> SUFFICES ASSUME NEW r \in Requests, NEW q \in Requests, fetch'[r].tab \in Tabs,
                        fetch'[q].tab = fetch'[r].tab
                 PROVE  q = r
        BY DEF OneWait
    <2> QED BY DEF KeepInv, OneWait
<1>7. NoBlindOverwrite'
    BY <1>1 DEF KeepInv, NoBlindOverwrite
<1> QED BY <1>2, <1>3, <1>4, <1>5, <1>6, <1>7 DEF KeepInv

LEMMA AbandonedLosesNothing ==
    ASSUME DraftInv, KeepInv, NEW r \in Requests, Abandoned(r)
    PROVE  KeepInv'
<1>1. /\ UNCHANGED store /\ UNCHANGED tab /\ UNCHANGED draft /\ Received(r)
      /\ calls' = [calls EXCEPT ![r] = IdleCall]
    BY DEF Abandoned, Received
<1>2. \A q \in Requests : fetch'[q].tab \in Tabs => fetch'[q] = fetch[q] /\ calls'[q] = calls[q]
    BY <1>1, WaitsReceived
<1>3. \A c \in Callers : calls'[c] = calls[c] \/ CallKeeps(calls'[c])
    BY <1>1, IdleKeeps DEF DraftInv, CallsGood
<1> QED BY <1>1, <1>2, <1>3, KeepsOutside

LEMMA WritersLoseNothing ==
    ASSUME DraftInv, KeepInv, NEW w \in Writers,
           WriterReads(w) \/ PersistGeneration(w) \/ WriterReturns(w)
    PROVE  KeepInv'
<1>1. /\ w \in Callers /\ w \notin Requests /\ UNCHANGED store /\ UNCHANGED tab
      /\ UNCHANGED fetch /\ UNCHANGED draft
    BY RevisionsAssumption DEF Callers, WriterReads, PersistGeneration, WriterReturns, editor
<1>2. PICK call : calls' = [calls EXCEPT ![w] = call] /\ CallKeeps(call)
    <2>1. CASE WriterReads(w)
        <3> DEFINE s == Save(revisions[Latest].text \cup {typed + 1}, Latest, {})
        <3>1. s.text = revisions[Latest].text \cup {typed + 1}
            BY SentFields
        <3>2. s.pc = "checking"
            BY SentFields
        <3>3. calls' = [calls EXCEPT ![w] = s]
            BY <2>1 DEF WriterReads
        <3> HIDE DEF s
        <3>4. CallKeeps(s)
            BY <3>1, <3>2 DEF CallKeeps, Keeps, TextOf
        <3> QED BY <3>3, <3>4
    <2>2. CASE PersistGeneration(w)
        <3> DEFINE s == Save({typed + 1}, 0, Edits)
        <3>1. s.expected = 0
            BY SentFields
        <3>2. calls' = [calls EXCEPT ![w] = s]
            BY <2>2 DEF PersistGeneration
        <3> HIDE DEF s
        <3>3. CallKeeps(s)
            BY <3>1, LatestIsNat DEF CallKeeps, DraftInv
        <3> QED BY <3>2, <3>3
    <2>3. CASE WriterReturns(w)
        BY <2>3, IdleKeeps DEF WriterReturns
    <2> QED BY <2>1, <2>2, <2>3
<1>3. \A c \in Callers : calls'[c] = IF c = w THEN call ELSE calls[c]
    BY <1>2 DEF DraftInv, CallsGood
<1>4. \A r \in Requests : calls'[r] = calls[r]
    BY <1>1, <1>3 DEF Callers
<1>5. \A c \in Callers : calls'[c] = calls[c] \/ CallKeeps(calls'[c])
    BY <1>2, <1>3
<1> QED BY <1>1, <1>4, <1>5, KeepsOutside

LEMMA DiesLosesNothing ==
    ASSUME DraftInv, ShownInv, KeepInv, Attentive, NEW dead \in SUBSET Callers, Dies(dead)
    PROVE  KeepInv'
<1>1. TextOf(Latest)' = TextOf(Latest) /\ NoBlindOverwrite' /\ OneWait'
    BY AttentiveIsQuiet, DyingMoves DEF TextOf, KeepInv, NoBlindOverwrite, OneWait
<1>2. ASSUME NEW c \in Callers PROVE CallKeeps(calls[c])'
    <2>1. CallKeeps(calls[c])
        BY DEF KeepInv
    <2> QED BY <1>1, <2>1, AttentiveIsQuiet, DyingMoves DEF CallKeeps, Keeps
<1>3. ASSUME NEW u \in Tabs PROVE TabKeeps(tab[u])'
    BY <1>1, AttentiveIsQuiet, DyingMoves DEF KeepInv, TabKeeps, Keeps
<1>4. ASSUME NEW b \in Browsers PROVE DraftKeeps(draft[b])'
    BY <1>1, AttentiveIsQuiet, DyingMoves DEF KeepInv, DraftKeeps, Keeps
<1>5. ASSUME NEW r \in Requests, fetch[r].tab \in Tabs
      PROVE  WaitKeeps(fetch[r], calls[r], tab[fetch[r].tab])'
    <2>1. WaitKeeps(fetch[r], calls[r], tab[fetch[r].tab]) /\ r \in Callers
        BY <1>5 DEF KeepInv, Callers
    <2>2. CASE calls'[r] = calls[r]
        BY <2>1, <2>2, AttentiveIsQuiet, DyingMoves DEF WaitKeeps, Current, Shows, Asked, Done
    <2>3. CASE calls'[r] # calls[r]
        <3>1. calls'[r].pc = "answered" /\ calls'[r].answer = "error"
            BY <2>1, <2>3, AttentiveIsQuiet, DyingMoves
        <3> QED BY <2>1, <3>1, AttentiveIsQuiet, DyingMoves
                DEF WaitKeeps, Current, Shows, Asked, Done
    <2> QED BY <2>2, <2>3
<1> QED BY <1>1, <1>2, <1>3, <1>4, <1>5, AttentiveIsQuiet, DyingMoves DEF KeepInv

LEMMA KeepInit == Init => KeepInv
<1> SUFFICES ASSUME Init PROVE KeepInv
    OBVIOUS
<1>1. /\ revisions = <<[text |-> {}, expected |-> 0, waived |-> {}]>>
      /\ calls = [c \in Callers |-> IdleCall] /\ draft = [b \in Browsers |-> NoDraft]
      /\ tab = [t \in Tabs |-> ClosedTab] /\ fetch = [r \in Requests |-> NoFetch]
    BY DEF Init, StoreInit
<1>2. Latest = 1 /\ DOMAIN revisions = 1..1
    BY <1>1 DEF Latest
<1>3. NoBlindOverwrite
    BY <1>2 DEF NoBlindOverwrite
<1>4. \A c \in Callers : CallKeeps(calls[c])
    BY <1>1, SentFields DEF CallKeeps
<1>5. \A t \in Tabs : TabKeeps(tab[t])
    BY <1>1, <1>2 DEF TabKeeps, ClosedTab
<1>6. \A b \in Browsers : DraftKeeps(draft[b])
    BY <1>1 DEF DraftKeeps, NoDraft
<1>7. \A r \in Requests : fetch[r].tab \notin Tabs
    BY <1>1, EditorAssumption DEF NoFetch
<1> QED BY <1>3, <1>4, <1>5, <1>6, <1>7 DEF KeepInv, OneWait

(* Every step but one: the network that returns sets timers.               *)
LEMMA KeepNext ==
    ASSUME Attentive
    PROVE  DraftInv /\ ShownInv /\ KeepInv /\ [Next]_vars => KeepInv' \/ GoOnline
<1> SUFFICES ASSUME DraftInv, ShownInv, KeepInv, [Next]_vars, ~GoOnline PROVE KeepInv'
    OBVIOUS
<1>1. ASSUME NEW t \in Tabs, TabStep(t) PROVE KeepInv'
    BY <1>1, OpenTabLosesNothing, CloseTabLosesNothing, TypeLosesNothing, SavesKeep,
       UseLatestLosesNothing, MergeLosesNothing, RequestsLoseNothing DEF TabStep
<1>2. ASSUME NEW t \in Tabs, NEW r \in Requests, Response(t, r) PROVE KeepInv'
    BY <1>2, LoadedLosesNothing, AnswersLoseNothing, PatchAcceptedLosesNothing DEF Response
<1>3. ASSUME NEW r \in Requests, Abandoned(r) PROVE KeepInv'
    BY <1>3, AbandonedLosesNothing
<1>4. ASSUME NEW c \in Callers, StoreStep(c), UNCHANGED <<editor, history>>
      PROVE  KeepInv'
    <2>1. CASE CommitRevision(c)
        BY <1>4, <2>1, CommitKeeps
    <2>2. CASE ~CommitRevision(c)
        BY <1>4, <2>2, OtherStepsKeep
    <2> QED BY <2>1, <2>2
<1>5. ASSUME NEW w \in Writers,
             WriterReads(w) \/ PersistGeneration(w) \/ WriterReturns(w)
      PROVE  KeepInv'
    BY <1>5, WritersLoseNothing
<1>6. ASSUME NEW w \in Writers, Dies({w}) PROVE KeepInv'
    BY <1>6, DiesLosesNothing DEF Callers
<1>7. CASE Dies(Requests)
    BY <1>7, DiesLosesNothing DEF Callers
<1>8. CASE GoOffline \/ UNCHANGED vars
    <2>1. /\ UNCHANGED store /\ UNCHANGED calls /\ UNCHANGED tab /\ UNCHANGED fetch
          /\ UNCHANGED draft
        BY <1>8 DEF GoOffline, vars, editor
    <2> QED BY <2>1, KeepsOutside
<1> QED BY <1>1, <1>2, <1>3, <1>4, <1>5, <1>6, <1>7, <1>8 DEF Next

(* As long as the network is there, a save that names the revision it      *)
(* replaces keeps every edit of it, or its author saw the edit and chose   *)
(* to replace or to drop it: whatever else is saved in the meantime, and   *)
(* even if the user keeps a draft the editor does not show (saveDraft, the *)
(* conflict dialog, restores, checkpoints, patches and the jobs' saves).   *)
THEOREM NothingOverwritten ==
    ASSUME Attentive PROVE Spec /\ []online => []NoBlindOverwrite
<1>1. DraftInv /\ ShownInv /\ KeepInv /\ online /\ [Next]_vars => KeepInv'
    BY KeepNext DEF GoOnline
<1>2. KeepInv => NoBlindOverwrite
    BY DEF KeepInv
<1> QED BY <1>1, <1>2, DraftInvariant, ShownAlways, KeepInit, PTL DEF Spec

-----------------------------------------------------------------------------
(* An edit that is in no revision is in a recovery copy, when the user     *)
(* takes none of the risks and no two tabs share a browser.  The network   *)
(* may be gone.                                                            *)

OwnBrowsers == \A t, u \in Tabs : BrowserOf[t] = BrowserOf[u] => t = u

(* What needs no copy any more.                                            *)
Past == InHistory \cup discarded
Copy(t) == Stored(t).text
AllPast(t) == tab[t].text \cup Copy(t) \subseteq Past

(* The editor, or the dialog that asks about the copy, shows what the copy *)
(* holds.                                                                  *)
CopyShown(t) ==
    \/ Copy(t) \subseteq tab[t].text \cup Past
    \/ Asks(t) /\ ~tab[t].due /\ Unawaited(t) /\ Copy(t) \subseteq tab[t].conflict.local

(* A tab that says all is saved is right, and so is one that awaits what   *)
(* replaces its text; a save carries all that was typed before it.         *)
CopySafe(t) ==
    tab[t].open = "open" =>
        /\ CopyShown(t)
        /\ tab[t].shown = "saved" /\ ~tab[t].due /\ ~Asks(t) /\ ~Awaits(t, {"save"})
              => AllPast(t)
        /\ Busy(t) => AllPast(t)
        /\ \A r \in Requests : fetch[r].tab = t /\ fetch[r].kind = "save" /\ ~tab[t].due
              => tab[t].text \cup Copy(t) \subseteq fetch[r].text \cup Past

LossInv ==
    /\ EditsSurvive
    /\ \A t \in Tabs : CopySafe(t)
    /\ \A b \in Browsers : ~draft[b].kept => draft[b].text = {}

LEMMA InPast ==
    ASSUME DraftInv, NEW n \in 1..Latest PROVE TextOf(n) \subseteq Past
<1>1. n \in DOMAIN revisions
    BY DEF DraftInv, StoreGood, Latest
<1> QED BY <1>1 DEF Past, InHistory, TextOf

LEMMA PastStays ==
    ASSUME UNCHANGED store, discarded \subseteq discarded' PROVE Past \subseteq Past'
BY DEF store, Past, InHistory

(* A step of one tab, its copy and its requests.                           *)
LEMMA LossStep ==
    ASSUME DraftInv, OwnBrowsers, LossInv, NEW t \in Tabs, NEW new, SetTab(t, new),
           NEW d, UNCHANGED draft \/ KeepDraft(t, d),
           \A r \in Requests : \/ fetch'[r] = fetch[r]
                               \/ fetch[r].tab \in {t, Nobody} /\ fetch'[r].tab \in {t, Nobody},
           Past \subseteq Past', CopySafe(t)', Copy(t) \subseteq Past' \cup Copy(t)',
           mine' \subseteq mine \cup Copy(t)',
           ~Stored(t).kept' => Stored(t).text' = {}
    PROVE  LossInv'
<1>1. \A u \in Tabs : u # t => tab'[u] = tab[u]
    BY DEF SetTab, DraftInv, TabsGood
<1>2. BrowserOf[t] \in Browsers /\ \A b \in Browsers : b # BrowserOf[t] => draft'[b] = draft[b]
    BY EditorAssumption DEF KeepDraft, DraftInv, DraftsGood
<1>3. \A u \in Tabs : u # t => Stored(u)' = Stored(u) /\ Copy(u)' = Copy(u)
    BY <1>2, EditorAssumption DEF OwnBrowsers, Stored, Copy
<1>4. EditsSurvive'
    <2> SUFFICES ASSUME NEW e \in mine', e \notin Past'
                 PROVE  \E b \in Browsers : e \in draft'[b].text
        BY DEF EditsSurvive, Past
    <2>1. CASE e \in Copy(t)'
        BY <1>2, <2>1 DEF Copy, Stored
    <2>2. CASE e \notin Copy(t)'
        <3>1. e \in mine /\ e \notin Past
            BY <2>2
        <3>2. PICK b \in Browsers : e \in draft[b].text
            BY <3>1 DEF LossInv, EditsSurvive, Past
        <3>3. b # BrowserOf[t]
            BY <2>2, <3>2 DEF Copy, Stored
        <3> QED BY <1>2, <3>2, <3>3
    <2> QED BY <2>1, <2>2
<1>5. ASSUME NEW u \in Tabs, u # t PROVE CopySafe(u)'
    <2>1. \A r \in Requests : /\ fetch'[r].tab = u <=> fetch[r].tab = u
                              /\ fetch[r].tab = u => fetch'[r] = fetch[r]
        BY <1>5, EditorAssumption
    <2>2. tab'[u] = tab[u] /\ Copy(u)' = Copy(u) /\ CopySafe(u)
        BY <1>1, <1>3, <1>5 DEF LossInv
    <2>3. CopyShown(u) => CopyShown(u)'
        BY <2>1, <2>2 DEF CopyShown, Unawaited, Asks
    <2>4. AllPast(u) => AllPast(u)'
        BY <2>2 DEF AllPast
    <2>5. (Awaits(u, {"save"})' <=> Awaits(u, {"save"})) /\ (Busy(u)' <=> Busy(u))
        BY <2>1 DEF Awaits, Busy
    <2>6. Asks(u)' <=> Asks(u)
        BY <2>2 DEF Asks
    <2> QED BY <2>1, <2>2, <2>3, <2>4, <2>5, <2>6 DEF CopySafe
<1>6. ASSUME NEW b \in Browsers PROVE ~draft'[b].kept => draft'[b].text = {}
    <2>1. CASE b = BrowserOf[t]
        BY <2>1 DEF Stored
    <2>2. CASE b # BrowserOf[t]
        BY <1>2, <2>2 DEF LossInv
    <2> QED BY <2>1, <2>2
<1> QED BY <1>4, <1>5, <1>6 DEF LossInv

(* A step that leaves tabs and copies alone.                               *)
LEMMA LossOutside ==
    ASSUME DraftInv, LossInv, UNCHANGED tab, UNCHANGED draft, UNCHANGED mine,
           Past \subseteq Past',
           \A r \in Requests : \/ fetch'[r] = fetch[r]
                               \/ fetch[r].tab \notin Tabs /\ fetch'[r].tab \notin Tabs
    PROVE  LossInv'
<1>1. EditsSurvive'
    BY DEF LossInv, EditsSurvive, Past
<1>2. ASSUME NEW u \in Tabs PROVE CopySafe(u)'
    <2>1. \A r \in Requests : /\ fetch'[r].tab = u <=> fetch[r].tab = u
                              /\ fetch[r].tab = u => fetch'[r] = fetch[r]
        OBVIOUS
    <2>2. tab'[u] = tab[u] /\ Copy(u)' = Copy(u) /\ CopySafe(u)
        BY DEF LossInv, Copy, Stored
    <2>3. CopyShown(u) => CopyShown(u)'
        BY <2>1, <2>2 DEF CopyShown, Unawaited, Asks
    <2>4. AllPast(u) => AllPast(u)'
        BY <2>2 DEF AllPast
    <2>5. (Awaits(u, {"save"})' <=> Awaits(u, {"save"})) /\ (Busy(u)' <=> Busy(u))
        BY <2>1 DEF Awaits, Busy
    <2>6. Asks(u)' <=> Asks(u)
        BY <2>2 DEF Asks
    <2> QED BY <2>1, <2>2, <2>3, <2>4, <2>5, <2>6 DEF CopySafe
<1>3. \A b \in Browsers : ~draft'[b].kept => draft'[b].text = {}
    BY DEF LossInv
<1> QED BY <1>1, <1>2, <1>3 DEF LossInv

(* What a step of a tab leaves: the tab, its copy, and other requests.     *)
LEMMA TabAfter ==
    ASSUME DraftInv, NEW t \in Tabs, NEW new, SetTab(t, new)
    PROVE  tab'[t] = new
BY DEF SetTab, DraftInv, TabsGood

LEMMA CopyAfter ==
    ASSUME DraftInv, NEW t \in Tabs, NEW d
    PROVE  /\ UNCHANGED draft => Stored(t)' = Stored(t)
           /\ KeepDraft(t, d) => Stored(t)' = d
BY EditorAssumption DEF KeepDraft, Stored, DraftInv, DraftsGood

LEMMA SendMoves ==
    ASSUME DraftInv, NEW t \in Tabs, NEW r \in Requests, NEW kind, NEW text, NEW call,
           Send(r, t, kind, text, call)
    PROVE  /\ fetch[r].tab = Nobody /\ fetch'[r].tab = t /\ fetch'[r].kind = kind
           /\ fetch'[r].text = text
           /\ \A q \in Requests : q # r => fetch'[q] = fetch[q]
BY DEF Send, Free, NoFetch, DraftInv, FetchGood

LEMMA Careful == ASSUME Risks = {} PROVE Attentive
BY DEF Attentive

LEMMA SaveDraftIsSafe ==
    ASSUME DraftInv, LossInv, Risks = {}, OwnBrowsers, UNCHANGED store, UNCHANGED history,
           NEW t \in Tabs, NEW new, KnownTab(new), new.text = tab[t].text,
           tab[t].open = "open", Copy(t) \subseteq new.text \cup Past, SaveDraft(t, new)
    PROVE  LossInv'
<1>1. UNCHANGED <<mine, discarded>> /\ Past \subseteq Past'
    BY PastStays DEF history
<1>2. KeepDraft(t, DraftOf(new)) /\ ~Awaits(t, {"save"}) /\ CopySafe(t)
    BY DEF SaveDraft, LossInv
<1>3. Copy(t)' = tab[t].text /\ Stored(t)'.kept
    <2>1. Stored(t)' = DraftOf(new)
        BY <1>2, CopyAfter
    <2> QED BY <2>1 DEF DraftOf, Copy
<1>4. ASSUME NEW shown
      PROVE  LET next == [new EXCEPT !.due = FALSE, !.shown = shown]
             IN  next.text = new.text /\ next.shown = shown
    BY DEF KnownTab, Tab
<1>5. CASE UNCHANGED <<fetch, calls>> /\ SetTab(t, [new EXCEPT !.due = FALSE, !.shown = "offline"])
    <2> DEFINE next == [new EXCEPT !.due = FALSE, !.shown = "offline"]
    <2>1. tab'[t].text = tab[t].text /\ tab'[t].shown = "offline"
        <3>1. next.text = new.text /\ next.shown = "offline"
            BY <1>4
        <3>2. SetTab(t, next)
            BY <1>5
        <3> HIDE DEF next
        <3>3. tab'[t] = next
            BY <3>2, TabAfter
        <3> QED BY <3>1, <3>3
    <2>2. CopyShown(t)'
        BY <1>3, <2>1 DEF CopyShown
    <2>3. Busy(t)' => AllPast(t)'
        BY <1>1, <1>2, <1>3, <1>5, <2>1 DEF Busy, Awaits, CopySafe, AllPast
    <2>4. ~Awaits(t, {"save"})'
        BY <1>2, <1>5 DEF Awaits
    <2>5. CopySafe(t)'
        BY <2>1, <2>2, <2>3, <2>4 DEF CopySafe, Awaits
    <2> HIDE DEF next
    <2> QED BY <1>1, <1>2, <1>3, <1>5, <2>5, LossStep DEF next
<1>6. ASSUME NEW r \in Requests, Send(r, t, "save", new.text, SaveCall(new)),
             SetTab(t, [new EXCEPT !.due = FALSE, !.shown = "saving"])
      PROVE  LossInv'
    <2> DEFINE next == [new EXCEPT !.due = FALSE, !.shown = "saving"]
    <2>1. tab'[t].text = tab[t].text /\ tab'[t].shown = "saving"
        <3>1. next.text = new.text /\ next.shown = "saving"
            BY <1>4
        <3>2. SetTab(t, next)
            BY <1>6
        <3> HIDE DEF next
        <3>3. tab'[t] = next
            BY <3>2, TabAfter
        <3> QED BY <3>1, <3>3
    <2>2. CopyShown(t)'
        BY <1>3, <2>1 DEF CopyShown
    <2>3. /\ fetch[r].tab = Nobody /\ fetch'[r].tab = t /\ fetch'[r].kind = "save"
          /\ fetch'[r].text = tab[t].text
          /\ \A q \in Requests : q # r => fetch'[q] = fetch[q]
        BY <1>6, SendMoves
    <2>4. Busy(t)' => AllPast(t)'
        <3>1. Busy(t)' => Busy(t)
            BY <2>3 DEF Busy, Awaits, Replacing
        <3> QED BY <1>1, <1>2, <1>3, <2>1, <3>1 DEF CopySafe, AllPast
    <2>5. ASSUME NEW q \in Requests, fetch'[q].tab = t, fetch'[q].kind = "save"
          PROVE  tab'[t].text \cup Copy(t)' \subseteq fetch'[q].text
        <3>1. q = r
            BY <1>2, <2>3, <2>5 DEF Awaits
        <3> QED BY <1>3, <2>1, <2>3, <3>1
    <2>6. CopySafe(t)'
        BY <2>1, <2>2, <2>4, <2>5 DEF CopySafe
    <2> HIDE DEF next
    <2> QED BY <1>1, <1>2, <1>3, <1>6, <2>3, <2>6, LossStep DEF next
<1> QED BY <1>5, <1>6 DEF SaveDraft

LEMMA SavesAreSafe ==
    ASSUME DraftInv, ShownInv, LossInv, Risks = {}, OwnBrowsers, NEW t \in Tabs,
           TimerFires(t) \/ KeepLocal(t)
    PROVE  LossInv'
<1>1. UNCHANGED store /\ UNCHANGED history
    BY DEF TimerFires, KeepLocal
<1>2. OpenedTab(tab[t]) /\ tab[t] \in Tab /\ KnownTab(tab[t]) /\ CopySafe(t)
    BY TabFacts DEF ShownInv, WaitInv, LossInv
<1>3. CASE TimerFires(t)
    <2>1. tab[t].due /\ SaveDraft(t, tab[t])
        BY <1>3 DEF TimerFires
    <2>2. tab[t].open = "open"
        BY <1>2, <2>1 DEF OpenedTab
    <2>3. Copy(t) \subseteq tab[t].text \cup Past
        BY <1>2, <2>1, <2>2 DEF CopySafe, CopyShown
    <2> QED BY <1>1, <1>2, <2>1, <2>2, <2>3, SaveDraftIsSafe
<1>4. CASE KeepLocal(t)
    <2> DEFINE seen == tab[t].waived \cup (tab[t].conflict.text \ tab[t].text)
               new == [tab[t] EXCEPT !.base = tab[t].conflict.id, !.conflict = NoConflict,
                                     !.waived = seen]
    <2>1. /\ Asks(t) /\ SaveDraft(t, new) /\ tab[t].conflict.local \subseteq tab[t].text
        BY <1>4 DEF KeepLocal, MayKeep
    <2>2. seen \in Text
        BY TabFacts DEF Text
    <2>3. /\ new \in Tab /\ new.base = tab[t].conflict.id /\ new.conflict = NoConflict
          /\ new.text = tab[t].text
        BY <1>2, <2>2, TabFacts, Idle DEF Tab
    <2>4. tab[t].open = "open"
        BY <1>2, <2>1 DEF OpenedTab, Asked, Asks
    <2>5. KnownTab(new)
        BY <2>3, TabFacts, LatestIsNat DEF KnownTab, NoConflict, DraftInv
    <2>6. Copy(t) \subseteq new.text \cup Past
        BY <1>2, <2>1, <2>3, <2>4 DEF CopySafe, CopyShown
    <2> HIDE DEF new
    <2> QED BY <1>1, <2>1, <2>3, <2>4, <2>5, <2>6, SaveDraftIsSafe
<1> QED BY <1>3, <1>4

LEMMA OpenTabIsSafe ==
    ASSUME DraftInv, LossInv, OwnBrowsers, NEW t \in Tabs, OpenTab(t) PROVE LossInv'
<1> DEFINE new == [ClosedTab EXCEPT !.open = "loading"]
<1>1. PICK r \in Requests : Send(r, t, "load", {}, Load)
    BY DEF OpenTab
<1>2. UNCHANGED store /\ UNCHANGED draft /\ SetTab(t, new) /\ UNCHANGED mine
      /\ UNCHANGED discarded
    BY DEF OpenTab
<1>3. new.open = "loading"
    BY DEF ClosedTab
<1>4. CopySafe(t)'
    BY <1>2, <1>3, TabAfter DEF CopySafe
<1>5. Copy(t)' = Copy(t) /\ Stored(t)' = Stored(t) /\ Past \subseteq Past'
    BY <1>2, PastStays DEF Copy, Stored
<1>6. \A q \in Requests : \/ fetch'[q] = fetch[q]
                          \/ fetch[q].tab \in {t, Nobody} /\ fetch'[q].tab \in {t, Nobody}
    BY <1>1, SendMoves
<1>7. ~Stored(t).kept' => Stored(t).text' = {}
    BY <1>5, EditorAssumption DEF LossInv, Stored
<1> HIDE DEF new
<1> QED BY <1>2, <1>4, <1>5, <1>6, <1>7, LossStep

LEMMA CloseTabIsSafe ==
    ASSUME DraftInv, LossInv, OwnBrowsers, NEW t \in Tabs, CloseTab(t) PROVE LossInv'
<1>1. UNCHANGED store /\ UNCHANGED draft /\ SetTab(t, ClosedTab) /\ UNCHANGED mine
      /\ UNCHANGED discarded
    BY DEF CloseTab, history
<1>2. ClosedTab.open = "closed"
    BY DEF ClosedTab
<1>3. CopySafe(t)'
    BY <1>1, <1>2, TabAfter DEF CopySafe
<1>4. Copy(t)' = Copy(t) /\ Stored(t)' = Stored(t) /\ Past \subseteq Past'
    BY <1>1, PastStays DEF Copy, Stored
<1>5. ASSUME NEW q \in Requests
      PROVE  \/ fetch'[q] = fetch[q]
             \/ fetch[q].tab \in {t, Nobody} /\ fetch'[q].tab \in {t, Nobody}
    <2>1. fetch[q].tab = t => fetch'[q].tab = Nobody
        BY DEF CloseTab, DraftInv, FetchGood, Fetch
    <2>2. fetch[q].tab # t => fetch'[q] = fetch[q]
        BY DEF CloseTab
    <2> QED BY <2>1, <2>2
<1>6. ~Stored(t).kept' => Stored(t).text' = {}
    BY <1>4, EditorAssumption DEF LossInv, Stored
<1> QED BY <1>1, <1>3, <1>4, <1>5, <1>6, LossStep

LEMMA TypeIsSafe ==
    ASSUME DraftInv, ShownInv, LossInv, Risks = {}, OwnBrowsers, NEW t \in Tabs, Type(t)
    PROVE  LossInv'
<1> DEFINE new == [tab[t] EXCEPT !.text = tab[t].text \cup {typed + 1},
                                 !.due = TRUE, !.shown = "unsaved"]
<1>1. /\ UNCHANGED store /\ UNCHANGED fetch /\ UNCHANGED discarded
      /\ SetTab(t, new) /\ KeepDraft(t, DraftOf(new)) /\ ~Busy(t)
      /\ tab[t].open = "open" /\ ~Asks(t) /\ mine' = mine \cup {typed + 1}
    BY DEF Type
<1>2. new.text = tab[t].text \cup {typed + 1} /\ new.due = TRUE
    BY TabFacts DEF Tab
<1> HIDE DEF new
<1>3. tab'[t] = new /\ Past \subseteq Past'
    BY <1>1, TabAfter, PastStays
<1>4. Copy(t)' = new.text /\ Stored(t)'.kept
    <2>1. Stored(t)' = DraftOf(new)
        BY <1>1, CopyAfter
    <2> QED BY <2>1 DEF DraftOf, Copy
<1>5. Copy(t) \subseteq tab[t].text \cup Past
    BY <1>1 DEF LossInv, CopySafe, CopyShown
<1>6. CopyShown(t)'
    BY <1>3, <1>4 DEF CopyShown
<1>7. ~Busy(t)'
    BY <1>1 DEF Busy, Awaits
<1>8. CopySafe(t)'
    BY <1>2, <1>3, <1>6, <1>7 DEF CopySafe
<1>9. Copy(t) \subseteq Past' \cup Copy(t)' /\ mine' \subseteq mine \cup Copy(t)'
    BY <1>1, <1>2, <1>3, <1>4, <1>5
<1> QED BY <1>1, <1>3, <1>4, <1>8, <1>9, LossStep

LEMMA UseLatestIsSafe ==
    ASSUME DraftInv, ShownInv, LossInv, OwnBrowsers, NEW t \in Tabs, UseLatest(t)
    PROVE  LossInv'
<1> DEFINE latest == tab[t].conflict
           new == [tab[t] EXCEPT !.text = latest.text, !.base = latest.id,
                     !.conflict = NoConflict, !.shown = "saved",
                     !.waived = @ \cup ((tab[t].text \cup latest.local) \ latest.text)]
<1>1. /\ UNCHANGED store /\ UNCHANGED fetch /\ UNCHANGED mine /\ SetTab(t, new)
      /\ KeepDraft(t, NoDraft) /\ Asked(tab[t])
      /\ discarded' = discarded \cup
            ((tab[t].text \cup latest.local \cup Stored(t).text) \ latest.text)
    BY DEF UseLatest, DropDraft, Asks, Asked
<1>2. OpenedTab(tab[t]) /\ tab[t] \in Tab
    BY TabFacts DEF ShownInv, WaitInv
<1>3. new.text = latest.text
    BY <1>2 DEF Tab
<1> HIDE DEF new
<1>4. tab'[t] = new /\ Past \subseteq Past' /\ discarded' \subseteq Past'
    BY <1>1, TabAfter, PastStays DEF Past
<1>5. Copy(t)' = {}
    <2>1. Stored(t)' = NoDraft
        BY <1>1, CopyAfter
    <2> QED BY <2>1 DEF NoDraft, Copy
<1>6. latest.text \subseteq Past'
    <2>1. latest.text \subseteq Past
        BY <1>1, <1>2, InPast DEF OpenedTab
    <2> QED BY <1>4, <2>1
<1>7. CopyShown(t)' /\ AllPast(t)'
    BY <1>3, <1>4, <1>5, <1>6 DEF CopyShown, AllPast
<1>8. CopySafe(t)'
    BY <1>7 DEF CopySafe, AllPast
<1>9. Copy(t) \subseteq Past'
    BY <1>1, <1>4, <1>6 DEF Copy
<1> QED BY <1>1, <1>4, <1>5, <1>8, <1>9, LossStep DEF Copy

LEMMA MergeIsSafe ==
    ASSUME DraftInv, ShownInv, LossInv, Risks = {}, OwnBrowsers, NEW t \in Tabs,
           MergeManually(t)
    PROVE  LossInv'
<1> DEFINE new == [tab[t] EXCEPT !.text = tab[t].text \cup tab[t].conflict.text,
                     !.base = tab[t].conflict.id, !.conflict = NoConflict,
                     !.shown = "unsaved"]
<1>1. /\ UNCHANGED store /\ UNCHANGED fetch /\ UNCHANGED mine /\ UNCHANGED discarded
      /\ SetTab(t, new) /\ KeepDraft(t, DraftOf(new)) /\ Asked(tab[t])
      /\ tab[t].conflict.local \subseteq tab[t].text
    BY DEF MergeManually, MayKeep, Asks, Asked, history
<1>2. OpenedTab(tab[t]) /\ tab[t] \in Tab /\ CopySafe(t)
    BY TabFacts DEF ShownInv, WaitInv, LossInv
<1>3. new.text = tab[t].text \cup tab[t].conflict.text /\ new.shown = "unsaved"
      /\ new.due = tab[t].due
    BY <1>2 DEF Tab
<1> HIDE DEF new
<1>4. tab'[t] = new /\ Past \subseteq Past'
    BY <1>1, TabAfter, PastStays
<1>5. Copy(t)' = new.text /\ Stored(t)'.kept
    <2>1. Stored(t)' = DraftOf(new)
        BY <1>1, CopyAfter
    <2> QED BY <2>1 DEF DraftOf, Copy
<1>6. tab[t].conflict.text \subseteq Past /\ tab[t].open = "open"
    BY <1>1, <1>2, InPast DEF OpenedTab
<1>7. Copy(t) \subseteq tab[t].text \cup Past
    BY <1>1, <1>2, <1>6 DEF CopySafe, CopyShown
<1>8. Busy(t)' => AllPast(t)'
    BY <1>1, <1>2, <1>3, <1>4, <1>5, <1>6 DEF CopySafe, Busy, Awaits, AllPast
<1>9. ASSUME NEW r \in Requests, fetch'[r].tab = t, fetch'[r].kind = "save", ~tab'[t].due
      PROVE  tab'[t].text \cup Copy(t)' \subseteq fetch'[r].text \cup Past'
    BY <1>1, <1>2, <1>3, <1>4, <1>5, <1>6, <1>9 DEF CopySafe
<1>10. CopyShown(t)'
    BY <1>4, <1>5 DEF CopyShown
<1>11. CopySafe(t)'
    BY <1>3, <1>4, <1>8, <1>9, <1>10 DEF CopySafe
<1>12. Copy(t) \subseteq Past' \cup Copy(t)'
    BY <1>3, <1>4, <1>5, <1>7
<1> QED BY <1>1, <1>4, <1>5, <1>11, <1>12, LossStep

(* A request that replaces the text is sent when nothing can be lost.      *)
LEMMA RequestsAreSafe ==
    ASSUME DraftInv, LossInv, Risks = {}, OwnBrowsers, NEW t \in Tabs,
           CreateCheckpoint(t) \/ RestoreRevision(t) \/ AcceptPatch(t)
    PROVE  LossInv'
<1>1. /\ UNCHANGED store /\ UNCHANGED tab /\ UNCHANGED draft /\ UNCHANGED mine
      /\ UNCHANGED discarded /\ tab[t].open = "open"
      /\ ~Asks(t) /\ ~tab[t].due /\ ~Awaits(t, Kinds) /\ tab[t].shown = "saved"
    BY DEF CreateCheckpoint, RestoreRevision, AcceptPatch, Ready, Settled, history
<1>2. PICK r \in Requests, kind \in {"checkpoint", "restore", "accept"} :
          \E call : Send(r, t, kind, {}, call)
    BY DEF CreateCheckpoint, RestoreRevision, AcceptPatch
<1>3. /\ fetch[r].tab = Nobody /\ fetch'[r].tab = t /\ fetch'[r].kind = kind
      /\ \A q \in Requests : q # r => fetch'[q] = fetch[q]
    BY <1>2, SendMoves
<1>4. ~Awaits(t, {"save"})
    BY <1>1 DEF Awaits, Kinds
<1>5. AllPast(t) /\ Past \subseteq Past' /\ SetTab(t, tab[t])
    BY <1>1, <1>4, PastStays DEF LossInv, CopySafe, SetTab, DraftInv, TabsGood
<1>6. tab'[t] = tab[t] /\ Copy(t)' = Copy(t) /\ Stored(t)' = Stored(t)
    BY <1>1 DEF Copy, Stored
<1>7. AllPast(t)' /\ CopyShown(t)'
    BY <1>5, <1>6 DEF AllPast, CopyShown
<1>8. CopySafe(t)'
    BY <1>7 DEF CopySafe, AllPast
<1>9. ~Stored(t).kept' => Stored(t).text' = {}
    BY <1>6, EditorAssumption DEF LossInv, Stored
<1> QED BY <1>1, <1>3, <1>5, <1>6, <1>8, <1>9, LossStep

LEMMA ReceivedMoves ==
    ASSUME DraftInv, NEW r \in Requests, Received(r) \/ Fails(r)
    PROVE  /\ fetch'[r].tab = Nobody
           /\ \A q \in Requests : q # r => fetch'[q] = fetch[q]
<1>1. CASE Received(r)
    BY <1>1 DEF Received, NoFetch, DraftInv, FetchGood
<1>2. CASE fetch' = [fetch EXCEPT ![r].tab = Nobody]
    BY <1>2 DEF DraftInv, FetchGood, Fetch
<1> QED BY <1>1, <1>2 DEF Fails

(* A tab that awaits a response shows what its copy holds.                 *)
LEMMA AwaitingTab ==
    ASSUME DraftInv, ShownInv, LossInv, NEW t \in Tabs, NEW r \in Requests,
           fetch[r].tab = t, fetch[r].kind # "load"
    PROVE  /\ tab[t].open = "open" /\ Copy(t) \subseteq tab[t].text \cup Past
           /\ CopySafe(t)
<1>1. tab[t].open = "open" /\ CopySafe(t) /\ ~Unawaited(t)
    BY WaitFacts DEF LossInv, Unawaited
<1> QED BY <1>1 DEF CopySafe, CopyShown

(* A response that leaves the text as it is,                               *)
LEMMA SameTextIsSafe ==
    ASSUME DraftInv, ShownInv, LossInv, OwnBrowsers, UNCHANGED store, UNCHANGED history,
           NEW t \in Tabs, NEW r \in Requests, fetch[r].tab = t, fetch[r].kind # "load",
           Received(r) \/ Fails(r), NEW new, SetTab(t, new),
           new.text = tab[t].text, new.due = tab[t].due,
           UNCHANGED draft \/ (KeepDraft(t, NoDraft) /\ Copy(t) \subseteq Past),
           new.shown = "saved" /\ ~new.due /\ new.conflict = NoConflict => AllPast(t)
    PROVE  LossInv'
<1>1. /\ fetch'[r].tab = Nobody
      /\ \A q \in Requests : q # r => fetch'[q] = fetch[q]
    BY ReceivedMoves
<1>2. UNCHANGED <<mine, discarded>> /\ Past \subseteq Past'
    BY PastStays DEF history
<1>3. tab'[t] = new
    BY TabAfter
<1>4. /\ Copy(t)' = Copy(t) \/ (Copy(t)' = {} /\ Copy(t) \subseteq Past)
      /\ ~Stored(t).kept' => Stored(t).text' = {}
    <2>1. CASE UNCHANGED draft
        BY <2>1, EditorAssumption DEF LossInv, Copy, Stored
    <2>2. CASE KeepDraft(t, NoDraft) /\ Copy(t) \subseteq Past
        <3>1. Stored(t)' = NoDraft
            BY <2>2, CopyAfter
        <3> QED BY <2>2, <3>1 DEF NoDraft, Copy
    <2> QED BY <2>1, <2>2
<1>5. Copy(t) \subseteq tab[t].text \cup Past /\ CopySafe(t) /\ tab[t].open = "open"
    BY AwaitingTab
<1>6. CopyShown(t)'
    BY <1>2, <1>3, <1>4, <1>5 DEF CopyShown
<1>7. AllPast(t) => AllPast(t)'
    BY <1>2, <1>3, <1>4 DEF AllPast
<1>8. Busy(t)' => Busy(t)
    BY <1>1, EditorAssumption DEF Busy, Awaits
<1>9. ASSUME NEW q \in Requests, fetch'[q].tab = t, fetch'[q].kind = "save", ~tab'[t].due
      PROVE  tab'[t].text \cup Copy(t)' \subseteq fetch'[q].text \cup Past'
    <2>1. fetch'[q] = fetch[q]
        BY <1>1, <1>9, EditorAssumption
    <2>2. tab[t].text \cup Copy(t) \subseteq fetch[q].text \cup Past
        BY <1>3, <1>5, <1>9, <2>1 DEF CopySafe
    <2> QED BY <1>2, <1>3, <1>4, <2>1, <2>2
<1>10. CopySafe(t)'
    BY <1>3, <1>5, <1>6, <1>7, <1>8, <1>9 DEF CopySafe, Asks
<1>11. Copy(t) \subseteq Past' \cup Copy(t)'
    BY <1>2, <1>4
<1> QED BY <1>1, <1>2, <1>4, <1>10, <1>11, LossStep

(* ... and one after which text and copy hold nothing that is not saved.   *)
LEMMA PastTextIsSafe ==
    ASSUME DraftInv, LossInv, OwnBrowsers, UNCHANGED store, UNCHANGED history,
           NEW t \in Tabs, NEW r \in Requests, fetch[r].tab = t,
           Received(r) \/ Fails(r), NEW new, SetTab(t, new), new.text \subseteq Past,
           KeepDraft(t, NoDraft), Copy(t) \subseteq Past
    PROVE  LossInv'
<1>1. /\ fetch'[r].tab = Nobody
      /\ \A q \in Requests : q # r => fetch'[q] = fetch[q]
    BY ReceivedMoves
<1>2. UNCHANGED <<mine, discarded>> /\ Past \subseteq Past'
    BY PastStays DEF history
<1>3. tab'[t] = new
    BY TabAfter
<1>4. Copy(t)' = {} /\ Stored(t).text' = {}
    <2>1. Stored(t)' = NoDraft
        BY CopyAfter
    <2> QED BY <2>1 DEF NoDraft, Copy
<1>5. CopyShown(t)' /\ AllPast(t)'
    BY <1>2, <1>3, <1>4 DEF CopyShown, AllPast
<1>6. CopySafe(t)'
    BY <1>5 DEF CopySafe, AllPast
<1> QED BY <1>1, <1>2, <1>4, <1>6, LossStep

LEMMA LoadedIsSafe ==
    ASSUME DraftInv, ShownInv, LossInv, OwnBrowsers, NEW t \in Tabs, NEW r \in Requests,
           ArticleLoaded(t, r)
    PROVE  LossInv'
<1> DEFINE served == [tab[t] EXCEPT !.open = "open", !.text = calls[r].text,
                                    !.base = calls[r].rev, !.shown = "saved"]
           recovered == [served EXCEPT !.text = Stored(t).text,
                           !.waived = Stored(t).waived, !.due = @ \/ online,
                           !.shown = IF online THEN "unsaved" ELSE "offline"]
           asked == ShowConflict(served, served.base, served.text, Stored(t).text)
<1>1. /\ UNCHANGED store /\ UNCHANGED history /\ Received(r) /\ fetch[r].tab = t
      /\ fetch[r].kind = "load" /\ Done(calls[r])
    BY DEF ArticleLoaded, Responds, Done
<1>2. /\ calls[r].op = "load" /\ OpenedTab(tab[t]) /\ Truthful(calls[r])
      /\ tab[t] \in Tab /\ tab[t].open = "loading"
    BY <1>1, WaitFacts DEF Awaited
<1>3. calls[r].text \subseteq Past /\ calls[r].rev >= 1
    <2>1. calls[r].rev \in 1..Latest /\ calls[r].text = TextOf(calls[r].rev)
        BY <1>1, <1>2 DEF Truthful
    <2> QED BY <2>1, InPast, LatestIsNat DEF DraftInv
<1>4. served.text = calls[r].text /\ served.base = calls[r].rev /\ served.due = FALSE
    BY <1>2 DEF Tab, OpenedTab
<1>5. recovered.text = Copy(t) /\ recovered.shown # "saved"
    BY <1>2 DEF Tab, Copy
<1>6. /\ asked.conflict.id = calls[r].rev /\ asked.conflict.local = Copy(t)
      /\ asked.due = FALSE /\ asked.text = calls[r].text
    <2>1. /\ asked.text = served.text /\ asked.due = served.due
          /\ asked.conflict = [id |-> served.base, text |-> served.text,
                               local |-> Stored(t).text]
        BY <1>2 DEF Tab, ShowConflict
    <2> HIDE DEF served, asked
    <2> QED BY <1>4, <2>1 DEF Copy
<1>7. \A q \in Requests : fetch'[q].tab # t
    <2>1. \A q \in Requests : q # r => fetch'[q] = fetch[q] /\ fetch[q].tab # t
        BY <1>1, ReceivedMoves DEF ShownInv, WaitInv
    <2> QED BY <1>1, <2>1, ReceivedMoves, EditorAssumption
<1>8. \/ /\ SetTab(t, served) /\ KeepDraft(t, NoDraft)
         /\ ~Stored(t).kept \/ Copy(t) = served.text
      \/ SetTab(t, recovered) /\ UNCHANGED draft
      \/ SetTab(t, asked) /\ UNCHANGED draft
    BY DEF ArticleLoaded, DropDraft, Recovers, Copy
<1> HIDE DEF served, recovered, asked
<1>9. CASE /\ SetTab(t, served) /\ KeepDraft(t, NoDraft)
           /\ ~Stored(t).kept \/ Copy(t) = served.text
    <2>1. Copy(t) \subseteq Past
        BY <1>3, <1>4, <1>9, EditorAssumption DEF LossInv, Stored, Copy
    <2> QED BY <1>1, <1>3, <1>4, <1>9, <2>1, PastTextIsSafe
<1>10. ASSUME UNCHANGED draft, SetTab(t, recovered) \/ SetTab(t, asked)
       PROVE  LossInv'
    <2>1. UNCHANGED <<mine, discarded>> /\ Past \subseteq Past'
        BY <1>1, PastStays DEF history
    <2>2. Copy(t)' = Copy(t) /\ Stored(t)' = Stored(t)
        BY <1>10 DEF Copy, Stored
    <2>3. ~Busy(t)' /\ Unawaited(t)'
        BY <1>7 DEF Busy, Awaits, Unawaited
    <2>4. ~Stored(t).kept' => Stored(t).text' = {}
        BY <2>2, EditorAssumption DEF LossInv, Stored
    <2>5. \A q \in Requests : \/ fetch'[q] = fetch[q]
                              \/ fetch[q].tab \in {t, Nobody} /\ fetch'[q].tab \in {t, Nobody}
        BY <1>1, ReceivedMoves
    <2>6. CASE SetTab(t, recovered)
        <3>1. tab'[t] = recovered
            BY <2>6, TabAfter
        <3>2. CopyShown(t)'
            BY <1>5, <2>2, <3>1 DEF CopyShown
        <3>3. CopySafe(t)'
            BY <1>5, <1>7, <2>3, <3>1, <3>2 DEF CopySafe
        <3> QED BY <1>10, <2>1, <2>2, <2>4, <2>5, <2>6, <3>3, LossStep
    <2>7. CASE SetTab(t, asked)
        <3>1. tab'[t] = asked
            BY <2>7, TabAfter
        <3>2. Asks(t)'
            BY <1>3, <1>6, <3>1 DEF Asks, NoConflict
        <3>3. CopyShown(t)'
            BY <1>6, <2>2, <2>3, <3>1, <3>2 DEF CopyShown
        <3>4. CopySafe(t)'
            BY <1>7, <2>3, <3>2, <3>3 DEF CopySafe
        <3> QED BY <1>10, <2>1, <2>2, <2>4, <2>5, <2>7, <3>4, LossStep
    <2> QED BY <1>10, <2>6, <2>7
<1> QED BY <1>8, <1>9, <1>10

LEMMA LoadFailsIsSafe ==
    ASSUME DraftInv, ShownInv, LossInv, OwnBrowsers, NEW t \in Tabs, NEW r \in Requests,
           LoadFails(t, r)
    PROVE  LossInv'
<1>1. /\ UNCHANGED store /\ UNCHANGED tab /\ UNCHANGED draft /\ UNCHANGED mine
      /\ UNCHANGED discarded /\ fetch[r].tab = t /\ fetch[r].kind = "load"
      /\ Received(r) \/ Fails(r)
    BY DEF LoadFails, history
<1>2. tab[t].open = "loading"
    BY <1>1, WaitFacts
<1>3. CopySafe(t)'
    BY <1>1, <1>2 DEF CopySafe
<1>4. Copy(t)' = Copy(t) /\ Stored(t)' = Stored(t) /\ Past \subseteq Past'
      /\ SetTab(t, tab[t])
    BY <1>1, PastStays DEF Copy, Stored, SetTab, DraftInv, TabsGood
<1>5. \A q \in Requests : \/ fetch'[q] = fetch[q]
                          \/ fetch[q].tab \in {t, Nobody} /\ fetch'[q].tab \in {t, Nobody}
    BY <1>1, ReceivedMoves
<1>6. ~Stored(t).kept' => Stored(t).text' = {}
    BY <1>4, EditorAssumption DEF LossInv, Stored
<1> QED BY <1>1, <1>3, <1>4, <1>5, <1>6, LossStep

LEMMA SaveAnsweredIsSafe ==
    ASSUME DraftInv, ShownInv, LossInv, OwnBrowsers, NEW t \in Tabs, NEW r \in Requests,
           SaveSucceeds(t, r) \/ SaveFails(t, r)
    PROVE  LossInv'
<1>1. /\ UNCHANGED store /\ UNCHANGED history /\ fetch[r].tab = t /\ fetch[r].kind = "save"
      /\ Received(r) \/ Fails(r)
    BY DEF SaveSucceeds, SaveFails, Responds
<1>2. tab[t] \in Tab /\ Awaited(fetch[r], calls[r], tab[t]) /\ Truthful(calls[r])
    BY <1>1, WaitFacts
<1>3. CASE SaveFails(t, r)
    <2> DEFINE new == [tab[t] EXCEPT !.shown = Failure]
    <2>1. SetTab(t, new) /\ UNCHANGED draft
        BY <1>3 DEF SaveFails
    <2>2. new.text = tab[t].text /\ new.due = tab[t].due /\ new.shown # "saved"
        BY <1>2 DEF Tab, Failure
    <2> HIDE DEF new
    <2> QED BY <1>1, <2>1, <2>2, SameTextIsSafe
<1>4. CASE SaveSucceeds(t, r)
    <2> DEFINE new == [tab[t] EXCEPT !.base = calls[r].rev, !.shown = "saved"]
    <2>1. SetTab(t, new) /\ Done(calls[r])
        BY <1>4 DEF SaveSucceeds, Responds, Done
    <2>2. new.text = tab[t].text /\ new.due = tab[t].due
        BY <1>2 DEF Tab
    <2> HIDE DEF new
    <2>3. fetch[r].text \subseteq Past
        <3>1. calls[r].op = "save" /\ calls[r].text = fetch[r].text
            BY <1>1, <1>2, <2>1 DEF Awaited, Done
        <3>2. calls[r].rev \in 1..Latest /\ calls[r].text = TextOf(calls[r].rev)
            BY <1>2, <2>1, <3>1 DEF Truthful
        <3> QED BY <3>1, <3>2, InPast
    <2>4. UNCHANGED draft \/ (KeepDraft(t, NoDraft) /\ Copy(t) \subseteq Past)
        BY <1>4, <2>3 DEF SaveSucceeds, ClearIfMatches, DropDraft, Copy
    <2>5. ~new.due => AllPast(t)
        <3>1. CopySafe(t) /\ tab[t].open = "open"
            BY <1>1, AwaitingTab
        <3> QED BY <1>1, <2>2, <2>3, <3>1 DEF CopySafe, AllPast
    <2> QED BY <1>1, <2>1, <2>2, <2>4, <2>5, SameTextIsSafe
<1> QED BY <1>3, <1>4

LEMMA RefusedIsSafe ==
    ASSUME DraftInv, ShownInv, LossInv, OwnBrowsers, NEW t \in Tabs, NEW r \in Requests,
           Refused(t, r)
    PROVE  LossInv'
<1> DEFINE local == IF fetch[r].kind = "save" THEN fetch[r].text ELSE tab[t].text
           new == ShowConflict(tab[t], calls[r].rev, revisions[calls[r].rev].text, local)
<1>1. /\ UNCHANGED store /\ UNCHANGED history /\ UNCHANGED draft /\ Received(r)
      /\ fetch[r].tab = t /\ fetch[r].kind # "load" /\ SetTab(t, new)
    BY DEF Refused, Responds
<1>2. tab[t] \in Tab
    BY <1>1, WaitFacts
<1>3. new.text = tab[t].text /\ new.due = tab[t].due /\ new.shown = "conflict"
    BY <1>2 DEF Tab, ShowConflict
<1> HIDE DEF new
<1> QED BY <1>1, <1>3, SameTextIsSafe

LEMMA ActionsAreSafe ==
    ASSUME DraftInv, ShownInv, LossInv, OwnBrowsers, NEW t \in Tabs, NEW r \in Requests,
           CheckpointCreated(t, r) \/ TextReplaced(t, r) \/ ActionFails(t, r)
    PROVE  LossInv'
<1>1. /\ UNCHANGED store /\ UNCHANGED history /\ fetch[r].tab = t
      /\ fetch[r].kind \in Replacing /\ (Received(r) \/ Fails(r))
    BY DEF CheckpointCreated, TextReplaced, ActionFails, Responds, Replacing
<1>2. /\ tab[t] \in Tab /\ Awaited(fetch[r], calls[r], tab[t]) /\ Truthful(calls[r])
      /\ fetch[r].kind # "load"
    BY <1>1, WaitFacts DEF Replacing
<1>3. AllPast(t)
    <2>1. CopySafe(t) /\ tab[t].open = "open" /\ Busy(t)
        BY <1>1, <1>2, AwaitingTab DEF Busy, Awaits
    <2> QED BY <2>1 DEF CopySafe
<1>4. CASE ActionFails(t, r)
    <2>1. UNCHANGED draft /\ SetTab(t, tab[t])
        BY <1>4 DEF ActionFails, SetTab, DraftInv, TabsGood
    <2> QED BY <1>1, <1>2, <1>3, <2>1, SameTextIsSafe
<1>5. CASE CheckpointCreated(t, r)
    <2> DEFINE new == [tab[t] EXCEPT !.base = calls[r].rev, !.shown = "saved"]
    <2>1. SetTab(t, new) /\ UNCHANGED draft
        BY <1>5 DEF CheckpointCreated
    <2>2. new.text = tab[t].text /\ new.due = tab[t].due
        BY <1>2 DEF Tab
    <2> HIDE DEF new
    <2> QED BY <1>1, <1>2, <1>3, <2>1, <2>2, SameTextIsSafe
<1>6. CASE TextReplaced(t, r)
    <2> DEFINE new == [tab[t] EXCEPT !.text = calls[r].text, !.base = calls[r].rev,
                                     !.shown = "saved"]
    <2>1. /\ SetTab(t, new) /\ KeepDraft(t, NoDraft) /\ Done(calls[r])
          /\ fetch[r].kind \in {"restore", "reload"}
        BY <1>6 DEF TextReplaced, DropDraft, Responds, Done
    <2>2. new.text = calls[r].text
        BY <1>2 DEF Tab
    <2> HIDE DEF new
    <2>3. calls[r].text \subseteq Past
        <3>1. calls[r].rev \in 1..Latest /\ calls[r].text = TextOf(calls[r].rev)
            BY <1>2, <2>1 DEF Truthful, Awaited
        <3> QED BY <3>1, InPast
    <2>4. Copy(t) \subseteq Past
        BY <1>3 DEF AllPast
    <2> QED BY <1>1, <2>1, <2>2, <2>3, <2>4, PastTextIsSafe
<1> QED BY <1>4, <1>5, <1>6

LEMMA PatchAcceptedIsSafe ==
    ASSUME DraftInv, ShownInv, LossInv, OwnBrowsers, NEW t \in Tabs, NEW r \in Requests,
           PatchAccepted(t, r)
    PROVE  LossInv'
<1>1. /\ UNCHANGED store /\ UNCHANGED tab /\ UNCHANGED draft /\ fetch[r].tab = t
      /\ UNCHANGED mine /\ UNCHANGED discarded
      /\ fetch[r].kind = "accept" /\ fetch' = [fetch EXCEPT ![r].kind = "reload"]
    BY DEF PatchAccepted, Responds, history
<1>2. /\ fetch'[r].tab = t /\ fetch'[r].kind = "reload"
      /\ \A q \in Requests : q # r => fetch'[q] = fetch[q]
    BY <1>1 DEF DraftInv, FetchGood, Fetch
<1>3. CopySafe(t) /\ tab[t].open = "open" /\ Busy(t)
      /\ Copy(t) \subseteq tab[t].text \cup Past
    BY <1>1, AwaitingTab DEF Busy, Awaits, Replacing
<1>4. /\ Copy(t)' = Copy(t) /\ Stored(t)' = Stored(t) /\ Past \subseteq Past'
      /\ SetTab(t, tab[t]) /\ tab'[t] = tab[t]
    BY <1>1, PastStays DEF Copy, Stored, SetTab, DraftInv, TabsGood
<1>5. AllPast(t)' /\ CopyShown(t)'
    BY <1>3, <1>4 DEF CopySafe, AllPast, CopyShown
<1>6. CopySafe(t)'
    BY <1>5 DEF CopySafe, AllPast
<1>7. ~Stored(t).kept' => Stored(t).text' = {}
    BY <1>4, EditorAssumption DEF LossInv, Stored
<1> QED BY <1>1, <1>2, <1>4, <1>6, <1>7, LossStep

(* The network returns, and every copy that is not asked about is due.     *)
LEMMA NetworkIsSafe ==
    ASSUME DraftInv, LossInv, GoOffline \/ GoOnline
    PROVE  LossInv'
<1>1. UNCHANGED store /\ UNCHANGED fetch /\ UNCHANGED draft /\ UNCHANGED mine
      /\ UNCHANGED discarded
    BY DEF GoOffline, GoOnline, history
<1>2. CASE GoOffline
    BY <1>1, <1>2, PastStays, LossOutside DEF GoOffline
<1>3. CASE GoOnline
    <2>1. Past \subseteq Past' /\ InHistory' = InHistory
        BY <1>1, PastStays DEF InHistory, store
    <2>2. EditsSurvive' /\ \A b \in Browsers : ~draft'[b].kept => draft'[b].text = {}
        BY <1>1, <2>1 DEF LossInv, EditsSurvive
    <2>3. ASSUME NEW t \in Tabs PROVE CopySafe(t)'
        <3>1. CopySafe(t) /\ tab[t] \in Tab /\ Copy(t)' = Copy(t)
            BY <1>1, TabFacts DEF LossInv, Copy, Stored
        <3>2. /\ tab'[t].open = tab[t].open /\ tab'[t].text = tab[t].text
              /\ tab'[t].shown = tab[t].shown /\ tab'[t].conflict = tab[t].conflict
              /\ tab'[t].due = tab[t].due \/ (tab'[t].due /\ ~Asks(t))
            <4>1. \/ tab'[t] = tab[t]
                  \/ tab'[t] = [tab[t] EXCEPT !.due = TRUE] /\ ~Asks(t)
                BY <1>3 DEF GoOnline
            <4> QED BY <3>1, <4>1 DEF Tab
        <3>3. CopyShown(t) => CopyShown(t)'
            BY <1>1, <2>1, <3>1, <3>2 DEF CopyShown, Asks, Unawaited
        <3>4. AllPast(t) => AllPast(t)'
            BY <2>1, <3>1, <3>2 DEF AllPast
        <3>5. (Awaits(t, {"save"})' <=> Awaits(t, {"save"})) /\ (Busy(t)' <=> Busy(t))
            BY <1>1 DEF Awaits, Busy
        <3>6. Asks(t)' <=> Asks(t)
            BY <3>2 DEF Asks
        <3>7. tab[t].due => tab'[t].due
            BY <3>2
        <3> QED BY <1>1, <2>1, <3>1, <3>2, <3>3, <3>4, <3>5, <3>6, <3>7 DEF CopySafe
    <2> QED BY <2>2, <2>3 DEF LossInv
<1> QED BY <1>2, <1>3

LEMMA OthersAreSafe ==
    ASSUME DraftInv, LossInv, Attentive,
           \/ \E r \in Requests : Abandoned(r)
           \/ \E c \in Callers : StoreStep(c) /\ UNCHANGED <<editor, history>>
           \/ \E w \in Writers : WriterReads(w) \/ PersistGeneration(w) \/ WriterReturns(w)
           \/ \E dead \in SUBSET Callers : Dies(dead)
           \/ UNCHANGED vars
    PROVE  LossInv'
<1>1. CASE \E r \in Requests : Abandoned(r)
    <2>1. PICK r \in Requests : Abandoned(r)
        BY <1>1
    <2>2. /\ UNCHANGED store /\ UNCHANGED tab /\ UNCHANGED draft /\ UNCHANGED mine
          /\ UNCHANGED discarded /\ Received(r) /\ fetch[r].tab = Nobody
        BY <2>1 DEF Abandoned, history
    <2> QED BY <2>2, PastStays, ReceivedMoves, LossOutside, EditorAssumption
<1>2. ASSUME NEW c \in Callers, StoreStep(c), UNCHANGED <<editor, history>> PROVE LossInv'
    <2>1. /\ UNCHANGED tab /\ UNCHANGED draft /\ UNCHANGED fetch /\ UNCHANGED mine
          /\ UNCHANGED discarded
        BY <1>2 DEF editor, history
    <2>2. Past \subseteq Past'
        <3>1. StoreGood' /\ Latest <= Latest' /\ Latest \in Nat /\ Latest' \in Nat
              /\ \A n \in 1..Latest : revisions'[n] = revisions[n]
            BY <1>2, HistoryGrows, StoreStepKeeps DEF DraftInv
        <3>2. DOMAIN revisions = 1..Latest /\ DOMAIN revisions' = 1..(Latest')
            BY <3>1 DEF DraftInv, StoreGood, Latest
        <3>3. InHistory \subseteq InHistory'
            BY <3>1, <3>2 DEF InHistory
        <3> QED BY <2>1, <3>3 DEF Past
    <2> QED BY <2>1, <2>2, LossOutside
<1>3. CASE \E w \in Writers : WriterReads(w) \/ PersistGeneration(w) \/ WriterReturns(w)
    <2>1. /\ UNCHANGED store /\ UNCHANGED tab /\ UNCHANGED draft /\ UNCHANGED fetch
          /\ UNCHANGED mine /\ UNCHANGED discarded
        BY <1>3 DEF WriterReads, PersistGeneration, WriterReturns, editor, history
    <2> QED BY <2>1, PastStays, LossOutside
<1>4. CASE \E dead \in SUBSET Callers : Dies(dead)
    <2>1. /\ UNCHANGED tab /\ UNCHANGED draft /\ UNCHANGED fetch /\ UNCHANGED mine
          /\ UNCHANGED discarded /\ UNCHANGED revisions
        BY <1>4, AttentiveIsQuiet, DyingMoves
    <2> QED BY <2>1, LossOutside DEF Past, InHistory
<1>5. CASE UNCHANGED vars
    <2>1. /\ UNCHANGED store /\ UNCHANGED tab /\ UNCHANGED draft /\ UNCHANGED fetch
          /\ UNCHANGED mine /\ UNCHANGED discarded
        BY <1>5 DEF vars, editor, history
    <2> QED BY <2>1, PastStays, LossOutside
<1> QED BY <1>1, <1>2, <1>3, <1>4, <1>5

LEMMA LossInit == Init => LossInv
<1> SUFFICES ASSUME Init PROVE LossInv
    OBVIOUS
<1>1. mine = {} /\ tab = [t \in Tabs |-> ClosedTab] /\ draft = [b \in Browsers |-> NoDraft]
    BY DEF Init
<1>2. \A t \in Tabs : CopySafe(t)
    BY <1>1 DEF CopySafe, ClosedTab
<1>3. \A b \in Browsers : draft[b].text = {}
    BY <1>1 DEF NoDraft
<1>4. EditsSurvive
    BY <1>1 DEF EditsSurvive
<1> QED BY <1>2, <1>3, <1>4 DEF LossInv

LEMMA LossNext ==
    ASSUME Risks = {}, OwnBrowsers
    PROVE  DraftInv /\ ShownInv /\ LossInv /\ [Next]_vars => LossInv'
<1> SUFFICES ASSUME DraftInv, ShownInv, LossInv, [Next]_vars PROVE LossInv'
    OBVIOUS
<1>1. ASSUME NEW t \in Tabs, TabStep(t) PROVE LossInv'
    BY <1>1, OpenTabIsSafe, CloseTabIsSafe, TypeIsSafe, SavesAreSafe, UseLatestIsSafe,
       MergeIsSafe, RequestsAreSafe DEF TabStep
<1>2. ASSUME NEW t \in Tabs, NEW r \in Requests, Response(t, r) PROVE LossInv'
    BY <1>2, LoadedIsSafe, LoadFailsIsSafe, SaveAnsweredIsSafe, RefusedIsSafe,
       ActionsAreSafe, PatchAcceptedIsSafe DEF Response
<1>3. ASSUME NEW w \in Writers, Dies({w}) PROVE LossInv'
    BY <1>3, OthersAreSafe, Careful DEF Callers
<1>4. CASE Dies(Requests)
    BY <1>4, OthersAreSafe, Careful DEF Callers
<1>5. CASE GoOffline \/ GoOnline
    BY <1>5, NetworkIsSafe
<1>6. ASSUME \/ \E r \in Requests : Abandoned(r)
             \/ \E c \in Callers : StoreStep(c) /\ UNCHANGED <<editor, history>>
             \/ \E w \in Writers :
                    WriterReads(w) \/ PersistGeneration(w) \/ WriterReturns(w)
             \/ UNCHANGED vars
      PROVE  LossInv'
    BY <1>6, OthersAreSafe, Careful
<1> QED BY <1>1, <1>2, <1>3, <1>4, <1>5, <1>6 DEF Next

(* Whoever closes or crashes a tab at any moment, with the network there   *)
(* or gone, finds every edit in the article's history or in the recovery   *)
(* copy of the browser, unless the user chose to drop it: for any number   *)
(* of tabs, each in a browser of its own, whose users take no risk         *)
(* (persistLocalDraft, clearLocalDraftIfMatches, recoverLocalDraft).       *)
THEOREM NoEditIsLost ==
    ASSUME Risks = {}, OwnBrowsers PROVE Spec => []EditsSurvive
<1>1. DraftInv /\ ShownInv /\ LossInv /\ [Next]_vars => LossInv'
    BY LossNext
<1>2. LossInv => EditsSurvive
    BY DEF LossInv
<1>3. Spec => []ShownInv
    BY ShownAlways, Careful
<1> QED BY <1>1, <1>2, <1>3, DraftInvariant, LossInit, PTL DEF Spec

-----------------------------------------------------------------------------
(* The network may be gone.  When it returns it sets the timer of every    *)
(* tab whose browser has a recovery copy, and a tab that awaits what will  *)
(* replace its text must not save.  In a browser of its own it has no      *)
(* copy: a tab at rest has none, unless it awaits the save that drops it.  *)

AtRest(new) == new.open = "open" /\ new.shown = "saved" /\ ~new.due /\ ~Asked(new)
Fits(new) == new.conflict.text \subseteq new.text
Grounded(new) == TextOf(new.base) \subseteq new.text

Failed(call) == call.pc = "answered" /\ call.answer = "error"

(* A save that will be refused, or was not accepted.                       *)
Hopeless(call) ==
    \/ call.pc = "checking" /\ call.expected # 0 /\ call.expected < Latest
    \/ call.pc = "answered" /\ call.answer # "ok"

(* A save that goes out under the dialog is refused, or the dialog asks    *)
(* about nothing that the editor does not show.                            *)
TimerFits(new) == Asked(new) /\ new.due => new.base < new.conflict.id \/ Fits(new)

SaveRests(wait, call, new, d) ==
    /\ ~d.kept \/ new.due \/ d.text = wait.text \/ Hopeless(call)
    /\ Asked(new) => Hopeless(call) \/ (new.text = wait.text /\ Fits(new))
    /\ Failed(call) \/ call.expected = new.base \/ Grounded(new)
    /\ call.pc = "answered" /\ call.answer = "conflict" =>
          /\ new.base <= call.rev /\ (new.base = call.rev => Grounded(new))
          /\ Asked(new) => new.conflict.id <= call.rev
WaitRests(wait, call, new, d) ==
    /\ wait.kind \in Replacing => new.shown = "saved"
    /\ wait.kind = "save" => SaveRests(wait, call, new, d)

RestInv ==
    /\ \A t \in Tabs : /\ TimerFits(tab[t])
                       /\ AtRest(tab[t]) => Awaits(t, {"save"}) \/ ~Stored(t).kept
    /\ \A r \in Requests : fetch[r].tab \in Tabs =>
          WaitRests(fetch[r], calls[r], tab[fetch[r].tab], Stored(fetch[r].tab))

(* A step of one tab, its copy and its requests.                           *)
LEMMA RestStep ==
    ASSUME DraftInv, OwnBrowsers, RestInv, UNCHANGED store, NEW t \in Tabs, NEW new,
           SetTab(t, new), NEW d, Stored(t)' = d, UNCHANGED draft \/ KeepDraft(t, d),
           TimerFits(new), AtRest(new) => ~d.kept,
           \A r \in Requests : fetch'[r].tab \in Tabs \ {t} =>
               fetch'[r] = fetch[r] /\ calls'[r] = calls[r],
           \A r \in Requests : fetch[r].tab \in Tabs \ {t} => fetch'[r] = fetch[r],
           \A r \in Requests : fetch'[r].tab = t => WaitRests(fetch'[r], calls'[r], new, d)
    PROVE  RestInv'
<1>1. \A u \in Tabs : tab'[u] = IF u = t THEN new ELSE tab[u]
    BY DEF SetTab, DraftInv, TabsGood
<1>2. \A u \in Tabs : u # t => Stored(u)' = Stored(u)
    BY EditorAssumption DEF OwnBrowsers, Stored, KeepDraft, DraftInv, DraftsGood
<1>3. UNCHANGED revisions /\ Latest' = Latest
    BY DEF store, Latest
<1>4. ASSUME NEW u \in Tabs
      PROVE  /\ TimerFits(tab[u])'
             /\ AtRest(tab'[u]) => Awaits(u, {"save"})' \/ ~Stored(u)'.kept
    <2>1. CASE u = t
        BY <1>1, <2>1 DEF TimerFits, Asked, Fits
    <2>2. CASE u # t
        <3>1. Awaits(u, {"save"}) => Awaits(u, {"save"})'
            BY <2>2 DEF Awaits
        <3> QED BY <1>1, <1>2, <2>2, <3>1 DEF RestInv, TimerFits, Asked, Fits
    <2> QED BY <2>1, <2>2
<1>5. ASSUME NEW r \in Requests, fetch'[r].tab \in Tabs
      PROVE  WaitRests(fetch[r], calls[r], tab[fetch[r].tab], Stored(fetch[r].tab))'
    <2>1. WaitRests(fetch'[r], calls'[r], tab'[fetch'[r].tab], Stored(fetch[r].tab)')
        <3>1. CASE fetch'[r].tab = t
            BY <1>1, <3>1
        <3>2. CASE fetch'[r].tab # t
            BY <1>1, <1>2, <1>5, <3>2 DEF RestInv
        <3> QED BY <3>1, <3>2
    <2> QED BY <1>3, <2>1 DEF WaitRests, SaveRests, Hopeless, Grounded, Fits, Asked, TextOf
<1>6. ASSUME NEW u \in Tabs PROVE (AtRest(tab[u]) => Awaits(u, {"save"}) \/ ~Stored(u).kept)'
    BY <1>4 DEF AtRest, Asked
<1> QED BY <1>4, <1>5, <1>6 DEF RestInv

LEMMA RestKept ==
    ASSUME DraftInv, OwnBrowsers, RestInv, UNCHANGED store, NEW t \in Tabs, NEW new,
           SetTab(t, new), NEW d, Stored(t)' = d, UNCHANGED draft \/ KeepDraft(t, d),
           TimerFits(new), AtRest(new) => ~d.kept, UNCHANGED calls, UNCHANGED fetch,
           \A r \in Requests : fetch[r].tab = t => WaitRests(fetch[r], calls[r], new, d)
    PROVE  RestInv'
BY RestStep

LEMMA RestSent ==
    ASSUME DraftInv, OwnBrowsers, RestInv, UNCHANGED store, NEW t \in Tabs, NEW new,
           SetTab(t, new), NEW d, Stored(t)' = d, UNCHANGED draft \/ KeepDraft(t, d),
           TimerFits(new), AtRest(new) => ~d.kept,
           Unawaited(t), NEW r \in Requests, NEW kind, NEW text, NEW call,
           Send(r, t, kind, text, call),
           WaitRests([tab |-> t, kind |-> kind, text |-> text], call, new, d)
    PROVE  RestInv'
<1> DEFINE wait == [tab |-> t, kind |-> kind, text |-> text]
<1>1. r \in Callers /\ \A q \in Requests : q \in Callers
    BY DEF Callers
<1>2. /\ \A q \in Requests : fetch'[q] = IF q = r THEN wait ELSE fetch[q]
      /\ \A c \in Callers : calls'[c] = IF c = r THEN call ELSE calls[c]
    BY <1>1 DEF Send, DraftInv, FetchGood, CallsGood
<1>3. wait.tab = t /\ fetch[r].tab = Nobody
    BY DEF Send, Free, NoFetch
<1>4. \A q \in Requests : fetch'[q].tab = t => q = r
    BY <1>2 DEF Unawaited
<1>5. \A q \in Requests : fetch'[q].tab \in Tabs \ {t} =>
          fetch'[q] = fetch[q] /\ calls'[q] = calls[q]
    BY <1>1, <1>2, <1>3
<1>6. \A q \in Requests : fetch[q].tab \in Tabs \ {t} => fetch'[q] = fetch[q]
    BY <1>2, <1>3, EditorAssumption
<1>7. \A q \in Requests : fetch'[q].tab = t => WaitRests(fetch'[q], calls'[q], new, d)
    BY <1>1, <1>2, <1>4
<1> HIDE DEF wait
<1> QED BY <1>5, <1>6, <1>7, RestStep

LEMMA RestAnswered ==
    ASSUME DraftInv, OwnBrowsers, KeepInv, RestInv, UNCHANGED store, NEW t \in Tabs, NEW new,
           SetTab(t, new), NEW d, Stored(t)' = d, UNCHANGED draft \/ KeepDraft(t, d),
           TimerFits(new), AtRest(new) => ~d.kept,
           NEW r \in Requests, fetch[r].tab = t, Received(r) \/ Fails(r)
    PROVE  RestInv'
<1>1. \A q \in Requests : fetch'[q].tab \in Tabs =>
          q # r /\ fetch'[q] = fetch[q] /\ calls'[q] = calls[q]
    BY WaitsReceived
<1>2. \A q \in Requests : fetch'[q].tab # t
    BY <1>1 DEF KeepInv, OneWait
<1>3. \A q \in Requests : fetch[q].tab \in Tabs \ {t} => fetch'[q] = fetch[q]
    BY WaitsReceived
<1> QED BY <1>1, <1>2, <1>3, RestStep

(* A tab that awaits what replaces its text has no copy.                   *)
LEMMA BusyRests ==
    ASSUME DraftInv, ShownInv, KeepInv, RestInv, NEW t \in Tabs, NEW r \in Requests,
           fetch[r].tab = t, fetch[r].kind \in Replacing
    PROVE  AtRest(tab[t]) /\ ~Stored(t).kept
<1>1. WaitRests(fetch[r], calls[r], tab[t], Stored(t)) /\ WaitKeeps(fetch[r], calls[r], tab[t])
    BY DEF RestInv, KeepInv
<1>2. tab[t].open = "open"
    BY WaitFacts DEF Replacing
<1>3. AtRest(tab[t])
    BY <1>1, <1>2 DEF AtRest, WaitRests, WaitKeeps
<1>4. ~Awaits(t, {"save"})
    <2> SUFFICES ASSUME NEW q \in Requests, fetch[q].tab = t, fetch[q].kind = "save" PROVE FALSE
        BY DEF Awaits
    <2>1. q = r
        BY DEF KeepInv, OneWait
    <2> QED BY <2>1 DEF Replacing
<1> QED BY <1>3, <1>4 DEF RestInv

LEMMA OpenTabRests ==
    ASSUME DraftInv, OwnBrowsers, ShownInv, RestInv, NEW t \in Tabs, OpenTab(t)
    PROVE  RestInv'
<1> DEFINE new == [ClosedTab EXCEPT !.open = "loading"]
           wait == [tab |-> t, kind |-> "load", text |-> {}]
<1>1. PICK r \in Requests : Send(r, t, "load", {}, Load)
    BY DEF OpenTab
<1>2. UNCHANGED store /\ UNCHANGED draft /\ SetTab(t, new) /\ tab[t].open = "closed"
    BY DEF OpenTab
<1>3. new.open = "loading" /\ ~new.due
    BY DEF ClosedTab
<1>4. Unawaited(t)
    BY <1>2 DEF Unawaited, ShownInv, WaitInv, Awaited
<1>5. wait.kind = "load"
    OBVIOUS
<1>6. Stored(t)' = Stored(t)
    BY <1>2, CopyAfter
<1>7. WaitRests(wait, Load, new, Stored(t))
    <2> HIDE DEF wait, new
    <2> QED BY <1>5 DEF WaitRests, Replacing
<1>8. TimerFits(new) /\ ~AtRest(new)
    <2> HIDE DEF new
    <2> QED BY <1>3 DEF TimerFits, AtRest
<1> HIDE DEF new
<1> QED BY <1>1, <1>2, <1>4, <1>6, <1>7, <1>8, RestSent

LEMMA CloseTabRests ==
    ASSUME DraftInv, OwnBrowsers, RestInv, NEW t \in Tabs, CloseTab(t) PROVE RestInv'
<1>1. UNCHANGED store /\ UNCHANGED calls /\ UNCHANGED draft /\ SetTab(t, ClosedTab)
    BY DEF CloseTab
<1>2. TimerFits(ClosedTab) /\ ~AtRest(ClosedTab)
    BY DEF TimerFits, AtRest, ClosedTab
<1>3. ASSUME NEW r \in Requests
      PROVE  /\ fetch'[r].tab # t
             /\ fetch'[r].tab \in Tabs => fetch'[r] = fetch[r] /\ calls'[r] = calls[r]
             /\ fetch[r].tab \in Tabs \ {t} => fetch'[r] = fetch[r]
    <2>1. fetch[r].tab = t => fetch'[r].tab = Nobody
        BY DEF CloseTab, DraftInv, FetchGood, Fetch
    <2>2. fetch[r].tab # t => fetch'[r] = fetch[r]
        BY DEF CloseTab
    <2> QED BY <1>1, <2>1, <2>2, EditorAssumption
<1>4. Stored(t)' = Stored(t)
    BY <1>1, CopyAfter
<1> QED BY <1>1, <1>2, <1>3, <1>4, RestStep

LEMMA TypeRests ==
    ASSUME DraftInv, OwnBrowsers, Attentive, ShownInv, RestInv, NEW t \in Tabs, Type(t)
    PROVE  RestInv'
<1> DEFINE new == [tab[t] EXCEPT !.text = tab[t].text \cup {typed + 1},
                                 !.due = TRUE, !.shown = "unsaved"]
           d == DraftOf(new)
<1>1. /\ UNCHANGED store /\ UNCHANGED calls /\ UNCHANGED fetch /\ SetTab(t, new)
      /\ KeepDraft(t, d) /\ ~Busy(t) /\ ~Asked(tab[t])
    BY DEF Type, Attentive, Asks, Asked
<1>2. /\ new.text = tab[t].text \cup {typed + 1} /\ new.base = tab[t].base
      /\ new.conflict = tab[t].conflict /\ new.due
    BY TabFacts DEF Tab
<1> HIDE DEF new, d
<1>3. ~Asked(new) /\ TimerFits(new) /\ ~AtRest(new) /\ (Grounded(tab[t]) => Grounded(new))
    BY <1>1, <1>2 DEF Asked, TimerFits, AtRest, Grounded
<1>4. ASSUME NEW r \in Requests, fetch[r].tab = t PROVE WaitRests(fetch[r], calls[r], new, d)
    <2>1. fetch[r].kind \notin Replacing
        BY <1>1, <1>4 DEF Busy, Awaits
    <2>2. WaitRests(fetch[r], calls[r], tab[t], Stored(t))
        BY <1>4 DEF RestInv
    <2> QED BY <1>2, <1>3, <2>1, <2>2 DEF WaitRests, SaveRests
<1>5. Stored(t)' = d
    BY <1>1, CopyAfter
<1> QED BY <1>1, <1>3, <1>4, <1>5, RestKept

LEMMA SaveDraftRests ==
    ASSUME DraftInv, OwnBrowsers, Attentive, ShownInv, KeepInv, RestInv, UNCHANGED store,
           NEW t \in Tabs, NEW new, KnownTab(new), new.base >= 1,
           tab[t].open = "open", tab[t].due \/ Asked(tab[t]),
           Asked(new) => new.base < new.conflict.id \/ Fits(new), SaveDraft(t, new)
    PROVE  RestInv'
<1> DEFINE d == DraftOf(new)
           offline == [new EXCEPT !.due = FALSE, !.shown = "offline"]
           next == [new EXCEPT !.due = FALSE, !.shown = "saving"]
           s == Save(new.text, new.base, new.waived)
<1>1. Unawaited(t)
    BY NothingElse DEF SaveDraft, Attentive
<1>2. KeepDraft(t, d) /\ d.text = new.text
    BY DEF SaveDraft, DraftOf
<1>3. /\ next.base = new.base /\ next.text = new.text /\ next.conflict = new.conflict
      /\ ~next.due /\ next.shown = "saving"
      /\ ~offline.due /\ offline.shown = "offline"
    BY DEF KnownTab, Tab
<1>4. SaveCall(new) = s /\ s.pc = "checking" /\ s.expected = new.base
    BY SentFields DEF SaveCall
<1>5. \/ UNCHANGED <<fetch, calls>> /\ SetTab(t, offline)
      \/ /\ SetTab(t, next)
         /\ \E r \in Requests : Send(r, t, "save", new.text, SaveCall(new))
    BY DEF SaveDraft
<1> HIDE DEF d, offline, next, s
<1>6. Stored(t)' = d
    BY <1>2, CopyAfter
<1>7. /\ TimerFits(next) /\ ~AtRest(next) /\ TimerFits(offline) /\ ~AtRest(offline)
    BY <1>3 DEF TimerFits, AtRest
<1>8. CASE UNCHANGED <<fetch, calls>> /\ SetTab(t, offline)
    BY <1>1, <1>2, <1>6, <1>7, <1>8, RestKept DEF Unawaited
<1>9. ASSUME NEW r \in Requests, Send(r, t, "save", new.text, s), SetTab(t, next)
      PROVE  RestInv'
    <2> DEFINE wait == [tab |-> t, kind |-> "save", text |-> new.text]
    <2>1. wait.kind = "save" /\ wait.text = new.text
        OBVIOUS
    <2>2. Asked(next) => Hopeless(s) \/ (next.text = new.text /\ Fits(next))
        <3> SUFFICES ASSUME Asked(new), ~Fits(new) PROVE Hopeless(s)
            BY <1>3 DEF Asked, Fits
        <3>1. /\ new.base < new.conflict.id /\ new.conflict.id <= Latest
              /\ new.base \in Nat /\ new.conflict.id \in Nat /\ Latest \in Nat
            BY LatestIsNat DEF KnownTab, Tab, Conflict, DraftInv
        <3> QED BY <1>4, <3>1 DEF Hopeless
    <2>3. WaitRests(wait, s, next, d)
        <3> HIDE DEF wait
        <3> QED BY <1>2, <1>3, <1>4, <2>1, <2>2 DEF WaitRests, SaveRests, Replacing
    <2> QED BY <1>1, <1>2, <1>6, <1>7, <1>9, <2>3, RestSent
<1> QED BY <1>4, <1>5, <1>8, <1>9

LEMMA SavesRest ==
    ASSUME DraftInv, OwnBrowsers, Attentive, ShownInv, KeepInv, RestInv, NEW t \in Tabs,
           TimerFires(t) \/ KeepLocal(t)
    PROVE  RestInv'
<1>1. UNCHANGED store
    BY DEF TimerFires, KeepLocal
<1>2. OpenedTab(tab[t]) /\ tab[t] \in Tab /\ KnownTab(tab[t]) /\ TimerFits(tab[t])
    BY TabFacts DEF ShownInv, WaitInv, RestInv
<1>3. CASE TimerFires(t)
    <2>1. tab[t].due /\ SaveDraft(t, tab[t])
        BY <1>3 DEF TimerFires
    <2>2. tab[t].open = "open" /\ tab[t].base >= 1
        BY <1>2, <2>1 DEF OpenedTab
    <2>3. Asked(tab[t]) => tab[t].base < tab[t].conflict.id \/ Fits(tab[t])
        BY <1>2, <2>1 DEF TimerFits
    <2> QED BY <1>1, <1>2, <2>1, <2>2, <2>3, SaveDraftRests
<1>4. CASE KeepLocal(t)
    <2> DEFINE seen == tab[t].waived \cup (tab[t].conflict.text \ tab[t].text)
               new == [tab[t] EXCEPT !.base = tab[t].conflict.id, !.conflict = NoConflict,
                                     !.waived = seen]
    <2>1. Asked(tab[t]) /\ SaveDraft(t, new)
        BY <1>4 DEF KeepLocal, MayKeep, Asks, Asked
    <2>2. seen \in Text
        BY TabFacts DEF Text
    <2>3. new \in Tab /\ new.base = tab[t].conflict.id /\ new.conflict = NoConflict
        BY <1>2, <2>2, TabFacts, Idle DEF Tab
    <2>4. tab[t].open = "open" /\ tab[t].conflict.id >= 1
        BY <1>2, <2>1 DEF OpenedTab, Asked
    <2>5. KnownTab(new)
        BY <2>3, TabFacts, LatestIsNat DEF KnownTab, NoConflict, DraftInv
    <2>6. ~Asked(new)
        BY <2>3 DEF Asked
    <2> HIDE DEF new
    <2> QED BY <1>1, <2>1, <2>3, <2>4, <2>5, <2>6, SaveDraftRests
<1> QED BY <1>3, <1>4

(* An answer to the conflict puts the revision it names into the text.     *)
LEMMA ChoiceRests ==
    ASSUME DraftInv, OwnBrowsers, ShownInv, KeepInv, RestInv, UNCHANGED store,
           UNCHANGED calls, UNCHANGED fetch, NEW t \in Tabs, Asked(tab[t]), NEW new,
           SetTab(t, new), NEW d, KeepDraft(t, d), ~Asked(new),
           new.base = tab[t].conflict.id, tab[t].conflict.text \subseteq new.text,
           \/ ~d.kept
           \/ /\ d.text = new.text /\ new.text = tab[t].text \cup tab[t].conflict.text
              /\ new.shown # "saved"
    PROVE  RestInv'
<1>1. tab[t].conflict.text = TextOf(tab[t].conflict.id)
    BY DEF ShownInv, WaitInv, OpenedTab
<1>2. TimerFits(new) /\ Grounded(new) /\ (AtRest(new) => ~d.kept)
    BY <1>1 DEF TimerFits, Grounded, AtRest
<1>3. ASSUME NEW r \in Requests, fetch[r].tab = t PROVE WaitRests(fetch[r], calls[r], new, d)
    <2>1. /\ WaitKeeps(fetch[r], calls[r], tab[t])
          /\ WaitRests(fetch[r], calls[r], tab[t], Stored(t))
        BY <1>3 DEF KeepInv, RestInv
    <2>2. fetch[r].kind \notin Replacing
        BY <2>1 DEF WaitKeeps
    <2>3. fetch[r].kind = "save" => ~d.kept \/ d.text = fetch[r].text \/ Hopeless(calls[r])
        BY <2>1 DEF WaitRests, SaveRests, Fits
    <2> QED BY <1>2, <2>1, <2>2, <2>3 DEF WaitRests, SaveRests
<1>4. Stored(t)' = d
    BY CopyAfter
<1> QED BY <1>2, <1>3, <1>4, RestKept

LEMMA ChoicesRest ==
    ASSUME DraftInv, OwnBrowsers, ShownInv, KeepInv, RestInv, NEW t \in Tabs,
           UseLatest(t) \/ MergeManually(t)
    PROVE  RestInv'
<1>1. tab[t] \in Tab
    BY TabFacts
<1>2. CASE UseLatest(t)
    <2> DEFINE latest == tab[t].conflict
               new == [tab[t] EXCEPT !.text = latest.text, !.base = latest.id,
                         !.conflict = NoConflict, !.shown = "saved",
                         !.waived = @ \cup ((tab[t].text \cup latest.local) \ latest.text)]
    <2>1. /\ UNCHANGED store /\ UNCHANGED calls /\ UNCHANGED fetch /\ Asked(tab[t])
          /\ KeepDraft(t, NoDraft) /\ SetTab(t, new)
        BY <1>2 DEF UseLatest, DropDraft, Asks, Asked
    <2>2. new.text = latest.text /\ new.base = latest.id /\ new.conflict = NoConflict
        BY <1>1 DEF Tab
    <2>3. ~NoDraft.kept
        BY DEF NoDraft
    <2> HIDE DEF new
    <2>4. ~Asked(new)
        BY <2>2 DEF Asked
    <2> QED BY <2>1, <2>2, <2>3, <2>4, ChoiceRests
<1>3. CASE MergeManually(t)
    <2> DEFINE new == [tab[t] EXCEPT !.text = tab[t].text \cup tab[t].conflict.text,
                         !.base = tab[t].conflict.id, !.conflict = NoConflict,
                         !.shown = "unsaved"]
    <2>1. /\ UNCHANGED store /\ UNCHANGED calls /\ UNCHANGED fetch /\ Asked(tab[t])
          /\ SetTab(t, new) /\ KeepDraft(t, DraftOf(new))
        BY <1>3 DEF MergeManually, MayKeep, Asks, Asked
    <2>2. /\ new.text = tab[t].text \cup tab[t].conflict.text /\ new.shown = "unsaved"
          /\ new.base = tab[t].conflict.id /\ new.conflict = NoConflict
        BY <1>1 DEF Tab
    <2> HIDE DEF new
    <2>3. DraftOf(new).text = new.text
        BY DEF DraftOf
    <2>4. ~Asked(new)
        BY <2>2 DEF Asked
    <2> QED BY <2>1, <2>2, <2>3, <2>4, ChoiceRests
<1> QED BY <1>2, <1>3

LEMMA RequestsRest ==
    ASSUME DraftInv, OwnBrowsers, Attentive, RestInv, NEW t \in Tabs,
           CreateCheckpoint(t) \/ RestoreRevision(t) \/ AcceptPatch(t)
    PROVE  RestInv'
<1>1. /\ UNCHANGED store /\ UNCHANGED tab /\ UNCHANGED draft /\ tab[t].open = "open"
      /\ ~Asked(tab[t]) /\ ~tab[t].due /\ ~Awaits(t, Kinds) /\ tab[t].shown = "saved"
    BY DEF CreateCheckpoint, RestoreRevision, AcceptPatch, Ready, Settled, Attentive,
           Asks, Asked
<1>2. PICK r \in Requests, kind \in {"checkpoint", "restore", "accept"} :
          \E call : Send(r, t, kind, {}, call)
    BY DEF CreateCheckpoint, RestoreRevision, AcceptPatch
<1>3. PICK call : Send(r, t, kind, {}, call)
    BY <1>2
<1>4. Unawaited(t) /\ ~Awaits(t, {"save"}) /\ SetTab(t, tab[t])
    BY <1>1 DEF Unawaited, Awaits, SetTab, Kinds, DraftInv, TabsGood, FetchGood, Fetch
<1>5. AtRest(tab[t]) /\ ~Stored(t).kept /\ TimerFits(tab[t])
    BY <1>1, <1>4 DEF AtRest, RestInv
<1>6. WaitRests([tab |-> t, kind |-> kind, text |-> {}], call, tab[t], Stored(t))
    <2> DEFINE wait == [tab |-> t, kind |-> kind, text |-> {}]
    <2>1. wait.kind = kind
        OBVIOUS
    <2> HIDE DEF wait
    <2>2. WaitRests(wait, call, tab[t], Stored(t))
        BY <1>1, <2>1 DEF WaitRests
    <2> QED BY <2>2 DEF wait
<1>7. Stored(t)' = Stored(t)
    BY <1>1, CopyAfter
<1> QED BY <1>1, <1>3, <1>4, <1>5, <1>6, <1>7, RestSent

LEMMA LoadedRests ==
    ASSUME DraftInv, OwnBrowsers, ShownInv, KeepInv, RestInv, NEW t \in Tabs,
           NEW r \in Requests, ArticleLoaded(t, r)
    PROVE  RestInv'
<1> DEFINE served == [tab[t] EXCEPT !.open = "open", !.text = calls[r].text,
                                    !.base = calls[r].rev, !.shown = "saved"]
           recovered == [served EXCEPT !.text = Stored(t).text,
                           !.waived = Stored(t).waived, !.due = @ \/ online,
                           !.shown = IF online THEN "unsaved" ELSE "offline"]
           asked == ShowConflict(served, served.base, served.text, Stored(t).text)
<1>1. /\ UNCHANGED store /\ Received(r) /\ fetch[r].tab = t /\ fetch[r].kind = "load"
    BY DEF ArticleLoaded, Responds
<1>2. tab[t] \in Tab /\ ~tab[t].due /\ ~Asked(tab[t])
    BY <1>1, WaitFacts DEF OpenedTab
<1>3. served.due = tab[t].due /\ served.conflict = tab[t].conflict
    BY <1>2 DEF Tab
<1>4. recovered.conflict = tab[t].conflict /\ recovered.shown # "saved"
    BY <1>2 DEF Tab
<1>5. asked.due = tab[t].due /\ asked.shown # "saved"
    BY <1>2 DEF Tab, ShowConflict
<1>6. \/ SetTab(t, served) /\ KeepDraft(t, NoDraft)
      \/ SetTab(t, recovered) /\ UNCHANGED draft
      \/ SetTab(t, asked) /\ UNCHANGED draft
    BY DEF ArticleLoaded, DropDraft
<1> HIDE DEF served, recovered, asked
<1>7. TimerFits(served) /\ TimerFits(recovered) /\ TimerFits(asked)
    BY <1>2, <1>3, <1>4, <1>5 DEF TimerFits, Asked
<1>8. ~AtRest(recovered) /\ ~AtRest(asked) /\ ~NoDraft.kept
    BY <1>4, <1>5 DEF AtRest, NoDraft
<1>9. CASE SetTab(t, served) /\ KeepDraft(t, NoDraft)
    <2>1. Stored(t)' = NoDraft
        BY <1>9, CopyAfter
    <2> QED BY <1>1, <1>7, <1>8, <1>9, <2>1, RestAnswered
<1>10. ASSUME UNCHANGED draft, NEW new, SetTab(t, new), TimerFits(new), ~AtRest(new)
       PROVE  RestInv'
    <2>1. Stored(t)' = Stored(t)
        BY <1>10, CopyAfter
    <2> QED BY <1>1, <1>10, <2>1, RestAnswered
<1> QED BY <1>6, <1>7, <1>8, <1>9, <1>10

(* A response that leaves the copy as it is.                               *)
LEMMA SameCopyRests ==
    ASSUME DraftInv, OwnBrowsers, KeepInv, RestInv, UNCHANGED store, UNCHANGED draft,
           NEW t \in Tabs, NEW new, SetTab(t, new), TimerFits(new),
           AtRest(new) => ~Stored(t).kept,
           NEW r \in Requests, fetch[r].tab = t, Received(r) \/ Fails(r)
    PROVE  RestInv'
<1>1. Stored(t)' = Stored(t)
    BY CopyAfter
<1> QED BY <1>1, RestAnswered

LEMMA FailuresRest ==
    ASSUME DraftInv, OwnBrowsers, ShownInv, KeepInv, RestInv, NEW t \in Tabs,
           NEW r \in Requests, LoadFails(t, r) \/ SaveFails(t, r) \/ ActionFails(t, r)
    PROVE  RestInv'
<1>1. /\ UNCHANGED store /\ UNCHANGED draft /\ fetch[r].tab = t
      /\ Received(r) \/ Fails(r)
    BY DEF LoadFails, SaveFails, ActionFails
<1>2. tab[t] \in Tab /\ TimerFits(tab[t])
    BY TabFacts DEF RestInv
<1>3. CASE LoadFails(t, r)
    <2>1. SetTab(t, tab[t]) /\ fetch[r].kind = "load"
        BY <1>3 DEF LoadFails, SetTab, DraftInv, TabsGood
    <2>2. ~AtRest(tab[t])
        BY <1>1, <2>1, WaitFacts DEF AtRest
    <2> QED BY <1>1, <1>2, <2>1, <2>2, SameCopyRests
<1>4. CASE ActionFails(t, r)
    <2>1. SetTab(t, tab[t]) /\ fetch[r].kind \in Replacing
        BY <1>4 DEF ActionFails, SetTab, DraftInv, TabsGood
    <2>2. ~Stored(t).kept
        BY <1>1, <2>1, BusyRests
    <2> QED BY <1>1, <1>2, <2>1, <2>2, SameCopyRests
<1>5. CASE SaveFails(t, r)
    <2> DEFINE new == [tab[t] EXCEPT !.shown = Failure]
    <2>1. SetTab(t, new)
        BY <1>5 DEF SaveFails
    <2>2. /\ new.due = tab[t].due /\ new.conflict = tab[t].conflict /\ new.base = tab[t].base
          /\ new.text = tab[t].text /\ new.shown # "saved"
        BY <1>2 DEF Tab, Failure
    <2> HIDE DEF new
    <2>3. TimerFits(new) /\ ~AtRest(new)
        BY <1>2, <2>2 DEF TimerFits, AtRest, Asked, Fits
    <2> QED BY <1>1, <2>1, <2>3, SameCopyRests
<1> QED BY <1>3, <1>4, <1>5

LEMMA SaveSucceedsRests ==
    ASSUME DraftInv, OwnBrowsers, ShownInv, KeepInv, RestInv, NEW t \in Tabs,
           NEW r \in Requests, SaveSucceeds(t, r)
    PROVE  RestInv'
<1> DEFINE new == [tab[t] EXCEPT !.base = calls[r].rev, !.shown = "saved"]
<1>1. /\ UNCHANGED store /\ fetch[r].tab = t /\ Received(r) /\ SetTab(t, new)
      /\ fetch[r].kind = "save" /\ calls[r].pc = "answered" /\ calls[r].answer = "ok"
      /\ IF Stored(t).text = fetch[r].text THEN KeepDraft(t, NoDraft) ELSE UNCHANGED draft
    BY DEF SaveSucceeds, Responds, ClearIfMatches, DropDraft
<1>2. tab[t] \in Tab /\ SaveRests(fetch[r], calls[r], tab[t], Stored(t)) /\ ~Hopeless(calls[r])
    BY <1>1, TabFacts DEF RestInv, WaitRests, Hopeless
<1>3. /\ new.due = tab[t].due /\ new.conflict = tab[t].conflict /\ new.text = tab[t].text
    BY <1>2 DEF Tab
<1> HIDE DEF new
<1>4. TimerFits(new)
    BY <1>2, <1>3 DEF SaveRests, TimerFits, Asked, Fits
<1>5. CASE Stored(t).text = fetch[r].text
    <2>1. KeepDraft(t, NoDraft) /\ Stored(t)' = NoDraft /\ ~NoDraft.kept
        BY <1>1, <1>5, CopyAfter DEF NoDraft
    <2> QED BY <1>1, <1>4, <2>1, RestAnswered
<1>6. CASE Stored(t).text # fetch[r].text
    <2>1. AtRest(new) => ~Stored(t).kept
        BY <1>2, <1>3, <1>6 DEF SaveRests, AtRest
    <2> QED BY <1>1, <1>4, <1>6, <2>1, SameCopyRests
<1> QED BY <1>5, <1>6

LEMMA RefusedRests ==
    ASSUME DraftInv, OwnBrowsers, ShownInv, KeepInv, RestInv, NEW t \in Tabs,
           NEW r \in Requests, Refused(t, r)
    PROVE  RestInv'
<1> DEFINE local == IF fetch[r].kind = "save" THEN fetch[r].text ELSE tab[t].text
           new == ShowConflict(tab[t], calls[r].rev, revisions[calls[r].rev].text, local)
<1>1. /\ UNCHANGED store /\ UNCHANGED draft /\ Received(r) /\ SetTab(t, new)
      /\ fetch[r].tab = t /\ calls[r].pc = "answered" /\ calls[r].answer = "conflict"
      /\ fetch[r].kind \in {"save"} \cup Replacing
    BY DEF Refused, Responds, Replacing
<1>2. /\ tab[t] \in Tab /\ WaitRests(fetch[r], calls[r], tab[t], Stored(t))
      /\ WaitKeeps(fetch[r], calls[r], tab[t])
      /\ tab[t].base \in Nat /\ calls[r].rev \in Nat
    BY <1>1, TabFacts, CallFacts DEF RestInv, KeepInv
<1>3. /\ new.due = tab[t].due /\ new.text = tab[t].text /\ new.shown = "conflict"
      /\ new.base = tab[t].base
    BY <1>2 DEF Tab, ShowConflict
<1>4. new.conflict.id = calls[r].rev /\ new.conflict.text = TextOf(calls[r].rev)
    BY <1>2 DEF Tab, ShowConflict, TextOf
<1> HIDE DEF new
<1>5. ~AtRest(new)
    BY <1>3 DEF AtRest
<1>6. TimerFits(new)
    <2>1. CASE fetch[r].kind = "save"
        <3>1. /\ tab[t].base <= calls[r].rev
              /\ tab[t].base = calls[r].rev => Grounded(tab[t])
            BY <1>1, <1>2, <2>1 DEF WaitRests, SaveRests
        <3> QED BY <1>2, <1>3, <1>4, <3>1 DEF TimerFits, Fits, Grounded
    <2>2. CASE fetch[r].kind \in Replacing
        BY <1>2, <1>3, <2>2 DEF WaitKeeps, TimerFits
    <2> QED BY <1>1, <2>1, <2>2
<1> QED BY <1>1, <1>5, <1>6, SameCopyRests

LEMMA ReplacedRests ==
    ASSUME DraftInv, OwnBrowsers, ShownInv, KeepInv, RestInv, NEW t \in Tabs,
           NEW r \in Requests, CheckpointCreated(t, r) \/ TextReplaced(t, r)
    PROVE  RestInv'
<1>1. UNCHANGED store /\ fetch[r].tab = t /\ Received(r) /\ fetch[r].kind \in Replacing
    BY DEF CheckpointCreated, TextReplaced, Responds, Replacing
<1>2. tab[t] \in Tab /\ ~tab[t].due /\ ~Stored(t).kept
    BY <1>1, BusyRests, TabFacts DEF AtRest
<1>3. CASE CheckpointCreated(t, r)
    <2> DEFINE new == [tab[t] EXCEPT !.base = calls[r].rev, !.shown = "saved"]
    <2>1. SetTab(t, new) /\ UNCHANGED draft
        BY <1>3 DEF CheckpointCreated
    <2>2. ~new.due
        BY <1>2 DEF Tab
    <2> HIDE DEF new
    <2>3. TimerFits(new)
        BY <2>2 DEF TimerFits
    <2> QED BY <1>1, <1>2, <2>1, <2>3, SameCopyRests
<1>4. CASE TextReplaced(t, r)
    <2> DEFINE new == [tab[t] EXCEPT !.text = calls[r].text, !.base = calls[r].rev,
                                     !.shown = "saved"]
    <2>1. SetTab(t, new) /\ KeepDraft(t, NoDraft)
        BY <1>4 DEF TextReplaced, DropDraft
    <2>2. ~new.due
        BY <1>2 DEF Tab
    <2> HIDE DEF new
    <2>3. TimerFits(new) /\ ~NoDraft.kept
        BY <2>2 DEF TimerFits, NoDraft
    <2>4. Stored(t)' = NoDraft
        BY <2>1, CopyAfter
    <2> QED BY <1>1, <2>1, <2>3, <2>4, RestAnswered
<1> QED BY <1>3, <1>4

LEMMA PatchAcceptedRests ==
    ASSUME DraftInv, OwnBrowsers, ShownInv, KeepInv, RestInv, NEW t \in Tabs,
           NEW r \in Requests, PatchAccepted(t, r)
    PROVE  RestInv'
<1>1. /\ UNCHANGED store /\ UNCHANGED tab /\ UNCHANGED draft /\ fetch[r].tab = t
      /\ fetch[r].kind = "accept" /\ fetch' = [fetch EXCEPT ![r].kind = "reload"]
      /\ calls' = [calls EXCEPT ![r] = Load] /\ r \in Callers
    BY DEF PatchAccepted, Responds, Callers
<1>2. fetch'[r].tab = t /\ fetch'[r].kind = "reload"
    BY <1>1 DEF DraftInv, FetchGood, Fetch
<1>3. \A q \in Requests : q # r => fetch'[q] = fetch[q] /\ calls'[q] = calls[q]
    BY <1>1 DEF DraftInv, FetchGood, CallsGood, Callers
<1>4. \A q \in Requests : fetch'[q].tab = t => q = r
    BY <1>1, <1>3 DEF KeepInv, OneWait
<1>5. AtRest(tab[t]) /\ ~Stored(t).kept /\ TimerFits(tab[t]) /\ SetTab(t, tab[t])
    BY <1>1, BusyRests DEF Replacing, RestInv, SetTab, DraftInv, TabsGood
<1>6. WaitRests(fetch'[r], calls'[r], tab[t], Stored(t))
    BY <1>2, <1>5 DEF WaitRests, AtRest
<1>7. \A q \in Requests : fetch'[q].tab = t => WaitRests(fetch'[q], calls'[q], tab[t], Stored(t))
    BY <1>4, <1>6
<1>8. \A q \in Requests : fetch'[q].tab \in Tabs \ {t} =>
          fetch'[q] = fetch[q] /\ calls'[q] = calls[q]
    BY <1>2, <1>3
<1>9. \A q \in Requests : fetch[q].tab \in Tabs \ {t} => fetch'[q] = fetch[q]
    BY <1>1, <1>3
<1>10. Stored(t)' = Stored(t)
    BY <1>1, CopyAfter
<1> QED BY <1>1, <1>5, <1>7, <1>8, <1>9, <1>10, RestStep

-----------------------------------------------------------------------------
(* The steps of the surroundings.                                          *)
LEMMA RestOutside ==
    ASSUME RestInv, UNCHANGED tab, UNCHANGED draft, UNCHANGED revisions,
           \A r \in Requests : fetch[r].tab \in Tabs => fetch'[r] = fetch[r],
           \A r \in Requests : fetch'[r].tab \in Tabs =>
               fetch'[r] = fetch[r] /\ (calls'[r] = calls[r] \/ Failed(calls'[r]))
    PROVE  RestInv'
<1>1. /\ \A u \in Tabs : TimerFits(tab[u]) /\ Stored(u)' = Stored(u)
                         /\ (AtRest(tab[u]) => Awaits(u, {"save"}) \/ ~Stored(u).kept)
      /\ Latest' = Latest
    BY DEF RestInv, Stored, Latest
<1>2. ASSUME NEW u \in Tabs
      PROVE  /\ TimerFits(tab[u])'
             /\ (AtRest(tab[u]) => Awaits(u, {"save"}) \/ ~Stored(u).kept)'
    <2>1. Awaits(u, {"save"}) => Awaits(u, {"save"})'
        BY DEF Awaits
    <2> QED BY <1>1, <2>1 DEF TimerFits, AtRest, Asked, Fits
<1>3. ASSUME NEW r \in Requests, fetch'[r].tab \in Tabs
      PROVE  WaitRests(fetch[r], calls[r], tab[fetch[r].tab], Stored(fetch[r].tab))'
    <2>1. WaitRests(fetch[r], calls[r], tab[fetch[r].tab], Stored(fetch[r].tab))
        BY <1>3 DEF RestInv
    <2>2. WaitRests(fetch[r], calls'[r], tab[fetch[r].tab], Stored(fetch[r].tab))
        <3>1. CASE calls'[r] = calls[r]
            BY <2>1, <3>1
        <3>2. CASE Failed(calls'[r])
            BY <2>1, <3>2 DEF Failed, WaitRests, SaveRests, Hopeless
        <3> QED BY <1>3, <3>1, <3>2
    <2>3. WaitRests(fetch'[r], calls'[r], tab'[fetch'[r].tab], Stored(fetch[r].tab)')
        BY <1>1, <1>3, <2>2
    <2> QED BY <1>1, <2>3 DEF WaitRests, SaveRests, Hopeless, Grounded, Fits, Asked, TextOf
<1> QED BY <1>2, <1>3 DEF RestInv

(* A save that is awaited, and that the store takes a step further.        *)
LEMMA SaveStepRests ==
    ASSUME DraftInv, ShownInv, RestInv, NEW r \in Requests, StoreStep(r),
           NEW t \in Tabs, fetch[r].tab = t, fetch[r].kind = "save"
    PROVE  LET old == calls[r]
               new == calls'[r]
           IN  /\ ~Hopeless(old) \/ (RefuseSave(r) /\ new.pc = "answered")
               /\ new.expected = old.expected /\ ~Failed(old)
               /\ new.answer = "conflict" =>
                     \/ new.pc # "answered"
                     \/ /\ old.expected # Latest /\ new.rev = Latest /\ Latest' = Latest
                        /\ old.expected # 0
<1> DEFINE old == calls[r]
           new == calls'[r]
<1>1. r \in Callers /\ CallsGood /\ old.pc \notin {"idle", "answered"}
    BY CallMoves DEF Callers, DraftInv
<1>2. old.op = "save" /\ Truthful(old) /\ old \in Call
    BY <1>1, WaitFacts DEF Awaited, CallsGood
<1>3. ~ReadBody(r) /\ ~ReadHead(r) /\ ~ReadPatch(r) /\ ~MarkAccepted(r)
    BY <1>2 DEF ReadBody, ReadHead, ReadPatch, MarkAccepted, Truthful
<1>4. CASE RefuseSave(r)
    <2>1. /\ old.pc = "checking" /\ old.expected \notin {0, Latest} /\ revisions' = revisions
          /\ calls' = [calls EXCEPT ![r] = Reply(old, "conflict", Latest)]
        BY <1>4 DEF RefuseSave, EntersSave, Conflicts, Answer, store
    <2>2. /\ new.rev = Latest /\ new.expected = old.expected /\ new.pc = "answered"
        BY <1>1, <1>2, <2>1 DEF CallsGood, Reply, Call
    <2> QED BY <1>1, <1>4, <2>1, <2>2 DEF Failed, Latest
<1>5. CASE SkipSave(r) \/ WriteBody(r)
    <2>1. old.pc = "checking" /\ old.expected \in {0, Latest}
        BY <1>5 DEF SkipSave, WriteBody, EntersSave, Conflicts
    <2>2. new.expected = old.expected /\ (new.pc = "answered" => new.answer = "ok")
        BY <1>1, <1>2, <1>5, CallMoves DEF Done
    <2> QED BY <1>1, <2>1, <2>2, LatestIsNat DEF Hopeless, Failed, DraftInv
<1>6. CASE CommitRevision(r)
    <2>1. old.pc = "writing"
        BY <1>6 DEF CommitRevision
    <2>2. new.expected = old.expected /\ (new.pc = "answered" => new.answer = "ok")
        BY <1>1, <1>2, <1>6, CallMoves DEF Done
    <2> QED BY <1>1, <2>1, <2>2 DEF Hopeless, Failed
<1> QED BY <1>3, <1>4, <1>5, <1>6 DEF StoreStep

LEMMA StoreStepRests ==
    ASSUME DraftInv, ShownInv, KeepInv, RestInv, NEW c \in Callers, StoreStep(c),
           UNCHANGED editor
    PROVE  RestInv'
<1>1. /\ UNCHANGED tab /\ UNCHANGED fetch /\ UNCHANGED draft /\ CallsGood
      /\ \A u \in Tabs : Stored(u)' = Stored(u)
    BY DEF editor, DraftInv, Stored
<1>2. /\ Latest \in Nat /\ Latest' \in Nat /\ Latest <= Latest'
      /\ \A n \in 1..Latest : TextOf(n)' = TextOf(n)
    BY HistoryGrows DEF TextOf
<1>3. ASSUME NEW u \in Tabs
      PROVE  /\ TimerFits(tab[u])'
             /\ (AtRest(tab[u]) => Awaits(u, {"save"}) \/ ~Stored(u).kept)'
    BY <1>1 DEF RestInv, TimerFits, AtRest, Asked, Fits, Awaits
<1>4. ASSUME NEW r \in Requests, fetch[r].tab \in Tabs
      PROVE  WaitRests(fetch[r], calls[r], tab[fetch[r].tab], Stored(fetch[r].tab))'
    <2> DEFINE t == fetch[r].tab
    <2>1. /\ WaitRests(fetch[r], calls[r], tab[t], Stored(t)) /\ r \in Callers
          /\ tab[t].base \in Nat /\ tab[t].base <= Latest
          /\ tab[t].conflict.id \in Nat /\ tab[t].conflict.id <= Latest
          /\ calls[r].expected \in Nat
        BY <1>4, TabFacts, CallFacts DEF RestInv, Callers, Call
    <2>2. CASE fetch[r].kind # "save"
        BY <1>1, <2>1, <2>2 DEF WaitRests
    <2>3. CASE fetch[r].kind = "save"
        <3>1. tab[t].open = "open" /\ tab[t].base >= 1
            BY <1>4, <2>3, WaitFacts DEF OpenedTab
        <3>2. Grounded(tab[t])' <=> Grounded(tab[t])
            <4>1. TextOf(tab[t].base)' = TextOf(tab[t].base)
                BY <1>1, <1>2, <2>1, <3>1 DEF TextOf
            <4> QED BY <1>1, <4>1 DEF Grounded, TextOf
        <3>3. (Asked(tab[t])' <=> Asked(tab[t])) /\ (Fits(tab[t])' <=> Fits(tab[t]))
            BY <1>1 DEF Asked, Fits
        <3>4. SaveRests(fetch[r], calls[r], tab[t], Stored(t))
            BY <2>1, <2>3 DEF WaitRests
        <3>5. SUFFICES
                  /\ ~Stored(t).kept \/ tab[t].due \/ Stored(t).text = fetch[r].text
                     \/ Hopeless(calls[r])'
                  /\ Asked(tab[t]) => \/ Hopeless(calls[r])'
                                      \/ tab[t].text = fetch[r].text /\ Fits(tab[t])
                  /\ \/ calls'[r].pc = "answered" /\ calls'[r].answer = "error"
                     \/ calls'[r].expected = tab[t].base \/ Grounded(tab[t])
                  /\ calls'[r].pc = "answered" /\ calls'[r].answer = "conflict" =>
                        /\ tab[t].base <= calls'[r].rev
                        /\ tab[t].base = calls'[r].rev => Grounded(tab[t])
                        /\ Asked(tab[t]) => tab[t].conflict.id <= calls'[r].rev
            <4>1. fetch'[r] = fetch[r] /\ tab'[t] = tab[t] /\ Stored(t)' = Stored(t)
                BY <1>1, <1>4
            <4> QED BY <1>1, <2>3, <3>2, <3>3, <4>1 DEF WaitRests, SaveRests, Failed, Replacing
        <3> QED
            <4>1. CASE r # c
                <5>1. calls'[r] = calls[r]
                    BY <1>1, <2>1, <4>1, CallMoves
                <5>2. Hopeless(calls[r]) => Hopeless(calls[r])'
                    BY <1>2, <2>1, <5>1 DEF Hopeless
                <5> QED BY <3>4, <3>5, <5>1, <5>2 DEF SaveRests, Failed
            <4>2. CASE r = c
                <5> DEFINE old == calls[r]
                           new == calls'[r]
                <5>1. /\ ~Hopeless(old) \/ (RefuseSave(r) /\ new.pc = "answered")
                      /\ new.expected = old.expected /\ ~Failed(old)
                      /\ new.answer = "conflict" =>
                            \/ new.pc # "answered"
                            \/ /\ old.expected # Latest /\ new.rev = Latest
                               /\ Latest' = Latest /\ old.expected # 0
                    BY <1>4, <2>3, <4>2, SaveStepRests
                <5>2. Hopeless(old) => Hopeless(calls[r])'
                    <6>1. RefuseSave(r) => new.answer = "conflict"
                        BY <1>1, <4>2, CallMoves
                    <6> QED BY <5>1, <6>1 DEF Hopeless
                <5>3. old.expected = tab[t].base \/ Grounded(tab[t])
                    BY <3>4, <5>1 DEF SaveRests, Failed
                <5>4. /\ ~Stored(t).kept \/ tab[t].due \/ Stored(t).text = fetch[r].text
                         \/ Hopeless(calls[r])'
                      /\ Asked(tab[t]) => \/ Hopeless(calls[r])'
                                          \/ tab[t].text = fetch[r].text /\ Fits(tab[t])
                    BY <3>4, <5>2 DEF SaveRests
                <5>5. new.expected = tab[t].base \/ Grounded(tab[t])
                    BY <5>1, <5>3
                <5>6. new.pc = "answered" /\ new.answer = "conflict" =>
                          /\ tab[t].base <= new.rev
                          /\ tab[t].base = new.rev => Grounded(tab[t])
                          /\ Asked(tab[t]) => tab[t].conflict.id <= new.rev
                    BY <2>1, <5>1, <5>3
                <5> QED BY <3>5, <5>4, <5>5, <5>6
            <4> QED BY <4>1, <4>2
    <2> QED BY <2>2, <2>3
<1> QED BY <1>1, <1>3, <1>4 DEF RestInv

LEMMA OthersRest ==
    ASSUME DraftInv, Attentive, RestInv,
           \/ \E r \in Requests : Abandoned(r)
           \/ \E w \in Writers : WriterReads(w) \/ PersistGeneration(w) \/ WriterReturns(w)
           \/ \E dead \in SUBSET Callers : Dies(dead)
           \/ GoOffline
           \/ UNCHANGED vars
    PROVE  RestInv'
<1>1. ASSUME NEW r \in Requests, Abandoned(r) PROVE RestInv'
    <2>1. /\ UNCHANGED tab /\ UNCHANGED draft /\ UNCHANGED revisions /\ Received(r)
          /\ fetch[r].tab = Nobody
        BY <1>1 DEF Abandoned, store
    <2> QED BY <2>1, WaitsReceived, RestOutside, EditorAssumption
<1>2. ASSUME NEW w \in Writers,
             WriterReads(w) \/ PersistGeneration(w) \/ WriterReturns(w)
      PROVE  RestInv'
    <2>1. /\ w \notin Requests /\ UNCHANGED tab /\ UNCHANGED fetch /\ UNCHANGED draft
          /\ UNCHANGED revisions
        BY <1>2, RevisionsAssumption
        DEF WriterReads, PersistGeneration, WriterReturns, editor, store
    <2>2. \A r \in Requests : calls'[r] = calls[r]
        BY <1>2, <2>1 DEF WriterReads, PersistGeneration, WriterReturns, DraftInv, CallsGood,
                          Callers
    <2> QED BY <2>1, <2>2, RestOutside
<1>3. ASSUME NEW dead \in SUBSET Callers, Dies(dead) PROVE RestInv'
    <2>1. /\ UNCHANGED tab /\ UNCHANGED fetch /\ UNCHANGED draft /\ UNCHANGED revisions
          /\ \A c \in Callers : calls'[c] = calls[c] \/ Failed(calls'[c])
        BY <1>3, AttentiveIsQuiet, DyingMoves DEF Failed
    <2> QED BY <2>1, RestOutside DEF Callers
<1>4. CASE GoOffline \/ UNCHANGED vars
    <2>1. /\ UNCHANGED tab /\ UNCHANGED fetch /\ UNCHANGED draft /\ UNCHANGED calls
          /\ UNCHANGED revisions
        BY <1>4 DEF GoOffline, vars, store, editor
    <2> QED BY <2>1, RestOutside
<1> QED BY <1>1, <1>2, <1>3, <1>4

-----------------------------------------------------------------------------
(* The network returns.                                                    *)
LEMMA OnlineMoves ==
    ASSUME DraftInv, GoOnline, NEW t \in Tabs
    PROVE  /\ \/ tab'[t] = tab[t]
              \/ tab'[t].due /\ Stored(t).kept /\ ~Asked(tab[t])
           /\ tab'[t].open = tab[t].open /\ tab'[t].shown = tab[t].shown
           /\ tab'[t].text = tab[t].text /\ tab'[t].base = tab[t].base
           /\ tab'[t].waived = tab[t].waived /\ tab'[t].conflict = tab[t].conflict
           /\ tab[t].due => tab'[t].due
<1>1. \/ tab'[t] = tab[t]
      \/ tab'[t] = [tab[t] EXCEPT !.due = TRUE] /\ Stored(t).kept /\ ~Asked(tab[t])
    BY DEF GoOnline, Asks, Asked
<1> QED BY <1>1, TabFacts DEF Tab

LEMMA OnlineKeeps ==
    ASSUME DraftInv, ShownInv, KeepInv, RestInv, GoOnline PROVE KeepInv'
<1>1. /\ UNCHANGED <<revisions, lock, calls, fetch, draft>> /\ Latest' = Latest
      /\ TextOf(Latest)' = TextOf(Latest)
    BY DEF GoOnline, store, Latest, TextOf
<1>2. ASSUME NEW c \in Callers PROVE CallKeeps(calls[c])'
    BY <1>1 DEF KeepInv, CallKeeps, Keeps
<1>3. ASSUME NEW u \in Tabs PROVE TabKeeps(tab[u])'
    BY <1>1, OnlineMoves DEF KeepInv, TabKeeps, Keeps
<1>4. ASSUME NEW b \in Browsers PROVE DraftKeeps(draft[b])'
    BY <1>1 DEF KeepInv, DraftKeeps, Keeps
<1>5. ASSUME NEW r \in Requests, fetch[r].tab \in Tabs
      PROVE  WaitKeeps(fetch[r], calls[r], tab[fetch[r].tab])'
    <2> DEFINE t == fetch[r].tab
    <2>1. WaitKeeps(fetch[r], calls[r], tab[t])
        BY <1>5 DEF KeepInv
    <2>2. fetch[r].kind \in Replacing => tab'[t] = tab[t]
        BY <1>5, BusyRests, OnlineMoves
    <2> QED BY <1>1, <1>5, <2>1, <2>2, OnlineMoves DEF WaitKeeps, Current, Shows, Asked, Done
<1>6. NoBlindOverwrite' /\ OneWait'
    BY <1>1 DEF KeepInv, NoBlindOverwrite, OneWait
<1> QED BY <1>1, <1>2, <1>3, <1>4, <1>5, <1>6 DEF KeepInv

LEMMA OnlineRests ==
    ASSUME DraftInv, RestInv, GoOnline PROVE RestInv'
<1>1. /\ UNCHANGED <<revisions, calls, fetch, draft>> /\ Latest' = Latest
      /\ \A u \in Tabs : Stored(u)' = Stored(u)
    BY DEF GoOnline, store, Latest, Stored
<1>2. ASSUME NEW u \in Tabs PROVE TimerFits(tab[u])'
    BY OnlineMoves DEF RestInv, TimerFits, Asked, Fits
<1>3. ASSUME NEW u \in Tabs PROVE (AtRest(tab[u]) => Awaits(u, {"save"}) \/ ~Stored(u).kept)'
    BY <1>1, OnlineMoves DEF RestInv, AtRest, Asked, Awaits
<1>4. ASSUME NEW r \in Requests, fetch[r].tab \in Tabs
      PROVE  WaitRests(fetch[r], calls[r], tab[fetch[r].tab], Stored(fetch[r].tab))'
    <2> DEFINE t == fetch[r].tab
    <2>1. WaitRests(fetch[r], calls[r], tab[t], Stored(t))
        BY <1>4 DEF RestInv
    <2> QED BY <1>1, <1>4, <2>1, OnlineMoves
            DEF WaitRests, SaveRests, Hopeless, Grounded, Fits, Asked, TextOf
<1> QED BY <1>1, <1>2, <1>3, <1>4 DEF RestInv

LEMMA RestInit == Init => RestInv
<1> SUFFICES ASSUME Init PROVE RestInv
    OBVIOUS
<1>1. tab = [t \in Tabs |-> ClosedTab] /\ fetch = [r \in Requests |-> NoFetch]
    BY DEF Init
<1>2. \A t \in Tabs : TimerFits(tab[t]) /\ ~AtRest(tab[t])
    BY <1>1 DEF TimerFits, AtRest, ClosedTab
<1>3. \A r \in Requests : fetch[r].tab \notin Tabs
    BY <1>1, EditorAssumption DEF NoFetch
<1> QED BY <1>2, <1>3 DEF RestInv

LEMMA RestNext ==
    ASSUME Attentive, OwnBrowsers
    PROVE  DraftInv /\ ShownInv /\ KeepInv /\ RestInv /\ [Next]_vars => RestInv'
<1> SUFFICES ASSUME DraftInv, ShownInv, KeepInv, RestInv, [Next]_vars PROVE RestInv'
    OBVIOUS
<1>1. ASSUME NEW t \in Tabs, TabStep(t) PROVE RestInv'
    BY <1>1, OpenTabRests, CloseTabRests, TypeRests, SavesRest, ChoicesRest, RequestsRest
       DEF TabStep
<1>2. ASSUME NEW t \in Tabs, NEW r \in Requests, Response(t, r) PROVE RestInv'
    BY <1>2, LoadedRests, FailuresRest, SaveSucceedsRests, RefusedRests, ReplacedRests,
       PatchAcceptedRests DEF Response
<1>3. ASSUME NEW c \in Callers, StoreStep(c), UNCHANGED <<editor, history>>
      PROVE  RestInv'
    BY <1>3, StoreStepRests
<1>4. ASSUME NEW w \in Writers, Dies({w}) PROVE RestInv'
    BY <1>4, OthersRest DEF Callers
<1>5. CASE Dies(Requests)
    BY <1>5, OthersRest DEF Callers
<1>6. CASE GoOnline
    BY <1>6, OnlineRests
<1>7. ASSUME \/ \E r \in Requests : Abandoned(r)
             \/ \E w \in Writers :
                    WriterReads(w) \/ PersistGeneration(w) \/ WriterReturns(w)
             \/ GoOffline \/ UNCHANGED vars
      PROVE  RestInv'
    BY <1>7, OthersRest
<1> QED BY <1>1, <1>2, <1>3, <1>4, <1>5, <1>6, <1>7 DEF Next

(* The network may go and return at any moment, and still a save that      *)
(* names the revision it replaces keeps every edit of it, or its author    *)
(* saw the edit and chose to replace or to drop it, when each tab has a    *)
(* browser of its own (the online event, persistLocalDraft,                *)
(* clearLocalDraftIfMatches, saveDraft).                                   *)
THEOREM NothingOverwrittenOffline ==
    ASSUME Attentive, OwnBrowsers PROVE Spec => []NoBlindOverwrite
<1>1. DraftInv /\ ShownInv /\ KeepInv /\ RestInv /\ [Next]_vars => KeepInv'
    BY KeepNext, OnlineKeeps
<1>2. DraftInv /\ ShownInv /\ KeepInv /\ RestInv /\ [Next]_vars => RestInv'
    BY RestNext
<1>3. KeepInv => NoBlindOverwrite
    BY DEF KeepInv
<1> QED BY <1>1, <1>2, <1>3, DraftInvariant, ShownAlways, KeepInit, RestInit, PTL DEF Spec

-----------------------------------------------------------------------------
(* The store implements ArticleHistory.                                    *)

(* What the editor and the jobs do to the calls: one arrives, or one is    *)
(* forgotten.                                                              *)

Arrived(call) ==
    \/ call = Load \/ call = Apply \/ call = Reply(IdleCall, "error", 0)
    \/ \E base \in 1..Latest : call = Checkpoint(base)
    \/ \E text, waived \in Text, base \in 0..Latest : call = Save(text, base, waived)
    \/ \E n \in 1..Latest, base \in 0..Latest : call = Restore(n, base)

Arrives(c) ==
    /\ calls[c].pc \in {"idle", "answered"}
    /\ \E call : Arrived(call) /\ calls' = [calls EXCEPT ![c] = call]
Forgets(c) ==
    /\ calls[c].pc \in {"sent", "answered"} \/ (calls[c].op = "save" /\ calls[c].pc = "checking")
    /\ calls' = [calls EXCEPT ![c] = IdleCall]
CallsChange ==
    /\ UNCHANGED store
    /\ UNCHANGED calls \/ \E c \in Callers : Arrives(c) \/ Forgets(c)

(* A tab that shows the article knows a revision, and so does a dialog.    *)
TabFits(new) ==
    /\ new.open = "open" => new.base >= 1
    /\ Asked(new) => new.conflict.id >= 1

(* What each kind of call has read when it compares and when it writes.    *)
CallFits(call) ==
    /\ call.pc = "sent" => call.op \in {"load", "checkpoint", "apply"}
    /\ call.pc \in {"checking", "writing"} => call.op \in {"save", "checkpoint", "apply"}
    /\ call.op = "apply" /\ call.pc \in {"checking", "writing"} =>
          call.expected = 1 /\ call.text = TextOf(1) \cup {0}
    /\ call.op = "apply" => ~call.force
    /\ call.op = "checkpoint" => call.force /\ call.expected >= 1
    /\ call.op = "checkpoint" /\ call.pc = "checking" /\ call.expected = Latest =>
          lock # Nobody \/ call.text = TextOf(Latest)
    /\ call.op = "checkpoint" /\ call.pc = "writing" => call.text = TextOf(Latest)
    /\ call.pc = "writing" => call.force \/ call.text # TextOf(Latest)
    /\ Done(call) => call.rev >= 1

FitInv ==
    /\ \A c \in Callers : CallFits(calls[c])
    /\ \A t \in Tabs : TabFits(tab[t])

-----------------------------------------------------------------------------

LEMMA ReceivedForgets ==
    ASSUME NEW r \in Requests, Received(r),
           \/ calls[r].pc \in {"sent", "answered"}
           \/ calls[r].op = "save" /\ calls[r].pc = "checking"
    PROVE  \E c \in Callers : Arrives(c) \/ Forgets(c)
BY DEF Received, Forgets, Callers

LEMMA FailsForgets ==
    ASSUME NEW r \in Requests, Fails(r)
    PROVE  UNCHANGED calls \/ \E c \in Callers : Arrives(c) \/ Forgets(c)
BY ReceivedForgets DEF Fails

LEMMA SendArrives ==
    ASSUME NEW r \in Requests, NEW t, NEW kind, NEW text, NEW call, Arrived(call),
           Send(r, t, kind, text, call)
    PROVE  \E c \in Callers : Arrives(c) \/ Forgets(c)
BY DEF Send, Free, Arrives, Callers

LEMMA SaveDraftArrives ==
    ASSUME StoreGood, NEW t \in Tabs, NEW new, KnownTab(new), SaveDraft(t, new)
    PROVE  UNCHANGED calls \/ \E c \in Callers : Arrives(c) \/ Forgets(c)
<1>1. new.text \in Text /\ new.waived \in Text /\ new.base \in Nat /\ new.base <= Latest
    BY DEF KnownTab, Tab
<1>2. Latest \in Nat
    BY LatestIsNat
<1>3. new.base \in 0..Latest
    BY <1>1, <1>2
<1>4. Arrived(SaveCall(new))
    BY <1>1, <1>3 DEF Arrived, SaveCall
<1> QED BY <1>4, SendArrives DEF SaveDraft

LEMMA TabCalls ==
    ASSUME DraftInv, NEW t \in Tabs, TabFits(tab[t]), TabStep(t)
    PROVE  CallsChange
<1>1. /\ UNCHANGED store
    BY DEF TabStep, OpenTab, CloseTab, Type, TimerFires, UseLatest, KeepLocal, MergeManually,
           CreateCheckpoint, RestoreRevision, AcceptPatch
<1>2. SUFFICES UNCHANGED calls \/ \E c \in Callers : Arrives(c) \/ Forgets(c)
    BY <1>1 DEF CallsChange
<1>3. /\ KnownTab(tab[t]) /\ StoreGood /\ Latest \in Nat /\ 1 <= Latest
      /\ tab[t] \in Tab /\ tab[t].base <= Latest /\ tab[t].conflict.id <= Latest
      /\ tab[t].base \in Nat /\ tab[t].conflict \in Conflict
    BY LatestIsNat, TabFacts DEF DraftInv, TabsGood, KnownTab, Tab
<1>4. CASE OpenTab(t)
    <2>1. Arrived(Load)
        BY DEF Arrived
    <2> QED BY <1>4, <2>1, SendArrives DEF OpenTab
<1>5. CASE CloseTab(t) \/ Type(t) \/ UseLatest(t) \/ MergeManually(t)
    BY <1>5 DEF CloseTab, Type, UseLatest, MergeManually
<1>6. CASE TimerFires(t)
    BY <1>3, <1>6, SaveDraftArrives DEF TimerFires
<1>7. CASE KeepLocal(t)
    <2> DEFINE new == [tab[t] EXCEPT !.base = tab[t].conflict.id, !.conflict = NoConflict,
                         !.waived = tab[t].waived \cup (tab[t].conflict.text \ tab[t].text)]
    <2>1. tab[t].conflict.id \in Nat /\ tab[t].conflict.text \in Text /\ tab[t].waived \in Text
        BY <1>3 DEF Conflict, Tab
    <2>2. tab[t].waived \cup (tab[t].conflict.text \ tab[t].text) \in Text
        BY <2>1 DEF Text
    <2>3. new \in Tab
        BY <1>3, <2>1, <2>2, Idle DEF Tab
    <2>4. new.base = tab[t].conflict.id /\ new.conflict = NoConflict
        BY <1>3 DEF Tab
    <2>5. KnownTab(new)
        BY <1>3, <2>3, <2>4 DEF KnownTab, NoConflict
    <2>6. SaveDraft(t, new)
        BY <1>7 DEF KeepLocal
    <2> HIDE DEF new
    <2> QED BY <1>3, <2>5, <2>6, SaveDraftArrives
<1>8. CASE CreateCheckpoint(t)
    <2>1. tab[t].base \in 1..Latest
        BY <1>3, <1>8 DEF CreateCheckpoint, Ready, TabFits
    <2>2. Arrived(Checkpoint(tab[t].base))
        BY <2>1 DEF Arrived
    <2> QED BY <1>8, <2>2, SendArrives DEF CreateCheckpoint
<1>9. CASE RestoreRevision(t)
    <2>1. PICK r \in Requests, n \in 1..(tab[t].base - 1) :
             Send(r, t, "restore", {}, Restore(n, tab[t].base))
        BY <1>9 DEF RestoreRevision
    <2>2. tab[t].base \in 0..Latest /\ n \in 1..Latest
        BY <1>3
    <2>3. Arrived(Restore(n, tab[t].base))
        BY <2>2 DEF Arrived
    <2> QED BY <2>1, <2>3, SendArrives
<1>10. CASE AcceptPatch(t)
    <2>1. Arrived(Apply)
        BY DEF Arrived
    <2> QED BY <1>10, <2>1, SendArrives DEF AcceptPatch
<1> QED BY <1>4, <1>5, <1>6, <1>7, <1>8, <1>9, <1>10 DEF TabStep

LEMMA ResponseCalls ==
    ASSUME DraftInv, NEW t \in Tabs, NEW r \in Requests, Response(t, r)
    PROVE  CallsChange
<1>1. UNCHANGED store
    BY DEF Response, ArticleLoaded, LoadFails, SaveSucceeds, SaveFails, Refused,
           CheckpointCreated, TextReplaced, PatchAccepted, ActionFails
<1>2. CASE LoadFails(t, r) \/ SaveFails(t, r) \/ ActionFails(t, r)
    BY <1>1, <1>2, FailsForgets DEF LoadFails, SaveFails, ActionFails, CallsChange
<1>3. CASE PatchAccepted(t, r)
    <2>1. Arrived(Load)
        BY DEF Arrived
    <2>2. r \in Callers /\ Arrives(r)
        BY <1>3, <2>1 DEF PatchAccepted, Responds, Arrives, Callers
    <2> QED BY <1>1, <2>2 DEF CallsChange
<1>4. CASE \/ ArticleLoaded(t, r) \/ SaveSucceeds(t, r) \/ Refused(t, r)
           \/ CheckpointCreated(t, r) \/ TextReplaced(t, r)
    <2>1. Received(r) /\ calls[r].pc = "answered"
        BY <1>4 DEF ArticleLoaded, SaveSucceeds, Refused, CheckpointCreated, TextReplaced, Responds
    <2> QED BY <1>1, <2>1, ReceivedForgets DEF CallsChange
<1> QED BY <1>2, <1>3, <1>4 DEF Response

LEMMA OtherCalls ==
    ASSUME DraftInv,
           \/ \E r \in Requests : Abandoned(r)
           \/ \E w \in Writers : WriterReads(w) \/ PersistGeneration(w) \/ WriterReturns(w)
           \/ GoOffline \/ GoOnline
    PROVE  CallsChange
<1>1. Latest \in Nat /\ 1 <= Latest /\ StoreGood /\ typed \in Edits
    BY LatestIsNat DEF DraftInv, HistoryGood
<1>2. ASSUME NEW r \in Requests, Abandoned(r) PROVE CallsChange
    BY <1>2, ReceivedForgets DEF Abandoned, CallsChange
<1>3. ASSUME NEW w \in Writers, WriterReads(w) \/ PersistGeneration(w) PROVE CallsChange
    <2>1. {typed + 1} \in Text /\ {} \in Text /\ Edits \in Text
        BY <1>1, <1>3, RevisionsAssumption DEF WriterReads, PersistGeneration, Text, Edits
    <2>2. revisions[Latest].text \in Text
        BY <1>1, RevisionOf
    <2>3. revisions[Latest].text \cup {typed + 1} \in Text
        BY <2>1, <2>2 DEF Text
    <2>4. 0 \in 0..Latest /\ Latest \in 0..Latest
        BY <1>1
    <2>5. /\ Arrived(Save(revisions[Latest].text \cup {typed + 1}, Latest, {}))
          /\ Arrived(Save({typed + 1}, 0, Edits))
        BY <2>1, <2>3, <2>4 DEF Arrived
    <2>6. w \in Callers /\ Arrives(w)
        BY <1>3, <2>5 DEF WriterReads, PersistGeneration, Arrives, Callers
    <2> QED BY <1>3, <2>6 DEF WriterReads, PersistGeneration, CallsChange
<1>4. ASSUME NEW w \in Writers, WriterReturns(w) PROVE CallsChange
    BY <1>4 DEF WriterReturns, CallsChange, Forgets, Callers
<1>5. CASE GoOffline \/ GoOnline
    BY <1>5 DEF GoOffline, GoOnline, CallsChange
<1> QED BY <1>2, <1>3, <1>4, <1>5

-----------------------------------------------------------------------------

LEMMA ArrivedFits ==
    ASSUME DraftInv, NEW call, Arrived(call)
    PROVE  Unread(call) /\ CallFits(call) /\ call.pc # "idle"
<1>1. Latest \in Nat /\ 1 <= Latest
    BY LatestIsNat DEF DraftInv
<1>2. CASE call = Load \/ call = Apply
    <2>1. /\ call.pc = "sent" /\ call.expected = 0 /\ call.op \in {"load", "apply"}
          /\ ~call.force
        BY <1>2 DEF Load, Apply, IdleCall
    <2> QED BY <1>1, <2>1 DEF Unread, CallFits, Done
<1>6. CASE call = Reply(IdleCall, "error", 0)
    <2>1. /\ call.pc = "answered" /\ call.answer = "error" /\ call.expected = 0
          /\ call.op = "none"
        BY <1>6 DEF Reply, IdleCall
    <2> QED BY <1>1, <2>1 DEF Unread, CallFits, Done
<1>3. CASE \E base \in 1..Latest : call = Checkpoint(base)
    BY <1>1, <1>3 DEF Checkpoint, IdleCall, Unread, CallFits, Done
<1>4. CASE \E text, waived \in Text, base \in 0..Latest : call = Save(text, base, waived)
    BY <1>1, <1>4 DEF Save, IdleCall, Unread, CallFits, Done
<1>5. CASE \E n \in 1..Latest, base \in 0..Latest : call = Restore(n, base)
    BY <1>1, <1>5 DEF Restore, Save, IdleCall, Unread, CallFits, Done
<1> QED BY <1>2, <1>3, <1>4, <1>5, <1>6 DEF Arrived

LEMMA IdleFits == ASSUME DraftInv PROVE Unread(IdleCall) /\ CallFits(IdleCall)
<1>1. Latest \in Nat /\ 1 <= Latest
    BY LatestIsNat DEF DraftInv
<1> QED BY <1>1 DEF IdleCall, Unread, CallFits, Done

LEMMA CallsChangeFits ==
    ASSUME DraftInv, ReadInv, \A c \in Callers : CallFits(calls[c]), CallsChange
    PROVE  ReadInv' /\ \A c \in Callers : CallFits(calls[c])'
<1>1. UNCHANGED store /\ UNCHANGED <<revisions, lock>> /\ Latest' = Latest
    BY DEF CallsChange, store, Latest
<1>2. CASE UNCHANGED calls
    <2>1. ReadInv'
        BY <1>1, <1>2, ReadsStay
    <2> QED BY <1>1, <1>2, <2>1 DEF CallFits, TextOf, Done
<1>3. ASSUME NEW c \in Callers, Arrives(c) \/ Forgets(c)
      PROVE  ReadInv' /\ \A d \in Callers : CallFits(calls[d])'
    <2>1. PICK call : Unread(call) /\ CallFits(call) /\ calls' = [calls EXCEPT ![c] = call]
        BY <1>3, ArrivedFits, IdleFits DEF Arrives, Forgets
    <2>2. calls[c].pc # "writing"
        BY <1>3 DEF Arrives, Forgets
    <2>3. ReadInv'
        BY <1>1, <2>1, <2>2, ReadsSet
    <2>4. \A d \in Callers : calls'[d] = IF d = c THEN call ELSE calls[d]
        BY <2>1 DEF DraftInv, CallsGood
    <2>5. ASSUME NEW d \in Callers PROVE CallFits(calls[d])'
        <3>1. CallFits(calls'[d])
            BY <2>1, <2>4
        <3> QED BY <1>1, <3>1 DEF CallFits, TextOf, Done
    <2> QED BY <2>3, <2>5
<1> QED BY <1>2, <1>3 DEF CallsChange

LEMMA AnswerFields ==
    ASSUME CallsGood, NEW c \in Callers, NEW answer, NEW rev, Answer(c, answer, rev)
    PROVE  LET new == calls'[c]
           IN  /\ new.pc = "answered" /\ new.answer = answer /\ new.rev = rev
               /\ new.op = calls[c].op /\ new.force = calls[c].force
               /\ new.text = calls[c].text /\ new.expected = calls[c].expected
<1>1. calls[c] \in Call /\ calls'[c] = Reply(calls[c], answer, rev)
    BY DEF CallsGood, Answer
<1> QED BY <1>1 DEF Reply, Call

LEMMA ForceStays ==
    ASSUME CallsGood, NEW c \in Callers, StoreStep(c)
    PROVE  calls'[c].force = calls[c].force
<1>1. calls[c] \in Call /\ calls \in [Callers -> Call]
    BY DEF CallsGood
<1>2. CASE \E answer, rev : Answer(c, answer, rev)
    BY <1>2, AnswerFields
<1>3. CASE ReadBody(c) \/ WriteBody(c)
    BY <1>1, <1>3 DEF ReadBody, WriteBody, Call
<1>4. CASE calls' = [calls EXCEPT ![c].text = revisions[1].text \cup {0},
                                  ![c].expected = 1, ![c].pc = "checking"]
    <2>1. calls'[c] = [calls[c] EXCEPT !.text = revisions[1].text \cup {0},
                                       !.expected = 1, !.pc = "checking"]
        BY <1>1, <1>4
    <2> QED BY <1>1, <2>1 DEF Call
<1>5. CASE SkipSave(c) \/ CommitRevision(c)
    <2>1. \/ calls'[c] = [calls[c] EXCEPT !.pc = "marking"]
          \/ \E rev : Answer(c, "ok", rev)
        BY <1>1, <1>5 DEF SkipSave, CommitRevision, Saved, Answer
    <2> QED BY <1>1, <1>2, <2>1 DEF Call
<1> QED BY <1>2, <1>3, <1>4, <1>5 DEF StoreStep, ReadHead, ReadPatch, RefuseSave, MarkAccepted

(* What a step of the store leaves of the revisions it does not move.      *)
LEMMA StoreFits ==
    ASSUME DraftInv, ReadInv, Quiet, NEW c \in Callers, StoreStep(c),
           \A d \in Callers : CallFits(calls[d]), NEW d \in Callers
    PROVE  CallFits(calls[d])'
<1> DEFINE old == calls[d]
           new == calls'[d]
<1>1. CallsGood /\ Nobody \notin Callers /\ lock \in Callers \cup {Nobody}
    BY RevisionsAssumption DEF DraftInv, StoreGood, Callers
<1>2. /\ Latest \in Nat /\ Latest' \in Nat /\ 1 <= Latest /\ Latest <= Latest'
      /\ \A n \in 1..Latest : revisions'[n] = revisions[n]
    BY HistoryGrows
<1>3. /\ old.expected \in Nat /\ old.expected <= Latest /\ old.rev \in Nat /\ old \in Call
      /\ Truthful(old) /\ CallFits(old)
    BY <1>1 DEF CallsGood, Call, ReadInv, Truthful
<1>4. TextOf(1)' = TextOf(1) /\ TextOf(Latest)' = revisions'[Latest'].text
    BY <1>2 DEF TextOf
<1>5. old.pc = "writing" => lock = d
    BY DEF DraftInv, Serial
<1>6. ~CommitRevision(c) => Latest' = Latest /\ revisions' = revisions
                            /\ TextOf(Latest)' = TextOf(Latest)
    BY HistoryGrows DEF TextOf
<1>7. CASE d # c
    <2>1. new = old
        BY <1>1, <1>7, CallMoves
    <2>2. CASE CommitRevision(c)
        <3>1. Latest' = Latest + 1 /\ lock = c
            BY <2>2, HistoryGrows
        <3>2. old.pc # "writing" /\ old.expected # Latest'
            BY <1>2, <1>3, <1>5, <1>7, <3>1
        <3> QED BY <1>3, <1>4, <2>1, <3>2 DEF CallFits, Done
    <2>3. CASE WriteBody(c)
        <3>1. lock' = c /\ lock = Nobody
            BY <2>3, HistoryGrows
        <3>2. ~CommitRevision(c)
            BY <2>3 DEF WriteBody, EntersSave, CommitRevision
        <3> QED BY <1>1, <1>3, <1>4, <1>6, <2>1, <3>1, <3>2 DEF CallFits, Done
    <2>4. CASE ~CommitRevision(c) /\ ~WriteBody(c)
        <3>1. lock' = lock
            BY <2>4, HistoryGrows
        <3> QED BY <1>3, <1>4, <1>6, <2>1, <2>4, <3>1 DEF CallFits, Done
    <2> QED BY <2>2, <2>3, <2>4
<1>8. CASE d = c
    <2>1. new.op = old.op /\ new.force = old.force
        <3>1. new.op = old.op
            BY <1>1, <1>8, CallMoves
        <3>2. new.force = old.force
            BY <1>1, <1>8, ForceStays
        <3> QED BY <3>1, <3>2
    <2>2. CASE ReadBody(c)
        <3>1. /\ new.text = body /\ new.expected = old.expected
              /\ new.pc = IF old.op = "load" THEN "reading" ELSE "checking"
            BY <1>1, <1>8, <2>2, CallMoves
        <3>2. old.op \in {"load", "checkpoint"} /\ UNCHANGED <<revisions, lock, body>>
            BY <1>8, <2>2 DEF ReadBody, store
        <3>3. lock = Nobody => body = TextOf(Latest)
            BY DEF ReadInv, BodyInv
        <3>4. ~CommitRevision(c)
            BY <2>2 DEF ReadBody, CommitRevision
        <3> QED BY <1>3, <1>4, <1>6, <2>1, <3>1, <3>2, <3>3, <3>4 DEF CallFits, Done
    <2>3. CASE ReadHead(c) \/ RefuseSave(c) \/ MarkAccepted(c)
        <3>1. new.expected = old.expected /\ new.pc = "answered"
            BY <1>1, <1>8, <2>3, CallMoves DEF Done
        <3>2. new.rev = Latest
            BY <1>1, <1>8, <2>3, AnswerFields DEF ReadHead, RefuseSave, MarkAccepted
        <3> QED BY <1>2, <1>3, <2>1, <3>1, <3>2 DEF CallFits, Done
    <2>4. CASE ReadPatch(c)
        <3>1. old.op = "apply" /\ ~CommitRevision(c) /\ old.pc = "sent" /\ 1 \in 1..Latest
            BY <1>2, <1>8, <2>4 DEF ReadPatch, CommitRevision
        <3>2. \/ new.pc = "checking" /\ new.expected = 1 /\ new.text = TextOf(1) \cup {0}
              \/ new.pc = "answered" /\ new.expected = old.expected /\ new.rev = Latest
            <4>1. CASE \E answer : Answer(c, answer, Latest)
                BY <1>1, <1>8, <4>1, AnswerFields
            <4>2. CASE ~\E answer : Answer(c, answer, Latest)
                <5>1. calls' = [calls EXCEPT ![c].text = revisions[1].text \cup {0},
                                             ![c].expected = 1, ![c].pc = "checking"]
                    BY <2>4, <4>2 DEF ReadPatch
                <5>2. new = [old EXCEPT !.text = revisions[1].text \cup {0},
                                        !.expected = 1, !.pc = "checking"]
                    BY <1>1, <1>8, <5>1 DEF CallsGood
                <5> QED BY <1>3, <5>2 DEF Call, TextOf
            <4> QED BY <4>1, <4>2
        <3> QED BY <1>2, <1>3, <1>4, <2>1, <3>1, <3>2 DEF CallFits, Done
    <2>5. CASE SkipSave(c) \/ CommitRevision(c)
        <3>1. /\ new.expected = old.expected
              /\ \/ new.pc = "marking"
                 \/ new.pc = "answered" /\ new.rev >= 1
            BY <1>1, <1>2, <1>8, <2>5, CallMoves DEF Done
        <3> QED BY <1>3, <2>1, <3>1 DEF CallFits, Done
    <2>6. CASE WriteBody(c)
        <3>1. new.text = old.text /\ new.expected = old.expected /\ new.pc = "writing"
            BY <1>1, <1>8, <2>6, CallMoves
        <3>2. /\ old.pc = "checking" /\ lock = Nobody /\ old.expected \in {0, Latest}
              /\ old.force \/ old.text # TextOf(Latest)
            BY <1>8, <2>6 DEF WriteBody, EntersSave, Conflicts, Unchanged, TextOf
        <3>3. ~CommitRevision(c)
            BY <3>2, <1>8 DEF CommitRevision
        <3> QED BY <1>3, <1>4, <1>6, <2>1, <3>1, <3>2, <3>3 DEF CallFits, Done
    <2> QED BY <2>2, <2>3, <2>4, <2>5, <2>6 DEF StoreStep
<1> QED BY <1>7, <1>8

LEMMA DyingFits ==
    ASSUME DraftInv, Quiet, \A c \in Callers : CallFits(calls[c]),
           NEW dead \in SUBSET Callers, Dies(dead), NEW c \in Callers
    PROVE  CallFits(calls[c])'
<1>1. CallFits(calls[c]) /\ TextOf(1)' = TextOf(1) /\ TextOf(Latest)' = TextOf(Latest)
    BY DyingMoves DEF TextOf
<1>2. calls'[c] = calls[c] \/ calls'[c].force = calls[c].force
    BY DEF Dies, Dying, Reply, DraftInv, CallsGood, Call
<1> QED BY <1>1, <1>2, DyingMoves DEF CallFits, Done

(* Whoever shows the article was answered, or has a dialog, with a number. *)
LEMMA TabFitsNext ==
    ASSUME DraftInv, FitInv, [Next]_vars, NEW t \in Tabs
    PROVE  TabFits(tab'[t])
<1>1. /\ tab[t] \in Tab /\ tab \in [Tabs -> Tab] /\ TabFits(tab[t])
      /\ \A u \in Tabs : tab[u] \in Tab /\ TabFits(tab[u])
    BY TabFacts DEF FitInv, DraftInv, TabsGood, KnownTab
<1>2. ASSUME tab'[t] # tab[t]
      PROVE  \/ TabStep(t) \/ GoOnline
             \/ \E r \in Requests : Response(t, r)
    <2>1. CASE \E u \in Tabs : TabStep(u)
        <3>1. PICK u \in Tabs : TabStep(u)
            BY <2>1
        <3>2. \E new : tab' = [tab EXCEPT ![u] = new] \/ tab' = tab
            BY <3>1 DEF TabStep, OpenTab, CloseTab, Type, TimerFires, UseLatest, KeepLocal,
                   MergeManually, CreateCheckpoint, RestoreRevision, AcceptPatch, SaveDraft, SetTab
        <3> QED BY <1>1, <1>2, <3>1, <3>2
    <2>2. CASE \E u \in Tabs, r \in Requests : Response(u, r)
        <3>1. PICK u \in Tabs, r \in Requests : Response(u, r)
            BY <2>2
        <3>2. \E new : tab' = [tab EXCEPT ![u] = new] \/ tab' = tab
            BY <3>1 DEF Response, ArticleLoaded, LoadFails, SaveSucceeds, SaveFails, Refused,
                   CheckpointCreated, TextReplaced, PatchAccepted, ActionFails, SetTab
        <3> QED BY <1>1, <1>2, <3>1, <3>2
    <2>3. CASE \/ \E r \in Requests : Abandoned(r)
               \/ \E c \in Callers : StoreStep(c) /\ UNCHANGED <<editor, history>>
               \/ \E w \in Writers : WriterReads(w) \/ PersistGeneration(w) \/ WriterReturns(w)
                                     \/ Dies({w})
               \/ Dies(Requests) \/ GoOffline \/ UNCHANGED vars
        BY <1>2, <2>3 DEF Abandoned, editor, vars, WriterReads, PersistGeneration, WriterReturns,
                          Dies, GoOffline
    <2> QED BY <2>1, <2>2, <2>3 DEF Next
<1>3. CASE tab'[t] = tab[t]
    BY <1>1, <1>3
<1>4. CASE GoOnline
    <2>1. tab'[t] \in {tab[t], [tab[t] EXCEPT !.due = TRUE]}
        BY <1>4 DEF GoOnline
    <2> QED BY <1>1, <2>1 DEF TabFits, Asked, Tab
<1>5. CASE TabStep(t)
    <2>1. \/ tab'[t] = tab[t]
          \/ tab'[t].open # "open" /\ tab'[t].conflict = NoConflict
          \/ /\ tab'[t].open = tab[t].open
             /\ \/ tab'[t].base = tab[t].base /\ tab'[t].conflict = tab[t].conflict
                \/ /\ tab'[t].base = tab[t].conflict.id /\ tab'[t].conflict = NoConflict
                   /\ Asked(tab[t])
        <3>1. CASE OpenTab(t) \/ CloseTab(t)
            BY <1>1, <3>1 DEF OpenTab, CloseTab, SetTab, ClosedTab
        <3>2. CASE Type(t)
            <4>1. tab'[t] = [tab[t] EXCEPT !.text = tab[t].text \cup {typed + 1},
                                           !.due = TRUE, !.shown = "unsaved"]
                BY <1>1, <3>2 DEF Type, SetTab
            <4> QED BY <1>1, <4>1 DEF Tab
        <3>6. CASE MergeManually(t)
            <4>1. tab'[t] = [tab[t] EXCEPT !.text = tab[t].text \cup tab[t].conflict.text,
                        !.base = tab[t].conflict.id, !.conflict = NoConflict, !.shown = "unsaved"]
                BY <1>1, <3>6 DEF MergeManually, SetTab
            <4>2. Asked(tab[t])
                BY <3>6 DEF MergeManually, MayKeep, Asks, Asked
            <4> QED BY <1>1, <4>1, <4>2 DEF Tab
        <3>7. CASE UseLatest(t)
            <4>1. \E waived : tab'[t] =
                     [tab[t] EXCEPT !.text = tab[t].conflict.text, !.base = tab[t].conflict.id,
                        !.conflict = NoConflict, !.shown = "saved", !.waived = waived]
                BY <1>1, <3>7 DEF UseLatest, SetTab
            <4>2. Asked(tab[t])
                BY <3>7 DEF UseLatest, Asks, Asked
            <4> QED BY <1>1, <4>1, <4>2 DEF Tab
        <3>3. CASE TimerFires(t)
            <4>1. SaveDraft(t, tab[t])
                BY <3>3 DEF TimerFires
            <4>2. \E shown : tab'[t] = [tab[t] EXCEPT !.due = FALSE, !.shown = shown]
                BY <1>1, <4>1 DEF SaveDraft, SetTab
            <4> QED BY <1>1, <4>2 DEF Tab
        <3>4. CASE KeepLocal(t)
            <4> DEFINE new == [tab[t] EXCEPT !.base = tab[t].conflict.id, !.conflict = NoConflict,
                               !.waived = tab[t].waived \cup (tab[t].conflict.text \ tab[t].text)]
            <4>1. new \in [open: {tab[t].open}, text: Text, base: {tab[t].conflict.id},
                           due: BOOLEAN, shown: Shown, conflict: {NoConflict}, waived: {new.waived}]
                BY <1>1 DEF Tab
            <4>2. SaveDraft(t, new) /\ Asked(tab[t])
                BY <3>4 DEF KeepLocal, MayKeep, Asks, Asked
            <4> HIDE DEF new
            <4>3. \E shown : tab'[t] = [new EXCEPT !.due = FALSE, !.shown = shown]
                BY <1>1, <4>2 DEF SaveDraft, SetTab
            <4> QED BY <4>1, <4>2, <4>3
        <3>5. CASE CreateCheckpoint(t) \/ RestoreRevision(t) \/ AcceptPatch(t)
            BY <3>5 DEF CreateCheckpoint, RestoreRevision, AcceptPatch
        <3> QED BY <1>5, <3>1, <3>2, <3>3, <3>4, <3>5, <3>6, <3>7 DEF TabStep
    <2> QED BY <1>1, <2>1 DEF TabFits, Asked
<1>6. ASSUME NEW r \in Requests, Response(t, r) PROVE TabFits(tab'[t])
    <2>1. CallFits(calls[r]) /\ calls[r].rev \in Nat
        BY DEF FitInv, DraftInv, CallsGood, Call, Callers
    <2>2. calls[r].pc = "answered" /\ calls[r].answer = "ok" => calls[r].rev >= 1
        BY <2>1 DEF CallFits, Done
    <2>3. CASE ArticleLoaded(t, r)
        <3> DEFINE served == [tab[t] EXCEPT !.open = "open", !.text = calls[r].text,
                                            !.base = calls[r].rev, !.shown = "saved"]
        <3>1. served.base >= 1 /\ served.base = calls[r].rev /\ served.conflict = tab[t].conflict
            BY <1>1, <2>2, <2>3 DEF ArticleLoaded, Responds, Tab
        <3>2. \/ tab'[t] = served
              \/ tab'[t] = [served EXCEPT !.text = Stored(t).text,
                              !.waived = Stored(t).waived, !.due = @ \/ online,
                              !.shown = IF online THEN "unsaved" ELSE "offline"]
              \/ tab'[t] = ShowConflict(served, served.base, served.text, Stored(t).text)
            BY <1>1, <2>3 DEF ArticleLoaded, SetTab
        <3> HIDE DEF served
        <3>3. \/ tab'[t].base = served.base /\ tab'[t].conflict = served.conflict
              \/ tab'[t].base = served.base /\ tab'[t].conflict.id = served.base
            <4>1. served \in [open: {"open"}, text: {calls[r].text}, base: {calls[r].rev},
                              due: BOOLEAN, shown: {"saved"}, conflict: Conflict, waived: Text]
                BY <1>1 DEF served, Tab
            <4>2. CASE tab'[t] = ShowConflict(served, served.base, served.text, Stored(t).text)
                BY <4>1, <4>2 DEF ShowConflict
            <4>3. CASE tab'[t] = [served EXCEPT !.text = Stored(t).text,
                              !.waived = Stored(t).waived, !.due = @ \/ online,
                              !.shown = IF online THEN "unsaved" ELSE "offline"]
                BY <4>1, <4>3
            <4> QED BY <3>2, <4>2, <4>3
        <3> QED BY <1>1, <3>1, <3>3 DEF TabFits, Asked
    <2>4. CASE Refused(t, r)
        <3>1. tab'[t].base = tab[t].base /\ tab'[t].conflict.id = calls[r].rev
              /\ tab'[t].open = tab[t].open
            BY <1>1, <2>4 DEF Refused, SetTab, ShowConflict, Tab
        <3>2. calls[r].rev >= 1
            BY <2>4 DEF Refused, DraftInv, CallsGood, KnownCall, Callers
        <3> QED BY <1>1, <3>1, <3>2 DEF TabFits
    <2>5. CASE SaveSucceeds(t, r) \/ CheckpointCreated(t, r) \/ TextReplaced(t, r)
        <3>1. tab'[t].base = calls[r].rev /\ tab'[t].conflict = tab[t].conflict
              /\ calls[r].rev >= 1
            BY <1>1, <2>2, <2>5 DEF SaveSucceeds, CheckpointCreated, TextReplaced, Responds,
                                    SetTab, Tab
        <3> QED BY <1>1, <3>1 DEF TabFits, Asked
    <2>6. CASE SaveFails(t, r)
        BY <1>1, <2>6 DEF SaveFails, SetTab, Tab, TabFits, Asked
    <2>7. CASE LoadFails(t, r) \/ PatchAccepted(t, r) \/ ActionFails(t, r)
        BY <1>1, <2>7 DEF LoadFails, PatchAccepted, ActionFails
    <2> QED BY <1>6, <2>3, <2>4, <2>5, <2>6, <2>7 DEF Response
<1> QED BY <1>2, <1>3, <1>4, <1>5, <1>6

LEMMA FitInit == Init => ReadInv /\ FitInv
<1>1. Init => ReadInv
    BY ShownInit DEF ShownInv
<1>2. CallFits(IdleCall)
    BY DEF IdleCall, CallFits, Done
<1>3. TabFits(ClosedTab)
    BY DEF ClosedTab, TabFits, Asked
<1> QED BY <1>1, <1>2, <1>3 DEF Init, StoreInit, FitInv

(* A step is one of the store, of the editor and the jobs, or a death.     *)
LEMMA StepKinds ==
    ASSUME DraftInv, FitInv, [Next]_vars
    PROVE  \/ CallsChange
           \/ \E c \in Callers : StoreStep(c)
           \/ \E dead \in SUBSET Callers : Dies(dead)
<1>1. ASSUME NEW t \in Tabs, TabStep(t) PROVE CallsChange
    BY <1>1, TabCalls DEF FitInv
<1>2. ASSUME NEW t \in Tabs, NEW r \in Requests, Response(t, r) PROVE CallsChange
    BY <1>2, ResponseCalls
<1>3. CASE UNCHANGED vars
    BY <1>3 DEF vars, CallsChange
<1>4. Requests \in SUBSET Callers /\ \A w \in Writers : {w} \in SUBSET Callers
    BY DEF Callers
<1> QED BY <1>1, <1>2, <1>3, <1>4, OtherCalls DEF Next

LEMMA FitNext ==
    ASSUME Quiet PROVE DraftInv /\ ReadInv /\ FitInv /\ [Next]_vars => ReadInv' /\ FitInv'
<1> SUFFICES ASSUME DraftInv, ReadInv, FitInv, [Next]_vars PROVE ReadInv' /\ FitInv'
    OBVIOUS
<1>1. \A t \in Tabs : TabFits(tab'[t])
    BY TabFitsNext
<1>2. \A t \in Tabs : TabFits(tab[t])'
    BY <1>1 DEF TabFits, Asked
<1>3. CASE CallsChange
    BY <1>2, <1>3, CallsChangeFits DEF FitInv
<1>4. ASSUME NEW c \in Callers, StoreStep(c) PROVE ReadInv' /\ FitInv'
    BY <1>2, <1>4, ReadsStoreStep, StoreFits DEF FitInv
<1>5. ASSUME NEW dead \in SUBSET Callers, Dies(dead) PROVE ReadInv' /\ FitInv'
    BY <1>2, <1>5, DyingReads, DyingFits DEF FitInv
<1> QED BY <1>3, <1>4, <1>5, StepKinds

LEMMA FitAlways == ASSUME Quiet PROVE Spec => [](ReadInv /\ FitInv)
<1>1. DraftInv /\ (ReadInv /\ FitInv) /\ [Next]_vars => (ReadInv /\ FitInv)'
    BY FitNext
<1> QED BY <1>1, DraftInvariant, FitInit, PTL DEF Spec

-----------------------------------------------------------------------------
(* The steps of ArticleHistory.                                            *)

LEMMA CallOfFields ==
    ASSUME NEW call
    PROVE  LET seen == CallOf(call)
           IN  /\ seen.op = call.op /\ seen.state = CallState(call)
               /\ seen.text = IF call.op = "save" \/ Told(call) THEN call.text ELSE {}
               /\ seen.base = IF call.op = "apply" THEN 1 ELSE call.expected
               /\ seen.force = call.force /\ seen.answer = call.answer
               /\ seen.number = call.rev
BY DEF CallOf

LEMMA CallOfType == ASSUME NEW call \in Call PROVE CallOf(call) \in Promise!Call
<1>1. CallState(call) \in {"none", "asked", "applied", "answered"}
    BY DEF CallState
<1>2. /\ call.op \in {"none", "load"} \cup Promise!Saves /\ call.text \in SUBSET Edits
      /\ call.expected \in Nat /\ call.force \in BOOLEAN /\ call.rev \in Nat
      /\ call.answer \in {"none", "ok", "conflict", "error"}
    BY DEF Call, Ops, Text, Answers, Promise!Saves
<1>3. (IF call.op = "save" \/ Told(call) THEN call.text ELSE {}) \in SUBSET Edits
    BY <1>2
<1>4. (IF call.op = "apply" THEN 1 ELSE call.expected) \in Nat
    BY <1>2
<1> QED BY <1>1, <1>2, <1>3, <1>4 DEF CallOf, Promise!Call

(* A step that changes one call changes what is seen of that call.         *)
LEMMA SeenCalls ==
    ASSUME NEW c \in Callers, \A d \in Callers : d # c => calls'[d] = calls[d]
    PROVE  CallsOf' = [CallsOf EXCEPT ![c] = CallOf(calls'[c])]
<1>1. CallsOf' = [d \in Callers |-> CallOf(calls'[d])]
    BY DEF CallsOf, CallOf, CallState, Told
<1>2. CallsOf = [d \in Callers |-> CallOf(calls[d])]
    BY DEF CallsOf
<1> QED BY <1>1, <1>2

LEMMA SeenNothing ==
    ASSUME NEW c \in Callers, \A d \in Callers : d # c => calls'[d] = calls[d],
           CallOf(calls'[c]) = CallOf(calls[c])
    PROVE  CallsOf' = CallsOf
<1>1. CallsOf' = [d \in Callers |-> CallOf(calls'[d])]
    BY DEF CallsOf, CallOf, CallState, Told
<1>2. CallsOf = [d \in Callers |-> CallOf(calls[d])]
    BY DEF CallsOf
<1> QED BY <1>1, <1>2

LEMMA SeenTexts ==
    ASSUME StoreGood
    PROVE  /\ Len(RevisionTexts) = Latest
           /\ \A n \in 1..Latest : RevisionTexts[n] = TextOf(n) /\ TextOf(n) \in SUBSET Edits
           /\ RevisionTexts \in Seq(SUBSET Edits)
<1>1. Latest \in Nat /\ \A n \in 1..Latest : TextOf(n) \in SUBSET Edits
    BY LatestIsNat, RevisionOf DEF TextOf, Text
<1>2. RevisionTexts = [n \in 1..Latest |-> TextOf(n)]
    BY DEF RevisionTexts, TextOf
<1> QED BY <1>1, <1>2

LEMMA SeenAlike ==
    ASSUME UNCHANGED revisions PROVE RevisionTexts' = RevisionTexts
BY DEF RevisionTexts, Latest

(* The calls c sees and makes: x before the step, y after it.              *)
LEMMA SeenCall ==
    ASSUME CallsGood, NEW c \in Callers
    PROVE  /\ CallsOf[c] = CallOf(calls[c]) /\ CallsOf[c] \in Promise!Call
           /\ calls[c] \in Call
BY CallOfType DEF CallsOf, CallsGood

LEMMA PutCall ==
    ASSUME NEW c \in Callers, \A d \in Callers : d # c => calls'[d] = calls[d],
           NEW call, CallOf(calls'[c]) = call
    PROVE  Promise!Put(c, call)
BY SeenCalls DEF Promise!Put

(* An answer, except that a call that is told a text may say it.           *)
LEMMA SeenAnswer ==
    ASSUME CallsGood, NEW c \in Callers, NEW answer \in {"ok", "conflict", "error"},
           NEW rev \in Nat, Answer(c, answer, rev), calls[c].pc # "answered",
           calls[c].op = "apply" \/ answer # "ok"
    PROVE  Promise!Put(c, Promise!Reply(CallsOf[c], answer, rev))
<1> DEFINE x == CallsOf[c]
           y == CallOf(calls'[c])
<1>1. /\ x = CallOf(calls[c]) /\ x \in Promise!Call /\ calls[c] \in Call
      /\ answer \in {"none", "ok", "conflict", "error"}
    BY SeenCall
<1>2. \A d \in Callers : d # c => calls'[d] = calls[d]
    BY DEF CallsGood, Answer
<1>3. calls'[c] \in Call
    BY <1>1, Replied DEF Answer, CallsGood, Answers
<1>4. y = Promise!Reply(x, answer, rev)
    <2>1. /\ y.op = x.op /\ y.state = "answered" /\ y.text = x.text /\ y.base = x.base
          /\ y.force = x.force /\ y.answer = answer /\ y.number = rev
        BY <1>1, AnswerFields, CallOfFields DEF CallState, Told
    <2>2. y \in Promise!Call
        BY <1>3, CallOfType
    <2> HIDE DEF x, y
    <2> QED BY <1>1, <2>1, <2>2 DEF Promise!Reply, Promise!Call
<1> QED BY <1>2, <1>4, PutCall

LEMMA SeenBase ==
    ASSUME CallsGood, NEW c \in Callers, CallFits(calls[c]),
           calls[c].pc \in {"checking", "writing"}
    PROVE  /\ CallsOf[c].base = calls[c].expected
           /\ Promise!Asked(c, Promise!Saves)
BY SeenCall, CallOfFields DEF CallFits, CallState, Promise!Asked, Promise!Saves

(* A save that may go through has read what it writes.                     *)
LEMMA SeenWanted ==
    ASSUME DraftInv, FitInv, NEW c \in Callers, calls[c].pc \in {"checking", "writing"},
           calls[c].pc = "checking" => lock = Nobody, calls[c].expected \in {0, Latest}
    PROVE  Promise!Wanted(c) = calls[c].text
<1>1. /\ CallsOf[c].op = calls[c].op
      /\ calls[c].op = "save" => CallsOf[c].text = calls[c].text
      /\ CallFits(calls[c])
    BY SeenCall, CallOfFields DEF DraftInv, FitInv
<1>2. /\ Len(RevisionTexts) = Latest /\ Latest \in 1..Latest /\ 1 \in 1..Latest
      /\ RevisionTexts[Latest] = TextOf(Latest) /\ RevisionTexts[1] = TextOf(1)
    BY SeenTexts, LatestIsNat DEF DraftInv
<1>3. calls[c].op \in {"save", "checkpoint", "apply"}
    BY <1>1 DEF CallFits
<1>4. calls[c].op = "checkpoint" => calls[c].text = TextOf(Latest)
    BY <1>1, LatestIsNat DEF CallFits, DraftInv
<1>5. calls[c].op = "apply" => calls[c].text = TextOf(1) \cup {0}
    BY <1>1 DEF CallFits
<1> QED BY <1>1, <1>2, <1>3, <1>4, <1>5 DEF Promise!Wanted, Promise!Latest

LEMMA SeenDone ==
    ASSUME DraftInv, NEW c \in Callers, NEW rev \in Nat, Saved(c, rev),
           calls[c].pc \in {"checking", "writing"}, Promise!Wanted(c) = calls[c].text
    PROVE  Promise!Done(c, rev)
<1> DEFINE x == CallsOf[c]
           y == CallOf(calls'[c])
<1>1. /\ x = CallOf(calls[c]) /\ x \in Promise!Call /\ calls[c] \in Call /\ CallsGood
    BY SeenCall DEF DraftInv
<1>2. \A d \in Callers : d # c => calls'[d] = calls[d]
    BY <1>1 DEF CallsGood, Saved
<1>3. CASE calls[c].op = "apply"
    <2>1. calls'[c] = [calls[c] EXCEPT !.pc = "marking"]
        BY <1>1, <1>3 DEF Saved, CallsGood
    <2>2. /\ calls'[c].op = calls[c].op /\ calls'[c].text = calls[c].text
          /\ calls'[c].expected = calls[c].expected /\ calls'[c].force = calls[c].force
          /\ calls'[c].answer = calls[c].answer /\ calls'[c].rev = calls[c].rev
          /\ calls'[c].pc = "marking" /\ calls'[c] \in Call
        BY <1>1, <2>1 DEF Call, CallSteps
    <2>3. /\ y.op = x.op /\ y.state = "applied" /\ y.text = x.text /\ y.base = x.base
          /\ y.force = x.force /\ y.answer = x.answer /\ y.number = x.number
        BY <1>1, <2>2, CallOfFields DEF CallState, Told
    <2>4. y \in Promise!Call /\ x.op = "apply"
        BY <1>1, <1>3, <2>2, CallOfType, CallOfFields
    <2>5. y = [x EXCEPT !.state = "applied"]
        <3> HIDE DEF x, y
        <3> QED BY <1>1, <2>3, <2>4 DEF Promise!Call
    <2> QED BY <1>2, <2>4, <2>5, PutCall DEF Promise!Done
<1>4. CASE calls[c].op # "apply"
    <2>1. Answer(c, "ok", rev)
        BY <1>4 DEF Saved, Answer
    <2>2. calls'[c] \in Call /\ calls[c].text \in SUBSET Edits
        <3>1. calls'[c] = Reply(calls[c], "ok", rev) /\ calls[c].text \in SUBSET Edits
            BY <1>1, <2>1 DEF Answer, CallsGood, Call, Text
        <3>2. calls[c] \in Call /\ "ok" \in Answers
            BY <1>1 DEF Answers
        <3>3. Reply(calls[c], "ok", rev) \in Call
            BY <3>2, Replied
        <3> QED BY <3>1, <3>3
    <2>3. /\ y.op = x.op /\ y.state = "answered" /\ y.text = calls[c].text /\ y.base = x.base
          /\ y.force = x.force /\ y.answer = "ok" /\ y.number = rev
        BY <1>1, <1>4, <2>1, AnswerFields, CallOfFields DEF CallState, Told
    <2>4. y \in Promise!Call /\ x.op # "apply"
        BY <1>1, <1>4, <2>2, CallOfType, CallOfFields
    <2>5. y = [Promise!Reply(x, "ok", rev) EXCEPT !.text = calls[c].text]
        <3> HIDE DEF x, y
        <3> QED BY <1>1, <2>2, <2>3, <2>4 DEF Promise!Reply, Promise!Call
    <2> QED BY <1>2, <2>4, <2>5, PutCall DEF Promise!Done
<1> QED BY <1>3, <1>4

-----------------------------------------------------------------------------

LEMMA ReadSeen ==
    ASSUME DraftInv, NEW c \in Callers, CallFits(calls[c]), ReadBody(c) \/ WriteBody(c)
    PROVE  UNCHANGED <<RevisionTexts, patch, CallsOf>>
<1> DEFINE old == calls[c]
           new == calls'[c]
<1>1. old \in Call /\ calls \in [Callers -> Call]
    BY DEF DraftInv, CallsGood
<1>2. /\ new.op = old.op /\ new.expected = old.expected /\ new.force = old.force
      /\ new.answer = old.answer /\ new.rev = old.rev
      /\ old.pc \in {"sent", "checking"} /\ new.pc \in {"reading", "checking", "writing"}
      /\ old.op = "save" => new.text = old.text
      /\ \A d \in Callers : d # c => calls'[d] = calls[d]
    <2>1. CASE ReadBody(c)
        BY <1>1, <2>1 DEF ReadBody, Call
    <2>2. CASE WriteBody(c)
        BY <1>1, <2>2 DEF WriteBody, EntersSave, Call
    <2> QED BY <2>1, <2>2
<1>3. CallState(old) = "asked" /\ CallState(new) = "asked" /\ ~Told(old) /\ ~Told(new)
    BY <1>2 DEF CallState, Told
<1>4. CallOf(new) = CallOf(old)
    BY <1>2, <1>3 DEF CallOf
<1>5. UNCHANGED <<revisions, patch>>
    BY DEF ReadBody, WriteBody, store
<1> QED BY <1>2, <1>4, <1>5, SeenNothing, SeenAlike

LEMMA LoadSeen ==
    ASSUME DraftInv, NEW c \in Callers, Truthful(calls[c]), ReadHead(c)
    PROVE  Promise!Load(c)
<1> DEFINE x == CallsOf[c]
           y == CallOf(calls'[c])
<1>1. /\ x = CallOf(calls[c]) /\ x \in Promise!Call /\ calls[c] \in Call /\ CallsGood
    BY SeenCall DEF DraftInv
<1>2. /\ calls[c].pc = "reading" /\ Answer(c, "ok", Latest) /\ UNCHANGED <<revisions, patch>>
    BY DEF ReadHead, store
<1>3. calls[c].op = "load" /\ calls[c].text = TextOf(Latest)
    BY <1>2 DEF Truthful
<1>4. /\ Latest \in Nat /\ Len(RevisionTexts) = Latest
      /\ RevisionTexts[Latest] = TextOf(Latest) /\ TextOf(Latest) \in SUBSET Edits
    BY SeenTexts, LatestIsNat DEF DraftInv
<1>5. \A d \in Callers : d # c => calls'[d] = calls[d]
    BY <1>1, <1>2 DEF CallsGood, Answer
<1>6. calls'[c] \in Call
    BY <1>1, <1>2, <1>4, Replied DEF Answer, CallsGood, Answers
<1>7. /\ y.op = x.op /\ y.state = "answered" /\ y.text = TextOf(Latest) /\ y.base = x.base
      /\ y.force = x.force /\ y.answer = "ok" /\ y.number = Latest
    BY <1>1, <1>2, <1>3, AnswerFields, CallOfFields DEF CallState, Told
<1>8. y \in Promise!Call
    BY <1>6, CallOfType
<1>9. y = [Promise!Reply(x, "ok", Latest) EXCEPT !.text = TextOf(Latest)]
    <2> HIDE DEF x, y
    <2> QED BY <1>1, <1>4, <1>7, <1>8 DEF Promise!Reply, Promise!Call
<1>10. Promise!Asked(c, {"load"})
    BY <1>1, <1>2, <1>3, CallOfFields DEF Promise!Asked, CallState
<1>11. Promise!Put(c, [Promise!Reply(x, "ok", Latest) EXCEPT !.text = TextOf(Latest)])
    BY <1>5, <1>9, PutCall
<1> QED BY <1>2, <1>4, <1>10, <1>11, SeenAlike DEF Promise!Load, Promise!Latest

LEMMA PatchSeen ==
    ASSUME DraftInv, NEW c \in Callers, ReadPatch(c)
    PROVE  \/ Promise!Accept(c) \/ Promise!Refuse(c)
           \/ UNCHANGED <<RevisionTexts, patch, CallsOf>>
<1> DEFINE old == calls[c]
           new == calls'[c]
<1>1. /\ CallsOf[c] = CallOf(old) /\ old \in Call /\ CallsGood
    BY SeenCall DEF DraftInv
<1>2. old.pc = "sent" /\ old.op = "apply" /\ UNCHANGED <<revisions, patch>> /\ patch \in BOOLEAN
    BY DEF ReadPatch, store, DraftInv, StoreGood
<1>3. CallsOf[c].state = "asked" /\ CallsOf[c].op = "apply" /\ CallsOf[c].base = 1
    BY <1>1, <1>2, CallOfFields DEF CallState
<1>4. Latest \in Nat /\ 1 <= Latest /\ Len(RevisionTexts) = Latest
    BY LatestIsNat, SeenTexts DEF DraftInv
<1>5. UNCHANGED RevisionTexts
    BY <1>2, SeenAlike
<1>6. CASE patch
    <2>1. Answer(c, "ok", Latest)
        BY <1>6 DEF ReadPatch
    <2>2. Promise!Put(c, Promise!Reply(CallsOf[c], "ok", Latest))
        BY <1>1, <1>2, <1>4, <2>1, SeenAnswer
    <2> QED BY <1>2, <1>3, <1>4, <1>5, <1>6, <2>2
            DEF Promise!Accept, Promise!Asked, Promise!Latest
<1>7. CASE ~patch /\ Latest # 1
    <2>1. Answer(c, "conflict", Latest)
        BY <1>7 DEF ReadPatch
    <2>2. Promise!Put(c, Promise!Reply(CallsOf[c], "conflict", Latest))
        BY <1>1, <1>2, <1>4, <2>1, SeenAnswer
    <2> QED BY <1>2, <1>3, <1>4, <1>5, <1>7, <2>2
            DEF Promise!Refuse, Promise!Asked, Promise!Latest, Promise!Saves, Promise!Current
<1>8. CASE ~patch /\ Latest = 1
    <2>1. calls' = [calls EXCEPT ![c].text = revisions[1].text \cup {0},
                                 ![c].expected = 1, ![c].pc = "checking"]
        BY <1>8 DEF ReadPatch
    <2>2. /\ new = [old EXCEPT !.text = revisions[1].text \cup {0},
                               !.expected = 1, !.pc = "checking"]
          /\ \A d \in Callers : d # c => calls'[d] = calls[d]
        BY <1>1, <2>1 DEF CallsGood
    <2>3. /\ new.op = "apply" /\ new.force = old.force /\ new.answer = old.answer
          /\ new.rev = old.rev /\ new.pc = "checking"
        BY <1>1, <1>2, <2>2 DEF Call
    <2>4. CallState(old) = "asked" /\ CallState(new) = "asked" /\ ~Told(old) /\ ~Told(new)
        BY <1>2, <2>3 DEF CallState, Told
    <2>5. CallOf(new) = CallOf(old)
        BY <1>2, <2>3, <2>4 DEF CallOf
    <2> QED BY <1>2, <1>5, <2>2, <2>5, SeenNothing
<1> QED BY <1>2, <1>6, <1>7, <1>8

LEMMA RefuseSeen ==
    ASSUME DraftInv, NEW c \in Callers, CallFits(calls[c]), RefuseSave(c)
    PROVE  Promise!Refuse(c)
<1>1. /\ calls[c].pc = "checking" /\ Answer(c, "conflict", Latest)
      /\ calls[c].expected \notin {0, Latest} /\ UNCHANGED <<revisions, patch>> /\ CallsGood
    BY DEF RefuseSave, EntersSave, Conflicts, store, DraftInv
<1>2. Latest \in Nat /\ Len(RevisionTexts) = Latest
    BY LatestIsNat, SeenTexts DEF DraftInv
<1>3. Promise!Put(c, Promise!Reply(CallsOf[c], "conflict", Latest))
    BY <1>1, <1>2, SeenAnswer
<1>4. CallsOf[c].base = calls[c].expected /\ Promise!Asked(c, Promise!Saves)
    BY <1>1, SeenBase
<1> QED BY <1>1, <1>2, <1>3, <1>4, SeenAlike DEF Promise!Refuse, Promise!Latest, Promise!Current

LEMMA SkipSeen ==
    ASSUME DraftInv, FitInv, NEW c \in Callers, SkipSave(c)
    PROVE  Promise!Skip(c)
<1>1. /\ calls[c].pc = "checking" /\ lock = Nobody /\ Saved(c, Latest)
      /\ calls[c].expected \in {0, Latest} /\ UNCHANGED <<revisions, patch>>
      /\ ~calls[c].force /\ calls[c].text = TextOf(Latest) /\ CallsGood /\ CallFits(calls[c])
    BY DEF SkipSave, EntersSave, Conflicts, Unchanged, TextOf, store, DraftInv, FitInv
<1>2. Latest \in Nat /\ Len(RevisionTexts) = Latest /\ RevisionTexts[Latest] = TextOf(Latest)
    BY LatestIsNat, SeenTexts DEF DraftInv
<1>3. Promise!Wanted(c) = calls[c].text
    BY <1>1, SeenWanted
<1>4. Promise!Done(c, Latest)
    BY <1>1, <1>2, <1>3, SeenDone
<1>5. CallsOf[c].base = calls[c].expected /\ Promise!Asked(c, Promise!Saves)
    BY <1>1, SeenBase
<1>6. CallsOf[c].force = calls[c].force
    BY <1>1, SeenCall, CallOfFields
<1> QED BY <1>1, <1>2, <1>3, <1>4, <1>5, <1>6, SeenAlike
        DEF Promise!Skip, Promise!Latest, Promise!Current, Promise!Unchanged

LEMMA CommitSeen ==
    ASSUME DraftInv, FitInv, NEW c \in Callers, CommitRevision(c)
    PROVE  Promise!Commit(c)
<1>1. /\ calls[c].pc = "writing" /\ Saved(c, Latest + 1) /\ UNCHANGED patch
      /\ calls[c].expected \in {0, Latest} /\ CallsGood /\ CallFits(calls[c]) /\ StoreStep(c)
    BY DEF CommitRevision, DraftInv, Serial, FitInv, StoreStep
<1>2. Latest \in Nat /\ Len(RevisionTexts) = Latest /\ RevisionTexts[Latest] = TextOf(Latest)
      /\ RevisionTexts \in Seq(SUBSET Edits) /\ calls[c].text \in SUBSET Edits
    BY <1>1, LatestIsNat, SeenTexts DEF DraftInv, CallsGood, Call, Text
<1>3. Promise!Wanted(c) = calls[c].text
    BY <1>1, SeenWanted
<1>4. Promise!Done(c, Latest + 1)
    BY <1>1, <1>2, <1>3, SeenDone
<1>5. CallsOf[c].base = calls[c].expected /\ Promise!Asked(c, Promise!Saves)
    BY <1>1, SeenBase
<1>6. CallsOf[c].force = calls[c].force
    BY <1>1, SeenCall, CallOfFields
<1>7. calls[c].force \/ calls[c].text # TextOf(Latest)
    BY <1>1 DEF CallFits
<1>8. RevisionTexts' = Append(RevisionTexts, calls[c].text)
    <2>1. /\ Latest' = Latest + 1 /\ revisions'[Latest + 1].text = calls[c].text
          /\ \A n \in 1..Latest : revisions'[n] = revisions[n]
        BY <1>1, HistoryGrows
    <2>2. RevisionTexts' = [n \in 1..(Latest + 1) |-> revisions'[n].text]
        BY <2>1 DEF RevisionTexts
    <2>3. \A n \in 1..Latest : RevisionTexts[n] = revisions[n].text
        BY DEF RevisionTexts
    <2>4. /\ Append(RevisionTexts, calls[c].text) \in Seq(SUBSET Edits)
          /\ Len(Append(RevisionTexts, calls[c].text)) = Latest + 1
          /\ \A n \in 1..Latest : Append(RevisionTexts, calls[c].text)[n] = RevisionTexts[n]
          /\ Append(RevisionTexts, calls[c].text)[Latest + 1] = calls[c].text
        BY <1>2, AppendProperties
    <2> QED BY <1>2, <2>1, <2>2, <2>3, <2>4
<1> QED BY <1>1, <1>2, <1>3, <1>4, <1>5, <1>6, <1>7, <1>8
        DEF Promise!Commit, Promise!Latest, Promise!Current, Promise!Unchanged

LEMMA MarkSeen ==
    ASSUME DraftInv, NEW c \in Callers, Truthful(calls[c]), MarkAccepted(c)
    PROVE  Promise!Accept(c)
<1>1. /\ calls[c].pc = "marking" /\ Answer(c, "ok", Latest) /\ patch' = TRUE
      /\ UNCHANGED revisions /\ calls[c].op = "apply" /\ CallsGood
    BY DEF MarkAccepted, Truthful, DraftInv
<1>2. Latest \in Nat /\ Len(RevisionTexts) = Latest
    BY LatestIsNat, SeenTexts DEF DraftInv
<1>3. Promise!Put(c, Promise!Reply(CallsOf[c], "ok", Latest))
    BY <1>1, <1>2, SeenAnswer
<1>4. CallsOf[c].state = "applied"
    BY <1>1, SeenCall, CallOfFields DEF CallState
<1> QED BY <1>1, <1>2, <1>3, <1>4, SeenAlike DEF Promise!Accept, Promise!Latest

(* What arrives is a request, or was refused at once.                      *)
LEMMA ArrivedSeen ==
    ASSUME DraftInv, NEW call, Arrived(call)
    PROVE  Promise!Request(CallOf(call)) \/ CallOf(call) = Promise!Reply(Promise!Idle, "error", 0)
<1> DEFINE seen == CallOf(call)
<1>1. Latest \in Nat /\ 1 <= Latest /\ Len(RevisionTexts) = Latest /\ StoreGood
    BY LatestIsNat, SeenTexts DEF DraftInv
<1>2. CASE call = Reply(IdleCall, "error", 0)
    <2> DEFINE refused == [op |-> "none", state |-> "answered", text |-> {}, base |-> 0,
                           force |-> FALSE, answer |-> "error", number |-> 0]
    <2>1. /\ call.op = "none" /\ call.pc = "answered" /\ call.answer = "error" /\ call.rev = 0
          /\ call.expected = 0 /\ call.force = FALSE
        BY <1>2 DEF Reply, IdleCall
    <2>2. CallState(call) = "answered" /\ ~Told(call)
        BY <2>1 DEF CallState, Told
    <2>3. CallOf(call) = refused
        BY <2>1, <2>2 DEF CallOf
    <2>4. Promise!Reply(Promise!Idle, "error", 0) = refused
        <3> DEFINE x == Promise!Idle
        <3>1. /\ x \in Promise!Call /\ x.op = "none" /\ x.text = {} /\ x.base = 0
              /\ x.force = FALSE
            BY DEF Promise!Idle, Promise!Call, Promise!Saves
        <3>2. /\ refused \in Promise!Call /\ refused.op = "none" /\ refused.text = {}
              /\ refused.state = "answered" /\ refused.base = 0 /\ refused.force = FALSE
              /\ refused.answer = "error" /\ refused.number = 0
            BY DEF Promise!Call, Promise!Saves
        <3> HIDE DEF x, refused
        <3>3. Promise!Reply(x, "error", 0) = refused
            BY <3>1, <3>2 DEF Promise!Reply, Promise!Call
        <3> QED BY <3>3 DEF x
    <2> QED BY <2>3, <2>4
<1>3. ASSUME call.pc \in {"sent", "checking"}, call.answer = "none", call.rev = 0,
             call.op # "none", call.expected <= Latest, call \in Call,
             call.op = "checkpoint" => call.expected # 0 /\ call.force,
             call.op = "apply" => ~call.force
      PROVE  Promise!Request(seen)
    <2>1. seen \in Promise!Call
        BY <1>3, CallOfType
    <2>2. seen.state = "asked" /\ seen.answer = "none" /\ seen.number = 0 /\ seen.op = call.op
          /\ seen.force = call.force
          /\ seen.base = IF call.op = "apply" THEN 1 ELSE call.expected
        BY <1>3, CallOfFields DEF CallState
    <2> HIDE DEF seen
    <2> QED BY <1>1, <1>3, <2>1, <2>2 DEF Promise!Request, Promise!Latest
<1>4. CASE call = Load \/ call = Apply
    <2>1. /\ call.pc = "sent" /\ call.answer = "none" /\ call.rev = 0
          /\ call.op \in {"load", "apply"} /\ call.expected = 0 /\ ~call.force
        BY <1>4 DEF Load, Apply, IdleCall
    <2>2. call \in Call
        BY <1>1, <1>4, Empty, SentIsNew DEF NewCall, KnownCall
    <2> QED BY <1>1, <1>3, <2>1, <2>2
<1>5. ASSUME NEW base \in 1..Latest, call = Checkpoint(base) PROVE Promise!Request(seen)
    <2>1. /\ call.pc = "sent" /\ call.answer = "none" /\ call.rev = 0
          /\ call.op = "checkpoint" /\ call.expected = base /\ call.force
        BY <1>5 DEF Checkpoint, IdleCall
    <2>2. call \in Call
        BY <1>1, <1>5, Empty, SentIsNew DEF NewCall, KnownCall
    <2> QED BY <1>1, <1>3, <2>1, <2>2
<1>6. ASSUME NEW text \in Text, NEW waived \in Text, NEW base \in 0..Latest,
             call = Save(text, base, waived)
      PROVE  Promise!Request(seen)
    <2>1. /\ call.pc = "checking" /\ call.answer = "none" /\ call.rev = 0
          /\ call.op = "save" /\ call.expected = base
        BY <1>6 DEF Save, IdleCall
    <2>2. call \in Call
        BY <1>1, <1>6, SentIsNew DEF NewCall, KnownCall
    <2> QED BY <1>1, <1>3, <2>1, <2>2
<1>7. ASSUME NEW n \in 1..Latest, NEW base \in 0..Latest, call = Restore(n, base)
      PROVE  Promise!Request(seen)
    <2>1. /\ call.pc = "checking" /\ call.answer = "none" /\ call.rev = 0
          /\ call.op = "save" /\ call.expected = base
        BY <1>7 DEF Restore, Save, IdleCall
    <2>2. call \in Call
        BY <1>1, <1>7, RestoreIsNew DEF NewCall, KnownCall
    <2> QED BY <1>1, <1>3, <2>1, <2>2
<1> QED BY <1>2, <1>4, <1>5, <1>6, <1>7 DEF Arrived

LEMMA CallsChangeSeen ==
    ASSUME DraftInv, CallsChange
    PROVE  \/ \E c \in Callers : Promise!Arrive(c) \/ Promise!Forget(c)
           \/ UNCHANGED <<RevisionTexts, patch, CallsOf>>
<1>1. UNCHANGED <<revisions, patch>> /\ UNCHANGED RevisionTexts /\ CallsGood
    BY SeenAlike DEF CallsChange, store, DraftInv
<1>2. CASE UNCHANGED calls
    <2>1. UNCHANGED CallsOf
        BY <1>2 DEF CallsOf, CallOf, CallState, Told
    <2> QED BY <1>1, <2>1
<1>3. ASSUME NEW c \in Callers, Arrives(c) PROVE Promise!Arrive(c)
    <2>1. PICK call : Arrived(call) /\ calls' = [calls EXCEPT ![c] = call]
        BY <1>3 DEF Arrives
    <2>2. calls'[c] = call /\ \A d \in Callers : d # c => calls'[d] = calls[d]
        BY <1>1, <2>1 DEF CallsGood
    <2>3. CallsOf[c].state \in {"none", "answered"}
        BY <1>1, <1>3, SeenCall, CallOfFields DEF Arrives, CallState
    <2>4. Promise!Put(c, CallOf(call))
        BY <2>2, PutCall
    <2>5. CallsOf'[c] = CallOf(call)
        BY <2>2 DEF CallsOf, CallOf, CallState, Told
    <2>6. \/ Promise!Request(CallOf(call))
          \/ CallOf(call) = Promise!Reply(Promise!Idle, "error", 0)
        BY <2>1, ArrivedSeen
    <2> QED BY <1>1, <2>3, <2>4, <2>5, <2>6 DEF Promise!Arrive
<1>4. ASSUME NEW c \in Callers, Forgets(c) PROVE Promise!Forget(c)
    <2>1. calls'[c] = IdleCall /\ \A d \in Callers : d # c => calls'[d] = calls[d]
        BY <1>1, <1>4 DEF CallsGood, Forgets
    <2>2. CallsOf[c].state \in {"asked", "answered"}
        BY <1>1, <1>4, SeenCall, CallOfFields DEF Forgets, CallState
    <2>3. CallOf(IdleCall) = Promise!Idle
        BY DEF CallOf, CallState, Told, IdleCall, Promise!Idle
    <2>4. Promise!Put(c, Promise!Idle)
        BY <2>1, <2>3, PutCall
    <2> QED BY <1>1, <2>2, <2>4 DEF Promise!Forget
<1> QED BY <1>2, <1>3, <1>4 DEF CallsChange

LEMMA DyingSeen ==
    ASSUME DraftInv, Quiet, NEW dead \in SUBSET Callers, Dies(dead)
    PROVE  Promise!Fail
<1>1. UNCHANGED patch /\ UNCHANGED RevisionTexts
    BY SeenAlike DEF Dies, Dying
<1>2. ASSUME NEW c \in Callers
      PROVE  CallOf(calls'[c]) =
                IF c \in dead /\ CallsOf[c].state \in {"asked", "applied"}
                THEN Promise!Reply(CallsOf[c], "error", 0) ELSE CallsOf[c]
    <2>1. /\ CallsOf[c] = CallOf(calls[c]) /\ calls[c] \in Call
          /\ CallsOf[c].state = CallState(calls[c])
        BY SeenCall, CallOfFields DEF DraftInv
    <2>2. calls[c].pc \notin {"idle", "answered"} <=> CallState(calls[c]) \in {"asked", "applied"}
        BY DEF CallState
    <2>3. calls'[c] = IF c \in dead /\ calls[c].pc \notin {"idle", "answered"}
                      THEN Reply(calls[c], "error", 0) ELSE calls[c]
        BY DEF Dies, Dying
    <2>4. CASE c \in dead /\ calls[c].pc \notin {"idle", "answered"}
        <3>1. calls'[c] = Reply(calls[c], "error", 0)
            BY <2>3, <2>4
        <3>2. /\ calls'[c].op = calls[c].op /\ calls'[c].text = calls[c].text
              /\ calls'[c].expected = calls[c].expected /\ calls'[c].force = calls[c].force
              /\ calls'[c].pc = "answered" /\ calls'[c].answer = "error" /\ calls'[c].rev = 0
            BY <2>1, <3>1 DEF Reply, Call
        <3>3. CallState(calls'[c]) = "answered" /\ ~Told(calls'[c]) /\ ~Told(calls[c])
            BY <2>4, <3>2 DEF CallState, Told
        <3>4. CallOf(calls'[c]) = Promise!Reply(CallOf(calls[c]), "error", 0)
            <4> DEFINE x == CallOf(calls[c])
                       y == CallOf(calls'[c])
            <4>1. /\ y.op = x.op /\ y.state = "answered" /\ y.text = x.text /\ y.base = x.base
                  /\ y.force = x.force /\ y.answer = "error" /\ y.number = 0
                BY <3>2, <3>3, CallOfFields
            <4>2. x \in Promise!Call /\ y \in Promise!Call
                <5>1. calls'[c] \in Call
                    BY <2>1, <3>1, Replied DEF Answers
                <5> QED BY <2>1, <5>1, CallOfType
            <4> HIDE DEF x, y
            <4>3. y = Promise!Reply(x, "error", 0)
                BY <4>1, <4>2 DEF Promise!Reply, Promise!Call
            <4> QED BY <4>3 DEF x, y
        <3> QED BY <2>1, <2>2, <2>4, <3>4
    <2> QED BY <2>1, <2>2, <2>3, <2>4
<1>3. CallsOf' = [c \in Callers |-> CallOf(calls'[c])]
    BY DEF CallsOf, CallOf, CallState, Told
<1>4. CallsOf' = [c \in Callers |-> CallsOf'[c]]
    BY <1>3
<1>5. ASSUME NEW c \in Callers
      PROVE  \/ CallsOf'[c] = CallsOf[c]
             \/ /\ CallsOf[c].state \in {"asked", "applied"}
                /\ CallsOf'[c] = Promise!Reply(CallsOf[c], "error", 0)
    BY <1>2, <1>3
<1> QED BY <1>1, <1>4, <1>5 DEF Promise!Fail

LEMMA HistoryStep ==
    ASSUME Quiet, DraftInv, ReadInv, FitInv, [Next]_vars
    PROVE  [Promise!Next]_(Promise!vars)
<1>1. CASE CallsChange
    BY <1>1, CallsChangeSeen DEF Promise!Next, Promise!Step, Promise!vars
<1>2. ASSUME NEW c \in Callers, StoreStep(c)
      PROVE  Promise!Step(c) \/ UNCHANGED <<RevisionTexts, patch, CallsOf>>
    <2>1. Truthful(calls[c]) /\ CallFits(calls[c])
        BY DEF ReadInv, FitInv
    <2> QED BY <1>2, <2>1, ReadSeen, LoadSeen, PatchSeen, RefuseSeen, SkipSeen, CommitSeen, MarkSeen
            DEF StoreStep, Promise!Step
<1>3. ASSUME NEW c \in Callers, StoreStep(c) PROVE [Promise!Next]_(Promise!vars)
    BY <1>2, <1>3 DEF Promise!Next, Promise!vars
<1>4. ASSUME NEW dead \in SUBSET Callers, Dies(dead) PROVE [Promise!Next]_(Promise!vars)
    BY <1>4, DyingSeen DEF Promise!Next
<1> QED BY <1>1, <1>3, <1>4, StepKinds

(* If nobody loads the article while it is being saved and no process dies *)
(* inside a save, then whatever the users do, the store is the sequence of *)
(* texts of ArticleHistory: every load, save, checkpoint, restore and      *)
(* patch of its requests and jobs is one step (article_revisions.py).      *)
THEOREM StoreKeepsHistory == ASSUME Quiet PROVE Spec => KeepsHistory
<1>1. Init => Promise!Init
    <2> SUFFICES ASSUME Init PROVE Promise!Init
        OBVIOUS
    <2>1. /\ revisions = <<[text |-> {}, expected |-> 0, waived |-> {}]>> /\ patch = FALSE
          /\ calls = [c \in Callers |-> IdleCall]
        BY DEF Init, StoreInit
    <2>2. RevisionTexts = <<{}>>
        <3>1. Latest = 1 /\ revisions[1].text = {}
            BY <2>1 DEF Latest
        <3> QED BY <3>1 DEF RevisionTexts
    <2>3. CallOf(IdleCall) = Promise!Idle
        BY DEF CallOf, CallState, Told, IdleCall, Promise!Idle
    <2>4. CallsOf = [c \in Callers |-> Promise!Idle]
        BY <2>1, <2>3 DEF CallsOf
    <2> QED BY <2>1, <2>2, <2>4 DEF Promise!Init
<1>2. DraftInv /\ (ReadInv /\ FitInv) /\ [Next]_vars => [Promise!Next]_(Promise!vars)
    BY HistoryStep
<1> QED BY <1>1, <1>2, DraftInvariant, FitAlways, PTL DEF Spec, KeepsHistory, Promise!Spec

=============================================================================
