----------------------------- MODULE DraftEditor -----------------------------
(***************************************************************************)
(* The tabs in which an article is edited (screens/editor/v2.html) on top  *)
(* of the store of its revisions.  A tab keeps the text and the revision   *)
(* it believes the text is based on, saves two seconds after the last      *)
(* input, keeps a recovery copy in the browser's localStorage, asks the    *)
(* user when a save is refused, and replaces its text after a restore or   *)
(* an accepted patch.  A handler runs until it awaits a response; between  *)
(* a request and its response anything may happen, and responses arrive in *)
(* any order.                                                              *)
(***************************************************************************)
EXTENDS ArticleRevisions

CONSTANTS
    Tabs,          (* editor tabs of the article                             *)
    Browsers,      (* browsers, each with a localStorage of its own          *)
    BrowserOf,     (* the browser of each tab                                *)
    MaxOpens,      (* bound: times a tab is opened                           *)
    MaxFailures,   (* bound: network outages, and processes and jobs that die *)
    MaxGenerations (* bound: generation jobs that save the article           *)

ASSUME EditorAssumption ==
    /\ BrowserOf \in [Tabs -> Browsers]
    /\ {MaxOpens, MaxFailures, MaxGenerations} \subseteq Nat
    /\ Nobody \notin Tabs

VARIABLES
    tab,         (* what each tab holds                                      *)
    fetch,       (* the tab that awaits each request and what it was for     *)
    draft,       (* the recovery copy in each browser's localStorage         *)
    online,      (* navigator.onLine                                         *)
    typed,       (* edits made so far                                        *)
    mine,        (* history: the edits made in tabs                          *)
    discarded,   (* history: the edits a user chose to drop                  *)
    count        (* history: opens, failures and generations                 *)

editor == <<tab, fetch, draft, online>>
history == <<typed, mine, discarded, count>>
vars == <<store, calls, editor, history>>

-----------------------------------------------------------------------------

Shown == {"saved", "unsaved", "saving", "offline", "conflict", "error"}
Kinds == {"none", "load", "save", "checkpoint", "restore", "accept", "reload"}

(* PENDING_CONFLICT: the latest revision, its text, and the user's draft.  *)
Conflict == [id: Nat, text: Text, local: Text]
NoConflict == [id |-> 0, text |-> {}, local |-> {}]

Tab == [open: {"closed", "loading", "open"}, text: Text, base: Nat, due: BOOLEAN,
        shown: Shown, conflict: Conflict, waived: Text]
ClosedTab == [open |-> "closed", text |-> {}, base |-> 0, due |-> FALSE,
              shown |-> "saved", conflict |-> NoConflict, waived |-> {}]

Draft == [kept: BOOLEAN, base: Nat, text: Text, waived: Text]
NoDraft == [kept |-> FALSE, base |-> 0, text |-> {}, waived |-> {}]

Fetch == [tab: Tabs \cup {Nobody}, kind: Kinds, text: Text]
NoFetch == [tab |-> Nobody, kind |-> "none", text |-> {}]

Init ==
    /\ StoreInit
    /\ tab = [t \in Tabs |-> ClosedTab]
    /\ fetch = [r \in Requests |-> NoFetch]
    /\ draft = [b \in Browsers |-> NoDraft]
    /\ online = TRUE
    /\ typed = 0
    /\ mine = {}
    /\ discarded = {}
    /\ count = [opens |-> 0, failures |-> 0, generations |-> 0]

Stored(t) == draft[BrowserOf[t]]
SetTab(t, new) == tab' = [tab EXCEPT ![t] = new]
KeepDraft(t, d) == draft' = [draft EXCEPT ![BrowserOf[t]] = d]
DropDraft(t) == KeepDraft(t, NoDraft)
(* Seeded fault: the copy goes whatever was typed since.                   *)
ClearAlways(t, sent) == DropDraft(t)

(* clearLocalDraftIfMatches.                                               *)
ClearIfMatches(t, sent) ==
    IF Stored(t).text = sent THEN DropDraft(t) ELSE UNCHANGED draft

DraftOf(new) == [kept |-> TRUE, base |-> new.base, text |-> new.text,
                 waived |-> new.waived]

Asks(t) == tab[t].conflict # NoConflict
Awaits(t, kinds) == \E r \in Requests : fetch[r].tab = t /\ fetch[r].kind \in kinds

(* The request leaves the tab and arrives.                                 *)
Free(r) == fetch[r] = NoFetch /\ calls[r].pc = "idle"
Send(r, t, kind, text, call) ==
    /\ Free(r)
    /\ fetch' = [fetch EXCEPT ![r] = [tab |-> t, kind |-> kind, text |-> text]]
    /\ calls' = [calls EXCEPT ![r] = call]

(* The tab's handler goes on with the response of r.                       *)
Responds(r, kind) ==
    /\ fetch[r].kind = kind
    /\ fetch[r].tab # Nobody
    /\ calls[r].pc = "answered"
Received(r) ==
    /\ fetch' = [fetch EXCEPT ![r] = NoFetch]
    /\ calls' = [calls EXCEPT ![r] = IdleCall]

(* fetch throws: the API died, or the network is gone.                     *)
Fails(r) ==
    \/ /\ calls[r].pc = "answered" /\ calls[r].answer = "error"
       /\ Received(r)
    \/ /\ ~online
       /\ fetch' = [fetch EXCEPT ![r].tab = Nobody]
       /\ UNCHANGED calls

(* What a failed save shows.                                               *)
Failure == IF online THEN "error" ELSE "offline"

(* Seeded fault: a state the indicator does not know.                      *)
MistypedConflict(new, id, text, local) ==
    [new EXCEPT !.conflict = [id |-> id, text |-> text, local |-> local],
                !.shown = "conflicting"]

(* Seeded fault: the latest revision becomes the base before the user has  *)
(* chosen.                                                                 *)
AdoptsLatest(new, id, text, local) ==
    [new EXCEPT !.conflict = [id |-> id, text |-> text, local |-> local],
                !.shown = "conflict", !.base = id]

(* showConflict: the latest revision beside the user's draft.              *)
ShowConflict(new, id, text, local) ==
    [new EXCEPT !.conflict = [id |-> id, text |-> text, local |-> local],
                !.shown = "conflict"]

(* The request of a save.  A tab that knows no revision is refused.        *)
SaveCall(new) == IF new.base = 0 THEN Reply(IdleCall, "error", 0)
                 ELSE Save(new.text, new.base, new.waived)

(* saveDraft of a tab that holds new: the timer is cleared, the recovery   *)
(* copy kept, and the draft sent unless the browser is offline.            *)
SaveDraft(t, new) ==
    /\ "slow_save" \in Risks \/ ~Awaits(t, {"save"})
    /\ KeepDraft(t, DraftOf(new))
    /\ IF online
       THEN \E r \in Requests :
              /\ Send(r, t, "save", new.text, SaveCall(new))
              /\ SetTab(t, [new EXCEPT !.due = FALSE, !.shown = "saving"])
       ELSE /\ SetTab(t, [new EXCEPT !.due = FALSE, !.shown = "offline"])
            /\ UNCHANGED <<fetch, calls>>

(* A user who waits acts on the article only when all is saved, and does   *)
(* nothing while the action is under way.                                  *)
Replacing == {"checkpoint", "restore", "accept", "reload"}
Busy(t) == Awaits(t, Replacing)
Settled(t) == /\ tab[t].shown = "saved" /\ ~tab[t].due
              /\ ~Awaits(t, Kinds)
Ready(t) == /\ tab[t].open = "open" /\ ~Asks(t)
            /\ online
            /\ "hasty" \in Risks \/ Settled(t)

-----------------------------------------------------------------------------
(* Opening the article.                                                    *)

OpenTab(t) ==
    /\ tab[t].open = "closed"
    /\ online
    /\ count.opens < MaxOpens
    /\ count' = [count EXCEPT !.opens = @ + 1]
    /\ SetTab(t, [ClosedTab EXCEPT !.open = "loading"])
    /\ \E r \in Requests : Send(r, t, "load", {}, Load)
    /\ UNCHANGED <<store, draft, online, typed, mine, discarded>>

Recovers(t, served) == Stored(t).kept /\ Stored(t).text # served.text

(* recoverLocalDraft: a copy equal to the article is removed, a copy made  *)
(* from this revision is restored, any other is put to the user.           *)
ArticleLoaded(t, r) ==
    LET served == [tab[t] EXCEPT !.open = "open", !.text = calls[r].text,
                                 !.base = calls[r].rev, !.shown = "saved"]
    IN  /\ Responds(r, "load") /\ fetch[r].tab = t
        /\ calls[r].answer = "ok"
        /\ Received(r)
        /\ \/ /\ ~Recovers(t, served)
              /\ DropDraft(t)
              /\ SetTab(t, served)
           \/ /\ Recovers(t, served)
              /\ Stored(t).base = served.base
              /\ SetTab(t, [served EXCEPT !.text = Stored(t).text,
                              !.waived = Stored(t).waived, !.due = @ \/ online,
                              !.shown = IF online THEN "unsaved" ELSE "offline"])
              /\ UNCHANGED draft
           \/ /\ Recovers(t, served)
              /\ Stored(t).base # served.base
              /\ SetTab(t, ShowConflict(served, served.base, served.text, Stored(t).text))
              /\ UNCHANGED draft
        /\ UNCHANGED <<store, online, history>>

(* A tab that cannot load its article stays empty.                         *)
LoadFails(t, r) ==
    /\ fetch[r].tab = t /\ fetch[r].kind = "load"
    /\ Fails(r)
    /\ UNCHANGED <<store, tab, draft, online, history>>

(* The tab is closed or crashes; its requests go on without it.            *)
CloseTab(t) ==
    /\ tab[t].open # "closed"
    /\ SetTab(t, ClosedTab)
    /\ fetch' = [r \in Requests |->
                    IF fetch[r].tab = t THEN [fetch[r] EXCEPT !.tab = Nobody] ELSE fetch[r]]
    /\ UNCHANGED <<store, calls, draft, online, history>>

-----------------------------------------------------------------------------
(* Editing and saving.                                                     *)

Type(t) ==
    /\ tab[t].open # "closed" /\ ~Asks(t)
    /\ "hasty" \in Risks \/ (tab[t].open = "open" /\ ~Busy(t))
    /\ typed < MaxEdits
    /\ typed' = typed + 1
    /\ mine' = mine \cup {typed + 1}
    /\ LET new == [tab[t] EXCEPT !.text = tab[t].text \cup {typed + 1},
                                 !.due = TRUE, !.shown = "unsaved"]
       IN  SetTab(t, new) /\ KeepDraft(t, DraftOf(new))
    /\ UNCHANGED <<store, calls, fetch, online, discarded, count>>

TimerFires(t) ==
    /\ tab[t].due
    /\ SaveDraft(t, tab[t])
    /\ UNCHANGED <<store, online, history>>

(* The response of a save.  The recovery copy goes when it is what was     *)
(* sent; the indicator says saved whatever was typed meanwhile.            *)
SaveSucceeds(t, r) ==
    /\ Responds(r, "save") /\ fetch[r].tab = t
    /\ calls[r].answer = "ok"
    /\ Received(r)
    /\ SetTab(t, [tab[t] EXCEPT !.base = calls[r].rev, !.shown = "saved"])
    /\ ClearIfMatches(t, fetch[r].text)
    /\ UNCHANGED <<store, online, history>>

SaveFails(t, r) ==
    /\ fetch[r].tab = t /\ fetch[r].kind = "save"
    /\ Fails(r)
    /\ SetTab(t, [tab[t] EXCEPT !.shown = Failure])
    /\ UNCHANGED <<store, draft, online, history>>

(* A refusal shows what was sent, or the editor's text, beside the latest. *)
Refused(t, r) ==
    /\ \E kind \in {"save", "checkpoint", "restore", "accept"} : Responds(r, kind)
    /\ fetch[r].tab = t
    /\ calls[r].answer = "conflict"
    /\ Received(r)
    /\ SetTab(t, ShowConflict(tab[t], calls[r].rev, revisions[calls[r].rev].text,
                              IF fetch[r].kind = "save" THEN fetch[r].text
                              ELSE tab[t].text))
    /\ UNCHANGED <<store, draft, online, history>>

-----------------------------------------------------------------------------
(* The choices of the conflict dialog.                                     *)

UseLatest(t) ==
    /\ Asks(t)
    /\ LET latest == tab[t].conflict
       IN  /\ SetTab(t, [tab[t] EXCEPT !.text = latest.text, !.base = latest.id,
                 !.conflict = NoConflict, !.shown = "saved",
                 !.waived = @ \cup ((tab[t].text \cup latest.local) \ latest.text)])
           /\ discarded' = discarded \cup
                ((tab[t].text \cup latest.local \cup Stored(t).text) \ latest.text)
    /\ DropDraft(t)
    /\ UNCHANGED <<store, calls, fetch, online, typed, mine, count>>

(* The dialog and the editor show the same draft, or the user does not     *)
(* notice that they differ.                                                *)
MayKeep(t) == Asks(t) /\ ("trusting" \in Risks \/ tab[t].conflict.local \subseteq tab[t].text)

KeepLocal(t) ==
    /\ MayKeep(t)
    /\ SaveDraft(t, [tab[t] EXCEPT !.base = tab[t].conflict.id, !.conflict = NoConflict,
                       !.waived = tab[t].waived \cup (tab[t].conflict.text \ tab[t].text)])
    /\ UNCHANGED <<store, online, history>>

MergeManually(t) ==
    /\ MayKeep(t)
    /\ LET new == [tab[t] EXCEPT !.text = tab[t].text \cup tab[t].conflict.text,
                     !.base = tab[t].conflict.id, !.conflict = NoConflict,
                     !.shown = "unsaved"]
       IN  SetTab(t, new) /\ KeepDraft(t, DraftOf(new))
    /\ UNCHANGED <<store, calls, fetch, online, history>>

-----------------------------------------------------------------------------
(* Checkpoints, restores and patches.                                      *)

CreateCheckpoint(t) ==
    /\ Ready(t)
    /\ \E r \in Requests : Send(r, t, "checkpoint", {}, Checkpoint(tab[t].base))
    /\ UNCHANGED <<store, tab, draft, online, history>>

RestoreRevision(t) ==
    /\ Ready(t)
    /\ \E r \in Requests, n \in 1..(tab[t].base - 1) :
          Send(r, t, "restore", {}, Restore(n, tab[t].base))
    /\ UNCHANGED <<store, tab, draft, online, history>>

AcceptPatch(t) ==
    /\ Ready(t)
    /\ ~patch
    /\ \E r \in Requests : Send(r, t, "accept", {}, Apply)
    /\ UNCHANGED <<store, tab, draft, online, history>>

CheckpointCreated(t, r) ==
    /\ Responds(r, "checkpoint") /\ fetch[r].tab = t
    /\ calls[r].answer = "ok"
    /\ Received(r)
    /\ SetTab(t, [tab[t] EXCEPT !.base = calls[r].rev, !.shown = "saved"])
    /\ UNCHANGED <<store, draft, online, history>>

(* The response of a restore, or of reloadArticleHead, replaces the text   *)
(* and removes the recovery copy.                                          *)
TextReplaced(t, r) ==
    /\ \E kind \in {"restore", "reload"} : Responds(r, kind)
    /\ fetch[r].tab = t
    /\ calls[r].answer = "ok"
    /\ Received(r)
    /\ SetTab(t, [tab[t] EXCEPT !.text = calls[r].text, !.base = calls[r].rev,
                                !.shown = "saved"])
    /\ DropDraft(t)
    /\ UNCHANGED <<store, online, history>>

(* acceptPatch reloads the article when the patch has been applied.        *)
PatchAccepted(t, r) ==
    /\ Responds(r, "accept") /\ fetch[r].tab = t
    /\ calls[r].answer = "ok"
    /\ fetch' = [fetch EXCEPT ![r].kind = "reload"]
    /\ calls' = [calls EXCEPT ![r] = Load]
    /\ UNCHANGED <<store, tab, draft, online, history>>

(* The other requests do nothing when they cannot be answered.             *)
ActionFails(t, r) ==
    /\ fetch[r].tab = t /\ fetch[r].kind \in Replacing
    /\ Fails(r)
    /\ UNCHANGED <<store, tab, draft, online, history>>

-----------------------------------------------------------------------------
(* The network, the processes and the other writers.                       *)

GoOffline ==
    /\ online
    /\ count.failures < MaxFailures
    /\ online' = FALSE
    /\ count' = [count EXCEPT !.failures = @ + 1]
    /\ UNCHANGED <<store, calls, tab, fetch, draft, typed, mine, discarded>>

(* The online event: a tab with a recovery copy and no open question       *)
(* saves.  Without racing loads the network does not return to a tab that  *)
(* is still loading.                                                       *)
GoOnline ==
    /\ ~online
    /\ "racing_load" \in Risks \/ \A t \in Tabs : tab[t].open # "loading"
    /\ online' = TRUE
    /\ tab' = [t \in Tabs |->
                  IF tab[t].open # "closed" /\ Stored(t).kept /\ ~Asks(t)
                  THEN [tab[t] EXCEPT !.due = TRUE] ELSE tab[t]]
    /\ UNCHANGED <<store, calls, fetch, draft, history>>

(* What nobody waits for: a request that never arrived, or its response.   *)
Abandoned(r) ==
    /\ fetch[r] # NoFetch /\ fetch[r].tab = Nobody
    /\ \/ calls[r].pc \in {"sent", "answered"}
       \/ calls[r].op = "save" /\ calls[r].pc = "checking"
    /\ Received(r)
    /\ UNCHANGED <<store, tab, draft, online, history>>

(* A synchronization or a queued agent edit saves what it made of the head *)
(* it read, and names it.                                                  *)
WriterReads(w) ==
    /\ calls[w].pc = "idle"
    /\ typed < MaxEdits
    /\ typed' = typed + 1
    /\ calls' = [calls EXCEPT ![w] =
                    Save(revisions[Latest].text \cup {typed + 1}, Latest, {})]
    /\ UNCHANGED <<store, editor, mine, discarded, count>>

(* A generation saves its own text over whatever is there.                 *)
PersistGeneration(w) ==
    /\ calls[w].pc = "idle"
    /\ count.generations < MaxGenerations
    /\ typed < MaxEdits
    /\ typed' = typed + 1
    /\ count' = [count EXCEPT !.generations = @ + 1]
    /\ calls' = [calls EXCEPT ![w] = Save({typed + 1}, 0, Edits)]
    /\ UNCHANGED <<store, editor, mine, discarded>>

WriterReturns(w) ==
    /\ calls[w].pc = "answered"
    /\ calls' = [calls EXCEPT ![w] = IdleCall]
    /\ UNCHANGED <<store, editor, history>>

(* The API, or the worker of one job, dies and is started again.           *)
Dies(dead) ==
    /\ count.failures < MaxFailures
    /\ \E c \in dead : calls[c].pc \notin {"idle", "answered"}
    /\ count' = [count EXCEPT !.failures = @ + 1]
    /\ Dying(dead)
    /\ UNCHANGED <<editor, typed, mine, discarded>>

-----------------------------------------------------------------------------

TabStep(t) ==
    \/ OpenTab(t) \/ CloseTab(t) \/ Type(t) \/ TimerFires(t)
    \/ UseLatest(t) \/ KeepLocal(t) \/ MergeManually(t)
    \/ CreateCheckpoint(t) \/ RestoreRevision(t) \/ AcceptPatch(t)

Response(t, r) ==
    \/ ArticleLoaded(t, r) \/ LoadFails(t, r) \/ SaveSucceeds(t, r) \/ SaveFails(t, r)
    \/ Refused(t, r) \/ CheckpointCreated(t, r) \/ TextReplaced(t, r)
    \/ PatchAccepted(t, r) \/ ActionFails(t, r)

Next ==
    \/ \E t \in Tabs : TabStep(t) \/ \E r \in Requests : Response(t, r)
    \/ \E r \in Requests : Abandoned(r)
    \/ \E c \in Callers : StoreStep(c) /\ UNCHANGED <<editor, history>>
    \/ \E w \in Writers : WriterReads(w) \/ PersistGeneration(w) \/ WriterReturns(w)
                          \/ Dies({w})
    \/ Dies(Requests)
    \/ GoOffline \/ GoOnline

Spec == Init /\ [][Next]_vars

-----------------------------------------------------------------------------
(* Properties.                                                             *)

TypeOK ==
    /\ revisions \in Seq(Revision)
    /\ body \in Text
    /\ lock \in Callers \cup {Nobody}
    /\ patch \in BOOLEAN
    /\ calls \in [Callers -> Call]
    /\ tab \in [Tabs -> Tab]
    /\ fetch \in [Requests -> Fetch]
    /\ draft \in [Browsers -> Draft]
    /\ online \in BOOLEAN
    /\ typed \in Nat
    /\ mine \in Text
    /\ discarded \in Text
    /\ count \in [opens: Nat, failures: Nat, generations: Nat]

(* The compare and the commit of a save are one: a save that names its     *)
(* base replaces that very revision, whatever is saved at the same time    *)
(* (save_article_revision, WorkspaceLock).                                 *)
SaveReplacesItsBase ==
    \A n \in DOMAIN revisions : n > 1 => revisions[n].expected \in {0, n - 1}

(* A revision that names its base keeps every edit of it, or its author    *)
(* saw the edit and chose to replace or to drop it (saveDraft, the three   *)
(* answers to a conflict).                                                 *)
NoBlindOverwrite ==
    \A n \in DOMAIN revisions : revisions[n].expected = n - 1 /\ n > 1 =>
        revisions[n - 1].text \subseteq revisions[n].text \cup revisions[n].waived

InHistory == UNION {revisions[n].text : n \in DOMAIN revisions}

(* An edit made in a tab is in the history or in a recovery copy until its *)
(* author drops it: closing the tab at any moment loses nothing.           *)
EditsSurvive ==
    mine \subseteq InHistory \cup discarded \cup UNION {draft[b].text : b \in Browsers}

=============================================================================
