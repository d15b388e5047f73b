----------------------------- MODULE RemoteSync -----------------------------
(***************************************************************************)
(* One blog platform and the articles of one user: synchronization,        *)
(* refresh, resolution of a conflict, push, browser publishing and import. *)
(* A call is a process whose steps are the transactions and the remote     *)
(* requests of the code; between two of them anything may happen.  A text  *)
(* is the set of the edits it contains and, as an element, its leading     *)
(* heading, which a push takes away.  A fingerprint is the text itself.    *)
(***************************************************************************)
EXTENDS Integers, FiniteSets

CONSTANTS
    Syncs,       (* synchronization jobs, sync requests and refreshes        *)
    Scopes,      (* what a behaviour exercises: its calls and operations     *)
    MaxArticles, (* bound: local articles                                    *)
    MaxRemotes,  (* bound: articles at the provider                          *)
    MaxEdits,    (* bound: edits, local and remote                           *)
    MaxCalls,    (* bound: pushes, browser publish runs and resolutions      *)
    MaxFaults    (* bound: crashes, outages and lost answers                 *)

Articles == 1..MaxArticles
Remotes == 1..MaxRemotes
Edits == 1..MaxEdits
Heading == 0
Text == SUBSET (Edits \cup {Heading})
Unknown == {MaxEdits + 1}   (* no text, no fingerprint *)

Platforms == {"hashnode", "medium", "devto"}
Calls == {"refresh", "resolve", "push", "publish", "import", "delete"}
Provider == {"author", "post", "remove"}
Risks == {"crash", "outage", "limit", "sync_during_push",
          "edit_during_push", "unmarked", "second", "tokenless"}

ASSUME RemoteAssumption ==
    /\ Scopes \subseteq [platform: Platforms, syncs: SUBSET Syncs,
                       there: SUBSET Remotes, ops: SUBSET (Calls \cup Provider \cup Risks)]
    /\ {MaxArticles, MaxRemotes, MaxEdits, MaxCalls, MaxFaults} \subseteq Nat

VARIABLES
    scope,     (* the platform and the operations of this behaviour          *)
    article,   (* articles with their current text and their destination     *)
    remote,    (* what the provider holds                                    *)
    identity,  (* remote_article_identities                                  *)
    latest,    (* the newest reconciliation observation of each article      *)
    sync,      (* synchronizations and refreshes under way                   *)
    push,      (* the push request and its job                               *)
    run,       (* the browser publish run and its job                        *)
    resolver,  (* the resolve request                                        *)
    mine,      (* history: the edits made in the editor, by article          *)
    waived,    (* history: the edits a user gave up when he took the remote  *)
    open,      (* history: remotes with a reported conflict nobody settled   *)
    had,       (* history: every text an article ever had                    *)
    shown,     (* history: every text a remote ever had                      *)
    source,    (* history: the remote a synchronization made an article for  *)
    made,      (* edits made so far                                          *)
    spent      (* calls and faults so far                                    *)

store == <<article, identity, latest>>
calls == <<sync, push, run, resolver>>
history == <<mine, waived, open, had, shown, source, made, spent>>
vars == <<scope, store, remote, calls, history>>

-----------------------------------------------------------------------------

Statuses == {"none", "pending", "draft", "published", "error"}
Article == [state: {"unused", "live", "deleted"}, text: Text, rev: Nat,
            draftId: Remotes \cup {0}, status: Statuses]
NoArticle == [state |-> "unused", text |-> {}, rev |-> 0, draftId |-> 0, status |-> "none"]
Created(text, rev) == [NoArticle EXCEPT !.state = "live", !.text = text, !.rev = rev]

Remote == [state: {"absent", "draft", "published", "deleted"}, text: Text]
Identity == [article: Articles \cup {0}, base: Text \cup {Unknown}]
NoIdentity == [article |-> 0, base |-> Unknown]

(* sync_state, and what a resolution needs of the observation.             *)
States == {"none", "conflict", "in_sync", "local_ahead", "inaccessible", "remote_deleted"}
Observation == [state: States, remote: Remotes \cup {0}, text: Text \cup {Unknown}]
NoObservation == [state |-> "none", remote |-> 0, text |-> Unknown]
Available == {"conflict", "in_sync", "local_ahead"}

Live(a) == a \in Articles /\ article[a].state = "live"
Exists(r) == remote[r].state \in {"draft", "published"}
Mapped(a) == {r \in Remotes : identity[r].article = a}
Does(op) == op \in scope.ops

Sync == [pc: {"idle", "drafts", "published", "details", "next", "compare", "save",
              "metadata", "mark", "observe", "report"},
         about: Articles \cup {0}, want: Remotes \cup {0},
         found: [Remotes -> Text \cup {Unknown}], public: SUBSET Remotes,
         listed: SUBSET Remotes, failed: SUBSET Remotes, todo: SUBSET Remotes,
         at: Remotes \cup {0}, article: Articles \cup {0}, created: BOOLEAN,
         base: Text \cup {Unknown}, expected: Nat, clean: BOOLEAN]
IdleSync == [pc |-> "idle", about |-> 0, want |-> 0,
             found |-> [r \in Remotes |-> Unknown], public |-> {},
             listed |-> {}, failed |-> {}, todo |-> {}, at |-> 0, article |-> 0,
             created |-> FALSE, base |-> Unknown, expected |-> 0, clean |-> TRUE]

Push == [pc: {"idle", "queued", "ready", "sent", "applied", "marked"},
         article: Articles \cup {0}, text: Text \cup {Unknown},
         target: Remotes \cup {0}, result: Remotes \cup {0}]
IdlePush == [pc |-> "idle", article |-> 0, text |-> Unknown, target |-> 0, result |-> 0]

Run == [status: {"none", "awaiting_approval", "running", "completed", "failed"},
        job: {"none", "approved", "queued", "ready", "sent", "marked", "applied", "refused"},
        article: Articles \cup {0}, text: Text \cup {Unknown},
        mode: {"draft", "publish"}, target: Remotes \cup {0}]
NoRun == [status |-> "none", job |-> "none", article |-> 0, text |-> Unknown,
          mode |-> "draft", target |-> 0]

Resolver == [pc: {"idle", "save", "mark", "observe"}, article: Articles \cup {0},
             action: {"use_remote", "keep_local"}, seen: Observation, base: Nat]
IdleResolver == [pc |-> "idle", article |-> 0, action |-> "keep_local",
                 seen |-> NoObservation, base |-> 0]

-----------------------------------------------------------------------------

(* The heading is the title; the provider gets the text without it, and a  *)
(* text without one has no title and is refused.                           *)
Rendered(text) == text \ {Heading}
Titled(text) == Heading \in text

Fault(op) == /\ Does(op) /\ spent.faults < MaxFaults
             /\ spent' = [spent EXCEPT !.faults = @ + 1]

(* What the code does not protect is a risk a behaviour takes or not.      *)
Quiet == \A s \in Syncs : sync[s].pc = "idle"
Pushing == push.pc # "idle" \/ run.job # "none"
MaySync == Does("sync_during_push") \/ ~Pushing
MayPush == Does("sync_during_push") \/ Quiet
Unmarked(a) ==
    \/ \E r \in Mapped(a) : identity[r].base = Unknown
    \/ run.article = a /\ run.status \in {"awaiting_approval", "running"}
    \/ \E s \in Syncs : sync[s].pc = "compare" /\ sync[s].article = a /\ sync[s].base = Unknown
MayEdit(a) ==
    /\ Does("unmarked") \/ ~Unmarked(a)
    /\ Does("edit_during_push") \/ push.article # a \/ push.pc = "queued"
(* An article with a second remote takes the text of whichever came last:  *)
(* it gets one when it has one, or when two calls make one each.           *)
RunPending(a) == run.article = a /\ (run.job # "none" \/ run.status = "awaiting_approval")
Lone(a, making) == Does("second") \/ (Mapped(a) = {} /\ ~making)

Init ==
    /\ scope \in Scopes
    /\ identity = [r \in Remotes |-> NoIdentity]
    /\ latest = [a \in Articles |-> NoObservation]
    /\ sync = [s \in Syncs |-> IdleSync]
    /\ push = IdlePush /\ run = NoRun /\ resolver = IdleResolver
    /\ mine = [a \in Articles |-> {}]
    /\ waived = {} /\ open = {}
    /\ source = [a \in Articles |-> 0]
    /\ made = 0
    /\ spent = [calls |-> 0, faults |-> 0]
    /\ article = [a \in Articles |->
           IF scope.there = {} /\ a = 1 THEN Created({Heading}, 1) ELSE NoArticle]
    /\ remote = [r \in Remotes |-> IF r \in scope.there
                                  THEN [state |-> "draft", text |-> {Heading}]
                                  ELSE [state |-> "absent", text |-> {}]]
    /\ had = [a \in Articles |-> {article[a].text}]
    /\ shown = [r \in Remotes |-> {remote[r].text}]

(* Identifiers are taken in order.                                         *)
Fresh(a) == article[a].state = "unused" /\ \A b \in 1..(a - 1) : article[b].state # "unused"
New(r) == remote[r].state = "absent" /\ \A q \in 1..(r - 1) : remote[q].state # "absent"

(* Bound: articles left when every unmapped remote has become one.         *)
Room == Cardinality({a \in Articles : article[a].state = "unused"})
        - Cardinality({r \in Remotes : identity[r].article = 0})
(* Bound: the provider takes no new article.                               *)
Full == \A r \in Remotes : remote[r].state # "absent"

SetSync(s, new) == sync' = [sync EXCEPT ![s] = new]
SetArticle(a, new) ==
    /\ article' = [article EXCEPT ![a] = new]
    /\ had' = [had EXCEPT ![a] = @ \cup {new.text}]
SetRemote(r, state, text) ==
    /\ remote' = [remote EXCEPT ![r] = [state |-> state, text |-> text]]
    /\ shown' = [shown EXCEPT ![r] = @ \cup {text}]

(* save_article_revision: an unchanged text makes no revision.             *)
Saved(a, text) ==
    IF text = article[a].text THEN article[a]
    ELSE [article[a] EXCEPT !.text = text, !.rev = @ + 1]

(* upsert_remote_article_identity refuses an article that is gone and a    *)
(* remote article that is mapped to another one.                           *)
MayMap(a, r) == Live(a) /\ identity[r].article \in {0, a}
MapTo(a, r, base) == identity' = [identity EXCEPT ![r] = [article |-> a, base |-> base]]

(* record_reconciliation_observation requires the identity.                *)
MayRecord(a, r) == Live(a) /\ identity[r].article = a
Record(a, state, r, text) ==
    latest' = [latest EXCEPT ![a] = [state |-> state, remote |-> r, text |-> text]]

-----------------------------------------------------------------------------
(* The editor, the provider's own editor, and deletions.                   *)

Edit(a) ==
    /\ Live(a) /\ MayEdit(a)
    /\ made < MaxEdits
    /\ made' = made + 1
    /\ mine' = [mine EXCEPT ![a] = @ \cup {made + 1}]
    /\ SetArticle(a, Saved(a, article[a].text \cup {made + 1}))
    /\ UNCHANGED <<scope, remote, identity, latest, calls, waived, open, shown, source, spent>>

Author(r) ==
    /\ Does("author") /\ Exists(r)
    /\ made < MaxEdits
    /\ made' = made + 1
    /\ SetRemote(r, remote[r].state, remote[r].text \cup {made + 1})
    /\ UNCHANGED <<scope, store, calls, mine, waived, open, had, source, spent>>

Post(r) ==
    /\ Does("post") /\ remote[r].state = "draft"
    /\ SetRemote(r, "published", remote[r].text)
    /\ UNCHANGED <<scope, store, calls, mine, waived, open, had, source, made, spent>>

Remove(r) ==
    /\ Does("remove") /\ Exists(r)
    /\ SetRemote(r, "deleted", remote[r].text)
    /\ UNCHANGED <<scope, store, calls, mine, waived, open, had, source, made, spent>>

(* delete_articles: identities, observations and runs go with the row.     *)
Delete(a) ==
    /\ Does("delete") /\ Live(a) /\ Room > Cardinality(Mapped(a)) - 1
    /\ article' = [article EXCEPT ![a] = [NoArticle EXCEPT !.state = "deleted"]]
    /\ identity' = [r \in Remotes |-> IF r \in Mapped(a) THEN NoIdentity ELSE identity[r]]
    /\ latest' = [latest EXCEPT ![a] = NoObservation]
    /\ run' = IF run.article = a THEN NoRun ELSE run
    /\ open' = open \ Mapped(a)
    /\ UNCHANGED <<scope, remote, sync, push, resolver, mine, waived, had, shown,
                   source, made, spent>>

-----------------------------------------------------------------------------
(* A synchronization: list, then article by article.                       *)

(* A sync job or request (about = 0), or the refresh of one article, which *)
(* synchronizes all and then looks for that one.                           *)
MayRefresh(a) == Does("refresh") /\ Live(a) /\ Mapped(a) # {}
FirstOf(a) == CHOOSE r \in Mapped(a) : \A q \in Mapped(a) : r <= q
StartSync(s, a) ==
    /\ sync[s].pc = "idle" /\ s \in scope.syncs /\ MaySync
    /\ (a = 0 /\ scope.platform # "devto") \/ MayRefresh(a)
    /\ SetSync(s, [IdleSync EXCEPT !.pc = "drafts", !.about = a,
           !.want = IF a = 0 THEN 0 ELSE FirstOf(a)])
    /\ UNCHANGED <<scope, store, remote, push, run, resolver, history>>

(* Seeded fault: the published articles are listed first.                  *)
PublishedFirst(s) ==
    IF scope.platform = "devto" THEN {"draft", "published"}
    ELSE IF sync[s].pc = "drafts" THEN {"published"} ELSE {"draft"}
Listing(s) ==
    IF scope.platform = "devto" THEN {"draft", "published"}
    ELSE IF sync[s].pc = "drafts" THEN {"draft"} ELSE {"published"}
AfterListing(s) ==
    IF sync[s].pc = "drafts" /\ scope.platform # "devto" THEN "published"
    ELSE IF scope.platform = "medium" THEN "details" ELSE "next"

(* The sync with the articles `got` fetched and the articles `lost` failed. *)
Fetched(s, got, lost) ==
    LET texts == [r \in Remotes |-> IF r \in got THEN remote[r].text ELSE sync[s].found[r]]
    IN [sync[s] EXCEPT !.found = texts, !.todo = @ \cup got, !.failed = @ \cup lost,
            !.public = (@ \ got) \cup {r \in got : remote[r].state = "published"},
            !.clean = @ /\ lost = {}]

(* One source answers: what it lists is fetched with it, except Medium's,  *)
(* whose articles are opened one by one afterwards.                        *)
ListAll(s) ==
    /\ sync[s].pc \in {"drafts", "published"}
    /\ LET there == {r \in Remotes : remote[r].state \in Listing(s)}
       IN IF scope.platform = "medium"
          THEN SetSync(s, [sync[s] EXCEPT !.pc = AfterListing(s), !.listed = @ \cup there])
          ELSE SetSync(s, [Fetched(s, there, {}) EXCEPT !.pc = AfterListing(s)])
    /\ UNCHANGED <<scope, store, remote, push, run, resolver, history>>

(* A source fails, or stalls: part of it is missing and an error says so.  *)
ListPart(s) ==
    /\ sync[s].pc \in {"drafts", "published"} /\ scope.platform # "devto"
    /\ Fault("outage")
    /\ \E got \in SUBSET {r \in Remotes : remote[r].state \in Listing(s)} :
         SetSync(s, IF scope.platform = "medium"
                    THEN [sync[s] EXCEPT !.pc = AfterListing(s), !.listed = @ \cup got,
                                         !.clean = FALSE]
                    ELSE [Fetched(s, got, {}) EXCEPT !.pc = AfterListing(s), !.clean = FALSE])
    /\ UNCHANGED <<scope, store, remote, push, run, resolver, mine, waived, open, had,
                   shown, source, made>>

(* Medium's listing is cut at its limit of 100, and nothing says so.       *)
ListLimited(s) ==
    /\ sync[s].pc \in {"drafts", "published"} /\ scope.platform = "medium"
    /\ Fault("limit")
    /\ \E got \in SUBSET {r \in Remotes : remote[r].state \in Listing(s)} :
         SetSync(s, [sync[s] EXCEPT !.pc = AfterListing(s), !.listed = @ \cup got])
    /\ UNCHANGED <<scope, store, remote, push, run, resolver, mine, waived, open, had,
                   shown, source, made>>

(* An article is fetched by itself; one that is gone, or does not load,    *)
(* is a failed article.                                                    *)
Detail(s, r) ==
    /\ sync[s].pc = "details" /\ r \in sync[s].listed
    /\ LET rest == sync[s].listed \ {r}
           with(got, lost) == [Fetched(s, got, lost) EXCEPT !.listed = rest]
       IN \/ /\ SetSync(s, IF Exists(r) THEN with({r}, {}) ELSE with({}, {r}))
             /\ UNCHANGED spent
          \/ Fault("outage") /\ SetSync(s, with({}, {r}))
    /\ UNCHANGED <<scope, store, remote, push, run, resolver, mine, waived, open, had,
                   shown, source, made>>

EndDetails(s) ==
    /\ sync[s].pc = "details" /\ sync[s].listed = {}
    /\ SetSync(s, [sync[s] EXCEPT !.pc = "next"])
    /\ UNCHANGED <<scope, store, remote, push, run, resolver, history>>

(* get_or_create_remote_article: the identity is looked up, or article and *)
(* identity are created, in one transaction; then the baseline is read.    *)
LocateKnown(s, r) ==
    /\ Live(identity[r].article)
    /\ SetSync(s, [sync[s] EXCEPT !.pc = "compare", !.todo = @ \ {r}, !.at = r,
           !.article = identity[r].article, !.created = FALSE, !.base = identity[r].base])
    /\ UNCHANGED <<article, identity, had, source>>
(* Seeded fault: the identity is left to the end of the synchronization.   *)
LocateLate(s, r) ==
    /\ ~Live(identity[r].article)
    /\ \E a \in Articles :
         /\ Fresh(a)
         /\ SetArticle(a, Created(sync[s].found[r], 1))
         /\ source' = [source EXCEPT ![a] = r]
         /\ SetSync(s, [sync[s] EXCEPT !.pc = "metadata", !.todo = @ \ {r}, !.at = r,
                !.article = a, !.created = TRUE, !.base = Unknown])
    /\ UNCHANGED identity
LocateNew(s, r) ==
    /\ ~Live(identity[r].article)
    /\ \E a \in Articles :
         /\ Fresh(a)
         /\ SetArticle(a, Created(sync[s].found[r], 1))
         /\ MapTo(a, r, Unknown)
         /\ source' = [source EXCEPT ![a] = r]
         /\ SetSync(s, [sync[s] EXCEPT !.pc = "metadata", !.todo = @ \ {r}, !.at = r,
                !.article = a, !.created = TRUE, !.base = Unknown])
Locate(s, r) ==
    /\ sync[s].pc = "next" /\ r \in sync[s].todo
    /\ LocateKnown(s, r) \/ LocateNew(s, r)
    /\ UNCHANGED <<scope, remote, latest, push, run, resolver, mine, waived, open,
                   shown, made, spent>>

(* The three-way comparison of _sync_article.                              *)
Conflicting(local, base, text) ==
    base # Unknown /\ local # base /\ text # base /\ local # text
(* Seeded fault: without a baseline nothing counts as changed.             *)
ChangedSince(local, base, text) == base # Unknown /\ base # text
Changed(local, base, text) ==
    IF base = Unknown THEN local # text ELSE base # text

Compare(s) ==
    /\ sync[s].pc = "compare"
    /\ LET me == sync[s]
           text == me.found[me.at]
           local == article[me.article].text
       IN SetSync(s, [me EXCEPT !.expected = article[me.article].rev, !.pc =
              IF ~Live(me.article) THEN "save"
              ELSE IF Conflicting(local, me.base, text) THEN "report"
              ELSE IF Changed(local, me.base, text) THEN "save" ELSE "metadata"])
    /\ UNCHANGED <<scope, store, remote, push, run, resolver, history>>

(* An article whose step raises is a failed result; the sync goes on.      *)
GiveUp(s) ==
    SetSync(s, [sync[s] EXCEPT !.pc = "next", !.failed = @ \cup {sync[s].at}, !.clean = FALSE])

(* Seeded fault: no expected revision is passed.                           *)
SaveAnyway(s) ==
    /\ sync[s].pc = "save"
    /\ LET a == sync[s].article
       IN IF Live(a)
          THEN /\ SetArticle(a, Saved(a, sync[s].found[sync[s].at]))
               /\ SetSync(s, [sync[s] EXCEPT !.pc = "metadata"])
          ELSE GiveUp(s) /\ UNCHANGED <<article, had>>
    /\ UNCHANGED <<scope, remote, identity, latest, push, run, resolver, mine, waived,
                   open, shown, source, made, spent>>
Save(s) ==
    /\ sync[s].pc = "save"
    /\ LET a == sync[s].article
       IN IF Live(a) /\ article[a].rev = sync[s].expected
          THEN /\ SetArticle(a, Saved(a, sync[s].found[sync[s].at]))
               /\ SetSync(s, [sync[s] EXCEPT !.pc = "metadata"])
          ELSE GiveUp(s) /\ UNCHANGED <<article, had>>
    /\ UNCHANGED <<scope, remote, identity, latest, push, run, resolver, mine, waived,
                   open, shown, source, made, spent>>

(* sync_remote_article_metadata: only a draft keeps its draft_id.          *)
Metadata(s) ==
    /\ sync[s].pc = "metadata"
    /\ LET me == sync[s]
           public == me.at \in me.public
       IN IF Live(me.article)
          THEN /\ article' = [article EXCEPT
                       ![me.article].status = IF public THEN "published" ELSE "draft",
                       ![me.article].draftId = IF public THEN 0 ELSE me.at]
               /\ SetSync(s, [me EXCEPT !.pc = "mark"])
          ELSE GiveUp(s) /\ UNCHANGED article
    /\ UNCHANGED <<scope, remote, identity, latest, push, run, resolver, history>>

(* Seeded fault: the baseline is the local text.                           *)
MarkLocal(s) ==
    /\ sync[s].pc = "mark" /\ MayMap(sync[s].article, sync[s].at)
    /\ MapTo(sync[s].article, sync[s].at, article[sync[s].article].text)
    /\ SetSync(s, [sync[s] EXCEPT !.pc = "observe"])
    /\ UNCHANGED <<scope, article, remote, latest, push, run, resolver, history>>

(* The cover is downloaded again when it changed; a failure makes the      *)
(* result partial, not failed.                                             *)
CoverFails == Fault("outage")
Mark(s) ==
    /\ sync[s].pc = "mark"
    /\ LET me == sync[s]
       IN \/ /\ MayMap(me.article, me.at)
             /\ MapTo(me.article, me.at, me.found[me.at])
             /\ \/ SetSync(s, [me EXCEPT !.pc = "observe"]) /\ UNCHANGED spent
                \/ CoverFails /\ SetSync(s, [me EXCEPT !.pc = "observe", !.clean = FALSE])
          \/ /\ ~MayMap(me.article, me.at)
             /\ GiveUp(s) /\ UNCHANGED <<identity, spent>>
    /\ UNCHANGED <<scope, article, remote, latest, push, run, resolver, mine, waived,
                   open, had, shown, source, made>>

Observe(s) ==
    /\ sync[s].pc = "observe"
    /\ LET me == sync[s]
           text == me.found[me.at]
       IN IF MayRecord(me.article, me.at)
          THEN /\ Record(me.article, IF article[me.article].text = text
                                     THEN "in_sync" ELSE "local_ahead", me.at, text)
               /\ open' = open \ {me.at}
               /\ SetSync(s, [me EXCEPT !.pc = "next"])
          ELSE GiveUp(s) /\ UNCHANGED <<latest, open>>
    /\ UNCHANGED <<scope, article, remote, identity, push, run, resolver, mine, waived,
                   had, shown, source, made, spent>>

Report(s) ==
    /\ sync[s].pc = "report"
    /\ LET me == sync[s]
       IN IF MayRecord(me.article, me.at)
          THEN /\ Record(me.article, "conflict", me.at, me.found[me.at])
               /\ open' = open \cup {me.at}
               /\ SetSync(s, [me EXCEPT !.pc = "next", !.clean = FALSE])
          ELSE GiveUp(s) /\ UNCHANGED <<latest, open>>
    /\ UNCHANGED <<scope, article, remote, identity, push, run, resolver, mine, waived,
                   had, shown, source, made, spent>>

(* Seeded fault: the availability is stored as the state.                  *)
Availability(s) == IF sync[s].clean THEN "deleted" ELSE "inaccessible"
(* A refresh whose article did not come concludes from its absence.        *)
Absence(s) == IF sync[s].clean THEN "remote_deleted" ELSE "inaccessible"
Missing(s) ==
    \/ sync[s].found[sync[s].want] = Unknown
    \/ sync[s].want \in sync[s].failed
EndSync(s) ==
    /\ sync[s].pc = "next" /\ sync[s].todo = {}
    /\ LET me == sync[s]
       IN IF me.about # 0 /\ Missing(s) /\ MayRecord(me.about, me.want)
          THEN Record(me.about, Absence(s), me.want, Unknown)
          ELSE UNCHANGED latest
    /\ SetSync(s, IdleSync)
    /\ UNCHANGED <<scope, article, remote, identity, push, run, resolver, history>>

(* RunnerUnavailable, or DEV.to's errors: nothing was fetched.             *)
Unreachable(s) ==
    /\ sync[s].pc = "drafts"
    /\ Fault("outage")
    /\ IF sync[s].about # 0 /\ MayRecord(sync[s].about, sync[s].want)
       THEN Record(sync[s].about, "inaccessible", sync[s].want, Unknown)
       ELSE UNCHANGED latest
    /\ SetSync(s, IdleSync)
    /\ UNCHANGED <<scope, article, remote, identity, push, run, resolver, mine, waived,
                   open, had, shown, source, made>>

CrashSync(s) ==
    /\ sync[s].pc # "idle"
    /\ Fault("crash")
    /\ SetSync(s, IdleSync)
    /\ UNCHANGED <<scope, store, remote, push, run, resolver, mine, waived, open, had,
                   shown, source, made>>

SyncStep(s) ==
    \/ ListAll(s) \/ ListPart(s) \/ ListLimited(s) \/ EndDetails(s)
    \/ \E r \in Remotes : Detail(s, r) \/ Locate(s, r)
    \/ Compare(s) \/ Save(s) \/ Metadata(s) \/ Mark(s) \/ Observe(s) \/ Report(s)
    \/ EndSync(s) \/ Unreachable(s)

-----------------------------------------------------------------------------
(* The user resolves the newest observation, from the revision he sees.    *)

StartResolve(a, action) ==
    /\ Does("resolve") /\ resolver.pc = "idle"
    /\ Live(a) /\ latest[a].state \in Available
    /\ spent.calls < MaxCalls
    /\ spent' = [spent EXCEPT !.calls = @ + 1]
    /\ resolver' = [pc |-> IF action = "use_remote" THEN "save" ELSE "observe",
                    article |-> a, action |-> action, seen |-> latest[a],
                    base |-> article[a].rev]
    /\ UNCHANGED <<scope, store, remote, sync, push, run, mine, waived, open, had, shown,
                   source, made>>

UseRemote ==
    /\ resolver.pc = "save"
    /\ LET a == resolver.article
           text == resolver.seen.text
       IN IF Live(a) /\ article[a].rev = resolver.base
          THEN /\ SetArticle(a, Saved(a, text))
               /\ waived' = waived \cup (article[a].text \ text)
               /\ resolver' = [resolver EXCEPT !.pc = "mark"]
          ELSE resolver' = IdleResolver /\ UNCHANGED <<article, had, waived>>
    /\ UNCHANGED <<scope, remote, identity, latest, sync, push, run, mine, open, shown,
                   source, made, spent>>

MarkResolved ==
    /\ resolver.pc = "mark"
    /\ LET a == resolver.article
           r == resolver.seen.remote
       IN IF MayMap(a, r)
          THEN /\ MapTo(a, r, resolver.seen.text)
               /\ resolver' = [resolver EXCEPT !.pc = "observe"]
          ELSE resolver' = IdleResolver /\ UNCHANGED identity
    /\ UNCHANGED <<scope, article, remote, latest, sync, push, run, history>>

(* Keeping the local version leaves the baseline as it is.                 *)
ObserveResolved ==
    /\ resolver.pc = "observe"
    /\ LET a == resolver.article
           r == resolver.seen.remote
       IN IF MayRecord(a, r)
          THEN /\ Record(a, IF resolver.action = "use_remote" THEN "in_sync"
                            ELSE "local_ahead", r, resolver.seen.text)
               /\ open' = open \ {r}
          ELSE UNCHANGED <<latest, open>>
    /\ resolver' = IdleResolver
    /\ UNCHANGED <<scope, article, remote, identity, sync, push, run, mine, waived, had,
                   shown, source, made, spent>>

CrashResolve ==
    /\ resolver.pc # "idle"
    /\ Fault("crash")
    /\ resolver' = IdleResolver
    /\ UNCHANGED <<scope, store, remote, sync, push, run, mine, waived, open, had, shown,
                   source, made>>

ResolveStep == UseRemote \/ MarkResolved \/ ObserveResolved

-----------------------------------------------------------------------------
(* A push: the gate, then handle_push.  The effect itself, with what a     *)
(* crash inside it does, is DurableJobs'.                                  *)

Gate(a) == latest[a].state # "conflict"

RequestPush(a) ==
    /\ Does("push") /\ push.pc = "idle" /\ MayPush
    /\ Live(a) /\ Gate(a)
    /\ article[a].draftId # 0 \/ Lone(a, RunPending(a))
    /\ spent.calls < MaxCalls
    /\ spent' = [spent EXCEPT !.calls = @ + 1]
    /\ article' = [article EXCEPT ![a].status = "pending"]
    /\ push' = [IdlePush EXCEPT !.pc = "queued", !.article = a]
    /\ UNCHANGED <<scope, remote, identity, latest, sync, run, resolver, mine, waived,
                   open, had, shown, source, made>>

ReadForPush ==
    /\ push.pc = "queued"
    /\ push' = IF Live(push.article)
               THEN [push EXCEPT !.pc = "ready", !.text = article[push.article].text,
                                 !.target = article[push.article].draftId]
               ELSE IdlePush
    /\ UNCHANGED <<scope, store, remote, sync, run, resolver, history>>

(* Which article at the provider is updated: Hashnode has drafts only.     *)
AcceptsArticle(r) == scope.platform = "devto" /\ Exists(r)
AcceptsDraft(r) == scope.platform = "hashnode" /\ remote[r].state = "draft"
Accepts(r) == AcceptsArticle(r) \/ AcceptsDraft(r)
HasToken == ~Does("tokenless")
Writes == scope.platform # "medium" /\ HasToken

(* Medium's push and one without a token only claim to have written.       *)
ClaimPush ==
    /\ push.pc = "ready" /\ ~Writes
    /\ push' = [push EXCEPT !.pc = "sent", !.result = push.target]
    /\ UNCHANGED <<scope, store, remote, sync, run, resolver, history>>

(* The draft is updated, or created when the article has none.             *)
UpdateDraft(r) == push.target = r /\ Accepts(r)
CreateDraft(r) == push.target = 0 /\ New(r)
WriteRemote(r) ==
    /\ push.pc = "ready" /\ Writes /\ Titled(push.text)
    /\ UpdateDraft(r) \/ CreateDraft(r)
    /\ SetRemote(r, "draft", Rendered(push.text))
OperatePush ==
    /\ \E r \in Remotes :
         /\ WriteRemote(r)
         /\ push' = [push EXCEPT !.pc = "sent", !.result = r]
    /\ UNCHANGED <<scope, store, sync, run, resolver, mine, waived, open, had, source,
                   made, spent>>

(* The operation raises: its effect is in doubt, the job parks, and the    *)
(* destination stays pending.                                              *)
OperationFails ==
    /\ push.pc = "ready" /\ Writes
    /\ \/ /\ ~Titled(push.text) \/ IF push.target = 0 THEN Full ELSE ~Accepts(push.target)
          /\ UNCHANGED <<remote, shown, spent>>
       \/ /\ Fault("outage")
          /\ (\E r \in Remotes : WriteRemote(r)) \/ UNCHANGED <<remote, shown>>
    /\ push' = IdlePush
    /\ UNCHANGED <<scope, store, sync, run, resolver, mine, waived, open, had, source, made>>

(* apply_push_result keeps the draft_id when there is no new one.          *)
ApplyPush ==
    /\ push.pc = "sent"
    /\ IF Live(push.article)
       THEN article' = [article EXCEPT ![push.article].status = "draft",
                            ![push.article].draftId = IF push.result = 0 THEN @ ELSE push.result]
       ELSE UNCHANGED article
    /\ push' = IF Live(push.article) /\ push.result # 0 /\ scope.platform # "medium"
               THEN [push EXCEPT !.pc = "applied"] ELSE IdlePush
    /\ UNCHANGED <<scope, remote, identity, latest, sync, run, resolver, history>>

(* The baseline is the article's text now, not the text that was sent.     *)
MarkPush ==
    /\ push.pc = "applied"
    /\ IF MayMap(push.article, push.result)
       THEN /\ MapTo(push.article, push.result, article[push.article].text)
            /\ push' = [push EXCEPT !.pc = "marked", !.text = article[push.article].text]
       ELSE push' = IdlePush /\ UNCHANGED identity
    /\ UNCHANGED <<scope, article, remote, latest, sync, run, resolver, history>>

ObservePush ==
    /\ push.pc = "marked"
    /\ IF MayRecord(push.article, push.result)
       THEN /\ Record(push.article, "in_sync", push.result, push.text)
            /\ open' = open \ {push.result}
       ELSE UNCHANGED <<latest, open>>
    /\ push' = IdlePush
    /\ UNCHANGED <<scope, article, remote, identity, sync, run, resolver, mine, waived,
                   had, shown, source, made, spent>>

(* The next attempt replays the stored result of a completed effect.       *)
CrashPush ==
    /\ push.pc \in {"ready", "sent", "applied", "marked"}
    /\ Fault("crash")
    /\ push' = IF push.pc = "ready" THEN [push EXCEPT !.pc = "queued"]
               ELSE [push EXCEPT !.pc = "sent"]
    /\ UNCHANGED <<scope, store, remote, sync, run, resolver, mine, waived, open, had,
                   shown, source, made>>

PushStep ==
    \/ ReadForPush \/ ClaimPush \/ OperatePush \/ OperationFails
    \/ ApplyPush \/ MarkPush \/ ObservePush

-----------------------------------------------------------------------------
(* Browser publishing: a request freezes a revision, an approval starts    *)
(* the run, a job executes it.                                             *)

RequestRun(a, mode) ==
    /\ Does("publish") /\ scope.platform # "devto"
    /\ run.job = "none" /\ Live(a)
    /\ scope.platform = "medium" \/ Lone(a, push.article = a)
    /\ spent.calls < MaxCalls
    /\ spent' = [spent EXCEPT !.calls = @ + 1]
    /\ run' = [NoRun EXCEPT !.status = "awaiting_approval", !.article = a,
                   !.text = article[a].text, !.mode = mode]
    /\ UNCHANGED <<scope, store, remote, sync, push, resolver, mine, waived, open, had,
                   shown, source, made>>

ApproveRun ==
    /\ run.status = "awaiting_approval" /\ MayPush
    /\ run' = [run EXCEPT !.status = "running", !.job = "approved"]
    /\ UNCHANGED <<scope, store, remote, sync, push, resolver, history>>

CreateRunJob ==
    /\ run.job = "approved"
    /\ run' = [run EXCEPT !.job = "queued"]
    /\ UNCHANGED <<scope, store, remote, sync, push, resolver, history>>

(* execute_run: the destination's draft, or any mapped remote article.     *)
ReadForRun ==
    /\ run.job = "queued"
    /\ run' = [run EXCEPT !.job = "ready", !.target =
           IF article[run.article].draftId # 0 THEN article[run.article].draftId
           ELSE IF Mapped(run.article) # {} THEN FirstOf(run.article) ELSE 0]
    /\ UNCHANGED <<scope, store, remote, sync, push, resolver, history>>

(* The browser login is gone.                                              *)
LoginMissing ==
    /\ run.job = "queued" /\ Fault("outage")
    /\ run' = [run EXCEPT !.job = "none", !.status = "failed"]
    /\ UNCHANGED <<scope, store, remote, sync, push, resolver, mine, waived, open, had,
                   shown, source, made>>

(* Medium writes the existing story, without its title, and one that was   *)
(* public stays public; Hashnode always starts a new draft.                *)
WriteStory(r) ==
    /\ scope.platform = "medium"
    /\ IF run.target # 0 THEN r = run.target /\ Exists(r) ELSE New(r)
    /\ SetRemote(r, IF run.mode = "publish" \/ remote[r].state = "published"
                    THEN "published" ELSE "draft", Rendered(run.text))
UploadDraft(r) ==
    /\ scope.platform = "hashnode" /\ New(r)
    /\ SetRemote(r, IF run.mode = "publish" THEN "published" ELSE "draft", run.text)
Upload(r) == WriteStory(r) \/ UploadDraft(r)
OperateRun ==
    /\ run.job = "ready"
    /\ \E r \in Remotes :
         Upload(r) /\ run' = [run EXCEPT !.job = "sent", !.target = r]
    /\ UNCHANGED <<scope, store, sync, push, resolver, mine, waived, open, had, source,
                   made, spent>>
RunRefused ==
    /\ run.job = "ready"
    /\ \/ /\ IF scope.platform = "medium" /\ run.target # 0 THEN ~Exists(run.target) ELSE Full
          /\ UNCHANGED <<remote, shown, spent>>
       \/ /\ Fault("outage")
          /\ (\E r \in Remotes : Upload(r)) \/ UNCHANGED <<remote, shown>>
    /\ run' = [run EXCEPT !.job = "refused"]
    /\ UNCHANGED <<scope, store, sync, push, resolver, mine, waived, open, had, source, made>>

(* A new remote article gets an identity without a baseline.               *)
IdentifyRun ==
    /\ run.job = "sent"
    /\ IF identity[run.target].article = 0
       THEN MapTo(run.article, run.target, Unknown) ELSE UNCHANGED identity
    /\ run' = [run EXCEPT !.job = "marked"]
    /\ UNCHANGED <<scope, article, remote, latest, sync, push, resolver, history>>

ApplyRun ==
    /\ run.job = "marked"
    /\ article' = [article EXCEPT ![run.article].draftId = run.target,
           ![run.article].status = IF run.mode = "publish" THEN "published" ELSE "draft"]
    /\ run' = [run EXCEPT !.job = "applied"]
    /\ UNCHANGED <<scope, remote, identity, latest, sync, push, resolver, history>>

(* Seeded fault: a refused operation only marks the destination.           *)
CompleteApplied ==
    /\ run.job \in {"applied", "refused"}
    /\ article' = IF run.job = "applied" THEN article
                  ELSE [article EXCEPT ![run.article].status = "error"]
    /\ run' = [run EXCEPT !.job = "none",
                   !.status = IF run.job = "applied" THEN "completed" ELSE @]
    /\ UNCHANGED <<scope, remote, identity, latest, sync, push, resolver, history>>

CompleteRun ==
    /\ run.job \in {"applied", "refused"}
    /\ article' = IF run.job = "applied" THEN article
                  ELSE [article EXCEPT ![run.article].status = "error"]
    /\ run' = [run EXCEPT !.job = "none",
                   !.status = IF run.job = "applied" THEN "completed" ELSE "failed"]
    /\ UNCHANGED <<scope, remote, identity, latest, sync, push, resolver, history>>

(* The request dies before it makes the job, or the worker while the       *)
(* effect is in doubt: nobody takes the run up again.                      *)
CrashRun ==
    /\ run.job \notin {"none", "queued"}
    /\ Fault("crash")
    /\ run' = [run EXCEPT !.job = "none"]
    /\ UNCHANGED <<scope, store, remote, sync, push, resolver, mine, waived, open, had,
                   shown, source, made>>

RunStep ==
    \/ CreateRunJob \/ ReadForRun \/ LoginMissing \/ OperateRun \/ RunRefused
    \/ IdentifyRun \/ ApplyRun \/ CompleteRun

(* POST /import of what the platform lists: the remote article joins an    *)
(* article of the same title, or becomes one; neither gets an identity.    *)
Offered(r) == Exists(r)
MergeInto(a, r) ==
    /\ Live(a)
    /\ article' = [article EXCEPT ![a].draftId = r, ![a].status = remote[r].state]
    /\ UNCHANGED had
CreateFrom(a, r) ==
    /\ Fresh(a) /\ Room > 0
    /\ SetArticle(a, Created(remote[r].text, 2))
Import(r, a) ==
    /\ Does("import") /\ Offered(r)
    /\ MergeInto(a, r) \/ CreateFrom(a, r)
    /\ UNCHANGED <<scope, remote, identity, latest, calls, mine, waived, open, shown,
                   source, made, spent>>

-----------------------------------------------------------------------------

Crash == CrashResolve \/ CrashPush \/ CrashRun \/ \E s \in Syncs : CrashSync(s)
Next ==
    \/ \E a \in Articles : Edit(a) \/ Delete(a) \/ RequestPush(a)
    \/ \E a \in Articles, action \in {"use_remote", "keep_local"} : StartResolve(a, action)
    \/ \E a \in Articles, mode \in {"draft", "publish"} : RequestRun(a, mode)
    \/ \E r \in Remotes : Author(r) \/ Post(r) \/ Remove(r)
    \/ \E r \in Remotes, a \in Articles : Import(r, a)
    \/ \E s \in Syncs, a \in Articles \cup {0} : StartSync(s, a)
    \/ \E s \in Syncs : SyncStep(s)
    \/ ResolveStep \/ PushStep \/ ApproveRun \/ RunStep \/ Crash

Spec == Init /\ [][Next]_vars

(* A schedule starts synchronizations again and again, and no call stops   *)
(* between two of its steps.                                               *)
Fairness ==
    /\ \A s \in Syncs : WF_vars(StartSync(s, 0)) /\ WF_vars(SyncStep(s))
    /\ WF_vars(ResolveStep) /\ WF_vars(PushStep) /\ WF_vars(RunStep)
FairSpec == Spec /\ Fairness

-----------------------------------------------------------------------------

TypeOK ==
    /\ scope \in Scopes
    /\ article \in [Articles -> Article]
    /\ remote \in [Remotes -> Remote]
    /\ identity \in [Remotes -> Identity]
    /\ latest \in [Articles -> Observation]
    /\ sync \in [Syncs -> Sync]
    /\ push \in Push /\ run \in Run /\ resolver \in Resolver
    /\ mine \in [Articles -> SUBSET Edits]
    /\ waived \in Text /\ open \subseteq Remotes
    /\ had \in [Articles -> SUBSET Text] /\ shown \in [Remotes -> SUBSET Text]
    /\ source \in [Articles -> Remotes \cup {0}]
    /\ made \in 0..MaxEdits
    /\ spent \in [calls: 0..MaxCalls, faults: 0..MaxFaults]

(* No synchronization takes an edit out of the article that the user made  *)
(* in the editor, whatever the comparison of local, remote and baseline    *)
(* came to and whatever overlapped it, unless he chose the remote version. *)
NoSilentOverwrite ==
    \A a \in Articles : Live(a) => mine[a] \subseteq article[a].text \cup waived

(* A baseline is a text both sides had: the article as it is, the remote   *)
(* as it is or as a push rendered it.  The three-way comparison rests on   *)
(* it, and four writers set it.                                            *)
BaselineWasShared ==
    \A r \in Remotes : LET base == identity[r].base IN
        base # Unknown => /\ base \in had[identity[r].article]
                          /\ {base, Rendered(base)} \cap shown[r] # {}

(* A refresh calls a remote article deleted only when it is: drafts and    *)
(* published articles are listed one after the other, an article may be    *)
(* published in between, and sources fail, wholly or in part.              *)
DeletedIsGone ==
    \A a \in Articles : latest[a].state = "remote_deleted" =>
        remote[latest[a].remote].state = "deleted"

(* Synchronizations that overlap, crash and start again make one article   *)
(* of a remote article.                                                    *)
SyncImportsOnce ==
    \A a, b \in Articles :
        Live(a) /\ Live(b) /\ source[a] = source[b] /\ source[a] # 0 => a = b

(* What an author changes at the provider reaches the article, or is       *)
(* reported as a conflict, however often the source fails meanwhile: on a  *)
(* platform a schedule synchronizes, one synchronization at a time.  Of    *)
(* two that overlap, the one that fetched first may save last: then the    *)
(* older text stays, and counts as a local change for ever after.          *)
Arrived(r) ==
    \/ ~Exists(r) \/ r \in open
    \/ /\ Live(identity[r].article)
       /\ remote[r].text \ {Heading} \subseteq article[identity[r].article].text \cup waived
RemoteEditsArrive ==
    scope.platform # "devto" /\ Cardinality(scope.syncs) = 1 =>
        \A r \in Remotes : []<>Arrived(r)

(* An approved run ends, completed or failed, when nothing crashes.        *)
ApprovedRunEnds == ~Does("crash") /\ run.status = "running" ~> run.status # "running"

=============================================================================
