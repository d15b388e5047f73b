---------------------------- MODULE RemoteProofs ----------------------------
(***************************************************************************)
(* What RemoteSync keeps for every number of synchronizations, articles,   *)
(* edits, calls and faults: its types, one article per remote article, and *)
(* refreshes that call an article deleted only when it is.                 *)
(***************************************************************************)
EXTENDS RemoteSync, WellFoundedInduction, TLAPS

(* The article's row was made, and perhaps deleted since.                  *)
Once(a) == a \in Articles /\ article[a].state # "unused"
There(r) == remote[r].state # "absent"

(* Rows refer to what exists.                                              *)
ArticleFrame ==
    \A a \in Articles :
        /\ ~Once(a) => article[a] = NoArticle /\ source[a] = 0 /\ mine[a] = {}
        /\ Live(a) => article[a].text \in had[a]
        /\ article[a].draftId # 0 => There(article[a].draftId)

RemoteFrame ==
    \A r \in Remotes :
        /\ identity[r].article = 0 => identity[r].base = Unknown
        /\ identity[r].article # 0 => Live(identity[r].article) /\ There(r)
        /\ remote[r].text \in shown[r]

LatestFrame ==
    \A a \in Articles : latest[a].state # "none" =>
        /\ latest[a].remote \in Remotes /\ identity[latest[a].remote].article = a
        /\ latest[a].state \in Available => latest[a].text \in Text

(* Calls under way hold what they read before.                             *)
AtOne == {"compare", "save", "metadata", "mark", "observe", "report"}
SyncFrame(s) ==
    LET me == sync[s]
    IN /\ me.pc = "idle" => me = IdleSync
       /\ me.pc \in AtOne => /\ me.at \in Remotes /\ Once(me.article)
                             /\ me.found[me.at] \in Text
                             /\ Live(me.article) => identity[me.at].article = me.article
       /\ \A r \in me.todo : me.found[r] \in Text
       /\ \A r \in Remotes : me.found[r] \in Text => There(r) /\ me.found[r] \in shown[r]
       /\ me.about # 0 => Once(me.about) /\ me.want \in Remotes /\ There(me.want)
       /\ me.about = 0 => me.want = 0

PushFrame ==
    /\ push.pc = "idle" => push = IdlePush
    /\ push.pc # "idle" => Once(push.article)
    /\ push.pc \notin {"idle", "queued"} => push.text \in Text
    /\ push.pc \in {"applied", "marked"} => push.result # 0 /\ scope.platform # "medium"
    /\ push.target # 0 => There(push.target)
    /\ push.result # 0 => There(push.result)

RunFrame ==
    /\ run.article # 0 => Live(run.article) /\ run.text \in Text
    /\ run.job # "none" => run.status = "running"
    /\ run.status \in {"awaiting_approval", "running"} => run.article # 0
    /\ run.target # 0 => There(run.target)
    /\ run.job \in {"sent", "marked", "applied"} => run.target # 0

ResolverFrame ==
    resolver.pc # "idle" =>
        /\ Once(resolver.article) /\ resolver.seen.remote \in Remotes
        /\ resolver.seen.text \in Text
        /\ Live(resolver.article) =>
              identity[resolver.seen.remote].article = resolver.article

FrameOK ==
    /\ ArticleFrame /\ RemoteFrame /\ LatestFrame
    /\ \A s \in Syncs : SyncFrame(s)
    /\ PushFrame /\ RunFrame /\ ResolverFrame

RemoteInv == TypeOK /\ FrameOK

-----------------------------------------------------------------------------

(* The live article a synchronization made of a remote one is mapped to it. *)
SourceIsMapped ==
    \A a \in Articles : Live(a) /\ source[a] # 0 => identity[source[a]].article = a

(* What a refresh has passed without finding its article: until it ends,   *)
(* the article is in what it fetched or will fetch, or is gone.            *)
Passed(s) ==
    LET me == sync[s]
        got == me.found[me.want] # Unknown
        stage(states) == remote[me.want].state \in states
    IN me.clean /\ me.want # 0 =>
          /\ me.pc = "published" =>
                got \/ me.want \in me.listed \/ stage({"published", "deleted"})
          /\ me.pc = "details" => got \/ me.want \in me.listed \/ stage({"deleted"})
          /\ me.pc \in AtOne \cup {"next"} => got \/ stage({"deleted"})
          /\ me.want \notin me.failed
NothingMissed ==
    /\ \A s \in Syncs : /\ Passed(s)
                        /\ scope.platform # "medium" => sync[s].listed = {}
                        /\ scope.platform = "devto" => sync[s].pc # "published"
    /\ DeletedIsGone

-----------------------------------------------------------------------------
(* Types.                                                                  *)

(* The first rows and calls have their types.                              *)
LEMMA Blank ==
    /\ {} \in Text /\ {Heading} \in Text /\ Unknown \notin Text
    /\ 0 \notin Articles /\ 0 \notin Remotes
    /\ NoArticle \in Article /\ NoIdentity \in Identity /\ NoObservation \in Observation
    /\ IdleSync \in Sync /\ IdlePush \in Push /\ NoRun \in Run /\ IdleResolver \in Resolver
<1>1. MaxEdits \in Nat
    BY RemoteAssumption
<1>2. {} \in Text /\ {Heading} \in Text /\ Unknown \notin Text
    BY <1>1 DEF Text, Edits, Heading, Unknown
<1>3. 0 \notin Articles /\ 0 \notin Remotes
    BY DEF Articles, Remotes
<1>4. NoArticle \in Article /\ NoIdentity \in Identity /\ NoObservation \in Observation
    BY <1>2 DEF NoArticle, Article, Statuses, NoIdentity, Identity, NoObservation,
                Observation, States
<1>5. IdleSync \in Sync
    BY <1>2 DEF IdleSync, Sync
<1>6. IdlePush \in Push /\ NoRun \in Run
    BY <1>2 DEF IdlePush, Push, NoRun, Run
<1>7. IdleResolver \in Resolver
    BY <1>4 DEF IdleResolver, Resolver
<1> QED BY <1>2, <1>3, <1>4, <1>5, <1>6, <1>7

(* A set of numbers has a least member.                                    *)
LEMMA LeastMember ==
    ASSUME NEW S \in SUBSET Nat, S # {}
    PROVE  \E p \in S : \A q \in S : p <= q
<1>1. IsWellFoundedOn({ss \in Nat \X Nat : ss[1] < ss[2]}, Nat)
    BY NatLessThanWellFounded DEF OpToRel
<1>2. PICK p \in S : \A q \in S : ~(<<q, p>> \in {ss \in Nat \X Nat : ss[1] < ss[2]})
    BY <1>1, WFMin
<1>3. \A q \in S : p <= q
    <2>1. ASSUME NEW q \in S, ~(p <= q) PROVE FALSE
        <3>1. <<q, p>> \in {ss \in Nat \X Nat : ss[1] < ss[2]}
            BY <2>1
        <3> QED BY <1>2, <3>1
    <2> QED BY <2>1
<1> QED BY <1>3

LEMMA FirstIsMapped ==
    ASSUME NEW a, Mapped(a) # {}
    PROVE  FirstOf(a) \in Mapped(a)
<1>1. Mapped(a) \in SUBSET Nat
    BY DEF Mapped, Remotes
<1>2. \E r \in Mapped(a) : \A q \in Mapped(a) : r <= q
    BY <1>1, LeastMember
<1> QED BY <1>2 DEF FirstOf

(* What the writes of the store and the counters keep.                     *)
LEMMA ArticleTypes ==
    ASSUME TypeOK, NEW a
    PROVE  /\ \A text \in Text : a \in Articles => Saved(a, text) \in Article
           /\ \A text \in Text, rev \in Nat : Created(text, rev) \in Article
           /\ \A new \in Article : SetArticle(a, new) =>
                 article' \in [Articles -> Article] /\ had' \in [Articles -> SUBSET Text]
<1>1. a \in Articles => article[a] \in Article
    BY DEF TypeOK
<1>2. ASSUME NEW text \in Text, a \in Articles PROVE Saved(a, text) \in Article
    <2>0. article[a].rev + 1 \in Nat
        BY <1>1, <1>2 DEF Article
    <2>1. [article[a] EXCEPT !.text = text, !.rev = article[a].rev + 1] \in Article
        BY <1>1, <1>2, <2>0 DEF Article
    <2> QED BY <1>1, <1>2, <2>1 DEF Saved
<1>3. \A text \in Text, rev \in Nat : Created(text, rev) \in Article
    BY Blank DEF Created, Article
<1>4. \A new \in Article : new.text \in Text
    BY DEF Article
<1>5. ASSUME NEW new \in Article, SetArticle(a, new)
      PROVE  article' \in [Articles -> Article] /\ had' \in [Articles -> SUBSET Text]
    <2>1. article \in [Articles -> Article] /\ had \in [Articles -> SUBSET Text]
        BY DEF TypeOK
    <2>2. new.text \in Text
        BY <1>4
    <2>3. article' \in [Articles -> Article]
        BY <1>5, <2>1 DEF SetArticle
    <2>4. had' \in [Articles -> SUBSET Text]
        BY <1>5, <2>1, <2>2 DEF SetArticle
    <2> QED BY <2>3, <2>4
<1> QED BY <1>2, <1>3, <1>5

LEMMA RemoteTypes ==
    ASSUME TypeOK, NEW r, NEW state \in {"draft", "published", "deleted"}, NEW text \in Text,
           SetRemote(r, state, text)
    PROVE  remote' \in [Remotes -> Remote] /\ shown' \in [Remotes -> SUBSET Text]
<1>1. [state |-> state, text |-> text] \in Remote
    BY DEF Remote
<1> QED BY <1>1 DEF SetRemote, TypeOK

LEMMA SpendTypes ==
    ASSUME TypeOK
    PROVE  /\ \A op : Fault(op) => spent' \in [calls: 0..MaxCalls, faults: 0..MaxFaults]
           /\ spent.calls < MaxCalls =>
                [spent EXCEPT !.calls = @ + 1] \in [calls: 0..MaxCalls, faults: 0..MaxFaults]
BY RemoteAssumption DEF TypeOK, Fault

Stages == {"drafts", "published", "details", "next"} \cup AtOne

(* A synchronization's moves lead to its states.                           *)
LEMMA SyncMoves ==
    ASSUME NEW me \in Sync
    PROVE  /\ \A pc \in Stages, clean \in BOOLEAN :
                [me EXCEPT !.pc = pc, !.clean = clean] \in Sync
           /\ \A pc \in Stages : [me EXCEPT !.pc = pc] \in Sync
           /\ \A pc \in AtOne, rev \in Nat : [me EXCEPT !.expected = rev, !.pc = pc] \in Sync
           /\ \A pc \in Stages, listed \in SUBSET Remotes :
                [me EXCEPT !.pc = pc, !.listed = listed] \in Sync
           /\ \A pc \in Stages, listed \in SUBSET Remotes :
                [me EXCEPT !.pc = pc, !.listed = listed, !.clean = FALSE] \in Sync
           /\ \A listed \in SUBSET Remotes : [me EXCEPT !.listed = listed] \in Sync
           /\ \A failed \in SUBSET Remotes :
                [me EXCEPT !.pc = "next", !.failed = failed, !.clean = FALSE] \in Sync
           /\ \A todo \in SUBSET Remotes, at \in Remotes, a \in Articles, created \in BOOLEAN,
             base \in Text \cup {Unknown}, pc \in AtOne :
                [me EXCEPT !.pc = pc, !.todo = todo, !.at = at, !.article = a,
                           !.created = created, !.base = base] \in Sync
           /\ \A found \in [Remotes -> Text \cup {Unknown}], public, todo, failed \in SUBSET Remotes,
             clean \in BOOLEAN :
                [me EXCEPT !.found = found, !.todo = todo, !.failed = failed,
                           !.public = public, !.clean = clean] \in Sync
<1> USE DEF Stages, AtOne
<1>1. \A pc \in Stages, clean \in BOOLEAN :
                [me EXCEPT !.pc = pc, !.clean = clean] \in Sync
    BY DEF Sync
<1>2. \A pc \in Stages : [me EXCEPT !.pc = pc] \in Sync
    BY DEF Sync
<1>3. \A pc \in AtOne, rev \in Nat : [me EXCEPT !.expected = rev, !.pc = pc] \in Sync
    BY DEF Sync
<1>4. \A pc \in Stages, listed \in SUBSET Remotes :
                [me EXCEPT !.pc = pc, !.listed = listed] \in Sync
    BY DEF Sync
<1>5. \A pc \in Stages, listed \in SUBSET Remotes :
                [me EXCEPT !.pc = pc, !.listed = listed, !.clean = FALSE] \in Sync
    BY DEF Sync
<1>6. \A listed \in SUBSET Remotes : [me EXCEPT !.listed = listed] \in Sync
    BY DEF Sync
<1>7. \A failed \in SUBSET Remotes :
                [me EXCEPT !.pc = "next", !.failed = failed, !.clean = FALSE] \in Sync
    BY DEF Sync
<1>8. ASSUME NEW todo \in SUBSET Remotes, NEW at \in Remotes, NEW a \in Articles,
             NEW created \in BOOLEAN, NEW base \in Text \cup {Unknown}, NEW pc \in AtOne
      PROVE  [me EXCEPT !.pc = pc, !.todo = todo, !.at = at, !.article = a,
                        !.created = created, !.base = base] \in Sync
    BY DEF Sync
<1>9. \A found \in [Remotes -> Text \cup {Unknown}], public, todo, failed \in SUBSET Remotes,
             clean \in BOOLEAN :
                [me EXCEPT !.found = found, !.todo = todo, !.failed = failed,
                           !.public = public, !.clean = clean] \in Sync
    BY DEF Sync
<1> QED BY <1>1, <1>2, <1>3, <1>4, <1>5, <1>6, <1>7, <1>8, <1>9

LEMMA FetchedTypes ==
    ASSUME TypeOK, NEW s \in Syncs, NEW got \in SUBSET Remotes, NEW lost \in SUBSET Remotes
    PROVE  Fetched(s, got, lost) \in Sync
<1>1. sync[s] \in Sync
    BY DEF TypeOK
<1> DEFINE texts == [r \in Remotes |-> IF r \in got THEN remote[r].text ELSE sync[s].found[r]]
<1>2. texts \in [Remotes -> Text \cup {Unknown}]
    BY <1>1 DEF TypeOK, Remote, Sync
<1>3. /\ sync[s].todo \cup got \in SUBSET Remotes
      /\ sync[s].failed \cup lost \in SUBSET Remotes
      /\ (sync[s].public \ got) \cup {r \in got : remote[r].state = "published"}
             \in SUBSET Remotes
      /\ (sync[s].clean /\ lost = {}) \in BOOLEAN
    BY <1>1 DEF Sync
<1> HIDE DEF texts
<1>4. [sync[s] EXCEPT !.found = texts, !.todo = sync[s].todo \cup got,
          !.failed = sync[s].failed \cup lost,
          !.public = (sync[s].public \ got) \cup {r \in got : remote[r].state = "published"},
          !.clean = (sync[s].clean /\ lost = {})] \in Sync
    BY <1>1, <1>2, <1>3, SyncMoves
<1> QED BY <1>4 DEF Fetched, texts

(* The texts that a synchronization has fetched are known.                 *)
LEMMA AtOneTypes ==
    ASSUME RemoteInv, NEW s \in Syncs, sync[s].pc \in AtOne
    PROVE  /\ sync[s] \in Sync /\ sync[s].at \in Remotes /\ sync[s].article \in Articles
           /\ sync[s].found[sync[s].at] \in Text
BY DEF RemoteInv, TypeOK, FrameOK, SyncFrame, Once

LEMMA SetSyncTypes ==
    ASSUME TypeOK, NEW s \in Syncs, NEW new \in Sync, SetSync(s, new)
    PROVE  sync' \in [Syncs -> Sync]
BY DEF TypeOK, SetSync

LEMMA GiveUpTypes ==
    ASSUME TypeOK, NEW s \in Syncs, sync[s].at \in Remotes, GiveUp(s)
    PROVE  sync' \in [Syncs -> Sync]
<1>1. sync[s] \in Sync /\ sync[s].failed \cup {sync[s].at} \in SUBSET Remotes
    BY DEF TypeOK, Sync
<1> QED BY <1>1, SyncMoves, SetSyncTypes DEF GiveUp

LEMMA RecordTypes ==
    ASSUME TypeOK, NEW a, NEW state \in States, NEW r \in Remotes \cup {0},
           NEW text \in Text \cup {Unknown}, Record(a, state, r, text)
    PROVE  latest' \in [Articles -> Observation]
<1>1. [state |-> state, remote |-> r, text |-> text] \in Observation
    BY DEF Observation
<1> QED BY <1>1 DEF Record, TypeOK

LEMMA MapTypes ==
    ASSUME TypeOK, NEW a \in Articles, NEW r, NEW base \in Text \cup {Unknown},
           MapTo(a, r, base)
    PROVE  identity' \in [Remotes -> Identity]
<1>1. [article |-> a, base |-> base] \in Identity
    BY DEF Identity
<1> QED BY <1>1 DEF MapTo, TypeOK

(* The editor's, the provider's and the importer's steps, and deletions.   *)
LEMMA OutsideTypes ==
    ASSUME RemoteInv,
           \/ \E a \in Articles : Edit(a) \/ Delete(a)
           \/ \E r \in Remotes : Author(r) \/ Post(r) \/ Remove(r)
           \/ \E r \in Remotes, a \in Articles : Import(r, a)
    PROVE  TypeOK'
<1> USE DEF RemoteInv, store, calls, history
<1>1. ASSUME NEW a \in Articles, Edit(a) PROVE TypeOK'
    <2>1. made + 1 \in Edits /\ made' \in 0..MaxEdits
        BY <1>1, RemoteAssumption DEF Edit, TypeOK, Edits
    <2>2. article[a].text \cup {made + 1} \in Text
        BY <2>1 DEF TypeOK, Article, Text
    <2>3. article' \in [Articles -> Article] /\ had' \in [Articles -> SUBSET Text]
        BY <1>1, <2>2, ArticleTypes DEF Edit
    <2> QED BY <1>1, <2>1, <2>3 DEF Edit, TypeOK
<1>2. ASSUME NEW a \in Articles, Delete(a) PROVE TypeOK'
    <2>1. [NoArticle EXCEPT !.state = "deleted"] \in Article
        BY Blank DEF Article
    <2>2. article' \in [Articles -> Article]
        BY <1>2, <2>1 DEF Delete, TypeOK
    <2>3. identity' \in [Remotes -> Identity] /\ latest' \in [Articles -> Observation]
        BY <1>2, Blank DEF Delete, TypeOK
    <2> QED BY <1>2, <2>2, <2>3, Blank DEF Delete, TypeOK
<1>3. ASSUME NEW r \in Remotes, Author(r) PROVE TypeOK'
    <2>1. made + 1 \in Edits /\ made' \in 0..MaxEdits
        BY <1>3, RemoteAssumption DEF Author, TypeOK, Edits
    <2>2. remote[r].text \cup {made + 1} \in Text /\ remote[r].state \in {"draft", "published"}
        BY <1>3, <2>1 DEF TypeOK, Remote, Text, Author, Exists
    <2>3. remote' \in [Remotes -> Remote] /\ shown' \in [Remotes -> SUBSET Text]
        BY <1>3, <2>2, RemoteTypes DEF Author
    <2> QED BY <1>3, <2>1, <2>3 DEF Author, TypeOK
<1>4. ASSUME NEW r \in Remotes, Post(r) \/ Remove(r) PROVE TypeOK'
    <2>1. remote[r].text \in Text
        BY DEF TypeOK, Remote
    <2>2. remote' \in [Remotes -> Remote] /\ shown' \in [Remotes -> SUBSET Text]
        BY <1>4, <2>1, RemoteTypes DEF Post, Remove
    <2> QED BY <1>4, <2>2 DEF Post, Remove, TypeOK
<1>5. ASSUME NEW r \in Remotes, NEW a \in Articles, Import(r, a) PROVE TypeOK'
    <2>1. remote[r] \in Remote /\ remote[r].text \in Text
        BY DEF TypeOK, Remote
    <2>2. article' \in [Articles -> Article] /\ had' \in [Articles -> SUBSET Text]
        <3>1. CASE MergeInto(a, r)
            <4>1. article[a] \in Article /\ remote[r].state \in Statuses
                BY <1>5, <2>1 DEF TypeOK, Import, Offered, Exists, Statuses
            <4>2. [article[a] EXCEPT !.draftId = r, !.status = remote[r].state] \in Article
                BY <4>1 DEF Article
            <4> QED BY <3>1, <4>2 DEF MergeInto, TypeOK
        <3>2. CASE CreateFrom(a, r)
            BY <2>1, <3>2, ArticleTypes DEF CreateFrom
        <3> QED BY <1>5, <3>1, <3>2 DEF Import
    <2> QED BY <1>5, <2>2 DEF Import, TypeOK
<1> QED BY <1>1, <1>2, <1>3, <1>4, <1>5

(* The steps of a synchronization.                                         *)
LEMMA ListTypes ==
    ASSUME RemoteInv, NEW s \in Syncs,
           \/ \E a \in Articles \cup {0} : StartSync(s, a)
           \/ ListAll(s) \/ ListPart(s) \/ ListLimited(s) \/ EndDetails(s)
           \/ \E r \in Remotes : Detail(s, r)
           \/ CrashSync(s)
    PROVE  TypeOK'
<1> USE DEF RemoteInv, store, calls, history, Stages
<1>1. sync[s] \in Sync
    BY DEF TypeOK
<1>2. spent' \in [calls: 0..MaxCalls, faults: 0..MaxFaults]
    BY SpendTypes DEF TypeOK, StartSync, ListAll, ListPart, ListLimited, EndDetails, Detail,
                      CrashSync
<1>3. sync' \in [Syncs -> Sync]
    <2>1. ASSUME NEW a \in Articles \cup {0}, StartSync(s, a) PROVE sync' \in [Syncs -> Sync]
        <3>1. a # 0 => FirstOf(a) \in Remotes
            BY <2>1, FirstIsMapped DEF StartSync, MayRefresh, Mapped
        <3> DEFINE want == IF a = 0 THEN 0 ELSE FirstOf(a)
        <3>2. want \in Remotes \cup {0}
            BY <3>1
        <3> HIDE DEF want
        <3>3. [IdleSync EXCEPT !.pc = "drafts", !.about = a, !.want = want] \in Sync
            BY <3>2, Blank DEF Sync
        <3> QED BY <2>1, <3>3, SetSyncTypes DEF StartSync, want
    <2>2. AfterListing(s) \in {"published", "details", "next"}
        BY DEF AfterListing
    <2>3. ASSUME NEW got \in SUBSET Remotes, NEW lost \in SUBSET Remotes,
                 NEW pc \in {"published", "details", "next"}, NEW listed \in SUBSET Remotes
          PROVE  /\ [Fetched(s, got, lost) EXCEPT !.pc = pc] \in Sync
                 /\ [Fetched(s, got, lost) EXCEPT !.pc = pc, !.clean = FALSE] \in Sync
                 /\ [Fetched(s, got, lost) EXCEPT !.listed = listed] \in Sync
        BY FetchedTypes, SyncMoves
    <2>4. \A got \in SUBSET Remotes : sync[s].listed \cup got \in SUBSET Remotes
        BY <1>1 DEF Sync
    <2>5. CASE ListAll(s)
        <3> DEFINE there == {r \in Remotes : remote[r].state \in Listing(s)}
        <3>1. there \in SUBSET Remotes
            OBVIOUS
        <3>2. \/ SetSync(s, [sync[s] EXCEPT !.pc = AfterListing(s),
                                            !.listed = sync[s].listed \cup there])
              \/ SetSync(s, [Fetched(s, there, {}) EXCEPT !.pc = AfterListing(s)])
            BY <2>5 DEF ListAll
        <3> HIDE DEF there
        <3> QED BY <1>1, <2>2, <2>3, <2>4, <3>1, <3>2, SyncMoves, SetSyncTypes
    <2>6. CASE ListPart(s) \/ ListLimited(s)
        <3>1. PICK got \in SUBSET Remotes :
                 \/ SetSync(s, [sync[s] EXCEPT !.pc = AfterListing(s),
                                   !.listed = sync[s].listed \cup got, !.clean = FALSE])
                 \/ SetSync(s, [sync[s] EXCEPT !.pc = AfterListing(s),
                                   !.listed = sync[s].listed \cup got])
                 \/ SetSync(s, [Fetched(s, got, {}) EXCEPT !.pc = AfterListing(s),
                                   !.clean = FALSE])
            BY <2>6 DEF ListPart, ListLimited
        <3> QED BY <1>1, <2>2, <2>3, <2>4, <3>1, SyncMoves, SetSyncTypes
    <2>7. ASSUME NEW r \in Remotes, Detail(s, r) PROVE sync' \in [Syncs -> Sync]
        <3> DEFINE rest == sync[s].listed \ {r}
        <3>1. rest \in SUBSET Remotes
            BY <1>1 DEF Sync
        <3>2. \/ SetSync(s, [Fetched(s, {r}, {}) EXCEPT !.listed = rest])
              \/ SetSync(s, [Fetched(s, {}, {r}) EXCEPT !.listed = rest])
            BY <2>7 DEF Detail
        <3> HIDE DEF rest
        <3> QED BY <2>3, <3>1, <3>2, SetSyncTypes
    <2>8. CASE EndDetails(s)
        BY <1>1, <2>8, SyncMoves, SetSyncTypes DEF EndDetails
    <2>9. CASE CrashSync(s)
        BY <2>9, Blank, SetSyncTypes DEF CrashSync
    <2> QED BY <2>1, <2>5, <2>6, <2>7, <2>8, <2>9
<1>4. UNCHANGED <<scope, store, remote, push, run, resolver, mine, waived, open, had, shown,
                  source, made>>
    BY DEF StartSync, ListAll, ListPart, ListLimited, EndDetails, Detail, CrashSync
<1> QED BY <1>2, <1>3, <1>4 DEF TypeOK

LEMMA OneTypes ==
    ASSUME RemoteInv, NEW s \in Syncs,
           \/ \E r \in Remotes : Locate(s, r)
           \/ Compare(s) \/ Save(s) \/ Metadata(s) \/ Mark(s) \/ Observe(s) \/ Report(s)
           \/ EndSync(s) \/ Unreachable(s)
    PROVE  TypeOK'
<1> USE DEF RemoteInv, store, calls, history, Stages
<1>1. sync[s] \in Sync
    BY DEF TypeOK
<1>2. \A pc \in Stages : [sync[s] EXCEPT !.pc = pc] \in Sync
    BY <1>1, SyncMoves
<1>3. ASSUME NEW r \in Remotes, Locate(s, r) PROVE TypeOK'
    <2>1. sync[s].todo \ {r} \in SUBSET Remotes /\ sync[s].found[r] \in Text
        BY <1>1, <1>3 DEF Sync, Locate, FrameOK, SyncFrame
    <2>2. identity[r] \in Identity
        BY DEF TypeOK
    <2>3. CASE LocateKnown(s, r)
        <3>1. [sync[s] EXCEPT !.pc = "compare", !.todo = sync[s].todo \ {r}, !.at = r,
                   !.article = identity[r].article, !.created = FALSE,
                   !.base = identity[r].base] \in Sync
            BY <1>1, <2>1, <2>2, <2>3, SyncMoves DEF LocateKnown, Live, Identity, AtOne
        <3>2. sync' \in [Syncs -> Sync]
            BY <2>3, <3>1, SetSyncTypes DEF LocateKnown
        <3> QED BY <1>3, <2>3, <3>2 DEF Locate, LocateKnown, TypeOK
    <2>4. CASE LocateNew(s, r)
        <3>1. PICK a \in Articles :
                 /\ SetArticle(a, Created(sync[s].found[r], 1))
                 /\ MapTo(a, r, Unknown)
                 /\ source' = [source EXCEPT ![a] = r]
                 /\ SetSync(s, [sync[s] EXCEPT !.pc = "metadata", !.todo = sync[s].todo \ {r},
                        !.at = r, !.article = a, !.created = TRUE, !.base = Unknown])
            BY <2>4 DEF LocateNew
        <3>2. [sync[s] EXCEPT !.pc = "metadata", !.todo = sync[s].todo \ {r},
                        !.at = r, !.article = a, !.created = TRUE, !.base = Unknown] \in Sync
            BY <1>1, <2>1, SyncMoves DEF AtOne
        <3>3. sync' \in [Syncs -> Sync]
            BY <3>1, <3>2, SetSyncTypes
        <3>4. article' \in [Articles -> Article] /\ had' \in [Articles -> SUBSET Text]
            BY <2>1, <3>1, ArticleTypes
        <3>5. identity' \in [Remotes -> Identity]
            BY <3>1, MapTypes
        <3> QED BY <1>3, <3>1, <3>3, <3>4, <3>5 DEF Locate, TypeOK
    <2> QED BY <1>3, <2>3, <2>4 DEF Locate
<1>4. CASE Compare(s)
    <2>1. sync[s].article \in Articles
        BY <1>4, AtOneTypes DEF Compare, AtOne
    <2>2. article[sync[s].article].rev \in Nat
        BY <2>1 DEF TypeOK, Article
    <2>3. PICK pc \in AtOne : SetSync(s, [sync[s] EXCEPT
                !.expected = article[sync[s].article].rev, !.pc = pc])
        BY <1>4 DEF Compare, AtOne
    <2>4. sync' \in [Syncs -> Sync]
        BY <1>1, <2>2, <2>3, SyncMoves, SetSyncTypes
    <2> QED BY <1>4, <2>4 DEF Compare, TypeOK
<1>5. CASE Save(s)
    <2>1. /\ sync[s].at \in Remotes /\ sync[s].article \in Articles
          /\ sync[s].found[sync[s].at] \in Text
        BY <1>5, AtOneTypes DEF Save, AtOne
    <2>2. sync' \in [Syncs -> Sync]
        BY <1>2, <1>5, <2>1, SetSyncTypes, GiveUpTypes DEF Save, AtOne
    <2>3. article' \in [Articles -> Article] /\ had' \in [Articles -> SUBSET Text]
        BY <1>5, <2>1, ArticleTypes DEF Save, TypeOK
    <2> QED BY <1>5, <2>2, <2>3 DEF Save, TypeOK
<1>6. CASE Metadata(s)
    <2>1. sync[s].at \in Remotes /\ sync[s].article \in Articles
        BY <1>6, AtOneTypes DEF Metadata, AtOne
    <2>2. sync' \in [Syncs -> Sync]
        BY <1>2, <1>6, <2>1, SetSyncTypes, GiveUpTypes DEF Metadata, AtOne
    <2>3. article[sync[s].article] \in Article
        BY <2>1 DEF TypeOK
    <2>4. \A status \in {"published", "draft"}, id \in {0, sync[s].at} :
             [article[sync[s].article] EXCEPT !.status = status, !.draftId = id] \in Article
        BY <2>1, <2>3 DEF Article, Statuses
    <2>5. \/ UNCHANGED article
          \/ \E status \in {"published", "draft"}, id \in {0, sync[s].at} :
                article' = [article EXCEPT ![sync[s].article] =
                   [article[sync[s].article] EXCEPT !.status = status, !.draftId = id]]
        BY <1>6, <2>1 DEF Metadata, TypeOK
    <2>6. article' \in [Articles -> Article]
        BY <2>4, <2>5 DEF TypeOK
    <2> QED BY <1>6, <2>2, <2>6 DEF Metadata, TypeOK
<1>7. CASE Mark(s)
    <2>1. /\ sync[s].at \in Remotes /\ sync[s].article \in Articles
          /\ sync[s].found[sync[s].at] \in Text
        BY <1>7, AtOneTypes DEF Mark, AtOne
    <2>2. [sync[s] EXCEPT !.pc = "observe", !.clean = FALSE] \in Sync
        BY <1>1, SyncMoves DEF AtOne
    <2>3. sync' \in [Syncs -> Sync]
        BY <1>2, <1>7, <2>1, <2>2, SetSyncTypes, GiveUpTypes DEF Mark, AtOne
    <2>4. identity' \in [Remotes -> Identity]
        BY <1>7, <2>1, MapTypes DEF Mark, TypeOK
    <2>5. spent' \in [calls: 0..MaxCalls, faults: 0..MaxFaults]
        BY <1>7, SpendTypes DEF Mark, CoverFails, TypeOK
    <2> QED BY <1>7, <2>3, <2>4, <2>5 DEF Mark, TypeOK
<1>8. CASE Observe(s) \/ Report(s)
    <2>1. /\ sync[s].at \in Remotes /\ sync[s].article \in Articles
          /\ sync[s].found[sync[s].at] \in Text
        BY <1>8, AtOneTypes DEF Observe, Report, AtOne
    <2>2. [sync[s] EXCEPT !.pc = "next", !.clean = FALSE] \in Sync
        BY <1>1, SyncMoves
    <2>3. sync' \in [Syncs -> Sync]
        BY <1>2, <1>8, <2>1, <2>2, SetSyncTypes, GiveUpTypes DEF Observe, Report
    <2>4. latest' \in [Articles -> Observation]
        BY <1>8, <2>1, RecordTypes DEF Observe, Report, TypeOK, States
    <2>5. open' \subseteq Remotes
        BY <1>8, <2>1 DEF Observe, Report, TypeOK
    <2> QED BY <1>8, <2>3, <2>4, <2>5 DEF Observe, Report, TypeOK
<1>9. CASE EndSync(s) \/ Unreachable(s)
    <2>1. sync' \in [Syncs -> Sync]
        BY <1>9, Blank, SetSyncTypes DEF EndSync, Unreachable
    <2>2. sync[s].want \in Remotes \cup {0}
        BY <1>1 DEF Sync
    <2>3. latest' \in [Articles -> Observation]
        BY <1>9, <2>2, RecordTypes DEF EndSync, Unreachable, TypeOK, States, Absence
    <2>4. spent' \in [calls: 0..MaxCalls, faults: 0..MaxFaults]
        BY <1>9, SpendTypes DEF EndSync, Unreachable, TypeOK
    <2> QED BY <1>9, <2>1, <2>3, <2>4 DEF EndSync, Unreachable, TypeOK
<1> QED BY <1>3, <1>4, <1>5, <1>6, <1>7, <1>8, <1>9

(* The steps of a resolution.                                              *)
LEMMA ResolveTypes ==
    ASSUME RemoteInv,
           \/ \E a \in Articles, action \in {"use_remote", "keep_local"} : StartResolve(a, action)
           \/ ResolveStep \/ CrashResolve
    PROVE  TypeOK'
<1> USE DEF RemoteInv, store, calls, history
<1>1. ASSUME NEW a \in Articles, NEW action \in {"use_remote", "keep_local"},
             StartResolve(a, action)
      PROVE  TypeOK'
    <2>1. latest[a] \in Observation /\ article[a].rev \in Nat
        BY DEF TypeOK, Article
    <2>2. resolver' \in Resolver
        BY <1>1, <2>1 DEF StartResolve, Resolver
    <2>3. spent' \in [calls: 0..MaxCalls, faults: 0..MaxFaults]
        BY <1>1, SpendTypes DEF StartResolve
    <2> QED BY <1>1, <2>2, <2>3 DEF StartResolve, TypeOK
<1>2. CASE resolver.pc # "idle" /\ (ResolveStep \/ CrashResolve)
    <2>1. /\ resolver \in Resolver /\ resolver.article \in Articles
          /\ resolver.seen.remote \in Remotes /\ resolver.seen.text \in Text
        BY <1>2 DEF TypeOK, FrameOK, ResolverFrame, Once
    <2>2. \A pc \in {"mark", "observe"} : [resolver EXCEPT !.pc = pc] \in Resolver
        BY <2>1 DEF Resolver
    <2>3. resolver' \in Resolver
        BY <1>2, <2>2, Blank DEF ResolveStep, UseRemote, MarkResolved, ObserveResolved,
                                 CrashResolve
    <2>4. CASE UseRemote
        <3>1. article' \in [Articles -> Article] /\ had' \in [Articles -> SUBSET Text]
            BY <2>1, <2>4, ArticleTypes DEF UseRemote, TypeOK
        <3>2. article[resolver.article].text \in Text
            BY <2>1 DEF TypeOK, Article
        <3>3. waived' \in Text
            BY <2>4, <3>2 DEF UseRemote, TypeOK, Text
        <3> QED BY <2>3, <2>4, <3>1, <3>3 DEF UseRemote, TypeOK
    <2>5. CASE MarkResolved
        <3>1. identity' \in [Remotes -> Identity]
            BY <2>1, <2>5, MapTypes DEF MarkResolved, TypeOK
        <3> QED BY <2>3, <2>5, <3>1 DEF MarkResolved, TypeOK
    <2>6. CASE ObserveResolved
        <3>1. latest' \in [Articles -> Observation]
            BY <2>1, <2>6, RecordTypes DEF ObserveResolved, TypeOK, States
        <3> QED BY <2>3, <2>6, <3>1 DEF ObserveResolved, TypeOK
    <2>7. CASE CrashResolve
        <3>1. spent' \in [calls: 0..MaxCalls, faults: 0..MaxFaults]
            BY <2>7, SpendTypes DEF CrashResolve
        <3> QED BY <2>3, <2>7, <3>1 DEF CrashResolve, TypeOK
    <2> QED BY <1>2, <2>4, <2>5, <2>6, <2>7 DEF ResolveStep
<1> QED BY <1>1, <1>2 DEF ResolveStep, UseRemote, MarkResolved, ObserveResolved, CrashResolve

(* The steps of a push.                                                    *)
LEMMA PushTypes ==
    ASSUME RemoteInv,
           \/ \E a \in Articles : RequestPush(a)
           \/ PushStep \/ CrashPush
    PROVE  TypeOK'
<1> USE DEF RemoteInv, store, calls, history
<1>1. ASSUME NEW a \in Articles, RequestPush(a) PROVE TypeOK'
    <2>1. [article[a] EXCEPT !.status = "pending"] \in Article
        BY DEF TypeOK, Article, Statuses
    <2>2. article' \in [Articles -> Article]
        BY <1>1, <2>1 DEF RequestPush, TypeOK
    <2>3. push' \in Push
        BY <1>1, Blank DEF RequestPush, Push
    <2>4. spent' \in [calls: 0..MaxCalls, faults: 0..MaxFaults]
        BY <1>1, SpendTypes DEF RequestPush
    <2> QED BY <1>1, <2>2, <2>3, <2>4 DEF RequestPush, TypeOK
<1>2. CASE push.pc # "idle" /\ (PushStep \/ CrashPush)
    <2>1. /\ push \in Push /\ push.article \in Articles /\ article[push.article] \in Article
          /\ push.pc # "queued" => push.text \in Text
          /\ article[push.article].text \in Text
        BY <1>2 DEF TypeOK, FrameOK, PushFrame, Once, Article
    <2>2. CASE ReadForPush
        <3>1. push' \in Push
            BY <2>1, <2>2, Blank DEF ReadForPush, Push, Article
        <3> QED BY <2>2, <3>1 DEF ReadForPush, TypeOK
    <2>3. CASE ClaimPush
        <3>1. push' \in Push
            BY <2>1, <2>3 DEF ClaimPush, Push
        <3> QED BY <2>3, <3>1 DEF ClaimPush, TypeOK
    <2>4. ASSUME NEW r \in Remotes, WriteRemote(r)
          PROVE  remote' \in [Remotes -> Remote] /\ shown' \in [Remotes -> SUBSET Text]
        <3>1. Rendered(push.text) \in Text
            BY <2>1, <2>4 DEF WriteRemote, Rendered, Text
        <3> QED BY <2>4, <3>1, RemoteTypes DEF WriteRemote
    <2>5. CASE OperatePush
        <3>1. push' \in Push
            BY <2>1, <2>5 DEF OperatePush, Push
        <3> QED BY <2>4, <2>5, <3>1 DEF OperatePush, TypeOK
    <2>6. CASE OperationFails
        <3>1. remote' \in [Remotes -> Remote] /\ shown' \in [Remotes -> SUBSET Text]
            BY <2>4, <2>6 DEF OperationFails, TypeOK
        <3>2. spent' \in [calls: 0..MaxCalls, faults: 0..MaxFaults]
            BY <2>6, SpendTypes DEF OperationFails, TypeOK
        <3> QED BY <2>6, <3>1, <3>2, Blank DEF OperationFails, TypeOK
    <2>7. CASE ApplyPush
        <3>1. \A id \in Remotes \cup {0} :
                 [article[push.article] EXCEPT !.status = "draft", !.draftId = id] \in Article
            BY <2>1 DEF Article, Statuses
        <3>2. \/ UNCHANGED article
              \/ \E id \in Remotes \cup {0} : article' = [article EXCEPT ![push.article] =
                    [article[push.article] EXCEPT !.status = "draft", !.draftId = id]]
            BY <2>1, <2>7 DEF ApplyPush, TypeOK, Article, Push
        <3>3. article' \in [Articles -> Article]
            BY <3>1, <3>2 DEF TypeOK
        <3>4. push' \in Push
            BY <2>1, <2>7, Blank DEF ApplyPush, Push
        <3> QED BY <2>7, <3>3, <3>4 DEF ApplyPush, TypeOK
    <2>8. CASE MarkPush
        <3>1. identity' \in [Remotes -> Identity]
            BY <2>1, <2>8, MapTypes DEF MarkPush, TypeOK
        <3>2. push' \in Push
            BY <2>1, <2>8, Blank DEF MarkPush, Push
        <3> QED BY <2>8, <3>1, <3>2 DEF MarkPush, TypeOK
    <2>9. CASE ObservePush
        <3>1. push.text \in Text /\ push.result \in Remotes
            BY <2>1, <2>9 DEF ObservePush, FrameOK, PushFrame, Push
        <3>2. latest' \in [Articles -> Observation] /\ open' \subseteq Remotes
            BY <2>9, <3>1, RecordTypes DEF ObservePush, TypeOK, States
        <3> QED BY <2>9, <3>2, Blank DEF ObservePush, TypeOK
    <2>10. CASE CrashPush
        <3>1. push' \in Push
            BY <2>1, <2>10 DEF CrashPush, Push
        <3>2. spent' \in [calls: 0..MaxCalls, faults: 0..MaxFaults]
            BY <2>10, SpendTypes DEF CrashPush
        <3> QED BY <2>10, <3>1, <3>2 DEF CrashPush, TypeOK
    <2> QED BY <1>2, <2>2, <2>3, <2>5, <2>6, <2>7, <2>8, <2>9, <2>10 DEF PushStep
<1> QED BY <1>1, <1>2 DEF PushStep, ReadForPush, ClaimPush, OperatePush, OperationFails,
                          WriteRemote, ApplyPush, MarkPush, ObservePush, CrashPush

(* The steps of a browser publish run.                                     *)
LEMMA RunTypes ==
    ASSUME RemoteInv,
           \/ \E a \in Articles, mode \in {"draft", "publish"} : RequestRun(a, mode)
           \/ ApproveRun \/ RunStep \/ CrashRun
    PROVE  TypeOK'
<1> USE DEF RemoteInv, store, calls, history
<1>1. ASSUME NEW a \in Articles, NEW mode \in {"draft", "publish"}, RequestRun(a, mode)
      PROVE  TypeOK'
    <2>1. article[a].text \in Text
        BY DEF TypeOK, Article
    <2>2. run' \in Run
        BY <1>1, <2>1, Blank DEF RequestRun, Run
    <2>3. spent' \in [calls: 0..MaxCalls, faults: 0..MaxFaults]
        BY <1>1, SpendTypes DEF RequestRun
    <2> QED BY <1>1, <2>2, <2>3 DEF RequestRun, TypeOK
<1>2. CASE ApproveRun
    <2>1. run' \in Run
        BY <1>2 DEF ApproveRun, TypeOK, Run
    <2> QED BY <1>2, <2>1 DEF ApproveRun, TypeOK
<1>3. CASE run.job # "none" /\ (RunStep \/ CrashRun)
    <2>1. /\ run \in Run /\ run.article \in Articles /\ run.text \in Text
          /\ article[run.article] \in Article
        BY <1>3 DEF TypeOK, FrameOK, RunFrame, Run
    <2>2. CASE CreateRunJob
        <3>1. run' \in Run
            BY <2>1, <2>2 DEF CreateRunJob, Run
        <3> QED BY <2>2, <3>1 DEF CreateRunJob, TypeOK
    <2>3. CASE ReadForRun
        <3>1. Mapped(run.article) # {} => FirstOf(run.article) \in Remotes
            BY FirstIsMapped DEF Mapped
        <3>2. run' \in Run
            BY <2>1, <2>3, <3>1 DEF ReadForRun, Run, Article
        <3> QED BY <2>3, <3>2 DEF ReadForRun, TypeOK
    <2>4. CASE LoginMissing \/ CrashRun
        <3>1. run' \in Run
            BY <2>1, <2>4 DEF LoginMissing, CrashRun, Run
        <3>2. spent' \in [calls: 0..MaxCalls, faults: 0..MaxFaults]
            BY <2>4, SpendTypes DEF LoginMissing, CrashRun
        <3> QED BY <2>4, <3>1, <3>2 DEF LoginMissing, CrashRun, TypeOK
    <2>5. ASSUME NEW r \in Remotes, Upload(r)
          PROVE  remote' \in [Remotes -> Remote] /\ shown' \in [Remotes -> SUBSET Text]
        <3>1. Rendered(run.text) \in Text
            BY <2>1 DEF Rendered, Text
        <3> QED BY <2>1, <2>5, <3>1, RemoteTypes DEF Upload, WriteStory, UploadDraft
    <2>6. CASE OperateRun
        <3>1. run' \in Run
            BY <2>1, <2>6 DEF OperateRun, Run
        <3> QED BY <2>5, <2>6, <3>1 DEF OperateRun, TypeOK
    <2>7. CASE RunRefused
        <3>1. run' \in Run
            BY <2>1, <2>7 DEF RunRefused, Run
        <3>2. remote' \in [Remotes -> Remote] /\ shown' \in [Remotes -> SUBSET Text]
            BY <2>5, <2>7 DEF RunRefused, TypeOK
        <3>3. spent' \in [calls: 0..MaxCalls, faults: 0..MaxFaults]
            BY <2>7, SpendTypes DEF RunRefused, TypeOK
        <3> QED BY <2>7, <3>1, <3>2, <3>3 DEF RunRefused, TypeOK
    <2>8. CASE IdentifyRun
        <3>1. run' \in Run
            BY <2>1, <2>8 DEF IdentifyRun, Run
        <3>2. identity' \in [Remotes -> Identity]
            BY <2>1, <2>8, MapTypes DEF IdentifyRun, TypeOK
        <3> QED BY <2>8, <3>1, <3>2 DEF IdentifyRun, TypeOK
    <2>9. CASE ApplyRun
        <3>1. run' \in Run
            BY <2>1, <2>9 DEF ApplyRun, Run
        <3>2. \A status \in {"published", "draft"} : [article[run.article] EXCEPT
                    !.draftId = run.target, !.status = status] \in Article
            BY <2>1 DEF Article, Statuses, Run
        <3>3. \E status \in {"published", "draft"} : article' =
                 [article EXCEPT ![run.article] = [article[run.article] EXCEPT
                    !.draftId = run.target, !.status = status]]
            BY <2>1, <2>9 DEF ApplyRun, TypeOK, Article
        <3>4. article' \in [Articles -> Article]
            BY <3>2, <3>3 DEF TypeOK
        <3> QED BY <2>9, <3>1, <3>4 DEF ApplyRun, TypeOK
    <2>10. CASE CompleteRun
        <3>1. run' \in Run
            BY <2>1, <2>10 DEF CompleteRun, Run
        <3>2. [article[run.article] EXCEPT !.status = "error"] \in Article
            BY <2>1 DEF Article, Statuses
        <3>3. article' \in [Articles -> Article]
            BY <2>10, <3>2 DEF CompleteRun, TypeOK
        <3> QED BY <2>10, <3>1, <3>3 DEF CompleteRun, TypeOK
    <2> QED BY <1>3, <2>2, <2>3, <2>4, <2>6, <2>7, <2>8, <2>9, <2>10 DEF RunStep
<1> QED BY <1>1, <1>2, <1>3 DEF RunStep, CreateRunJob, ReadForRun, LoginMissing, OperateRun,
                                RunRefused, IdentifyRun, ApplyRun, CompleteRun, CrashRun

LEMMA TypeStep ==
    ASSUME RemoteInv, [Next]_vars
    PROVE  TypeOK'
<1>1. CASE UNCHANGED vars
    BY <1>1 DEF RemoteInv, TypeOK, vars, store, calls, history
<1>2. CASE Next
    BY <1>2, OutsideTypes, ListTypes, OneTypes, ResolveTypes, PushTypes, RunTypes
       DEF Next, SyncStep, Crash
<1> QED BY <1>1, <1>2

-----------------------------------------------------------------------------
(* Frames.                                                                 *)

(* Rows and texts once made stay; a deleted article stays deleted, and a   *)
(* remote article is mapped to the same one as long as that one lives.     *)
Growth ==
    /\ \A a \in Articles : /\ Once(a) => Once(a)'
                           /\ Once(a) /\ Live(a)' => Live(a)
                           /\ had[a] \subseteq had'[a]
    /\ \A r \in Remotes : /\ There(r) => There(r)'
                          /\ shown[r] \subseteq shown'[r]
    /\ \A r \in Remotes, a \in Articles :
          identity[r].article = a /\ Live(a)' => identity'[r].article = a

LEMMA StoreGrowth ==
    ASSUME RemoteInv,
           \/ UNCHANGED <<article, had>>
           \/ \E a \in Articles, new \in Article :
                 /\ SetArticle(a, new) \/ (article' = [article EXCEPT ![a] = new] /\ had' = had)
                 /\ new.state = article[a].state \/ (Fresh(a) /\ new.state = "live"),
           \/ UNCHANGED <<remote, shown>>
           \/ \E r \in Remotes, state \in {"draft", "published", "deleted"}, text \in Text :
                 SetRemote(r, state, text),
           \/ UNCHANGED identity
           \/ \E a \in Articles, r \in Remotes, base \in Text \cup {Unknown} :
                 MapTo(a, r, base) /\ identity[r].article \in {0, a}
    PROVE  Growth
<1> USE DEF RemoteInv, TypeOK
<1>1. \A a \in Articles : /\ Once(a) => Once(a)'
                          /\ Once(a) /\ Live(a)' => Live(a)
                          /\ had[a] \subseteq had'[a]
    <2>1. CASE UNCHANGED <<article, had>>
        BY <2>1 DEF Once, Live
    <2>2. ASSUME NEW a \in Articles, NEW new \in Article,
                 SetArticle(a, new) \/ (article' = [article EXCEPT ![a] = new] /\ had' = had),
                 new.state = article[a].state \/ (Fresh(a) /\ new.state = "live"),
                 NEW b \in Articles
          PROVE  /\ Once(b) => Once(b)'
                 /\ Once(b) /\ Live(b)' => Live(b)
                 /\ had[b] \subseteq had'[b]
        BY <2>2 DEF SetArticle, Once, Live, Fresh
    <2> QED BY <2>1, <2>2
<1>2. \A r \in Remotes : /\ There(r) => There(r)'
                         /\ shown[r] \subseteq shown'[r]
    BY DEF SetRemote, There
<1>3. ASSUME NEW r \in Remotes, NEW a \in Articles, identity[r].article = a, Live(a)'
      PROVE  identity'[r].article = a
    BY <1>3, Blank DEF MapTo
<1> QED BY <1>1, <1>2, <1>3 DEF Growth

LEMMA DeleteGrowth ==
    ASSUME RemoteInv, NEW a \in Articles, Delete(a)
    PROVE  Growth
<1> USE DEF RemoteInv, TypeOK
<1>1. \A b \in Articles : article'[b] = IF b = a THEN [NoArticle EXCEPT !.state = "deleted"]
                                        ELSE article[b]
    BY DEF Delete
<1>2. ~Live(a)' /\ Once(a)' /\ Live(a)
    BY <1>1 DEF Live, Once, NoArticle, Delete
<1>3. UNCHANGED <<had, remote, shown>>
    BY DEF Delete
<1>4. ASSUME NEW r \in Remotes, NEW b \in Articles, identity[r].article = b, Live(b)'
      PROVE  identity'[r].article = b
    BY <1>2, <1>4 DEF Delete, Mapped
<1> QED BY <1>1, <1>2, <1>3, <1>4 DEF Growth, Once, Live, There

LEMMA GrowthStep ==
    ASSUME RemoteInv, [Next]_vars
    PROVE  Growth
<1> USE DEF RemoteInv, store, calls, history
<1>1. \A a \in Articles : article[a] \in Article /\ article[a].text \in Text
    BY DEF TypeOK, Article
<1>2. \A r \in Remotes : remote[r] \in Remote /\ remote[r].text \in Text
    BY DEF TypeOK, Remote
<1>3. CASE UNCHANGED <<article, had, remote, shown, identity>>
    BY <1>3, StoreGrowth
<1>4. ASSUME NEW a \in Articles, Edit(a) PROVE Growth
    <2>1. made + 1 \in Edits
        BY <1>4, RemoteAssumption DEF Edit, TypeOK, Edits
    <2>2. article[a].text \cup {made + 1} \in Text
        BY <1>1, <2>1 DEF Text
    <2>3. Saved(a, article[a].text \cup {made + 1}) \in Article
        BY <2>2, ArticleTypes
    <2>4. Saved(a, article[a].text \cup {made + 1}).state = article[a].state
        BY <1>1 DEF Saved, Article
    <2> QED BY <1>4, <2>3, <2>4, StoreGrowth DEF Edit
<1>5. ASSUME NEW r \in Remotes, Author(r) \/ Post(r) \/ Remove(r) PROVE Growth
    <2>1. made < MaxEdits => made + 1 \in Edits
        BY RemoteAssumption DEF TypeOK, Edits
    <2>2. made < MaxEdits => remote[r].text \cup {made + 1} \in Text
        BY <1>2, <2>1 DEF Text
    <2>3. Author(r) => remote[r].state \in {"draft", "published"}
        BY DEF Author, Exists
    <2> QED BY <1>2, <1>5, <2>2, <2>3, StoreGrowth DEF Author, Post, Remove
<1>6. ASSUME NEW a \in Articles, NEW r \in Remotes, Import(r, a) PROVE Growth
    <2>1. CASE MergeInto(a, r)
        <3> DEFINE new == [article[a] EXCEPT !.draftId = r, !.status = remote[r].state]
        <3>1. remote[r].state \in Statuses
            BY <1>2, <1>6 DEF Import, Offered, Exists, Statuses
        <3>2. new \in Article /\ new.state = article[a].state
            BY <1>1, <3>1 DEF Article
        <3>3. article' = [article EXCEPT ![a] = new] /\ had' = had
            BY <2>1 DEF MergeInto, TypeOK
        <3> HIDE DEF new
        <3> QED BY <1>6, <3>2, <3>3, StoreGrowth DEF Import
    <2>2. CASE CreateFrom(a, r)
        <3>1. Created(remote[r].text, 2) \in Article
            BY <1>2, ArticleTypes
        <3>2. Created(remote[r].text, 2).state = "live"
            BY DEF Created, NoArticle
        <3> QED BY <1>6, <2>2, <3>1, <3>2, StoreGrowth DEF Import, CreateFrom
    <2> QED BY <1>6, <2>1, <2>2 DEF Import
<1>7. ASSUME NEW s \in Syncs, NEW r \in Remotes, Locate(s, r) PROVE Growth
    <2>1. sync[s].found[r] \in Text
        BY <1>7 DEF Locate, FrameOK, SyncFrame
    <2>2. CASE LocateNew(s, r)
        <3>1. PICK a \in Articles : /\ Fresh(a)
                                    /\ SetArticle(a, Created(sync[s].found[r], 1))
                                    /\ MapTo(a, r, Unknown)
            BY <2>2 DEF LocateNew
        <3>2. Created(sync[s].found[r], 1) \in Article
            BY <2>1, ArticleTypes
        <3>3. Created(sync[s].found[r], 1).state = "live"
            BY DEF Created, NoArticle
        <3>4. identity[r].article = 0
            BY <2>2 DEF LocateNew, FrameOK, RemoteFrame
        <3> QED BY <1>7, <3>1, <3>2, <3>3, <3>4, StoreGrowth DEF Locate
    <2> QED BY <1>3, <1>7, <2>2 DEF Locate, LocateKnown
<1>8. ASSUME NEW s \in Syncs, Save(s) PROVE Growth
    <2>1. sync[s].article \in Articles /\ sync[s].found[sync[s].at] \in Text
        BY <1>8, AtOneTypes DEF Save, AtOne
    <2> DEFINE new == Saved(sync[s].article, sync[s].found[sync[s].at])
    <2>2. new \in Article
        BY <2>1, ArticleTypes
    <2>3. new.state = article[sync[s].article].state
        BY <1>1, <2>1 DEF Saved, Article
    <2>4. SetArticle(sync[s].article, new) \/ UNCHANGED <<article, had>>
        BY <1>8 DEF Save
    <2> HIDE DEF new
    <2> QED BY <1>8, <2>1, <2>2, <2>3, <2>4, StoreGrowth DEF Save
<1>9. ASSUME NEW s \in Syncs, Metadata(s) PROVE Growth
    <2>1. sync[s].article \in Articles /\ sync[s].at \in Remotes
        BY <1>9, AtOneTypes DEF Metadata, AtOne
    <2>2. \A status \in {"published", "draft"}, id \in {0, sync[s].at} :
             /\ [article[sync[s].article] EXCEPT !.status = status, !.draftId = id] \in Article
             /\ [article[sync[s].article] EXCEPT !.status = status, !.draftId = id].state
                    = article[sync[s].article].state
        BY <1>1, <2>1 DEF Article, Statuses
    <2>3. \/ UNCHANGED article
          \/ \E status \in {"published", "draft"}, id \in {0, sync[s].at} :
                article' = [article EXCEPT ![sync[s].article] =
                   [article[sync[s].article] EXCEPT !.status = status, !.draftId = id]]
        BY <1>9, <2>1 DEF Metadata, TypeOK
    <2> QED BY <1>9, <2>1, <2>2, <2>3, StoreGrowth DEF Metadata
<1>10. ASSUME NEW s \in Syncs, Mark(s) PROVE Growth
    <2>1. /\ sync[s].article \in Articles /\ sync[s].at \in Remotes
          /\ sync[s].found[sync[s].at] \in Text
        BY <1>10, AtOneTypes DEF Mark, AtOne
    <2> QED BY <1>10, <2>1, StoreGrowth DEF Mark, MayMap
<1>11. CASE UseRemote
    <2>1. resolver.article \in Articles /\ resolver.seen.text \in Text
        BY <1>11 DEF UseRemote, FrameOK, ResolverFrame, Once
    <2> DEFINE new == Saved(resolver.article, resolver.seen.text)
    <2>2. new \in Article
        BY <2>1, ArticleTypes
    <2>3. new.state = article[resolver.article].state
        BY <1>1, <2>1 DEF Saved, Article
    <2>4. SetArticle(resolver.article, new) \/ UNCHANGED <<article, had>>
        BY <1>11 DEF UseRemote
    <2> HIDE DEF new
    <2> QED BY <1>11, <2>1, <2>2, <2>3, <2>4, StoreGrowth DEF UseRemote
<1>12. CASE MarkResolved
    <2>1. /\ resolver.article \in Articles /\ resolver.seen.text \in Text
          /\ resolver.seen.remote \in Remotes
        BY <1>12 DEF MarkResolved, FrameOK, ResolverFrame, Once
    <2> QED BY <1>12, <2>1, StoreGrowth DEF MarkResolved, MayMap
<1>13. ASSUME NEW a \in Articles, RequestPush(a) PROVE Growth
    <2>1. [article[a] EXCEPT !.status = "pending"] \in Article
        BY DEF TypeOK, Article, Statuses
    <2>2. article' = [article EXCEPT ![a] = [article[a] EXCEPT !.status = "pending"]]
        BY <1>13 DEF RequestPush, TypeOK
    <2>3. [article[a] EXCEPT !.status = "pending"].state = article[a].state
        BY <1>1 DEF Article
    <2> QED BY <1>13, <2>1, <2>2, <2>3, StoreGrowth DEF RequestPush
<1>14. CASE OperatePush \/ OperationFails
    <2>1. \A r \in Remotes : WriteRemote(r) =>
             Rendered(push.text) \in Text /\ SetRemote(r, "draft", Rendered(push.text))
        BY DEF WriteRemote, Rendered, Text, FrameOK, PushFrame
    <2>2. \/ UNCHANGED <<remote, shown>>
          \/ \E r \in Remotes : WriteRemote(r)
        BY <1>14 DEF OperatePush, OperationFails
    <2> QED BY <1>14, <2>1, <2>2, StoreGrowth DEF OperatePush, OperationFails
<1>15. CASE ApplyPush
    <2>1. push.article \in Articles
        BY <1>15 DEF ApplyPush, FrameOK, PushFrame, Once
    <2>2. \A id \in Remotes \cup {0} :
             /\ [article[push.article] EXCEPT !.status = "draft", !.draftId = id] \in Article
             /\ [article[push.article] EXCEPT !.status = "draft", !.draftId = id].state
                    = article[push.article].state
        BY <1>1, <2>1 DEF Article, Statuses
    <2>3. \/ UNCHANGED article
          \/ \E id \in Remotes \cup {0} : article' = [article EXCEPT ![push.article] =
                [article[push.article] EXCEPT !.status = "draft", !.draftId = id]]
        BY <1>1, <1>15, <2>1 DEF ApplyPush, TypeOK, Article, Push
    <2> QED BY <1>15, <2>1, <2>2, <2>3, StoreGrowth DEF ApplyPush
<1>16. CASE MarkPush
    <2>1. push.article \in Articles /\ push.result \in Remotes
        BY <1>16 DEF MarkPush, FrameOK, PushFrame, Once, TypeOK, Push
    <2> QED BY <1>1, <1>16, <2>1, StoreGrowth DEF MarkPush, MayMap
<1>17. CASE OperateRun \/ RunRefused
    <2>1. run.text \in Text /\ Rendered(run.text) \in Text
        BY <1>17 DEF OperateRun, RunRefused, Rendered, Text, FrameOK, RunFrame
    <2>2. \/ UNCHANGED <<remote, shown>>
          \/ \E r \in Remotes, state \in {"draft", "published"}, text \in Text :
                SetRemote(r, state, text)
        BY <1>17, <2>1 DEF OperateRun, RunRefused, Upload, WriteStory, UploadDraft
    <2> QED BY <1>17, <2>2, StoreGrowth DEF OperateRun, RunRefused
<1>18. CASE IdentifyRun
    <2>1. run.article \in Articles /\ run.target \in Remotes
        BY <1>18 DEF IdentifyRun, FrameOK, RunFrame, TypeOK, Run
    <2> QED BY <1>18, <2>1, StoreGrowth DEF IdentifyRun
<1>19. CASE ApplyRun
    <2>1. run.article \in Articles /\ run.target \in Remotes
        BY <1>19 DEF ApplyRun, FrameOK, RunFrame, TypeOK, Run
    <2>2. \A status \in {"published", "draft"} :
             /\ [article[run.article] EXCEPT !.draftId = run.target, !.status = status] \in Article
             /\ [article[run.article] EXCEPT !.draftId = run.target, !.status = status].state
                    = article[run.article].state
        BY <1>1, <2>1 DEF Article, Statuses
    <2>3. \E status \in {"published", "draft"} : article' = [article EXCEPT ![run.article] =
                      [article[run.article] EXCEPT !.draftId = run.target, !.status = status]]
        BY <1>1, <1>19, <2>1 DEF ApplyRun, TypeOK, Article
    <2> QED BY <1>19, <2>1, <2>2, <2>3, StoreGrowth DEF ApplyRun
<1>23. CASE CompleteRun
    <2>1. run.article \in Articles
        BY <1>23 DEF CompleteRun, FrameOK, RunFrame, TypeOK, Run
    <2>2. /\ [article[run.article] EXCEPT !.status = "error"] \in Article
          /\ [article[run.article] EXCEPT !.status = "error"].state = article[run.article].state
        BY <1>1, <2>1 DEF Article, Statuses
    <2>3. \/ UNCHANGED article
          \/ article' = [article EXCEPT ![run.article] =
                            [article[run.article] EXCEPT !.status = "error"]]
        BY <1>23, <2>1 DEF CompleteRun, TypeOK
    <2> QED BY <1>23, <2>1, <2>2, <2>3, StoreGrowth DEF CompleteRun
<1>20. CASE \/ \E s \in Syncs : \/ \E a \in Articles \cup {0} : StartSync(s, a)
                                \/ ListAll(s) \/ ListPart(s) \/ ListLimited(s) \/ EndDetails(s)
                                \/ \E r \in Remotes : Detail(s, r)
                                \/ Compare(s) \/ Observe(s) \/ Report(s)
                                \/ EndSync(s) \/ Unreachable(s) \/ CrashSync(s)
    BY <1>3, <1>20 DEF StartSync, ListAll, ListPart, ListLimited, EndDetails, Detail, Compare,
       Observe, Report, EndSync, Unreachable, CrashSync
<1>21. CASE \/ \E a \in Articles, action \in {"use_remote", "keep_local"} :
                  StartResolve(a, action)
            \/ \E a \in Articles, mode \in {"draft", "publish"} : RequestRun(a, mode)
            \/ ObserveResolved \/ CrashResolve
            \/ ReadForPush \/ ClaimPush \/ ObservePush \/ CrashPush
            \/ ApproveRun \/ CreateRunJob \/ ReadForRun \/ LoginMissing \/ CrashRun
    BY <1>3, <1>21 DEF StartResolve, RequestRun, ObserveResolved, CrashResolve, ReadForPush,
       ClaimPush, ObservePush, CrashPush, ApproveRun, CreateRunJob, ReadForRun, LoginMissing,
       CrashRun
<1>22. CASE UNCHANGED vars
    BY <1>3, <1>22 DEF vars
<1> QED BY <1>4, <1>5, <1>6, <1>7, <1>8, <1>9, <1>10, <1>11, <1>12, <1>13, <1>14, <1>15, <1>16,
           <1>17, <1>18, <1>19, <1>20, <1>21, <1>22, <1>23, DeleteGrowth
       DEF Next, SyncStep, ResolveStep, PushStep, RunStep, Crash

(* Who writes what.                                                        *)
ArticleStep ==
    \/ \E a \in Articles : Edit(a) \/ Delete(a) \/ RequestPush(a)
    \/ \E r \in Remotes, a \in Articles : Import(r, a)
    \/ \E s \in Syncs : Save(s) \/ Metadata(s) \/ \E r \in Remotes : Locate(s, r)
    \/ UseRemote \/ ApplyPush \/ ApplyRun \/ CompleteRun
RemoteStep ==
    \/ \E r \in Remotes : Author(r) \/ Post(r) \/ Remove(r)
    \/ OperatePush \/ OperationFails \/ OperateRun \/ RunRefused
IdentityStep ==
    \/ \E a \in Articles : Delete(a)
    \/ \E s \in Syncs : Mark(s) \/ \E r \in Remotes : Locate(s, r)
    \/ MarkResolved \/ MarkPush \/ IdentifyRun
LatestStep ==
    \/ \E a \in Articles : Delete(a)
    \/ \E s \in Syncs : Observe(s) \/ Report(s) \/ EndSync(s) \/ Unreachable(s)
    \/ ObserveResolved \/ ObservePush
SyncMove ==
    \E s \in Syncs :
       \/ \E a \in Articles \cup {0} : StartSync(s, a)
       \/ SyncStep(s) \/ CrashSync(s)
ResolverMove ==
    \/ \E a \in Articles, action \in {"use_remote", "keep_local"} : StartResolve(a, action)
    \/ ResolveStep \/ CrashResolve
PushMove == (\E a \in Articles : RequestPush(a)) \/ PushStep \/ CrashPush
RunMove ==
    \/ \E a \in Articles, mode \in {"draft", "publish"} : RequestRun(a, mode)
    \/ \E a \in Articles : Delete(a)
    \/ ApproveRun \/ RunStep \/ CrashRun

LEMMA Writers ==
    ASSUME [Next]_vars
    PROVE  /\ ArticleStep \/ UNCHANGED <<article, had, source, mine>>
           /\ RemoteStep \/ UNCHANGED <<remote, shown>>
           /\ IdentityStep \/ UNCHANGED identity
           /\ LatestStep \/ UNCHANGED latest
           /\ SyncMove \/ UNCHANGED sync
           /\ ResolverMove \/ UNCHANGED resolver
           /\ PushMove \/ UNCHANGED push
           /\ RunMove \/ UNCHANGED run
           /\ UNCHANGED scope
<1> DEFINE Goal == /\ ArticleStep \/ UNCHANGED <<article, had, source, mine>>
                   /\ RemoteStep \/ UNCHANGED <<remote, shown>>
                   /\ IdentityStep \/ UNCHANGED identity
                   /\ LatestStep \/ UNCHANGED latest
                   /\ SyncMove \/ UNCHANGED sync
                   /\ ResolverMove \/ UNCHANGED resolver
                   /\ PushMove \/ UNCHANGED push
                   /\ RunMove \/ UNCHANGED run
                   /\ UNCHANGED scope
<1> USE DEF store, calls, history
<1>1. ASSUME NEW a \in Articles, Edit(a) PROVE Goal
    BY <1>1 DEF Edit, ArticleStep
<1>2. ASSUME NEW a \in Articles, Delete(a) PROVE Goal
    BY <1>2 DEF Delete, ArticleStep, IdentityStep, LatestStep, RunMove
<1>3. ASSUME NEW r \in Remotes, Author(r) \/ Post(r) \/ Remove(r) PROVE Goal
    BY <1>3 DEF Author, Post, Remove, RemoteStep
<1>4. ASSUME NEW r \in Remotes, NEW a \in Articles, Import(r, a) PROVE Goal
    BY <1>4 DEF Import, ArticleStep
<1>5. ASSUME NEW s \in Syncs, NEW a \in Articles \cup {0}, StartSync(s, a) PROVE Goal
    BY <1>5 DEF StartSync, SyncMove
<1>6. ASSUME NEW s \in Syncs, CrashSync(s) PROVE Goal
    BY <1>6 DEF CrashSync, SyncMove
<1>7. ASSUME NEW s \in Syncs, SyncStep(s) PROVE Goal
    <2>1. SyncMove
        BY <1>7 DEF SyncMove
    <2>2. CASE \/ ListAll(s) \/ ListPart(s) \/ ListLimited(s) \/ EndDetails(s)
               \/ \E r \in Remotes : Detail(s, r)
        BY <2>1, <2>2 DEF ListAll, ListPart, ListLimited, EndDetails, Detail
    <2>3. CASE \E r \in Remotes : Locate(s, r)
        BY <2>1, <2>3 DEF Locate, ArticleStep, IdentityStep
    <2>4. CASE Compare(s) \/ Save(s) \/ Metadata(s) \/ Mark(s)
        BY <2>1, <2>4 DEF Compare, Save, Metadata, Mark, ArticleStep, IdentityStep
    <2>5. CASE Observe(s) \/ Report(s) \/ EndSync(s) \/ Unreachable(s)
        BY <2>1, <2>5 DEF Observe, Report, EndSync, Unreachable, LatestStep
    <2> QED BY <1>7, <2>2, <2>3, <2>4, <2>5 DEF SyncStep
<1>8. CASE \E a \in Articles, action \in {"use_remote", "keep_local"} : StartResolve(a, action)
    BY <1>8 DEF StartResolve, ResolverMove
<1>9. CASE ResolveStep \/ CrashResolve
    BY <1>9 DEF ResolveStep, UseRemote, MarkResolved, ObserveResolved, CrashResolve,
                ResolverMove, ArticleStep, IdentityStep, LatestStep
<1>10. CASE \E a \in Articles : RequestPush(a)
    BY <1>10 DEF RequestPush, PushMove, ArticleStep
<1>11. CASE PushStep \/ CrashPush
    <2>1. PushMove
        BY <1>11 DEF PushMove
    <2>2. CASE ReadForPush \/ ClaimPush \/ CrashPush
        BY <2>1, <2>2 DEF ReadForPush, ClaimPush, CrashPush
    <2>3. CASE OperatePush \/ OperationFails
        BY <2>1, <2>3 DEF OperatePush, OperationFails, RemoteStep
    <2>4. CASE ApplyPush \/ MarkPush \/ ObservePush
        BY <2>1, <2>4 DEF ApplyPush, MarkPush, ObservePush, ArticleStep, IdentityStep, LatestStep
    <2> QED BY <1>11, <2>2, <2>3, <2>4 DEF PushStep
<1>12. CASE \E a \in Articles, mode \in {"draft", "publish"} : RequestRun(a, mode)
    BY <1>12 DEF RequestRun, RunMove
<1>13. CASE ApproveRun \/ RunStep \/ CrashRun
    <2>1. RunMove
        BY <1>13 DEF RunMove
    <2>2. CASE ApproveRun \/ CreateRunJob \/ ReadForRun \/ LoginMissing \/ CrashRun
        BY <2>1, <2>2 DEF ApproveRun, CreateRunJob, ReadForRun, LoginMissing, CrashRun
    <2>3. CASE OperateRun \/ RunRefused
        BY <2>1, <2>3 DEF OperateRun, RunRefused, RemoteStep
    <2>4. CASE IdentifyRun \/ ApplyRun \/ CompleteRun
        BY <2>1, <2>4 DEF IdentifyRun, ApplyRun, CompleteRun, ArticleStep, IdentityStep
    <2> QED BY <1>13, <2>2, <2>3, <2>4 DEF RunStep
<1>14. CASE UNCHANGED vars
    BY <1>14 DEF vars
<1> QED BY <1>1, <1>2, <1>3, <1>4, <1>5, <1>6, <1>7, <1>8, <1>9, <1>10, <1>11, <1>12, <1>13,
           <1>14 DEF Next, Crash

(* One row of the articles changes, and stays within the frame.            *)
LEMMA RowFrame ==
    ASSUME RemoteInv, Growth, NEW a \in Articles, NEW new \in Article,
           article' = [article EXCEPT ![a] = new],
           new.state # "unused",
           new.state = "live" => new.text \in had'[a],
           new.draftId # 0 => There(new.draftId),
           \A b \in Articles \ {a} : source'[b] = source[b] /\ mine'[b] = mine[b]
    PROVE  ArticleFrame'
<1>1. \A b \in Articles : article'[b] = IF b = a THEN new ELSE article[b]
    BY DEF RemoteInv, TypeOK
<1>2. \A b \in Articles : article'[b].draftId # 0 => There(article'[b].draftId)
    BY <1>1 DEF RemoteInv, FrameOK, ArticleFrame
<1>3. \A b \in Articles : article'[b].draftId \in Remotes \cup {0}
    BY <1>1 DEF RemoteInv, TypeOK, Article
<1>4. \A b \in Articles : article'[b].draftId # 0 => There(article[b].draftId)' \/ b = a
    BY <1>1, <1>2, <1>3 DEF Growth, There
<1>5. \A b \in Articles : (article[b].draftId # 0)' => There(article[b].draftId)'
    BY <1>1, <1>2, <1>3 DEF Growth, There
<1>6. ASSUME NEW b \in Articles
      PROVE  /\ (~Once(b) => article[b] = NoArticle /\ source[b] = 0 /\ mine[b] = {})'
             /\ (Live(b) => article[b].text \in had[b])'
    BY <1>1 DEF RemoteInv, FrameOK, ArticleFrame, Once, Live, Growth
<1> QED BY <1>5, <1>6 DEF ArticleFrame

LEMMA ArticleFrameStep ==
    ASSUME RemoteInv, [Next]_vars
    PROVE  ArticleFrame'
<1> USE DEF RemoteInv
<1>0. Growth
    BY GrowthStep
<1>1. \A a \in Articles : article[a] \in Article /\ article[a].text \in Text
                          /\ article[a].draftId \in Remotes \cup {0}
                          /\ article[a].rev \in Nat /\ article[a].status \in Statuses
    BY DEF TypeOK, Article
<1>2. \A a \in Articles : article[a].draftId # 0 => There(article[a].draftId)
    BY DEF FrameOK, ArticleFrame
<1>3. CASE UNCHANGED <<article, had, source, mine>>
    <2>1. \A a \in Articles : article'[a].draftId # 0 => There(article[a].draftId)'
        BY <1>0, <1>1, <1>2, <1>3 DEF Growth, There
    <2>2. ASSUME NEW a \in Articles
          PROVE  /\ (~Once(a) => article[a] = NoArticle /\ source[a] = 0 /\ mine[a] = {})'
                 /\ (Live(a) => article[a].text \in had[a])'
        BY <1>3 DEF FrameOK, ArticleFrame, Once, Live
    <2> QED BY <2>1, <2>2 DEF ArticleFrame
<1>4. ASSUME NEW a \in Articles, Edit(a) PROVE ArticleFrame'
    <2> DEFINE new == Saved(a, article[a].text \cup {made + 1})
    <2>1. made + 1 \in Edits
        BY <1>4, RemoteAssumption DEF Edit, TypeOK, Edits
    <2>2. article[a].text \cup {made + 1} \in Text
        BY <1>1, <2>1 DEF Text
    <2>3. new \in Article
        BY <2>2, ArticleTypes
    <2>4. /\ new.state = "live" /\ new.draftId = article[a].draftId
          /\ new.text \in had'[a]
        BY <1>1, <1>4, <2>3 DEF Edit, Saved, Article, Live, SetArticle, TypeOK
    <2>5. \A b \in Articles \ {a} : source'[b] = source[b] /\ mine'[b] = mine[b]
        BY <1>4 DEF Edit, TypeOK
    <2>6. article' = [article EXCEPT ![a] = new]
        BY <1>4 DEF Edit, SetArticle
    <2> HIDE DEF new
    <2> QED BY <1>0, <1>2, <2>3, <2>4, <2>5, <2>6, RowFrame
<1>5. ASSUME NEW a \in Articles, Delete(a) PROVE ArticleFrame'
    <2> DEFINE new == [NoArticle EXCEPT !.state = "deleted"]
    <2>1. new \in Article /\ new.state = "deleted" /\ new.draftId = 0
        BY Blank DEF Article, NoArticle
    <2>2. article' = [article EXCEPT ![a] = new] /\ UNCHANGED <<source, mine>>
        BY <1>5 DEF Delete
    <2> HIDE DEF new
    <2> QED BY <1>0, <2>1, <2>2, RowFrame
<1>6. ASSUME NEW a \in Articles, RequestPush(a) PROVE ArticleFrame'
    <2> DEFINE new == [article[a] EXCEPT !.status = "pending"]
    <2>1. /\ new \in Article /\ new.state = "live" /\ new.draftId = article[a].draftId
          /\ new.text = article[a].text
        BY <1>1, <1>6 DEF Article, Statuses, RequestPush, Live
    <2>2. article' = [article EXCEPT ![a] = new] /\ UNCHANGED <<source, mine, had>>
        BY <1>6 DEF RequestPush, TypeOK
    <2>3. article[a].text \in had[a]
        BY <1>6 DEF RequestPush, FrameOK, ArticleFrame
    <2> HIDE DEF new
    <2> QED BY <1>0, <1>2, <2>1, <2>2, <2>3, RowFrame
<1>7. ASSUME NEW a \in Articles, NEW r \in Remotes, Import(r, a) PROVE ArticleFrame'
    <2>1. /\ remote[r].state \in {"draft", "published"} /\ remote[r].text \in Text
          /\ UNCHANGED <<source, mine>> /\ There(r) /\ r # 0
        BY <1>7, Blank DEF Import, Offered, Exists, TypeOK, Remote, There
    <2>2. CASE MergeInto(a, r)
        <3> DEFINE new == [article[a] EXCEPT !.draftId = r, !.status = remote[r].state]
        <3>1. /\ new \in Article /\ new.state = "live" /\ new.draftId = r
              /\ new.text = article[a].text
            BY <1>1, <2>1, <2>2 DEF Article, Statuses, MergeInto, Live
        <3>2. article' = [article EXCEPT ![a] = new] /\ had' = had
            BY <2>2 DEF MergeInto, TypeOK
        <3>3. article[a].text \in had[a]
            BY <2>2 DEF MergeInto, FrameOK, ArticleFrame
        <3> HIDE DEF new
        <3> QED BY <1>0, <2>1, <3>1, <3>2, <3>3, RowFrame
    <2>3. CASE CreateFrom(a, r)
        <3> DEFINE new == Created(remote[r].text, 2)
        <3>1. new \in Article
            BY <2>1, ArticleTypes
        <3>2. new.state = "live" /\ new.draftId = 0 /\ new.text \in had'[a]
            BY <2>3 DEF Created, NoArticle, CreateFrom, SetArticle, TypeOK
        <3>3. article' = [article EXCEPT ![a] = new]
            BY <2>3 DEF CreateFrom, SetArticle
        <3> HIDE DEF new
        <3> QED BY <1>0, <2>1, <3>1, <3>2, <3>3, RowFrame
    <2> QED BY <1>7, <2>2, <2>3 DEF Import
<1>8. ASSUME NEW s \in Syncs, NEW r \in Remotes, Locate(s, r) PROVE ArticleFrame'
    <2>1. sync[s].found[r] \in Text
        BY <1>8 DEF Locate, FrameOK, SyncFrame
    <2>2. CASE LocateNew(s, r)
        <3>1. PICK a \in Articles : /\ SetArticle(a, Created(sync[s].found[r], 1))
                                    /\ source' = [source EXCEPT ![a] = r]
            BY <2>2 DEF LocateNew
        <3> DEFINE new == Created(sync[s].found[r], 1)
        <3>2. new \in Article
            BY <2>1, ArticleTypes
        <3>3. new.state = "live" /\ new.draftId = 0 /\ new.text \in had'[a]
            BY <3>1 DEF Created, NoArticle, SetArticle, TypeOK
        <3>4. article' = [article EXCEPT ![a] = new]
            BY <3>1 DEF SetArticle
        <3>5. \A b \in Articles \ {a} : source'[b] = source[b] /\ mine'[b] = mine[b]
            BY <1>8, <3>1 DEF Locate, TypeOK
        <3> HIDE DEF new
        <3> QED BY <1>0, <3>2, <3>3, <3>4, <3>5, RowFrame
    <2> QED BY <1>3, <1>8, <2>2 DEF Locate, LocateKnown
<1>9. ASSUME NEW s \in Syncs, Save(s) PROVE ArticleFrame'
    <2>1. sync[s].article \in Articles /\ sync[s].found[sync[s].at] \in Text
        BY <1>9, AtOneTypes DEF Save, AtOne
    <2> DEFINE new == Saved(sync[s].article, sync[s].found[sync[s].at])
    <2>2. CASE UNCHANGED <<article, had>>
        BY <1>3, <1>9, <2>2 DEF Save
    <2>3. CASE Live(sync[s].article) /\ SetArticle(sync[s].article, new)
        <3>1. new \in Article
            BY <2>1, ArticleTypes
        <3>2. /\ new.state = "live" /\ new.draftId = article[sync[s].article].draftId
              /\ new.text \in had'[sync[s].article]
            BY <1>1, <2>1, <2>3, <3>1 DEF Saved, Article, Live, SetArticle, TypeOK
        <3>3. article' = [article EXCEPT ![sync[s].article] = new] /\ UNCHANGED <<source, mine>>
            BY <1>9, <2>3 DEF SetArticle, Save
        <3> HIDE DEF new
        <3> QED BY <1>0, <1>2, <2>1, <3>1, <3>2, <3>3, RowFrame
    <2> QED BY <1>9, <2>2, <2>3 DEF Save
<1>10. ASSUME NEW s \in Syncs, Metadata(s) PROVE ArticleFrame'
    <2>1. sync[s].article \in Articles /\ sync[s].at \in Remotes /\ There(sync[s].at)
        BY <1>10, AtOneTypes DEF Metadata, AtOne, FrameOK, SyncFrame
    <2>2. CASE UNCHANGED article
        BY <1>3, <1>10, <2>2 DEF Metadata, history
    <2>3. CASE Live(sync[s].article)
        <3>1. PICK status \in {"published", "draft"}, id \in {0, sync[s].at} :
                article' = [article EXCEPT ![sync[s].article] =
                   [article[sync[s].article] EXCEPT !.status = status, !.draftId = id]]
            BY <1>10, <2>1, <2>3 DEF Metadata, TypeOK
        <3> DEFINE new == [article[sync[s].article] EXCEPT !.status = status, !.draftId = id]
        <3>2. /\ new \in Article /\ new.state = "live" /\ new.draftId = id
              /\ new.text = article[sync[s].article].text
            BY <1>1, <2>1, <2>3 DEF Article, Statuses, Live
        <3>3. article[sync[s].article].text \in had'[sync[s].article]
            BY <1>10, <2>1, <2>3 DEF Metadata, history, FrameOK, ArticleFrame, Live
        <3>4. UNCHANGED <<source, mine>> /\ article' = [article EXCEPT ![sync[s].article] = new]
            BY <1>10, <3>1 DEF Metadata, history
        <3> HIDE DEF new
        <3> QED BY <1>0, <2>1, <3>2, <3>3, <3>4, RowFrame
    <2> QED BY <1>10, <2>2, <2>3 DEF Metadata
<1>11. CASE UseRemote
    <2>1. resolver.article \in Articles /\ resolver.seen.text \in Text
        BY <1>11 DEF UseRemote, FrameOK, ResolverFrame, Once
    <2> DEFINE new == Saved(resolver.article, resolver.seen.text)
    <2>2. CASE UNCHANGED <<article, had>>
        BY <1>3, <1>11, <2>2 DEF UseRemote
    <2>3. CASE Live(resolver.article) /\ SetArticle(resolver.article, new)
        <3>1. new \in Article
            BY <2>1, ArticleTypes
        <3>2. /\ new.state = "live" /\ new.draftId = article[resolver.article].draftId
              /\ new.text \in had'[resolver.article]
            BY <1>1, <2>1, <2>3, <3>1 DEF Saved, Article, Live, SetArticle, TypeOK
        <3>3. article' = [article EXCEPT ![resolver.article] = new] /\ UNCHANGED <<source, mine>>
            BY <1>11, <2>3 DEF SetArticle, UseRemote
        <3> HIDE DEF new
        <3> QED BY <1>0, <1>2, <2>1, <3>1, <3>2, <3>3, RowFrame
    <2> QED BY <1>11, <2>2, <2>3 DEF UseRemote
<1>12. CASE ApplyPush
    <2>1. push.article \in Articles /\ push.result \in Remotes \cup {0}
        BY <1>12 DEF ApplyPush, FrameOK, PushFrame, Once, TypeOK, Push
    <2>2. UNCHANGED <<had, source, mine>>
        BY <1>12 DEF ApplyPush, history
    <2>3. CASE UNCHANGED article
        BY <1>3, <2>2, <2>3
    <2>4. CASE Live(push.article)
        <3> DEFINE id == IF push.result = 0 THEN article[push.article].draftId ELSE push.result
                   new == [article[push.article] EXCEPT !.status = "draft", !.draftId = id]
        <3>1. id \in Remotes \cup {0} /\ (id # 0 => There(id))
            BY <1>1, <1>2, <2>1 DEF FrameOK, PushFrame
        <3>2. article' = [article EXCEPT ![push.article] = new]
            BY <1>1, <1>12, <2>1, <2>4 DEF ApplyPush, TypeOK, Article
        <3> HIDE DEF id
        <3>3. /\ new \in Article /\ new.state = "live" /\ new.draftId = id
              /\ new.text = article[push.article].text
            BY <1>1, <2>1, <2>4, <3>1 DEF Article, Statuses, Live
        <3>4. article[push.article].text \in had[push.article]
            BY <2>4 DEF FrameOK, ArticleFrame, Live
        <3> HIDE DEF new
        <3> QED BY <1>0, <2>1, <2>2, <3>1, <3>2, <3>3, <3>4, RowFrame
    <2> QED BY <1>12, <2>3, <2>4 DEF ApplyPush
<1>13. CASE ApplyRun \/ CompleteRun
    <2>1. /\ run.article \in Articles /\ Live(run.article) /\ run.target \in Remotes \cup {0}
          /\ run.target # 0 => There(run.target)
        BY <1>13 DEF ApplyRun, CompleteRun, FrameOK, RunFrame, TypeOK, Run
    <2>2. UNCHANGED <<had, source, mine>>
        BY <1>13 DEF ApplyRun, CompleteRun, history
    <2>3. \/ UNCHANGED article
          \/ \E status \in {"published", "draft", "error"},
                id \in {run.target, article[run.article].draftId} :
             article' = [article EXCEPT ![run.article] =
                      [article[run.article] EXCEPT !.draftId = id, !.status = status]]
        <3>1. CASE ApplyRun
            BY <1>1, <2>1, <3>1 DEF ApplyRun, TypeOK, Article
        <3>2. CASE CompleteRun
            BY <1>1, <2>1, <3>2 DEF CompleteRun, TypeOK, Article
        <3> QED BY <1>13, <3>1, <3>2
    <2>4. CASE UNCHANGED article
        BY <1>3, <2>2, <2>4
    <2>5. ASSUME NEW status \in {"published", "draft", "error"},
                 NEW id \in {run.target, article[run.article].draftId},
                 article' = [article EXCEPT ![run.article] =
                      [article[run.article] EXCEPT !.draftId = id, !.status = status]]
          PROVE  ArticleFrame'
        <3> DEFINE new == [article[run.article] EXCEPT !.draftId = id, !.status = status]
        <3>1. id \in Remotes \cup {0} /\ (id # 0 => There(id))
            BY <1>1, <1>2, <2>1
        <3>2. /\ new \in Article /\ new.state = "live" /\ new.draftId = id
              /\ new.text = article[run.article].text
            BY <1>1, <2>1, <3>1 DEF Article, Statuses, Live
        <3>3. article[run.article].text \in had[run.article]
            BY <2>1 DEF FrameOK, ArticleFrame, Live
        <3>4. article' = [article EXCEPT ![run.article] = new]
            BY <2>5
        <3> HIDE DEF new
        <3> QED BY <1>0, <2>1, <2>2, <3>1, <3>2, <3>3, <3>4, RowFrame
    <2> QED BY <2>3, <2>4, <2>5
<1> QED BY <1>3, <1>4, <1>5, <1>6, <1>7, <1>8, <1>9, <1>10, <1>11, <1>12, <1>13, Writers
       DEF ArticleStep

(* An article leaves only when it is deleted.                              *)
LEMMA LiveStays ==
    ASSUME RemoteInv, [Next]_vars, NEW a \in Articles, Live(a)
    PROVE  Live(a)' \/ Delete(a)
<1> USE DEF RemoteInv
<1>1. \A b \in Articles : article[b] \in Article
    BY DEF TypeOK
<1>15. \A status, id : \A b \in Articles :
          [article[b] EXCEPT !.status = status, !.draftId = id].state = article[b].state
    BY <1>1 DEF Article
<1>2. \A b, text : Saved(b, text).state = article[b].state \/ b \notin Articles
    BY <1>1 DEF Saved, Article
<1>3. CASE UNCHANGED article
    BY <1>3 DEF Live
<1>4. ASSUME NEW b \in Articles, Edit(b) PROVE Live(a)'
    BY <1>2, <1>4 DEF Edit, SetArticle, Live, TypeOK
<1>5. ASSUME NEW b \in Articles, Delete(b), ~Delete(a) PROVE Live(a)'
    BY <1>5 DEF Delete, Live, TypeOK
<1>6. ASSUME NEW b \in Articles, RequestPush(b) PROVE Live(a)'
    BY <1>1, <1>6 DEF RequestPush, Live, TypeOK, Article
<1>7. ASSUME NEW r \in Remotes, NEW b \in Articles, Import(r, b) PROVE Live(a)'
    <2>1. CASE MergeInto(b, r)
        BY <1>1, <2>1 DEF MergeInto, Live, TypeOK, Article
    <2>2. CASE CreateFrom(b, r)
        BY <1>1, <2>2 DEF CreateFrom, SetArticle, Created, NoArticle, Live, TypeOK
    <2> QED BY <1>7, <2>1, <2>2 DEF Import
<1>8. ASSUME NEW s \in Syncs, NEW r \in Remotes, Locate(s, r) PROVE Live(a)'
    <2>1. CASE LocateNew(s, r)
        <3>1. PICK b \in Articles : article' = [article EXCEPT ![b] = Created(sync[s].found[r], 1)]
            BY <2>1 DEF LocateNew, SetArticle
        <3>2. Created(sync[s].found[r], 1).state = "live"
            BY DEF Created, NoArticle
        <3> QED BY <3>1, <3>2 DEF Live, TypeOK
    <2>2. LocateKnown(s, r) => UNCHANGED article
        BY DEF LocateKnown
    <2>3. LocateKnown(s, r) \/ LocateNew(s, r)
        BY <1>8 DEF Locate
    <2> QED BY <1>3, <2>1, <2>2, <2>3 DEF Live
<1>9. ASSUME NEW s \in Syncs, Save(s) PROVE Live(a)'
    BY <1>2, <1>9, AtOneTypes DEF Save, AtOne, SetArticle, Live, TypeOK
<1>10. ASSUME NEW s \in Syncs, Metadata(s) PROVE Live(a)'
    <2>1. sync[s].article \in Articles
        BY <1>10, AtOneTypes DEF Metadata, AtOne
    <2>2. \/ UNCHANGED article
          \/ \E status, id : article' = [article EXCEPT ![sync[s].article] =
                [article[sync[s].article] EXCEPT !.status = status, !.draftId = id]]
        BY <1>10, <2>1 DEF Metadata, TypeOK
    <2>3. ASSUME NEW status, NEW id, article' = [article EXCEPT ![sync[s].article] =
                    [article[sync[s].article] EXCEPT !.status = status, !.draftId = id]]
          PROVE  Live(a)'
        BY <1>15, <2>1, <2>3 DEF Live, TypeOK
    <2> QED BY <1>3, <2>2, <2>3 DEF Live
<1>11. CASE UseRemote
    BY <1>2, <1>11 DEF UseRemote, SetArticle, Live, TypeOK
<1>12. CASE ApplyPush
    <2>1. push.article \in Articles
        BY <1>12 DEF ApplyPush, FrameOK, PushFrame, Once
    <2>2. \/ UNCHANGED article
          \/ \E status, id : article' = [article EXCEPT ![push.article] =
                [article[push.article] EXCEPT !.status = status, !.draftId = id]]
        <3> DEFINE id == IF push.result = 0 THEN article[push.article].draftId ELSE push.result
        <3>1. ~UNCHANGED article => article' = [article EXCEPT ![push.article] =
                   [article[push.article] EXCEPT !.status = "draft", !.draftId = id]]
            BY <1>1, <1>12, <2>1 DEF ApplyPush, TypeOK, Article
        <3> HIDE DEF id
        <3> QED BY <3>1
    <2>3. ASSUME NEW status, NEW id, article' = [article EXCEPT ![push.article] =
                    [article[push.article] EXCEPT !.status = status, !.draftId = id]]
          PROVE  Live(a)'
        BY <1>15, <2>1, <2>3 DEF Live, TypeOK
    <2> QED BY <1>3, <2>2, <2>3
<1>13. CASE ApplyRun
    BY <1>1, <1>13 DEF ApplyRun, Live, TypeOK, Article
<1>14. CASE CompleteRun
    BY <1>1, <1>14 DEF CompleteRun, Live, TypeOK, Article
<1> QED BY <1>3, <1>4, <1>5, <1>6, <1>7, <1>8, <1>9, <1>10, <1>11, <1>12, <1>13, <1>14, Writers
       DEF ArticleStep

LEMMA RemoteFrameStep ==
    ASSUME RemoteInv, [Next]_vars
    PROVE  RemoteFrame'
<1> USE DEF RemoteInv
<1>0. Growth
    BY GrowthStep
<1>1. ASSUME NEW r \in Remotes PROVE (remote[r].text \in shown[r])'
    <2>1. remote[r].text \in shown[r]
        BY DEF FrameOK, RemoteFrame
    <2>2. \/ UNCHANGED <<remote, shown>>
          \/ \E q \in Remotes : \E state, text : SetRemote(q, state, text)
        BY Writers DEF RemoteStep, Author, Post, Remove, OperatePush, OperationFails, WriteRemote,
           OperateRun, RunRefused, Upload, WriteStory, UploadDraft
    <2> QED BY <2>1, <2>2 DEF SetRemote, TypeOK
<1>2. CASE UNCHANGED identity
    <2>1. ASSUME NEW a \in Articles, Delete(a), NEW r \in Remotes PROVE identity[r].article # a
        BY <1>2, <2>1, Blank DEF Delete, Mapped, TypeOK, NoIdentity
    <2> QED BY <1>0, <1>1, <1>2, <2>1, LiveStays DEF FrameOK, RemoteFrame, Growth, TypeOK, Identity,
            Live
<1>3. ASSUME NEW a \in Articles, Delete(a) PROVE RemoteFrame'
    <2>1. \A r \in Remotes : identity'[r] = IF identity[r].article = a THEN NoIdentity
                                            ELSE identity[r]
        BY <1>3 DEF Delete, Mapped
    <2>2. \A b \in Articles \ {a} : Live(b) => Live(b)'
        BY <1>3 DEF Delete, Live, TypeOK
    <2> QED BY <1>0, <1>1, <2>1, <2>2 DEF FrameOK, RemoteFrame, Growth, TypeOK, Identity,
            NoIdentity, Live
<1>4. ASSUME NEW a \in Articles, NEW r \in Remotes, NEW base, MapTo(a, r, base),
             Live(a)', There(r), \A b \in Articles : Live(b) => Live(b)'
      PROVE  RemoteFrame'
    <2>1. a # 0
        BY Blank
    <2> QED BY <1>0, <1>1, <1>4, <2>1 DEF FrameOK, RemoteFrame, Growth, TypeOK, Identity, Live,
            MapTo
<1>5. UNCHANGED article => \A b \in Articles : Live(b) => Live(b)'
    BY DEF Live
<1>6. ASSUME NEW s \in Syncs, Mark(s) PROVE RemoteFrame'
    <2>1. sync[s].article \in Articles /\ sync[s].at \in Remotes /\ There(sync[s].at)
        BY <1>6, AtOneTypes DEF Mark, AtOne, FrameOK, SyncFrame
    <2>2. UNCHANGED article
        BY <1>6 DEF Mark
    <2> QED BY <1>2, <1>4, <1>5, <1>6, <2>1, <2>2 DEF Mark, MayMap
<1>7. ASSUME NEW s \in Syncs, NEW r \in Remotes, Locate(s, r) PROVE RemoteFrame'
    <2>1. CASE LocateNew(s, r)
        <3>1. PICK a \in Articles : /\ SetArticle(a, Created(sync[s].found[r], 1))
                                    /\ MapTo(a, r, Unknown)
            BY <2>1 DEF LocateNew
        <3>2. Live(a)' /\ \A b \in Articles : Live(b) => Live(b)'
            BY <3>1 DEF SetArticle, Created, NoArticle, Live, TypeOK
        <3>3. There(r)
            BY <1>7 DEF Locate, FrameOK, SyncFrame
        <3> QED BY <1>4, <3>1, <3>2, <3>3
    <2> QED BY <1>2, <1>7, <2>1 DEF Locate, LocateKnown
<1>8. CASE MarkResolved
    <2>1. resolver.article \in Articles /\ resolver.seen.remote \in Remotes /\ UNCHANGED article
        BY <1>8 DEF MarkResolved, FrameOK, ResolverFrame, Once
    <2>2. Live(resolver.article) => There(resolver.seen.remote)
        BY <1>8, <2>1, Blank DEF MarkResolved, FrameOK, ResolverFrame, RemoteFrame
    <2> QED BY <1>2, <1>4, <1>5, <1>8, <2>1, <2>2 DEF MarkResolved, MayMap
<1>9. CASE MarkPush
    <2>1. /\ push.article \in Articles /\ push.result \in Remotes /\ There(push.result)
          /\ UNCHANGED article
        BY <1>9 DEF MarkPush, FrameOK, PushFrame, Once, TypeOK, Push
    <2> QED BY <1>2, <1>4, <1>5, <1>9, <2>1 DEF MarkPush, MayMap
<1>10. CASE IdentifyRun
    <2>1. /\ run.article \in Articles /\ run.target \in Remotes /\ There(run.target)
          /\ Live(run.article) /\ UNCHANGED article
        BY <1>10 DEF IdentifyRun, FrameOK, RunFrame, TypeOK, Run
    <2> QED BY <1>2, <1>4, <1>5, <1>10, <2>1 DEF IdentifyRun
<1> QED BY <1>2, <1>3, <1>6, <1>7, <1>8, <1>9, <1>10, Writers DEF IdentityStep

LEMMA LatestFrameStep ==
    ASSUME RemoteInv, [Next]_vars
    PROVE  LatestFrame'
<1> USE DEF RemoteInv
<1>0. Growth
    BY GrowthStep
<1>1. \A a \in Articles : latest[a].state # "none" =>
         /\ latest[a].remote \in Remotes /\ identity[latest[a].remote].article = a /\ Live(a)
         /\ latest[a].state \in Available => latest[a].text \in Text
    BY Blank DEF FrameOK, LatestFrame, RemoteFrame
<1>2. ASSUME NEW a \in Articles, latest'[a] = latest[a], latest[a].state # "none"
      PROVE  Live(a)'
    BY <1>1, <1>2, LiveStays DEF Delete, NoObservation, TypeOK
<1>3. ASSUME NEW a \in Articles, latest'[a] = latest[a], latest[a].state # "none"
      PROVE  identity'[latest[a].remote].article = a
    BY <1>0, <1>1, <1>2, <1>3 DEF Growth
<1>4. CASE UNCHANGED latest
    BY <1>1, <1>3, <1>4 DEF LatestFrame
<1>5. ASSUME NEW a \in Articles, Delete(a) PROVE LatestFrame'
    BY <1>1, <1>3, <1>5 DEF LatestFrame, Delete, NoObservation, TypeOK
<1>6. ASSUME NEW a, NEW state, NEW r, NEW text,
             MayRecord(a, r), Record(a, state, r, text), r \in Remotes,
             state \in Available => text \in Text, UNCHANGED identity
      PROVE  LatestFrame'
    BY <1>1, <1>3, <1>6 DEF LatestFrame, Record, MayRecord, TypeOK
<1>7. ASSUME NEW s \in Syncs, Observe(s) \/ Report(s) PROVE LatestFrame'
    <2>1. sync[s].at \in Remotes /\ sync[s].found[sync[s].at] \in Text
        BY <1>7, AtOneTypes DEF Observe, Report, AtOne
    <2> QED BY <1>4, <1>6, <1>7, <2>1 DEF Observe, Report
<1>8. ASSUME NEW s \in Syncs, EndSync(s) \/ Unreachable(s) PROVE LatestFrame'
    <2>1. sync[s].about # 0 => sync[s].want \in Remotes
        BY DEF FrameOK, SyncFrame
    <2> QED BY <1>4, <1>6, <1>8, <2>1 DEF EndSync, Unreachable, Absence, Available
<1>9. CASE ObserveResolved
    BY <1>4, <1>6, <1>9 DEF ObserveResolved, FrameOK, ResolverFrame
<1>10. CASE ObservePush
    <2>1. push.result \in Remotes /\ push.text \in Text
        BY <1>10 DEF ObservePush, FrameOK, PushFrame, TypeOK, Push
    <2> QED BY <1>4, <1>6, <1>10, <2>1 DEF ObservePush
<1> QED BY <1>4, <1>5, <1>7, <1>8, <1>9, <1>10, Writers DEF LatestStep

(* The moves of a synchronization at one article.                          *)
LEMMA SyncRowMoves ==
    ASSUME RemoteInv, NEW s \in Syncs,
           Compare(s) \/ Save(s) \/ Metadata(s) \/ Mark(s) \/ Observe(s) \/ Report(s)
    PROVE  \/ \E pc \in AtOne : \E expected : sync'[s] = [sync[s] EXCEPT !.expected = expected, !.pc = pc]
           \/ \E pc \in AtOne \cup {"next"} : sync'[s] = [sync[s] EXCEPT !.pc = pc]
           \/ \E pc \in AtOne \cup {"next"} : sync'[s] = [sync[s] EXCEPT !.pc = pc, !.clean = FALSE]
           \/ \E failed : sync'[s] = [sync[s] EXCEPT !.pc = "next", !.failed = failed, !.clean = FALSE]
<1> USE DEF RemoteInv
<1>1. CASE Compare(s)
    BY <1>1 DEF Compare, SetSync, AtOne, TypeOK
<1>2. CASE Save(s) \/ Metadata(s)
    BY <1>2 DEF Save, Metadata, GiveUp, SetSync, AtOne, TypeOK
<1>3. CASE Mark(s)
    BY <1>3 DEF Mark, GiveUp, SetSync, AtOne, TypeOK
<1>4. CASE Observe(s) \/ Report(s)
    BY <1>4 DEF Observe, Report, GiveUp, SetSync, AtOne, TypeOK
<1> QED BY <1>1, <1>2, <1>3, <1>4

(* A synchronization writes no row but its own.                            *)
LEMMA OtherRows ==
    ASSUME RemoteInv, NEW s \in Syncs, NEW t \in Syncs \ {s},
           \/ \E a \in Articles \cup {0} : StartSync(t, a)
           \/ SyncStep(t) \/ CrashSync(t)
    PROVE  sync'[s] = sync[s]
<1>1. \E new : SetSync(t, new)
    BY DEF StartSync, SyncStep, CrashSync, ListAll, ListPart, ListLimited, EndDetails,
           Detail, Locate, LocateKnown, LocateNew, Compare, Save, Metadata, Mark, Observe, Report,
           GiveUp, EndSync, Unreachable
<1> QED BY <1>1 DEF RemoteInv, SetSync, TypeOK

(* A row of the synchronizations that stays, or moves on with what it has. *)
LEMMA SyncKept ==
    ASSUME RemoteInv, Growth, NEW s \in Syncs, sync' \in [Syncs -> Sync],
           sync'[s].pc = "idle" => sync'[s] = IdleSync,
           sync'[s].pc \in AtOne => sync[s].pc \in AtOne,
           sync'[s].at = sync[s].at, sync'[s].article = sync[s].article,
           sync'[s].found = sync[s].found, sync'[s].todo \subseteq sync[s].todo,
           sync'[s].about = sync[s].about, sync'[s].want = sync[s].want
    PROVE  SyncFrame(s)'
<1>1. SyncFrame(s) /\ sync[s] \in Sync
    BY DEF RemoteInv, FrameOK, TypeOK
<1>2. ASSUME sync[s].pc \in AtOne
      PROVE  /\ sync[s].at \in Remotes /\ Once(sync[s].article)'
             /\ sync[s].found[sync[s].at] \in Text
    BY <1>1, <1>2 DEF SyncFrame, Growth, Once
<1>3. ASSUME sync[s].pc \in AtOne, Live(sync[s].article)'
      PROVE  identity'[sync[s].at].article = sync[s].article
    <2>1. sync[s].at \in Remotes /\ sync[s].article \in Articles /\ Once(sync[s].article)
        BY <1>1, <1>3 DEF SyncFrame, Once
    <2>2. Live(sync[s].article)
        BY <1>3, <2>1 DEF Growth
    <2>3. identity[sync[s].at].article = sync[s].article
        BY <1>1, <1>3, <2>2 DEF SyncFrame
    <2> QED BY <1>3, <2>1, <2>3 DEF Growth, Live
<1>4. \A r \in Remotes : sync[s].found[r] \in Text => There(r)' /\ sync[s].found[r] \in shown'[r]
    BY <1>1 DEF SyncFrame, Growth
<1>5. sync[s].about # 0 => Once(sync[s].about)' /\ sync[s].want \in Remotes /\ There(sync[s].want)'
    BY <1>1 DEF SyncFrame, Growth, Once, There
<1>6. \A r \in sync'[s].todo : sync'[s].found[r] \in Text
    BY <1>1 DEF SyncFrame
<1>7. sync'[s].pc \in AtOne =>
         /\ sync'[s].at \in Remotes /\ Once(sync[s].article)'
         /\ sync'[s].found[sync'[s].at] \in Text
         /\ Live(sync[s].article)' => identity'[sync'[s].at].article = sync'[s].article
    BY <1>2, <1>3
<1>8. sync'[s].about = 0 => sync'[s].want = 0
    BY <1>1 DEF SyncFrame
<1> QED BY <1>4, <1>5, <1>6, <1>7, <1>8 DEF SyncFrame, Once, There, Live

(* A synchronization that has fetched.                                     *)
LEMMA SyncFetched ==
    ASSUME RemoteInv, NEW s \in Syncs, UNCHANGED <<article, identity, remote, shown>>,
           sync' \in [Syncs -> Sync], sync'[s].pc \notin AtOne \cup {"idle"},
           NEW got \in SUBSET {r \in Remotes : There(r)},
           sync'[s].found =
              [r \in Remotes |-> IF r \in got THEN remote[r].text ELSE sync[s].found[r]],
           sync'[s].todo = sync[s].todo \cup got,
           sync'[s].about = sync[s].about, sync'[s].want = sync[s].want
    PROVE  SyncFrame(s)'
<1>1. SyncFrame(s) /\ sync[s] \in Sync
    BY DEF RemoteInv, FrameOK, TypeOK
<1>2. \A r \in Remotes : remote[r].text \in Text /\ remote[r].text \in shown[r]
    BY DEF RemoteInv, FrameOK, RemoteFrame, TypeOK, Remote
<1>3. \A r \in sync'[s].todo : sync'[s].found[r] \in Text
    BY <1>1, <1>2 DEF SyncFrame, Sync
<1>4. \A r \in Remotes : sync'[s].found[r] \in Text =>
         There(r)' /\ sync'[s].found[r] \in shown'[r]
    BY <1>1, <1>2 DEF SyncFrame, There
<1>5. sync[s].about # 0 => Once(sync[s].about)' /\ There(sync[s].want)'
    BY <1>1 DEF SyncFrame, Once, There
<1> QED BY <1>1, <1>3, <1>4, <1>5 DEF SyncFrame, Once, There

LEMMA SyncFrameStep ==
    ASSUME RemoteInv, [Next]_vars, NEW s \in Syncs
    PROVE  SyncFrame(s)'
<1> USE DEF RemoteInv
<1>0. Growth /\ sync' \in [Syncs -> Sync] /\ sync[s] \in Sync /\ SyncFrame(s)
    BY GrowthStep, TypeStep DEF TypeOK, FrameOK
<1>1. CASE sync'[s] = sync[s]
    BY <1>0, <1>1, SyncKept DEF SyncFrame
<1>2. CASE sync'[s] = IdleSync
    BY <1>2, Blank DEF SyncFrame, IdleSync, AtOne, Once, There
<1>3. ASSUME NEW a \in Articles \cup {0}, StartSync(s, a) PROVE SyncFrame(s)'
    <2>1. sync'[s] = [IdleSync EXCEPT !.pc = "drafts", !.about = a,
                         !.want = IF a = 0 THEN 0 ELSE FirstOf(a)]
        BY <1>3 DEF StartSync, SetSync, TypeOK
    <2>2. /\ sync'[s].pc = "drafts" /\ sync'[s].about = a /\ sync'[s].todo = {}
          /\ sync'[s].want = IF a = 0 THEN 0 ELSE FirstOf(a)
          /\ sync'[s].found = [r \in Remotes |-> Unknown]
        BY <2>1 DEF IdleSync
    <2>3. a # 0 => Once(a) /\ FirstOf(a) \in Remotes /\ There(FirstOf(a))
        BY <1>3, FirstIsMapped DEF StartSync, MayRefresh, Once, Live, Mapped, FrameOK, RemoteFrame
    <2>4. a # 0 => Once(a)' /\ There(FirstOf(a))'
        BY <1>3, <2>3 DEF StartSync, store, Once, There, FirstOf, Mapped
    <2>5. \A r \in Remotes : sync'[s].found[r] \notin Text
        BY <2>2, Blank
    <2>6. a = 0 => sync'[s].want = 0
        BY <2>2
    <2>7. a # 0 => Once(a)' /\ sync'[s].want \in Remotes /\ There(FirstOf(a))'
                   /\ sync'[s].want = FirstOf(a)
        BY <2>2, <2>3, <2>4
    <2>8. FirstOf(a)' = FirstOf(a)
        BY <1>3 DEF StartSync, store, FirstOf, Mapped
    <2>9. sync'[s].about # 0 => Once(sync[s].about)' /\ sync'[s].want \in Remotes
                                /\ There(sync[s].want)'
        BY <2>2, <2>7, <2>8 DEF Once, There
    <2> QED BY <2>2, <2>5, <2>6, <2>9 DEF SyncFrame, AtOne
<1>4. ASSUME ListAll(s) \/ ListPart(s) \/ ListLimited(s) \/ EndDetails(s)
             \/ \E r \in Remotes : Detail(s, r)
      PROVE  SyncFrame(s)'
    <2>1. UNCHANGED <<article, identity, remote, shown>>
        BY <1>4 DEF ListAll, ListPart, ListLimited, EndDetails, Detail, store, history
    <2>2. \A r \in Remotes : remote[r].state \in Listing(s) \/ Exists(r) => There(r)
        BY DEF Listing, Exists, There
    <2>3. AfterListing(s) \notin AtOne \cup {"idle"}
        BY DEF AfterListing, AtOne
    <2>4. CASE EndDetails(s)
        BY <1>0, <2>4, SyncKept DEF EndDetails, SetSync, Sync, AtOne
    <2>5. ASSUME NEW r \in Remotes, Detail(s, r) PROVE SyncFrame(s)'
        <3>1. PICK got \in SUBSET {r}, lost \in SUBSET {r} :
                 /\ got \subseteq {q \in Remotes : There(q)}
                 /\ sync'[s] = [Fetched(s, got, lost) EXCEPT !.listed = sync[s].listed \ {r}]
            <4>1. \/ Exists(r) /\ SetSync(s, [Fetched(s, {r}, {}) EXCEPT !.listed = sync[s].listed \ {r}])
                  \/ SetSync(s, [Fetched(s, {}, {r}) EXCEPT !.listed = sync[s].listed \ {r}])
                BY <2>5 DEF Detail
            <4>2. CASE Exists(r) /\ SetSync(s, [Fetched(s, {r}, {}) EXCEPT !.listed = sync[s].listed \ {r}])
                BY <2>2, <4>2 DEF SetSync, TypeOK
            <4>3. CASE SetSync(s, [Fetched(s, {}, {r}) EXCEPT !.listed = sync[s].listed \ {r}])
                <5>1. {} \in SUBSET {r} /\ {r} \in SUBSET {r}
                    OBVIOUS
                <5>2. {} \subseteq {q \in Remotes : There(q)}
                    OBVIOUS
                <5>3. sync'[s] = [Fetched(s, {}, {r}) EXCEPT !.listed = sync[s].listed \ {r}]
                    BY <4>3 DEF SetSync, TypeOK
                <5> QED BY <5>1, <5>2, <5>3
            <4> QED BY <4>1, <4>2, <4>3
        <3>2. sync[s].pc = "details"
            BY <2>5 DEF Detail
        <3>3. /\ sync'[s].pc = "details" /\ sync'[s].todo = sync[s].todo \cup got
              /\ sync'[s].about = sync[s].about /\ sync'[s].want = sync[s].want
              /\ sync'[s].found =
                    [q \in Remotes |-> IF q \in got THEN remote[q].text ELSE sync[s].found[q]]
            BY <1>0, <3>1, <3>2 DEF Fetched, Sync
        <3> QED BY <1>0, <2>1, <3>1, <3>3, SyncFetched DEF AtOne
    <2>6. CASE ListAll(s) \/ ListPart(s) \/ ListLimited(s)
        <3>1. CASE \/ \E got : sync'[s] = [sync[s] EXCEPT !.pc = AfterListing(s), !.listed = @ \cup got]
                   \/ \E got : sync'[s] = [sync[s] EXCEPT !.pc = AfterListing(s),
                                                !.listed = @ \cup got, !.clean = FALSE]
            <4>1. /\ sync'[s].pc = AfterListing(s) /\ sync'[s].todo = sync[s].todo
                  /\ sync'[s].about = sync[s].about /\ sync'[s].want = sync[s].want
                  /\ sync'[s].found = sync[s].found /\ sync'[s].at = sync[s].at
                  /\ sync'[s].article = sync[s].article
                BY <1>0, <3>1 DEF Sync
            <4> QED BY <1>0, <2>3, <4>1, SyncKept
        <3>2. ASSUME NEW got \in SUBSET {q \in Remotes : There(q)},
                     \/ sync'[s] = [Fetched(s, got, {}) EXCEPT !.pc = AfterListing(s)]
                     \/ sync'[s] = [Fetched(s, got, {}) EXCEPT !.pc = AfterListing(s),
                                                              !.clean = FALSE]
              PROVE  SyncFrame(s)'
            <4>1. /\ sync'[s].pc = AfterListing(s) /\ sync'[s].todo = sync[s].todo \cup got
                  /\ sync'[s].about = sync[s].about /\ sync'[s].want = sync[s].want
                  /\ sync'[s].found =
                        [q \in Remotes |-> IF q \in got THEN remote[q].text ELSE sync[s].found[q]]
                BY <1>0, <3>2 DEF Fetched, Sync
            <4> QED BY <1>0, <2>1, <2>3, <4>1, SyncFetched
        <3>3. CASE ListAll(s)
            <4> DEFINE there == {r \in Remotes : remote[r].state \in Listing(s)}
            <4>1. \/ SetSync(s, [sync[s] EXCEPT !.pc = AfterListing(s), !.listed = @ \cup there])
                  \/ SetSync(s, [Fetched(s, there, {}) EXCEPT !.pc = AfterListing(s)])
                BY <3>3 DEF ListAll
            <4>2. there \in SUBSET {q \in Remotes : There(q)}
                BY <2>2
            <4> HIDE DEF there
            <4> QED BY <3>1, <3>2, <4>1, <4>2 DEF SetSync, TypeOK
        <3>4. CASE ListPart(s)
            <4>1. PICK got \in SUBSET {r \in Remotes : remote[r].state \in Listing(s)} :
                    SetSync(s, IF scope.platform = "medium"
                       THEN [sync[s] EXCEPT !.pc = AfterListing(s), !.listed = @ \cup got,
                                            !.clean = FALSE]
                       ELSE [Fetched(s, got, {}) EXCEPT !.pc = AfterListing(s), !.clean = FALSE])
                BY <3>4 DEF ListPart
            <4> QED BY <2>2, <3>1, <3>2, <4>1 DEF SetSync, TypeOK
        <3>5. CASE ListLimited(s)
            BY <3>1, <3>5 DEF ListLimited, SetSync, TypeOK
        <3> QED BY <2>6, <3>3, <3>4, <3>5
    <2> QED BY <1>4, <2>4, <2>5, <2>6
<1>5. ASSUME NEW r \in Remotes, Locate(s, r) PROVE SyncFrame(s)'
    <2>1. /\ sync[s].found[r] \in Text /\ There(r) /\ sync[s].pc = "next"
          /\ UNCHANGED <<remote, shown>>
        BY <1>5, <1>0 DEF Locate, SyncFrame
    <2>2. PICK a \in Articles, pc \in AtOne, created \in BOOLEAN, base \in Text \cup {Unknown} :
             /\ Once(a)' /\ (Live(a)' => identity'[r].article = a)
             /\ sync'[s] = [sync[s] EXCEPT !.pc = pc, !.todo = @ \ {r}, !.at = r, !.article = a,
                                           !.created = created, !.base = base]
        <3>1. CASE LocateKnown(s, r)
            <4>1. /\ identity[r].article \in Articles /\ Once(identity[r].article)'
                  /\ identity' = identity /\ identity[r].base \in Text \cup {Unknown}
                BY <3>1 DEF LocateKnown, Live, Once, TypeOK, Identity
            <4> QED BY <3>1, <4>1 DEF LocateKnown, SetSync, TypeOK, AtOne
        <3>2. CASE LocateNew(s, r)
            <4>1. PICK a \in Articles :
                     /\ SetArticle(a, Created(sync[s].found[r], 1))
                     /\ MapTo(a, r, Unknown)
                     /\ SetSync(s, [sync[s] EXCEPT !.pc = "metadata", !.todo = @ \ {r}, !.at = r,
                            !.article = a, !.created = TRUE, !.base = Unknown])
                BY <3>2 DEF LocateNew
            <4>2. Once(a)' /\ identity'[r].article = a
                BY <4>1 DEF SetArticle, Created, NoArticle, Once, MapTo, TypeOK
            <4> QED BY <4>1, <4>2 DEF SetSync, TypeOK, AtOne
        <3> QED BY <1>5, <3>1, <3>2 DEF Locate
    <2>3. /\ sync'[s].pc = pc /\ sync'[s].todo = sync[s].todo \ {r} /\ sync'[s].at = r
          /\ sync'[s].article = a /\ sync'[s].found = sync[s].found
          /\ sync'[s].about = sync[s].about /\ sync'[s].want = sync[s].want
        BY <1>0, <2>2 DEF Sync
    <2>4. \A q \in Remotes : sync[s].found[q] \in Text => There(q)' /\ sync[s].found[q] \in shown'[q]
        BY <1>0, <2>1 DEF SyncFrame, There
    <2>5. sync[s].about # 0 => Once(sync[s].about)' /\ sync[s].want \in Remotes
                               /\ There(sync[s].want)'
        <3>1. sync[s].about # 0 => Once(sync[s].about) /\ sync[s].want \in Remotes
                                   /\ There(sync[s].want)
            BY <1>0 DEF SyncFrame
        <3>2. sync[s].about # 0 => Once(sync[s].about)' /\ There(sync[s].want)'
            BY <2>3, <3>1, <1>0 DEF Growth, Once, There
        <3> QED BY <3>1, <3>2
    <2>6. pc # "idle"
        BY DEF AtOne
    <2> QED BY <1>0, <2>1, <2>2, <2>3, <2>4, <2>5, <2>6 DEF SyncFrame, Once, There, Live
<1>6. ASSUME Compare(s) \/ Save(s) \/ Metadata(s) \/ Mark(s) \/ Observe(s) \/ Report(s)
      PROVE  SyncFrame(s)'
    <2>1. sync[s].pc \in AtOne /\ sync[s].pc # "idle"
        BY <1>6 DEF Compare, Save, Metadata, Mark, Observe, Report, AtOne
    <2>2. \/ \E pc \in AtOne : \E expected : sync'[s] = [sync[s] EXCEPT !.expected = expected, !.pc = pc]
          \/ \E pc \in AtOne \cup {"next"} : sync'[s] = [sync[s] EXCEPT !.pc = pc]
          \/ \E pc \in AtOne \cup {"next"} : sync'[s] = [sync[s] EXCEPT !.pc = pc, !.clean = FALSE]
          \/ \E failed : sync'[s] = [sync[s] EXCEPT !.pc = "next", !.failed = failed, !.clean = FALSE]
        BY <1>6, SyncRowMoves
    <2>3. /\ sync'[s].pc # "idle" /\ sync'[s].todo = sync[s].todo /\ sync'[s].at = sync[s].at
          /\ sync'[s].article = sync[s].article /\ sync'[s].found = sync[s].found
          /\ sync'[s].about = sync[s].about /\ sync'[s].want = sync[s].want
        BY <1>0, <2>1, <2>2 DEF Sync, AtOne
    <2> QED BY <1>0, <2>1, <2>3, SyncKept
<1>7. CASE EndSync(s) \/ Unreachable(s) \/ CrashSync(s)
    BY <1>2, <1>7 DEF EndSync, Unreachable, CrashSync, SetSync, TypeOK
<1> QED BY <1>1, <1>3, <1>4, <1>5, <1>6, <1>7, OtherRows, Writers DEF SyncMove, SyncStep

LEMMA PushFrameStep ==
    ASSUME RemoteInv, [Next]_vars
    PROVE  PushFrame'
<1> USE DEF RemoteInv
<1>0. Growth /\ PushFrame /\ push \in Push
    BY GrowthStep DEF FrameOK, TypeOK
<1>1. UNCHANGED scope
    BY Writers
<1>2. \A a : Once(a) => Once(a)'
    BY <1>0 DEF Growth, Once
<1>3. \A r \in Remotes \cup {0} : There(r) /\ r # 0 => There(r)'
    BY <1>0 DEF Growth
<1>4. CASE UNCHANGED push
    <2>1. push.pc # "idle" => Once(push.article)'
        BY <1>0, <1>2, <1>4 DEF PushFrame, Once
    <2>2. push.target # 0 => There(push.target)'
        BY <1>0, <1>3, <1>4 DEF PushFrame, There, Push
    <2>3. push.result # 0 => There(push.result)'
        BY <1>0, <1>3, <1>4 DEF PushFrame, There, Push
    <2> QED BY <1>0, <1>1, <1>4, <2>1, <2>2, <2>3 DEF PushFrame
<1>5. CASE push' = IdlePush
    BY <1>5, Blank DEF PushFrame, IdlePush
<1>6. ASSUME NEW a \in Articles, RequestPush(a) PROVE PushFrame'
    <2>1. push' = [IdlePush EXCEPT !.pc = "queued", !.article = a]
        BY <1>6 DEF RequestPush
    <2>2. /\ push'.pc = "queued" /\ push'.article = a /\ push'.target = 0 /\ push'.result = 0
        BY <2>1 DEF IdlePush
    <2>3. Once(a)'
        BY <1>2, <1>6 DEF RequestPush, Live, Once
    <2> QED BY <2>2, <2>3 DEF PushFrame, Once
<1>7. CASE ReadForPush
    <2>1. Once(push.article)
        BY <1>0, <1>7 DEF ReadForPush, PushFrame
    <2> DEFINE row == article[push.article]
    <2>2. row.text \in Text /\ row.draftId \in Remotes \cup {0}
        BY <2>1 DEF Once, TypeOK, Article
    <2>3. row.draftId # 0 => There(row.draftId)
        BY <2>1 DEF Once, FrameOK, ArticleFrame
    <2>4. UNCHANGED <<article, remote>>
        BY <1>7 DEF ReadForPush, store
    <2>5. CASE Live(push.article)
        <3>1. push' = [push EXCEPT !.pc = "ready", !.text = row.text, !.target = row.draftId]
            BY <1>7, <2>5 DEF ReadForPush
        <3> HIDE DEF row
        <3>2. /\ push'.pc = "ready" /\ push'.article = push.article /\ push'.text = row.text
              /\ push'.target = row.draftId /\ push'.result = push.result
            BY <1>0, <3>1 DEF Push
        <3> QED BY <1>0, <2>1, <2>2, <2>3, <2>4, <3>2 DEF PushFrame, Once, There
    <2> QED BY <1>5, <1>7, <2>5 DEF ReadForPush
<1>8. CASE ClaimPush
    <2>1. UNCHANGED <<article, remote>>
        BY <1>8 DEF ClaimPush, store
    <2>2. /\ push.pc = "ready" /\ push'.pc = "sent" /\ push'.article = push.article
          /\ push'.text = push.text /\ push'.target = push.target /\ push'.result = push.target
        BY <1>0, <1>8 DEF ClaimPush, Push
    <2> QED BY <1>0, <2>1, <2>2 DEF PushFrame, Once, There
<1>9. CASE OperatePush
    <2>1. PICK r \in Remotes : WriteRemote(r) /\ push' = [push EXCEPT !.pc = "sent", !.result = r]
        BY <1>9 DEF OperatePush
    <2>2. /\ push.pc = "ready" /\ push'.pc = "sent" /\ push'.article = push.article
          /\ push'.text = push.text /\ push'.target = push.target /\ push'.result = r
        BY <1>0, <2>1 DEF WriteRemote, Push
    <2>3. There(r)'
        BY <2>1 DEF WriteRemote, SetRemote, There, TypeOK
    <2>4. Once(push.article)' /\ (push.target # 0 => There(push.target)')
        BY <1>0, <1>2, <1>3, <2>2 DEF PushFrame, Once, There, Push
    <2> QED BY <1>0, <2>2, <2>3, <2>4 DEF PushFrame, Once, There
<1>10. CASE ApplyPush
    <2>1. UNCHANGED remote /\ push.pc = "sent"
        BY <1>10 DEF ApplyPush
    <2>2. CASE push' = [push EXCEPT !.pc = "applied"] /\ push.result # 0 /\ scope.platform # "medium"
        <3>1. /\ push'.pc = "applied" /\ push'.article = push.article
              /\ push'.text = push.text /\ push'.target = push.target /\ push'.result = push.result
            BY <1>0, <2>2 DEF Push
        <3>2. Once(push.article)'
            BY <1>0, <1>2, <2>1, <3>1 DEF PushFrame, Once
        <3> QED BY <1>0, <1>1, <2>1, <2>2, <3>1, <3>2 DEF PushFrame, There
    <2> QED BY <1>5, <1>10, <2>2 DEF ApplyPush
<1>11. CASE MarkPush
    <2>1. UNCHANGED <<article, remote>> /\ push.pc = "applied"
        BY <1>11 DEF MarkPush
    <2>2. CASE push' = [push EXCEPT !.pc = "marked", !.text = article[push.article].text]
        <3>1. /\ push'.pc = "marked" /\ push'.article = push.article
              /\ push'.text = article[push.article].text
              /\ push'.target = push.target /\ push'.result = push.result
            BY <1>0, <2>2 DEF Push
        <3>2. article[push.article].text \in Text
            BY <1>0, <2>1 DEF PushFrame, Once, TypeOK, Article
        <3> QED BY <1>0, <1>1, <2>1, <3>1, <3>2 DEF PushFrame, Once, There
    <2> QED BY <1>5, <1>11, <2>2 DEF MarkPush
<1>12. CASE CrashPush
    <2>1. UNCHANGED <<article, remote>> /\ push.pc \in {"ready", "sent", "applied", "marked"}
        BY <1>12 DEF CrashPush, store
    <2>2. /\ push'.pc \in {"queued", "sent"} /\ push'.article = push.article
          /\ push'.text = push.text /\ push'.target = push.target /\ push'.result = push.result
        BY <1>0, <1>12 DEF CrashPush, Push
    <2> QED BY <1>0, <2>1, <2>2 DEF PushFrame, Once, There
<1> QED BY <1>4, <1>5, <1>6, <1>7, <1>8, <1>9, <1>10, <1>11, <1>12, Writers
       DEF PushMove, PushStep, OperationFails, ObservePush

LEMMA RunFrameStep ==
    ASSUME RemoteInv, [Next]_vars
    PROVE  RunFrame'
<1> USE DEF RemoteInv
<1>0. Growth /\ RunFrame /\ run \in Run
    BY GrowthStep DEF FrameOK, TypeOK
<1>1. run.target # 0 => There(run.target)
    BY <1>0 DEF RunFrame
<1>2. run.target # 0 => remote'[run.target].state # "absent"
    BY <1>0, <1>1 DEF Growth, Run, There
<1>3. ASSUME NEW a \in Articles, Delete(a) PROVE RunFrame'
    <2>1. CASE run.article = a
        BY <1>3, <2>1 DEF Delete, RunFrame, NoRun
    <2>2. CASE run.article # a
        <3>1. run' = run /\ UNCHANGED remote /\ \A b : b # a /\ Live(b) => Live(b)'
            BY <1>3, <2>2 DEF Delete, Live, TypeOK
        <3>2. run.article # 0 => Live(run.article)'
            BY <1>0, <2>2, <3>1 DEF RunFrame, Live
        <3> QED BY <1>0, <3>1, <3>2 DEF RunFrame, There
    <2> QED BY <2>1, <2>2
<1>4. ASSUME \A a \in Articles : ~Delete(a) PROVE run.article # 0 => article'[run.article].state = "live"
    BY <1>0, <1>4, LiveStays DEF RunFrame, Live
<1>5. CASE UNCHANGED run
    <2>1. ASSUME \A a \in Articles : ~Delete(a) PROVE RunFrame'
        <3>1. run'.article # 0 => Live(run.article)' /\ run'.text \in Text
            BY <1>0, <1>4, <1>5, <2>1 DEF RunFrame, Live
        <3>2. run'.target # 0 => There(run.target)'
            BY <1>2, <1>5 DEF There
        <3> QED BY <1>0, <1>5, <3>1, <3>2 DEF RunFrame
    <2> QED BY <1>3, <2>1
<1>6. ASSUME NEW a \in Articles, NEW mode \in {"draft", "publish"}, RequestRun(a, mode)
      PROVE  RunFrame'
    <2>1. /\ run'.status = "awaiting_approval" /\ run'.article = a
          /\ run'.text = article[a].text /\ run'.target = 0 /\ run'.job = "none"
        BY <1>6 DEF RequestRun, NoRun
    <2>2. UNCHANGED article /\ Live(a) /\ article[a].text \in Text
        BY <1>6 DEF RequestRun, store, TypeOK, Article
    <2> QED BY <2>1, <2>2, Blank DEF RunFrame, Live
<1>7. ASSUME UNCHANGED article, run'.article = run.article, run'.text = run.text,
             run'.job # "none" => run'.status = "running",
             run'.status \in {"awaiting_approval", "running"} => run.article # 0,
             run'.target # 0 => remote'[run'.target].state # "absent",
             run'.job \in {"sent", "marked", "applied"} => run'.target # 0
      PROVE  RunFrame'
    BY <1>0, <1>7 DEF RunFrame, Live, There
<1>8. CASE ApproveRun \/ CreateRunJob
    <2>1. /\ run'.status = "running" /\ run'.job \in {"approved", "queued"}
          /\ run'.article = run.article /\ run'.text = run.text /\ run'.target = run.target
          /\ run.article # 0
        BY <1>0, <1>8 DEF ApproveRun, CreateRunJob, RunFrame, Run
    <2>2. UNCHANGED article
        BY <1>8 DEF ApproveRun, CreateRunJob, store
    <2> QED BY <1>2, <1>7, <2>1, <2>2
<1>9. CASE ReadForRun
    <2>1. UNCHANGED <<article, remote>> /\ run.job = "queued" /\ run.status = "running"
          /\ run.article \in Articles
        BY <1>0, <1>9 DEF ReadForRun, store, RunFrame, Run
    <2> DEFINE target == IF article[run.article].draftId # 0 THEN article[run.article].draftId
                         ELSE IF Mapped(run.article) # {} THEN FirstOf(run.article) ELSE 0
    <2>2. /\ run'.status = "running" /\ run'.job = "ready" /\ run'.target = target
          /\ run'.article = run.article /\ run'.text = run.text
        BY <1>0, <1>9, <2>1 DEF ReadForRun, Run
    <2>3. target # 0 => There(target)
        BY <2>1, FirstIsMapped, Blank DEF FrameOK, ArticleFrame, RemoteFrame, Mapped
    <2> HIDE DEF target
    <2>4. target # 0 => remote'[target].state # "absent"
        BY <2>1, <2>3 DEF There
    <2>5. run.article # 0
        BY <2>1, Blank
    <2> QED BY <1>7, <2>1, <2>2, <2>4, <2>5
<1>10. CASE LoginMissing \/ CrashRun
    <2>1. /\ run'.job = "none" /\ run'.status \in {"failed", run.status}
          /\ run'.article = run.article /\ run'.text = run.text /\ run'.target = run.target
          /\ (run'.status \in {"awaiting_approval", "running"} => run.article # 0)
        BY <1>0, <1>10 DEF LoginMissing, CrashRun, RunFrame, Run
    <2>2. UNCHANGED article
        BY <1>10 DEF LoginMissing, CrashRun, store
    <2> QED BY <1>2, <1>7, <2>1, <2>2
<1>11. CASE OperateRun
    <2>1. PICK r \in Remotes : Upload(r) /\ run' = [run EXCEPT !.job = "sent", !.target = r]
        BY <1>11 DEF OperateRun
    <2>2. /\ run'.status = run.status /\ run'.job = "sent" /\ run.status = "running"
          /\ run'.target = r /\ run'.article = run.article /\ run'.text = run.text
          /\ run.article # 0 /\ UNCHANGED article
        BY <1>0, <1>11, <2>1 DEF OperateRun, RunFrame, Run, store
    <2>3. remote'[r].state # "absent" /\ r # 0
        BY <2>1, Blank DEF Upload, WriteStory, UploadDraft, SetRemote, TypeOK
    <2> QED BY <1>7, <2>2, <2>3
<1>12. CASE RunRefused \/ IdentifyRun
    <2>1. /\ run'.status = run.status /\ run'.job \in {"refused", "marked"}
          /\ run.status = "running" /\ run'.target = run.target
          /\ (run'.job = "marked" => run.target # 0)
          /\ run'.article = run.article /\ run'.text = run.text /\ run.article # 0
        BY <1>0, <1>12 DEF RunRefused, IdentifyRun, RunFrame, Run
    <2>2. UNCHANGED article
        BY <1>12 DEF RunRefused, IdentifyRun, store
    <2> QED BY <1>2, <1>7, <2>1, <2>2
<1>13. CASE ApplyRun \/ CompleteRun
    <2>1. /\ run'.status \in {"running", "completed", "failed"} /\ run'.job \in {"applied", "none"}
          /\ run'.target = run.target /\ run.target \in Remotes \cup {0}
          /\ run'.job = "applied" => run.target # 0 /\ run'.status = "running"
          /\ run'.article = run.article /\ run'.text = run.text /\ run.article # 0
        BY <1>0, <1>13 DEF ApplyRun, CompleteRun, RunFrame, Run
    <2>2. run.article # 0 => article'[run.article].state = "live"
        BY <1>0, <2>1, LiveStays DEF RunFrame, Live, Delete, NoRun
    <2>3. UNCHANGED remote
        BY <1>13 DEF ApplyRun, CompleteRun
    <2> QED BY <1>0, <1>1, <2>1, <2>2, <2>3 DEF RunFrame, Live, There
<1> QED BY <1>3, <1>5, <1>6, <1>8, <1>9, <1>10, <1>11, <1>12, <1>13, Writers DEF RunMove, RunStep

LEMMA ResolverFrameStep ==
    ASSUME RemoteInv, [Next]_vars
    PROVE  ResolverFrame'
<1> USE DEF RemoteInv
<1>0. Growth /\ ResolverFrame /\ resolver \in Resolver
    BY GrowthStep DEF FrameOK, TypeOK
<1>1. ASSUME NEW a \in Articles, Once(a), NEW r \in Remotes,
             Live(a) => identity[r].article = a, article'[a].state = "live"
      PROVE  identity'[r].article = a
    BY <1>0, <1>1 DEF Growth, Live
<1>2. ASSUME resolver.pc # "idle", resolver'.article = resolver.article,
             resolver'.seen = resolver.seen
      PROVE  ResolverFrame'
    <2>1. /\ Once(resolver.article) /\ resolver.seen.remote \in Remotes
          /\ resolver.seen.text \in Text
          /\ Live(resolver.article) =>
                identity[resolver.seen.remote].article = resolver.article
        BY <1>0, <1>2 DEF ResolverFrame
    <2>2. article'[resolver.article].state # "unused"
        BY <1>0, <2>1 DEF Growth, Once
    <2>3. article'[resolver.article].state = "live" =>
             identity'[resolver.seen.remote].article = resolver.article
        BY <1>1, <2>1 DEF Once
    <2> QED BY <1>2, <2>1, <2>2, <2>3 DEF ResolverFrame, Once, Live
<1>3. CASE resolver'.pc = "idle"
    BY <1>3 DEF ResolverFrame
<1>4. CASE UNCHANGED resolver
    BY <1>2, <1>3, <1>4
<1>5. ASSUME NEW a \in Articles, NEW action \in {"use_remote", "keep_local"},
             StartResolve(a, action)
      PROVE  ResolverFrame'
    <2>1. resolver'.article = a /\ resolver'.seen = latest[a] /\ UNCHANGED <<article, identity>>
        BY <1>5 DEF StartResolve, store
    <2>2. /\ Live(a) /\ latest[a].remote \in Remotes
          /\ identity[latest[a].remote].article = a /\ latest[a].text \in Text
        BY <1>5 DEF StartResolve, Available, FrameOK, LatestFrame
    <2> QED BY <2>1, <2>2 DEF ResolverFrame, Once, Live
<1>6. CASE UseRemote \/ MarkResolved \/ ObserveResolved \/ CrashResolve
    <2>1. \/ resolver'.pc = "idle"
          \/ resolver'.article = resolver.article /\ resolver'.seen = resolver.seen
        BY <1>0, <1>6 DEF UseRemote, MarkResolved, ObserveResolved, CrashResolve, IdleResolver,
                          Resolver
    <2>2. resolver.pc # "idle"
        BY <1>6 DEF UseRemote, MarkResolved, ObserveResolved, CrashResolve
    <2> QED BY <1>2, <1>3, <2>1, <2>2
<1> QED BY <1>4, <1>5, <1>6, Writers DEF ResolverMove, ResolveStep

LEMMA RemoteInvInit ==
    ASSUME Init
    PROVE  RemoteInv
<1> USE DEF Init
<1>1. {Heading} \in Text /\ {} \in Text /\ 0 \notin Articles /\ 0 \notin Remotes
      /\ Unknown \notin Text
    BY Blank
<1>2. scope.there \subseteq Remotes
    BY RemoteAssumption
<1>3. Created({Heading}, 1) \in Article
    BY <1>1, Blank DEF Created, Article
<1>4. \A a \in Articles : article[a] \in {NoArticle, Created({Heading}, 1)}
    OBVIOUS
<1>5. TypeOK
    <2>1. article \in [Articles -> Article]
        BY <1>3, Blank
    <2>2. remote \in [Remotes -> Remote]
        BY <1>1 DEF Remote
    <2>3. had \in [Articles -> SUBSET Text]
        BY <1>1, <1>4 DEF NoArticle, Created
    <2>4. shown \in [Remotes -> SUBSET Text]
        BY <2>2 DEF Remote
    <2>5. /\ made \in 0..MaxEdits
          /\ spent \in [calls: 0..MaxCalls, faults: 0..MaxFaults]
        BY RemoteAssumption
    <2>6. mine \in [Articles -> SUBSET Edits] /\ source \in [Articles -> Remotes \cup {0}]
        OBVIOUS
    <2> QED BY <1>1, <2>1, <2>2, <2>3, <2>4, <2>5, <2>6, Blank DEF TypeOK
<1>6. ArticleFrame
    <2>1. ASSUME NEW a \in Articles
          PROVE  /\ ~Once(a) => article[a] = NoArticle /\ source[a] = 0 /\ mine[a] = {}
                 /\ article[a].draftId = 0 /\ article[a].text \in had[a]
        BY <1>4, <2>1 DEF Once, Created, NoArticle
    <2> QED BY <2>1 DEF ArticleFrame
<1>7. RemoteFrame /\ LatestFrame
    BY DEF RemoteFrame, LatestFrame, NoIdentity, NoObservation
<1>8. \A s \in Syncs : SyncFrame(s)
    BY <1>1 DEF SyncFrame, IdleSync, AtOne
<1>9. PushFrame /\ RunFrame /\ ResolverFrame
    BY DEF PushFrame, RunFrame, ResolverFrame, IdlePush, NoRun, IdleResolver
<1> QED BY <1>5, <1>6, <1>7, <1>8, <1>9 DEF RemoteInv, FrameOK

LEMMA RemoteInvStep ==
    ASSUME RemoteInv, [Next]_vars
    PROVE  RemoteInv'
<1>1. TypeOK'
    BY TypeStep
<1>2. ArticleFrame' /\ RemoteFrame' /\ LatestFrame'
    BY ArticleFrameStep, RemoteFrameStep, LatestFrameStep
<1>3. \A s \in Syncs : SyncFrame(s)'
    BY SyncFrameStep
<1>4. PushFrame' /\ RunFrame' /\ ResolverFrame'
    BY PushFrameStep, RunFrameStep, ResolverFrameStep
<1> QED BY <1>1, <1>2, <1>3, <1>4 DEF RemoteInv, FrameOK

LEMMA RemoteInvariant == Spec => []RemoteInv
<1>1. Init => RemoteInv
    BY RemoteInvInit
<1>2. RemoteInv /\ [Next]_vars => RemoteInv'
    BY RemoteInvStep
<1> QED BY <1>1, <1>2, PTL DEF Spec

(* Every variable keeps its type: in particular a row, a call and a text   *)
(* refer to articles and remote articles that exist, through deletions and *)
(* crashes of whatever overlaps.                                           *)
THEOREM RemoteTypeCorrect == Spec => []TypeOK
<1>1. RemoteInv => TypeOK
    BY DEF RemoteInv
<1> QED BY <1>1, RemoteInvariant, PTL

-----------------------------------------------------------------------------
(* One article of a remote article.                                        *)

(* Only a synchronization that makes an article for a remote one says so.  *)
LEMMA SourceWriters ==
    ASSUME [Next]_vars
    PROVE  \/ UNCHANGED source
           \/ \E s \in Syncs, r \in Remotes : Locate(s, r) /\ LocateNew(s, r)
<1>1. ASSUME NEW a \in Articles, Edit(a) \/ Delete(a) \/ RequestPush(a) PROVE UNCHANGED source
    BY <1>1 DEF Edit, Delete, RequestPush
<1>2. ASSUME NEW r \in Remotes, NEW a \in Articles, Import(r, a) PROVE UNCHANGED source
    BY <1>2 DEF Import
<1>3. ASSUME NEW s \in Syncs, Save(s) \/ Metadata(s) PROVE UNCHANGED source
    BY <1>3 DEF Save, Metadata, history
<1>4. CASE UseRemote \/ ApplyPush \/ ApplyRun \/ CompleteRun
    BY <1>4 DEF UseRemote, ApplyPush, ApplyRun, CompleteRun, history
<1>5. ASSUME NEW s \in Syncs, NEW r \in Remotes, Locate(s, r)
      PROVE  UNCHANGED source \/ LocateNew(s, r)
    BY <1>5 DEF Locate, LocateKnown
<1> QED BY <1>1, <1>2, <1>3, <1>4, <1>5, Writers DEF ArticleStep

LEMMA SourceStep ==
    ASSUME RemoteInv, SourceIsMapped, [Next]_vars
    PROVE  SourceIsMapped'
<1> USE DEF RemoteInv
<1>1. Growth
    BY GrowthStep
<1>2. ASSUME NEW a \in Articles, Live(a)', source'[a] = source[a], source[a] # 0
      PROVE  identity'[source[a]].article = a
    <2>1. Once(a) /\ source[a] \in Remotes
        BY <1>2 DEF FrameOK, ArticleFrame, TypeOK
    <2>2. Live(a)
        BY <1>1, <1>2, <2>1 DEF Growth
    <2>3. identity[source[a]].article = a
        BY <1>2, <2>2 DEF SourceIsMapped
    <2> QED BY <1>1, <1>2, <2>1, <2>3 DEF Growth
<1>3. CASE UNCHANGED source
    BY <1>2, <1>3 DEF SourceIsMapped
<1>4. ASSUME NEW s \in Syncs, NEW r \in Remotes, LocateNew(s, r) PROVE SourceIsMapped'
    <2>1. PICK a \in Articles : MapTo(a, r, Unknown) /\ source' = [source EXCEPT ![a] = r]
        BY <1>4 DEF LocateNew
    <2>2. identity'[r].article = a
        BY <2>1 DEF MapTo, TypeOK
    <2> QED BY <1>2, <2>1, <2>2 DEF SourceIsMapped, TypeOK
<1> QED BY <1>3, <1>4, SourceWriters

(* Synchronizations and refreshes that overlap, crash and start again, on  *)
(* every platform and whatever the editor, pushes, runs and imports do     *)
(* meanwhile, make one live article of a remote article.                   *)
THEOREM ImportedOnce == Spec => []SyncImportsOnce
<1>1. Init => SourceIsMapped
    BY DEF Init, SourceIsMapped
<1>2. RemoteInv /\ SourceIsMapped /\ [Next]_vars => SourceIsMapped'
    BY SourceStep
<1>3. SourceIsMapped => SyncImportsOnce
    BY DEF SourceIsMapped, SyncImportsOnce
<1> QED BY <1>1, <1>2, <1>3, RemoteInvariant, PTL DEF Spec

-----------------------------------------------------------------------------
(* What a refresh calls deleted is.                                        *)

(* A deleted remote article stays so, and a published one stays public.    *)
LEMMA StageStep ==
    ASSUME RemoteInv, [Next]_vars, NEW r \in Remotes
    PROVE  /\ remote[r].state = "deleted" => remote'[r].state = "deleted"
           /\ scope.platform # "devto" /\ remote[r].state = "published" =>
                remote'[r].state \in {"published", "deleted"}
<1> USE DEF RemoteInv
<1>0. remote \in [Remotes -> Remote]
    BY DEF TypeOK
<1>1. CASE UNCHANGED remote
    BY <1>1
<1>2. ASSUME NEW q \in Remotes, NEW state, NEW text, SetRemote(q, state, text),
             remote[q].state # "deleted",
             scope.platform # "devto" /\ remote[q].state = "published" =>
                state \in {"published", "deleted"}
      PROVE  /\ remote[r].state = "deleted" => remote'[r].state = "deleted"
             /\ scope.platform # "devto" /\ remote[r].state = "published" =>
                  remote'[r].state \in {"published", "deleted"}
    <2>1. remote'[r] = IF r = q THEN [state |-> state, text |-> text] ELSE remote[r]
        BY <1>0, <1>2 DEF SetRemote
    <2> QED BY <1>2, <2>1
<1>3. ASSUME NEW q \in Remotes, Author(q) \/ Post(q) \/ Remove(q) PROVE ~UNCHANGED remote =>
             \E state, text : /\ SetRemote(q, state, text) /\ remote[q].state # "deleted"
                              /\ remote[q].state = "published" => state \in {"published", "deleted"}
    BY <1>3 DEF Author, Post, Remove, Exists
<1>4. ASSUME NEW q \in Remotes, WriteRemote(q)
      PROVE  \E state, text : /\ SetRemote(q, state, text) /\ remote[q].state # "deleted"
                              /\ scope.platform # "devto" => remote[q].state # "published"
    BY <1>4 DEF WriteRemote, UpdateDraft, CreateDraft, Accepts, AcceptsArticle, AcceptsDraft, Exists,
       New
<1>5. ASSUME NEW q \in Remotes, Upload(q)
      PROVE  \E state, text : /\ SetRemote(q, state, text) /\ remote[q].state # "deleted"
                              /\ remote[q].state = "published" => state = "published"
    BY <1>5 DEF Upload, WriteStory, UploadDraft, Exists, New
<1>6. CASE OperatePush \/ OperationFails
    BY <1>1, <1>2, <1>4, <1>6 DEF OperatePush, OperationFails
<1>7. CASE OperateRun \/ RunRefused
    BY <1>1, <1>2, <1>5, <1>7 DEF OperateRun, RunRefused
<1> QED BY <1>1, <1>2, <1>3, <1>6, <1>7, Writers DEF RemoteStep

(* A row that goes on with what it has, or knows that something failed.    *)
LEMMA PassedKept ==
    ASSUME RemoteInv, NothingMissed, [Next]_vars, NEW s \in Syncs,
           sync' \in [Syncs -> Sync],
           sync'[s].clean =>
              /\ sync[s].clean /\ sync'[s].want = sync[s].want /\ sync'[s].found = sync[s].found
              /\ sync'[s].listed = sync[s].listed /\ sync'[s].failed = sync[s].failed
              /\ \/ sync'[s].pc = sync[s].pc
                 \/ sync[s].pc \in AtOne \cup {"next"} /\ sync'[s].pc \in AtOne \cup {"next"}
    PROVE  Passed(s)'
<1>1. UNCHANGED scope
    BY Writers
<1>2. sync[s].want # 0 => sync[s].want \in Remotes
    BY DEF RemoteInv, FrameOK, SyncFrame
<1>3. sync[s].want # 0 =>
         /\ remote[sync[s].want].state = "deleted" => remote'[sync[s].want].state = "deleted"
         /\ scope.platform # "devto" /\ remote[sync[s].want].state = "published" =>
               remote'[sync[s].want].state \in {"published", "deleted"}
    BY <1>2, StageStep
<1>4. sync[s].pc = "published" => scope.platform # "devto"
    BY DEF NothingMissed
<1>5. Passed(s)
    BY DEF NothingMissed
<1> QED BY <1>3, <1>4, <1>5 DEF Passed, AtOne

(* A listing passes the article only when it lists it or it is not there.  *)
LEMMA PassedListing ==
    ASSUME RemoteInv, NothingMissed, [Next]_vars, NEW s \in Syncs, ~Does("limit"),
           ListAll(s) \/ ListPart(s)
    PROVE  /\ Passed(s)'
           /\ scope.platform # "medium" => sync'[s].listed = {}
           /\ scope.platform = "devto" => sync'[s].pc # "published"
<1> USE DEF RemoteInv
<1> DEFINE there == {r \in Remotes : remote[r].state \in Listing(s)}
           want == sync[s].want
           kept(row) == /\ row.want = want /\ row.clean = sync[s].clean
                        /\ row.failed = sync[s].failed /\ row.pc = AfterListing(s)
<1>0. sync[s] \in Sync /\ SyncFrame(s) /\ Passed(s)
    BY DEF TypeOK, FrameOK, NothingMissed
<1>1. want # 0 => want \in Remotes /\ remote[want].state \in {"draft", "published", "deleted"}
    BY <1>0 DEF SyncFrame, There, TypeOK, Remote
<1>2. want # 0 /\ want \notin there =>
         /\ sync[s].pc = "drafts" => remote[want].state \in {"published", "deleted"}
         /\ sync[s].pc = "published" \/ scope.platform = "devto" =>
               remote[want].state \in {"deleted", "draft"}
         /\ scope.platform = "devto" => remote[want].state = "deleted"
    BY <1>1 DEF Listing
<1>3. sync[s].pc \in {"drafts", "published"}
    BY DEF ListAll, ListPart
<1>4. scope.platform = "devto" => sync[s].pc = "drafts"
    BY <1>3 DEF NothingMissed
<1>5. /\ scope.platform = "devto" => AfterListing(s) = "next"
      /\ scope.platform = "medium" => AfterListing(s) \in {"published", "details"}
      /\ scope.platform \notin {"medium", "devto"} => AfterListing(s) \in {"published", "next"}
      /\ scope.platform # "devto" =>
            (AfterListing(s) = "published" <=> sync[s].pc = "drafts")
    BY <1>3 DEF AfterListing
<1>6. UNCHANGED remote /\ UNCHANGED scope
    BY DEF ListAll, ListPart
<1>7. scope.platform # "medium" => sync[s].listed = {}
    BY DEF NothingMissed
<1>8. CASE ListPart(s)
    <2>1. PICK got \in SUBSET there :
            sync'[s] = IF scope.platform = "medium"
                       THEN [sync[s] EXCEPT !.pc = AfterListing(s), !.listed = @ \cup got,
                                            !.clean = FALSE]
                       ELSE [Fetched(s, got, {}) EXCEPT !.pc = AfterListing(s), !.clean = FALSE]
        BY <1>8 DEF ListPart, SetSync, TypeOK
    <2> HIDE DEF there
    <2>2. /\ sync'[s].clean = FALSE /\ sync'[s].pc = AfterListing(s)
          /\ scope.platform # "medium" => sync'[s].listed = sync[s].listed
        BY <1>0, <2>1 DEF Fetched, Sync
    <2> QED BY <1>5, <1>7, <2>2 DEF Passed
<1>9. CASE ListAll(s)
    <2>1. sync'[s] = IF scope.platform = "medium"
                     THEN [sync[s] EXCEPT !.pc = AfterListing(s), !.listed = @ \cup there]
                     ELSE [Fetched(s, there, {}) EXCEPT !.pc = AfterListing(s)]
        BY <1>9 DEF ListAll, SetSync, TypeOK
    <2> HIDE DEF there
    <2>2. CASE scope.platform = "medium"
        <3>1. kept(sync'[s]) /\ sync'[s].found = sync[s].found
              /\ sync'[s].listed = sync[s].listed \cup there
            BY <1>0, <2>1, <2>2 DEF Sync
        <3> QED BY <1>0, <1>1, <1>2, <1>3, <1>5, <1>6, <2>2, <3>1 DEF Passed, AtOne
    <2>3. CASE scope.platform # "medium"
        <3>1. /\ kept(sync'[s]) /\ sync'[s].listed = {}
              /\ sync'[s].found =
                    [r \in Remotes |-> IF r \in there THEN remote[r].text ELSE sync[s].found[r]]
            BY <1>0, <1>7, <2>1, <2>3 DEF Fetched, Sync
        <3>2. want \in Remotes /\ want \in there => sync'[s].found[want] # Unknown
            BY <3>1, Blank DEF TypeOK, Remote
        <3>3. want \in Remotes /\ sync[s].found[want] # Unknown => sync'[s].found[want] # Unknown
            BY <3>1, <3>2
        <3> QED BY <1>0, <1>1, <1>2, <1>3, <1>4, <1>5, <1>6, <1>7, <2>3, <3>1, <3>2, <3>3
                DEF Passed, AtOne
    <2> QED BY <2>2, <2>3
<1> QED BY <1>8, <1>9

(* Medium's articles are opened one by one.                                *)
LEMMA PassedDetail ==
    ASSUME RemoteInv, NothingMissed, [Next]_vars, NEW s \in Syncs, NEW r \in Remotes,
           Detail(s, r)
    PROVE  /\ Passed(s)'
           /\ scope.platform # "medium" => sync'[s].listed = {}
           /\ sync'[s].pc = "details"
<1> USE DEF RemoteInv
<1>0. /\ sync[s] \in Sync /\ SyncFrame(s) /\ Passed(s) /\ UNCHANGED remote
      /\ sync[s].pc = "details"
      /\ scope.platform # "medium" => sync[s].listed = {}
    BY DEF TypeOK, FrameOK, NothingMissed, Detail
<1>1. \A got, lost : /\ Fetched(s, got, lost).pc = "details"
                     /\ Fetched(s, got, lost).clean = (sync[s].clean /\ lost = {})
                     /\ Fetched(s, got, lost).want = sync[s].want
                     /\ Fetched(s, got, lost).failed = sync[s].failed \cup lost
                     /\ Fetched(s, got, lost).found = [q \in Remotes |->
                            IF q \in got THEN remote[q].text ELSE sync[s].found[q]]
    BY <1>0 DEF Fetched, Sync
<1>2. \A got \in SUBSET Remotes, lost \in SUBSET Remotes : Fetched(s, got, lost) \in Sync
    BY FetchedTypes
<1>3. \/ SetSync(s, [Fetched(s, {r}, {}) EXCEPT !.listed = sync[s].listed \ {r}])
      \/ SetSync(s, [Fetched(s, {}, {r}) EXCEPT !.listed = sync[s].listed \ {r}])
    BY DEF Detail
<1>4. sync[s].want # 0 => sync[s].want \in Remotes /\ remote[sync[s].want].text # Unknown
    BY <1>0, Blank DEF SyncFrame, TypeOK, Remote
<1>5. CASE SetSync(s, [Fetched(s, {r}, {}) EXCEPT !.listed = sync[s].listed \ {r}])
    <2>1. Fetched(s, {r}, {}) \in Sync
        BY <1>2
    <2>2. sync'[s] = [Fetched(s, {r}, {}) EXCEPT !.listed = sync[s].listed \ {r}]
        BY <1>5 DEF SetSync, TypeOK
    <2>3. /\ sync'[s].pc = "details" /\ sync'[s].clean = sync[s].clean
          /\ sync'[s].want = sync[s].want /\ sync'[s].failed = sync[s].failed
          /\ sync'[s].found =
                [q \in Remotes |-> IF q \in {r} THEN remote[q].text ELSE sync[s].found[q]]
          /\ sync'[s].listed = sync[s].listed \ {r}
        <3>1. LET row == Fetched(s, {r}, {})
              IN /\ sync'[s].pc = row.pc /\ sync'[s].clean = row.clean
                 /\ sync'[s].want = row.want /\ sync'[s].failed = row.failed
                 /\ sync'[s].found = row.found
                 /\ sync'[s].listed = sync[s].listed \ {r}
            BY <2>1, <2>2 DEF Sync
        <3>2. sync[s].clean \in BOOLEAN /\ sync[s].failed \cup {} = sync[s].failed
            BY <1>0 DEF Sync
        <3>3. (sync[s].clean /\ {} = {}) = sync[s].clean
            BY <3>2
        <3>4. LET row == Fetched(s, {r}, {})
              IN /\ row.pc = "details" /\ row.clean = (sync[s].clean /\ {} = {})
                 /\ row.want = sync[s].want /\ row.failed = sync[s].failed \cup {}
                 /\ row.found =
                       [q \in Remotes |-> IF q \in {r} THEN remote[q].text ELSE sync[s].found[q]]
            BY <1>1
        <3> QED BY <3>1, <3>2, <3>3, <3>4
    <2> QED BY <1>0, <1>4, <2>3 DEF Passed, AtOne
<1>6. CASE SetSync(s, [Fetched(s, {}, {r}) EXCEPT !.listed = sync[s].listed \ {r}])
    <2>1. Fetched(s, {}, {r}) \in Sync
        BY <1>2
    <2>2. sync'[s] = [Fetched(s, {}, {r}) EXCEPT !.listed = sync[s].listed \ {r}]
        BY <1>6 DEF SetSync, TypeOK
    <2>3. /\ sync'[s].pc = "details" /\ ~sync'[s].clean
          /\ sync'[s].listed = sync[s].listed \ {r}
        BY <1>0, <1>1, <2>1, <2>2 DEF Sync
    <2> QED BY <1>0, <2>3 DEF Passed
<1> QED BY <1>3, <1>5, <1>6

LEMMA PassedStep ==
    ASSUME RemoteInv, NothingMissed, [Next]_vars, ~Does("limit"), NEW s \in Syncs
    PROVE  /\ Passed(s)'
           /\ scope'.platform # "medium" => sync'[s].listed = {}
           /\ scope'.platform = "devto" => sync'[s].pc # "published"
<1> USE DEF RemoteInv
<1>0. /\ sync' \in [Syncs -> Sync] /\ sync[s] \in Sync /\ UNCHANGED scope
      /\ scope.platform # "medium" => sync[s].listed = {}
      /\ scope.platform = "devto" => sync[s].pc # "published"
    BY TypeStep, Writers DEF TypeOK, NothingMissed
<1>1. CASE sync'[s] = sync[s]
    BY <1>0, <1>1, PassedKept
<1>2. CASE sync'[s] = IdleSync
    BY <1>0, <1>2 DEF IdleSync, Passed
<1>3. ASSUME NEW a \in Articles \cup {0}, StartSync(s, a)
      PROVE  /\ Passed(s)' /\ sync'[s].listed = {} /\ sync'[s].pc = "drafts"
    <2>1. sync'[s] = [IdleSync EXCEPT !.pc = "drafts", !.about = a,
                         !.want = IF a = 0 THEN 0 ELSE FirstOf(a)]
        BY <1>3 DEF StartSync, SetSync, TypeOK
    <2>2. sync'[s].pc = "drafts" /\ sync'[s].listed = {} /\ sync'[s].failed = {}
        BY <2>1 DEF IdleSync
    <2> QED BY <2>2 DEF Passed, AtOne
<1>4. CASE EndDetails(s)
    <2>1. sync[s].pc = "details" /\ sync[s].listed = {} /\ UNCHANGED remote
        BY <1>4 DEF EndDetails, store
    <2>2. /\ sync'[s].pc = "next" /\ sync'[s].clean = sync[s].clean
          /\ sync'[s].want = sync[s].want /\ sync'[s].failed = sync[s].failed
          /\ sync'[s].found = sync[s].found /\ sync'[s].listed = sync[s].listed
        BY <1>0, <1>4 DEF EndDetails, SetSync, Sync, TypeOK
    <2> QED BY <1>0, <2>1, <2>2 DEF Passed, AtOne, NothingMissed
<1>5. ASSUME NEW r \in Remotes, Locate(s, r)
      PROVE  /\ Passed(s)' /\ sync'[s].listed = sync[s].listed /\ sync'[s].pc # "published"
    <2>1. sync[s].pc = "next"
        BY <1>5 DEF Locate
    <2>3. /\ sync'[s].pc \in AtOne /\ sync'[s].clean = sync[s].clean
          /\ sync'[s].want = sync[s].want /\ sync'[s].failed = sync[s].failed
          /\ sync'[s].found = sync[s].found /\ sync'[s].listed = sync[s].listed
        <3>1. CASE LocateKnown(s, r)
            BY <1>0, <3>1 DEF LocateKnown, SetSync, AtOne, Sync, TypeOK
        <3>2. CASE LocateNew(s, r)
            <4>1. PICK a : SetSync(s, [sync[s] EXCEPT !.pc = "metadata", !.todo = @ \ {r}, !.at = r,
                                        !.article = a, !.created = TRUE, !.base = Unknown])
                BY <3>2 DEF LocateNew
            <4> QED BY <1>0, <4>1 DEF SetSync, AtOne, Sync, TypeOK
        <3> QED BY <1>5, <3>1, <3>2 DEF Locate
    <2>4. Passed(s)'
        BY <1>0, <2>1, <2>3, PassedKept
    <2> QED BY <2>3, <2>4 DEF AtOne
<1>6. ASSUME Compare(s) \/ Save(s) \/ Metadata(s) \/ Mark(s) \/ Observe(s) \/ Report(s)
      PROVE  /\ Passed(s)' /\ sync'[s].listed = sync[s].listed /\ sync'[s].pc # "published"
    <2>1. sync[s].pc \in AtOne
        BY <1>6 DEF Compare, Save, Metadata, Mark, Observe, Report, AtOne
    <2>2. \/ \E pc \in AtOne : \E expected : sync'[s] = [sync[s] EXCEPT !.expected = expected, !.pc = pc]
          \/ \E pc \in AtOne \cup {"next"} : sync'[s] = [sync[s] EXCEPT !.pc = pc]
          \/ \E pc \in AtOne \cup {"next"} : sync'[s] = [sync[s] EXCEPT !.pc = pc, !.clean = FALSE]
          \/ \E failed : sync'[s] = [sync[s] EXCEPT !.pc = "next", !.failed = failed, !.clean = FALSE]
        BY <1>6, SyncRowMoves
    <2>3. /\ sync'[s].pc \in AtOne \cup {"next"} /\ sync'[s].listed = sync[s].listed
          /\ sync'[s].clean => /\ sync[s].clean /\ sync'[s].want = sync[s].want
                               /\ sync'[s].failed = sync[s].failed
                               /\ sync'[s].found = sync[s].found
        BY <1>0, <2>2 DEF Sync
    <2>4. Passed(s)'
        BY <1>0, <2>1, <2>3, PassedKept
    <2> QED BY <2>3, <2>4 DEF AtOne
<1>7. CASE EndSync(s) \/ Unreachable(s) \/ CrashSync(s)
    BY <1>2, <1>7 DEF EndSync, Unreachable, CrashSync, SetSync, TypeOK
<1>8. ~ListLimited(s)
    BY DEF ListLimited, Fault
<1>9. CASE ListAll(s) \/ ListPart(s)
    BY <1>0, <1>9, PassedListing
<1>10. ASSUME NEW r \in Remotes, Detail(s, r)
       PROVE  /\ Passed(s)'
              /\ scope.platform # "medium" => sync'[s].listed = {}
              /\ sync'[s].pc = "details"
    BY <1>10, PassedDetail
<1>11. CASE SyncStep(s)
    BY <1>0, <1>2, <1>4, <1>5, <1>6, <1>7, <1>8, <1>9, <1>10, <1>11 DEF SyncStep
<1> QED BY <1>0, <1>1, <1>3, <1>7, <1>11, Writers, OtherRows DEF SyncMove

(* What a refresh records as deleted was deleted when it ended.            *)
LEMMA DeletedStep ==
    ASSUME RemoteInv, NothingMissed, [Next]_vars
    PROVE  DeletedIsGone'
<1> USE DEF RemoteInv
<1>1. ASSUME NEW a \in Articles, latest'[a] = latest[a], latest[a].state = "remote_deleted"
      PROVE  remote'[latest[a].remote].state = "deleted"
    <2>1. latest[a].remote \in Remotes /\ remote[latest[a].remote].state = "deleted"
        BY <1>1 DEF NothingMissed, DeletedIsGone, FrameOK, LatestFrame
    <2> QED BY <2>1, StageStep
<1>2. CASE UNCHANGED latest
    BY <1>1, <1>2 DEF DeletedIsGone
<1>3. ASSUME NEW a \in Articles, Delete(a) PROVE DeletedIsGone'
    <2>1. \A b \in Articles : latest'[b] = IF b = a THEN NoObservation ELSE latest[b]
        BY <1>3 DEF Delete, TypeOK
    <2> QED BY <1>1, <2>1 DEF DeletedIsGone, NoObservation
<1>4. ASSUME NEW a, NEW state, NEW r, NEW text, Record(a, state, r, text),
             state = "remote_deleted" => remote'[r].state = "deleted"
      PROVE  DeletedIsGone'
    <2>1. \A b \in Articles : latest'[b] = IF b = a THEN [state |-> state, remote |-> r, text |-> text]
                                           ELSE latest[b]
        BY <1>4 DEF Record, TypeOK
    <2> QED BY <1>1, <1>4, <2>1 DEF DeletedIsGone
<1>5. ASSUME NEW s \in Syncs, Observe(s) \/ Report(s) PROVE DeletedIsGone'
    BY <1>2, <1>4, <1>5 DEF Observe, Report
<1>6. ASSUME NEW s \in Syncs, EndSync(s) PROVE DeletedIsGone'
    <2>1. sync[s].pc = "next" /\ Passed(s) /\ UNCHANGED remote
        BY <1>6 DEF EndSync, NothingMissed
    <2>2. sync[s].about # 0 => sync[s].want # 0
        BY Blank DEF FrameOK, SyncFrame
    <2>3. sync[s].about # 0 /\ Missing(s) /\ Absence(s) = "remote_deleted" =>
             remote'[sync[s].want].state = "deleted"
        BY <2>1, <2>2 DEF Missing, Absence, Passed
    <2> QED BY <1>2, <1>4, <1>6, <2>3 DEF EndSync
<1>7. ASSUME NEW s \in Syncs, Unreachable(s) PROVE DeletedIsGone'
    BY <1>2, <1>4, <1>7 DEF Unreachable
<1>8. CASE ObserveResolved
    BY <1>2, <1>4, <1>8 DEF ObserveResolved
<1>9. CASE ObservePush
    BY <1>2, <1>4, <1>9 DEF ObservePush
<1> QED BY <1>2, <1>3, <1>5, <1>6, <1>7, <1>8, <1>9, Writers DEF LatestStep

(* On every platform, whatever the order in which articles are published,  *)
(* deleted, listed and opened, and whichever sources fail: a refresh that  *)
(* calls a remote article deleted is right.  Only Medium's silent limit    *)
(* breaks it.                                                              *)
THEOREM DeletedIsTrue == Spec => [](~Does("limit") => DeletedIsGone)
<1> DEFINE Inv == ~Does("limit") => NothingMissed
<1>1. Init => Inv
    BY DEF Init, NothingMissed, Passed, IdleSync, DeletedIsGone, NoObservation
<1>2. RemoteInv /\ Inv /\ [Next]_vars => Inv'
    <2> SUFFICES ASSUME RemoteInv, Inv, [Next]_vars, ~Does("limit")' PROVE NothingMissed'
        OBVIOUS
    <2>2. UNCHANGED scope
        BY Writers
    <2>3. ~Does("limit")
        BY <2>2 DEF Does
    <2>4. NothingMissed
        BY <2>3
    <2> QED BY <2>3, <2>4, PassedStep, DeletedStep DEF NothingMissed
<1>3. Inv => (~Does("limit") => DeletedIsGone)
    BY DEF NothingMissed
<1> QED BY <1>1, <1>2, <1>3, RemoteInvariant, PTL DEF Spec

=============================================================================
