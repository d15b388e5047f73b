--------------------------- MODULE BaselineProofs ---------------------------
(***************************************************************************)
(* Where RemoteSync keeps texts safe, for every number of synchronizations, *)
(* articles, edits, calls and faults: the baselines of the three-way       *)
(* comparison were had by both sides, and no synchronization takes an edit *)
(* of the user out of his article.                                         *)
(***************************************************************************)
EXTENDS RemoteProofs

(* What a behaviour must not do for texts to be safe: the risks, and an    *)
(* import, which may give one draft to two articles, besides a push.       *)
Careful ==
    /\ scope.ops \cap {"unmarked", "second", "sync_during_push",
                       "edit_during_push", "tokenless"} = {}
    /\ Does("import") => scope.ops \cap {"push", "publish"} = {}

(* The remote had the text, as it is or as a push rendered it.             *)
Meets(text, texts) == {text, Rendered(text)} \cap texts # {}
Shared(text, r) == Meets(text, shown[r])
Sending == {"ready", "sent", "applied", "marked"}
Written == {"sent", "applied", "marked"}

(* A push or a run meets no synchronization and no import.                 *)
Apart ==
    /\ Pushing => Quiet
    /\ push.pc # "idle" => Does("push")
    /\ run.article # 0 => Does("publish") /\ scope.platform # "devto"
    /\ scope.platform # "medium" => Writes

(* A draft_id names a remote article mapped to the article, or one that    *)
(* a push is about to map.                                                 *)
OwnDraft ==
    scope.ops \cap {"push", "publish"} # {} =>
        \A a \in Articles : Live(a) /\ article[a].draftId # 0 =>
            \/ identity[article[a].draftId].article = a
            \/ /\ push.article = a /\ push.pc \in {"sent", "applied"}
               /\ push.result = article[a].draftId
               /\ identity[push.result].article = 0
OwnPush ==
    /\ push.target # 0 => /\ identity[push.target].article \in {0, push.article}
                          /\ Live(push.article) =>
                                identity[push.target].article = push.article
    /\ push.result # 0 => identity[push.result].article \in {0, push.article}
    /\ push.pc \notin Written => push.result = 0
    /\ push.pc \in Written /\ scope.platform = "medium" => push.result = push.target
OwnRun ==
    /\ run.job \in {"ready", "sent", "marked", "applied"} /\ run.target # 0 =>
          identity[run.target].article \in
              IF run.job = "sent" THEN {0, run.article} ELSE {run.article}
    /\ run.job = "sent" /\ identity[run.target].article = 0 =>
          run.target \notin {push.target, push.result}

(* Where pushes write, an article has one remote article.                  *)
OneRemote ==
    scope.platform # "medium" =>
        /\ \A q, r \in Remotes :
              identity[q].article = identity[r].article /\ identity[r].article # 0 => q = r
        /\ push.pc \in {"queued", "ready"} /\ Live(push.article) =>
              article[push.article].draftId # 0 \/ Mapped(push.article) = {}
        /\ push.pc \in Sending /\ Live(push.article) /\ push.target = 0 =>
              Mapped(push.article) \subseteq {push.result} \ {0}
        /\ push.pc \in Written => push.result # 0
        /\ push.pc \in Written /\ push.target # 0 => push.result = push.target
        /\ RunPending(run.article) /\ run.job \notin {"marked", "applied", "refused"} =>
              Mapped(run.article) = {} /\ push.article # run.article

(* Baselines, and the texts that become one.                               *)
BaseOK ==
    /\ BaselineWasShared
    /\ \A a \in Articles : latest[a].state \in Available =>
          Shared(latest[a].text, latest[a].remote)
    /\ \A s \in Syncs : LET me == sync[s] IN
          Live(me.article) =>
             /\ me.pc = "compare" /\ me.base # Unknown => me.base \in had[me.article]
             /\ me.pc \in {"metadata", "mark", "observe"} =>
                   me.found[me.at] \in had[me.article]
    /\ resolver.pc # "idle" /\ Live(resolver.article) =>
          /\ Shared(resolver.seen.text, resolver.seen.remote)
          /\ resolver.pc = "mark" => resolver.seen.text \in had[resolver.article]
    /\ Live(push.article) /\ scope.platform # "medium" =>
          /\ push.pc = "ready" =>
                \/ article[push.article].text = push.text
                \/ push.target # 0 /\ Shared(article[push.article].text, push.target)
          /\ push.pc \in Written => Shared(article[push.article].text, push.result)
          /\ push.pc = "marked" => Shared(push.text, push.result)

SharedInv == Apart /\ OwnDraft /\ OwnPush /\ OwnRun /\ OneRemote /\ BaseOK

-----------------------------------------------------------------------------

(* Every edit has its number when it is made.                              *)
Numbered ==
    /\ \A a \in Articles : \A text \in had[a] : text \subseteq 0..made
    /\ \A r \in Remotes : \A text \in shown[r] : text \subseteq 0..made
    /\ \A a \in Articles : mine[a] \subseteq 1..made
    /\ \A a \in Articles : latest[a].text # Unknown => latest[a].text \subseteq 0..made
    /\ \A r \in Remotes : identity[r].base # Unknown => identity[r].base \subseteq 0..made
    /\ \A s \in Syncs : sync[s].pc \in AtOne /\ sync[s].base # Unknown =>
          sync[s].base \subseteq 0..made
    /\ push.pc \in Sending => push.text \subseteq 0..made
    /\ run.article # 0 => run.text \subseteq 0..made
    /\ resolver.pc # "idle" => resolver.seen.text \subseteq 0..made

(* The edits of the set are in the remote article and in whatever of it a  *)
(* synchronization has fetched, but for those the user gave up.            *)
Reached(r, edits) ==
    /\ edits \subseteq remote[r].text \cup waived
    /\ \A s \in Syncs : sync[s].found[r] \in Text =>
          edits \subseteq sync[s].found[r] \cup waived

(* A text known from a remote article has no edit of the user that the     *)
(* provider lacks: an edit gets into it by a push only.                    *)
Old(r, text) ==
    identity[r].article # 0 => Reached(r, text \cap mine[identity[r].article])
OldTexts ==
    /\ \A r \in Remotes :
          /\ Old(r, identity[r].base) /\ Old(r, remote[r].text)
          /\ \A s \in Syncs : Old(r, sync[s].found[r])
    /\ \A a \in Articles : latest[a].state # "none" => Old(latest[a].remote, latest[a].text)
    /\ \A s \in Syncs : sync[s].pc \in {"compare", "save"} => Old(sync[s].at, sync[s].base)
    /\ resolver.pc # "idle" /\ Live(resolver.article) =>
          Old(resolver.seen.remote, resolver.seen.text)

(* Without a baseline everything the user wrote is at the provider.        *)
Unedited ==
    \A r \in Remotes : identity[r].article # 0 /\ identity[r].base = Unknown =>
        Reached(r, mine[identity[r].article])

(* What a save that is not refused replaces.                               *)
Compared(s) ==
    LET me == sync[s]
        a == me.article
    IN Live(a) =>
          /\ me.pc = "compare" /\ me.base = Unknown =>
                mine[a] \subseteq me.found[me.at] \cup waived
          /\ me.pc = "save" => me.expected <= article[a].rev
          /\ me.pc = "save" /\ me.expected = article[a].rev =>
                IF me.base = Unknown THEN mine[a] \subseteq me.found[me.at] \cup waived
                ELSE article[a].text \in {me.base, me.found[me.at]}

(* What a push and a run carry to the provider.                            *)
PushCarries ==
    Live(push.article) /\ scope.platform # "medium" =>
        /\ push.pc = "ready" => mine[push.article] \subseteq push.text \cup waived
        /\ push.pc \in Written =>
              mine[push.article] \subseteq remote[push.result].text \cup waived
RunCarries ==
    run.article # 0 /\ run.status \in {"awaiting_approval", "running"} =>
        /\ mine[run.article] \subseteq run.text \cup waived
        /\ run.job = "sent" => mine[run.article] \subseteq remote[run.target].text \cup waived

EditInv ==
    /\ NoSilentOverwrite /\ OldTexts /\ Unedited
    /\ \A s \in Syncs : Compared(s)
    /\ PushCarries /\ RunCarries

CarefulInv == Careful => SharedInv /\ EditInv

-----------------------------------------------------------------------------
(* What a step may do to a row, a call, an identity.                       *)

(* Edits of the user, and what he gives up.                                *)
LEMMA MineChange ==
    ASSUME [Next]_vars
    PROVE  /\ UNCHANGED mine \/ \E a \in Articles : Edit(a)
           /\ waived \subseteq waived'
           /\ UNCHANGED waived \/ UseRemote
<1>1. UNCHANGED mine \/ \E a \in Articles : Edit(a)
    <2>1. ASSUME NEW a \in Articles, Delete(a) \/ RequestPush(a) PROVE UNCHANGED mine
        BY <2>1 DEF Delete, RequestPush
    <2>2. ASSUME NEW r \in Remotes, NEW a \in Articles, Import(r, a) PROVE UNCHANGED mine
        BY <2>2 DEF Import
    <2>3. ASSUME NEW s \in Syncs, NEW r \in Remotes, Save(s) \/ Metadata(s) \/ Locate(s, r)
          PROVE  UNCHANGED mine
        BY <2>3 DEF Save, Metadata, Locate, history
    <2>4. ASSUME UseRemote \/ ApplyPush \/ ApplyRun \/ CompleteRun PROVE UNCHANGED mine
        BY <2>4 DEF UseRemote, ApplyPush, ApplyRun, CompleteRun, history
    <2>5. ASSUME NEW s \in Syncs, Save(s) \/ Metadata(s) PROVE UNCHANGED mine
        BY <2>5 DEF Save, Metadata, history
    <2> QED BY <2>1, <2>2, <2>3, <2>4, <2>5, Writers DEF ArticleStep
<1>2. UNCHANGED waived \/ UseRemote
    <2> USE DEF store, calls, history
    <2>1. ASSUME NEW a \in Articles, Edit(a) \/ Delete(a) \/ RequestPush(a) PROVE UNCHANGED waived
        BY <2>1 DEF Edit, Delete, RequestPush
    <2>2. ASSUME NEW r \in Remotes, Author(r) \/ Post(r) \/ Remove(r) PROVE UNCHANGED waived
        BY <2>2 DEF Author, Post, Remove
    <2>3. ASSUME NEW r \in Remotes, NEW a \in Articles, Import(r, a) PROVE UNCHANGED waived
        BY <2>3 DEF Import
    <2>4. ASSUME NEW s \in Syncs, NEW a \in Articles \cup {0}, StartSync(s, a) PROVE UNCHANGED waived
        BY <2>4 DEF StartSync
    <2>5. ASSUME NEW s \in Syncs, SyncStep(s) \/ CrashSync(s) PROVE UNCHANGED waived
        BY <2>5 DEF SyncStep, CrashSync, ListAll, ListPart, ListLimited, EndDetails, Detail, Locate,
           Compare, Save, Metadata, Mark, Observe, Report, EndSync, Unreachable
    <2>6. ASSUME NEW a \in Articles, NEW action \in {"use_remote", "keep_local"},
                 StartResolve(a, action)
          PROVE  UNCHANGED waived
        BY <2>6 DEF StartResolve
    <2>7. ASSUME MarkResolved \/ ObserveResolved \/ CrashResolve PROVE UNCHANGED waived
        BY <2>7 DEF MarkResolved, ObserveResolved, CrashResolve
    <2>8. ASSUME PushStep \/ CrashPush PROVE UNCHANGED waived
        BY <2>8 DEF PushStep, CrashPush, ReadForPush, ClaimPush, OperatePush, OperationFails,
           ApplyPush, MarkPush, ObservePush
    <2>9. ASSUME NEW a \in Articles, NEW mode \in {"draft", "publish"}, RequestRun(a, mode)
          PROVE  UNCHANGED waived
        BY <2>9 DEF RequestRun
    <2>10. ASSUME ApproveRun \/ RunStep \/ CrashRun PROVE UNCHANGED waived
        BY <2>10 DEF ApproveRun, RunStep, CrashRun, CreateRunJob, ReadForRun, LoginMissing,
           OperateRun, RunRefused, IdentifyRun, ApplyRun, CompleteRun
    <2>11. CASE UNCHANGED vars
        BY <2>11 DEF vars
    <2> QED BY <2>1, <2>2, <2>3, <2>4, <2>5, <2>6, <2>7, <2>8, <2>9, <2>10, <2>11
            DEF Next, ResolveStep, Crash
<1>3. UseRemote => waived \subseteq waived'
    BY DEF UseRemote
<1> QED BY <1>1, <1>2, <1>3

LEMMA IdentityChange ==
    ASSUME RemoteInv, [Next]_vars, NEW r \in Remotes, identity'[r] # identity[r]
    PROVE  \/ /\ identity[r].article \in Articles /\ Delete(identity[r].article)
              /\ identity'[r] = NoIdentity /\ identity'[r].base = Unknown
           \/ \E s \in Syncs :
                 /\ Locate(s, r) /\ LocateNew(s, r)
                 /\ identity[r].article = 0 /\ identity'[r].base = Unknown
                 /\ identity'[r].article \in Articles /\ ~Once(identity'[r].article)
           \/ \E s \in Syncs :
                 /\ Mark(s) /\ r = sync[s].at /\ Live(sync[s].article)
                 /\ identity[r].article = sync[s].article
                 /\ identity'[r] = [article |-> sync[s].article, base |-> sync[s].found[r]]
                 /\ identity'[r].base = sync[s].found[r]
           \/ /\ MarkResolved /\ r = resolver.seen.remote /\ Live(resolver.article)
              /\ identity[r].article = resolver.article
              /\ identity'[r] = [article |-> resolver.article, base |-> resolver.seen.text]
              /\ identity'[r].base = resolver.seen.text
           \/ /\ MarkPush /\ r = push.result /\ Live(push.article)
              /\ identity[r].article \in {0, push.article}
              /\ identity'[r] = [article |-> push.article, base |-> article[push.article].text]
              /\ identity'[r].base = article[push.article].text
           \/ /\ IdentifyRun /\ r = run.target /\ identity[r].article = 0
              /\ identity'[r] = [article |-> run.article, base |-> Unknown]
              /\ identity'[r].base = Unknown
<1> USE DEF RemoteInv
<1>1. \A q, a, base : MapTo(a, q, base) =>
         r = q /\ identity'[r] = [article |-> a, base |-> base]
    BY DEF MapTo, TypeOK
<1>2. ASSUME NEW a \in Articles, Delete(a)
      PROVE  /\ identity[r].article = a /\ identity'[r] = NoIdentity
             /\ identity'[r].base = Unknown
    BY <1>2 DEF Delete, Mapped, NoIdentity
<1>3. ASSUME NEW s \in Syncs, NEW q \in Remotes, Locate(s, q)
      PROVE  /\ r = q /\ LocateNew(s, r)
             /\ identity[r].article = 0 /\ identity'[r].base = Unknown
             /\ identity'[r].article \in Articles /\ article[identity'[r].article].state = "unused"
    <2>1. LocateNew(s, q)
        BY <1>3 DEF Locate, LocateKnown
    <2>2. PICK a \in Articles : Fresh(a) /\ MapTo(a, q, Unknown)
        BY <2>1 DEF LocateNew
    <2>3. r = q /\ identity'[r] = [article |-> a, base |-> Unknown]
        BY <1>1, <2>2
    <2>4. identity[r].article = 0
        BY <2>1, <2>3 DEF LocateNew, FrameOK, RemoteFrame
    <2> QED BY <2>1, <2>2, <2>3, <2>4 DEF Fresh
<1>4. ASSUME NEW s \in Syncs, Mark(s)
      PROVE  /\ r = sync[s].at /\ Live(sync[s].article)
             /\ identity[r].article = sync[s].article
             /\ identity'[r] = [article |-> sync[s].article, base |-> sync[s].found[r]]
             /\ identity'[r].base = sync[s].found[r]
    <2>1. /\ MayMap(sync[s].article, sync[s].at)
          /\ MapTo(sync[s].article, sync[s].at, sync[s].found[sync[s].at])
        BY <1>4 DEF Mark
    <2>2. Live(sync[s].article) => identity[sync[s].at].article = sync[s].article
        BY <1>4 DEF Mark, AtOne, FrameOK, SyncFrame
    <2>3. /\ r = sync[s].at
          /\ identity'[r] = [article |-> sync[s].article, base |-> sync[s].found[sync[s].at]]
        BY <1>1, <2>1
    <2>4. Live(sync[s].article)
        BY <2>1 DEF MayMap
    <2> QED BY <2>2, <2>3, <2>4
<1>5. ASSUME MarkResolved
      PROVE  /\ r = resolver.seen.remote /\ Live(resolver.article)
             /\ identity[r].article = resolver.article
             /\ identity'[r] = [article |-> resolver.article, base |-> resolver.seen.text]
             /\ identity'[r].base = resolver.seen.text
    <2>1. /\ MayMap(resolver.article, resolver.seen.remote)
          /\ MapTo(resolver.article, resolver.seen.remote, resolver.seen.text)
        BY <1>5 DEF MarkResolved
    <2>2. Live(resolver.article) => identity[resolver.seen.remote].article = resolver.article
        BY <1>5 DEF MarkResolved, FrameOK, ResolverFrame
    <2> QED BY <1>1, <2>1, <2>2 DEF MayMap
<1>6. ASSUME MarkPush
      PROVE  /\ r = push.result /\ Live(push.article)
             /\ identity[r].article \in {0, push.article}
             /\ identity'[r] = [article |-> push.article, base |-> article[push.article].text]
             /\ identity'[r].base = article[push.article].text
    BY <1>1, <1>6 DEF MarkPush, MayMap
<1>7. ASSUME IdentifyRun
      PROVE  /\ r = run.target /\ identity[r].article = 0
             /\ identity'[r] = [article |-> run.article, base |-> Unknown]
             /\ identity'[r].base = Unknown
    BY <1>1, <1>7 DEF IdentifyRun
<1> QED BY <1>2, <1>3, <1>4, <1>5, <1>6, <1>7, Writers DEF IdentityStep, Once

(* A mapping ends with its article; it begins with a new article of a      *)
(* synchronization, or with the result of a push or of a run.              *)
LEMMA MappingChange ==
    ASSUME RemoteInv, [Next]_vars, NEW r \in Remotes, identity'[r].article # identity[r].article
    PROVE  \/ /\ identity[r].article \in Articles /\ Delete(identity[r].article)
              /\ identity'[r] = NoIdentity
           \/ /\ identity[r].article = 0 /\ identity'[r].base = Unknown
              /\ identity'[r].article \in Articles /\ ~Once(identity'[r].article)
              /\ ~Quiet
           \/ /\ MarkPush /\ r = push.result /\ Live(push.article)
              /\ identity[r].article = 0
              /\ identity'[r] = [article |-> push.article, base |-> article[push.article].text]
           \/ /\ IdentifyRun /\ r = run.target /\ identity[r].article = 0
              /\ identity'[r] = [article |-> run.article, base |-> Unknown]
<1>1. \A s \in Syncs : Locate(s, r) => ~Quiet
    BY DEF Locate, Quiet
<1>2. \A a, base : identity'[r] = [article |-> a, base |-> base] => identity'[r].article = a
    OBVIOUS
<1>3. identity'[r] # identity[r]
    OBVIOUS
<1>4. ASSUME NEW s \in Syncs, identity[r].article = sync[s].article,
             identity'[r] = [article |-> sync[s].article, base |-> sync[s].found[r]]
      PROVE  FALSE
    BY <1>2, <1>4
<1>5. ASSUME identity[r].article = resolver.article,
             identity'[r] = [article |-> resolver.article, base |-> resolver.seen.text]
      PROVE  FALSE
    BY <1>2, <1>5
<1>6. ~(\E s \in Syncs : /\ identity[r].article = sync[s].article
                          /\ identity'[r] = [article |-> sync[s].article, base |-> sync[s].found[r]])
    BY <1>4
<1>7. /\ NoIdentity.article = 0
      /\ [article |-> push.article, base |-> article[push.article].text].article = push.article
    BY DEF NoIdentity
<1>8. MarkPush /\ identity[r].article \in {0, push.article}
      /\ identity'[r] = [article |-> push.article, base |-> article[push.article].text]
         => identity[r].article = 0
    BY <1>7
<1> QED BY <1>1, <1>3, <1>5, <1>6, <1>8, IdentityChange

LEMMA TextChange ==
    ASSUME RemoteInv, Numbered, [Next]_vars, NEW a \in Articles, Live(a)', Once(a)
    PROVE  /\ Live(a)
           /\ \/ article'[a].text = article[a].text /\ article'[a].rev = article[a].rev
              \/ /\ Edit(a) /\ article'[a].text = article[a].text \cup {made + 1}
                 /\ article'[a].rev = article[a].rev + 1
              \/ \E s \in Syncs :
                    /\ Save(s) /\ sync[s].article = a /\ sync[s].expected = article[a].rev
                    /\ article'[a].text = sync[s].found[sync[s].at]
                    /\ article'[a].rev = article[a].rev + 1
              \/ /\ UseRemote /\ resolver.article = a
                 /\ article'[a].text = resolver.seen.text
                 /\ article'[a].rev = article[a].rev + 1
<1> USE DEF RemoteInv
<1>0. /\ Live(a) /\ article[a] \in Article /\ article \in [Articles -> Article]
      /\ article[a].rev \in Nat
    BY GrowthStep DEF Growth, TypeOK, Article
<1>1. CASE article'[a] = article[a]
    BY <1>0, <1>1
<1>2. ASSUME NEW b \in Articles, NEW status, NEW id,
             article' = [article EXCEPT ![b] =
                            [article[b] EXCEPT !.status = status, !.draftId = id]]
      PROVE  article'[a].text = article[a].text /\ article'[a].rev = article[a].rev
    <2>1. [article[a] EXCEPT !.status = status, !.draftId = id].text = article[a].text
          /\ [article[a] EXCEPT !.status = status, !.draftId = id].rev = article[a].rev
        BY <1>0 DEF Article
    <2>2. article'[a] = article[a]
             \/ article'[a] = [article[a] EXCEPT !.status = status, !.draftId = id]
        BY <1>0, <1>2
    <2> QED BY <2>1, <2>2
<1>3. \A text : \/ Saved(a, text) = article[a] /\ text = article[a].text
                \/ Saved(a, text).text = text /\ Saved(a, text).rev = article[a].rev + 1
    BY <1>0 DEF Saved, Article
<1>4. ASSUME NEW b \in Articles, Edit(b)
      PROVE  \/ article'[a] = article[a]
             \/ /\ Edit(a) /\ article'[a].text = article[a].text \cup {made + 1}
                /\ article'[a].rev = article[a].rev + 1
    <2>1. CASE b # a
        BY <1>0, <1>4, <2>1 DEF Edit, SetArticle
    <2>2. CASE b = a
        <3>1. article'[a] = Saved(a, article[a].text \cup {made + 1})
            BY <1>0, <1>4, <2>2 DEF Edit, SetArticle
        <3>2. article[a].text \in had[a] /\ made \in Nat
            BY <1>0 DEF FrameOK, ArticleFrame, TypeOK
        <3>3. made + 1 \notin article[a].text
            BY <3>2 DEF Numbered
        <3> QED BY <1>3, <1>4, <2>2, <3>1, <3>3
    <2> QED BY <2>1, <2>2
<1>5. ASSUME NEW b \in Articles, Delete(b) PROVE article'[a] = article[a]
    <2>1. b # a
        BY <1>0, <1>5 DEF Delete, Live, NoArticle
    <2> QED BY <1>0, <1>5, <2>1 DEF Delete
<1>6. ASSUME NEW b \in Articles, NEW new,
             article' = [article EXCEPT ![b] = new], b = a =>
                new.text = article[a].text /\ new.rev = article[a].rev
      PROVE  article'[a].text = article[a].text /\ article'[a].rev = article[a].rev
    BY <1>0, <1>6
<1>7. ASSUME NEW b \in Articles, RequestPush(b)
      PROVE  article'[a].text = article[a].text /\ article'[a].rev = article[a].rev
    BY <1>0, <1>7 DEF RequestPush, Article
<1>8. ASSUME NEW r \in Remotes, NEW b \in Articles, Import(r, b)
      PROVE  article'[a].text = article[a].text /\ article'[a].rev = article[a].rev
    <2>1. CASE MergeInto(b, r)
        BY <1>0, <2>1 DEF MergeInto, Article
    <2>2. CASE CreateFrom(b, r)
        BY <1>0, <2>2 DEF CreateFrom, SetArticle, Fresh, Live
    <2> QED BY <1>8, <2>1, <2>2 DEF Import
<1>9. ASSUME NEW s \in Syncs, NEW r \in Remotes, Locate(s, r)
      PROVE  article'[a] = article[a]
    BY <1>0, <1>9 DEF Locate, LocateKnown, LocateNew, SetArticle, Fresh, Live
<1>10. ASSUME NEW s \in Syncs, Save(s)
       PROVE  \/ article'[a] = article[a]
              \/ /\ sync[s].article = a /\ sync[s].expected = article[a].rev
                 /\ article'[a].text = sync[s].found[sync[s].at]
                 /\ article'[a].rev = article[a].rev + 1
    <2>1. CASE sync[s].article # a
        BY <1>0, <1>10, <2>1 DEF Save, SetArticle
    <2>2. CASE sync[s].article = a
        <3>1. \/ article'[a] = article[a]
              \/ /\ article'[a] = Saved(a, sync[s].found[sync[s].at])
                 /\ sync[s].expected = article[a].rev
            BY <1>0, <1>10, <2>2 DEF Save, SetArticle
        <3> QED BY <1>3, <2>2, <3>1
    <2> QED BY <2>1, <2>2
<1>11. ASSUME NEW s \in Syncs, Metadata(s)
       PROVE  article'[a].text = article[a].text /\ article'[a].rev = article[a].rev
    <2>1. \/ UNCHANGED article
          \/ \E status, id : article' = [article EXCEPT ![sync[s].article] =
                [article[sync[s].article] EXCEPT !.status = status, !.draftId = id]]
        BY <1>0, <1>11, AtOneTypes DEF Metadata, AtOne
    <2>2. sync[s].article \in Articles
        BY <1>11, AtOneTypes DEF Metadata, AtOne
    <2> QED BY <1>2, <2>1, <2>2
<1>12. CASE UseRemote
    <2>1. CASE resolver.article # a
        BY <1>0, <1>1, <1>12, <2>1 DEF UseRemote, SetArticle
    <2>2. CASE resolver.article = a
        <3>1. \/ article'[a] = article[a]
              \/ article'[a] = Saved(a, resolver.seen.text)
            BY <1>0, <1>12, <2>2 DEF UseRemote, SetArticle
        <3> QED BY <1>0, <1>1, <1>3, <1>12, <2>2, <3>1
    <2> QED BY <2>1, <2>2
<1>13. CASE ApplyPush
    <2>1. push.article \in Articles
        BY <1>13 DEF ApplyPush, FrameOK, PushFrame, Once
    <2>2. \/ UNCHANGED article
          \/ \E status, id : article' = [article EXCEPT ![push.article] =
                [article[push.article] EXCEPT !.status = status, !.draftId = id]]
        <3> DEFINE id == IF push.result = 0 THEN article[push.article].draftId ELSE push.result
        <3>1. ~UNCHANGED article => article' = [article EXCEPT ![push.article] =
                   [article[push.article] EXCEPT !.status = "draft", !.draftId = id]]
            BY <1>0, <1>13, <2>1 DEF ApplyPush, Article
        <3> HIDE DEF id
        <3> QED BY <3>1
    <2> QED BY <1>0, <1>2, <2>1, <2>2
<1>14. CASE ApplyRun
    <2>1. run.article \in Articles
        BY <1>14 DEF ApplyRun, FrameOK, RunFrame, TypeOK, Run
    <2> DEFINE status == IF run.mode = "publish" THEN "published" ELSE "draft"
    <2>2. article' = [article EXCEPT ![run.article] =
                   [article[run.article] EXCEPT !.draftId = run.target, !.status = status]]
        BY <1>0, <1>14, <2>1 DEF ApplyRun, Article
    <2> HIDE DEF status
    <2>3. [article[a] EXCEPT !.draftId = run.target, !.status = status].text = article[a].text
          /\ [article[a] EXCEPT !.draftId = run.target, !.status = status].rev = article[a].rev
        BY <1>0 DEF Article
    <2>4. article'[a] = article[a]
             \/ article'[a] = [article[a] EXCEPT !.draftId = run.target, !.status = status]
        BY <1>0, <2>2
    <2> QED BY <1>0, <2>3, <2>4
<1>15. CASE CompleteRun
    <2>1. \/ UNCHANGED article
          \/ article' = [article EXCEPT ![run.article] =
                   [article[run.article] EXCEPT !.status = "error"]]
        BY <1>15 DEF CompleteRun
    <2> QED BY <1>0, <2>1 DEF Article
<1> QED BY <1>0, <1>1, <1>4, <1>5, <1>7, <1>8, <1>9, <1>10, <1>11, <1>12, <1>13, <1>14, <1>15,
           Writers DEF ArticleStep

LEMMA DraftChange ==
    ASSUME RemoteInv, [Next]_vars, ~Does("import"), NEW a \in Articles, Live(a)',
           article'[a].draftId # 0 \/ Quiet
    PROVE  \/ Live(a) /\ article'[a].draftId = article[a].draftId
           \/ ~Quiet /\ identity[article'[a].draftId].article = a /\ UNCHANGED identity
           \/ ApplyPush /\ a = push.article /\ Live(a) /\ article'[a].draftId = push.result
           \/ ApplyRun /\ a = run.article /\ Live(a) /\ article'[a].draftId = run.target
<1> USE DEF RemoteInv
<1>0. article \in [Articles -> Article]
    BY DEF TypeOK
<1>1. CASE article'[a] = article[a]
    BY <1>1 DEF Live
<1>2. \A text : \A b \in Articles : /\ Saved(b, text).draftId = article[b].draftId
                                    /\ Saved(b, text).state = article[b].state
    BY <1>0 DEF Saved, Article
<1>3. ASSUME NEW b \in Articles, NEW text, article' = [article EXCEPT ![b] = Saved(b, text)]
      PROVE  Live(a) /\ article'[a].draftId = article[a].draftId
    BY <1>0, <1>2, <1>3 DEF Live
<1>4. ASSUME NEW b \in Articles, Edit(b)
      PROVE  Live(a) /\ article'[a].draftId = article[a].draftId
    BY <1>3, <1>4 DEF Edit, SetArticle
<1>5. ASSUME NEW b \in Articles, Delete(b)
      PROVE  Live(a) /\ article'[a].draftId = article[a].draftId
    BY <1>0, <1>5 DEF Delete, Live, NoArticle
<1>6. ASSUME NEW b \in Articles, RequestPush(b)
      PROVE  Live(a) /\ article'[a].draftId = article[a].draftId
    BY <1>0, <1>6 DEF RequestPush, Article, Live
<1>7. \A r, b : ~Import(r, b)
    BY DEF Import
<1>8. ASSUME NEW s \in Syncs, NEW r \in Remotes, Locate(s, r)
      PROVE  Live(a) /\ article'[a].draftId = article[a].draftId
    <2>1. CASE LocateNew(s, r)
        <3>1. PICK b \in Articles : SetArticle(b, Created(sync[s].found[r], 1))
            BY <2>1 DEF LocateNew
        <3>2. Created(sync[s].found[r], 1).draftId = 0
            BY DEF Created, NoArticle
        <3>3. b # a
            BY <1>0, <1>8, <3>1, <3>2 DEF SetArticle, Locate, Quiet
        <3> QED BY <1>0, <3>1, <3>3 DEF SetArticle, Live
    <2> QED BY <1>8, <2>1 DEF Locate, LocateKnown, Live
<1>9. ASSUME NEW s \in Syncs, Save(s)
      PROVE  Live(a) /\ article'[a].draftId = article[a].draftId
    <2>1. sync[s].article \in Articles
        BY <1>9, AtOneTypes DEF Save, AtOne
    <2>2. \/ UNCHANGED article
          \/ article' = [article EXCEPT ![sync[s].article] =
                            Saved(sync[s].article, sync[s].found[sync[s].at])]
        BY <1>9 DEF Save, SetArticle
    <2> QED BY <1>3, <2>1, <2>2 DEF Live
<1>10. ASSUME NEW s \in Syncs, Metadata(s)
       PROVE  \/ Live(a) /\ article'[a].draftId = article[a].draftId
              \/ ~Quiet /\ identity[article'[a].draftId].article = a /\ UNCHANGED identity
    <2>1. /\ sync[s].article \in Articles /\ sync[s].pc = "metadata" /\ ~Quiet
          /\ UNCHANGED identity
        BY <1>10, AtOneTypes DEF Metadata, AtOne, Quiet
    <2>2. CASE UNCHANGED article
        BY <2>2 DEF Live
    <2>3. CASE Live(sync[s].article)
        <3>1. identity[sync[s].at].article = sync[s].article
            BY <2>1, <2>3 DEF FrameOK, SyncFrame, AtOne
        <3>2. \E status : \E id \in {0, sync[s].at} : article' = [article EXCEPT ![sync[s].article] =
                [article[sync[s].article] EXCEPT !.status = status, !.draftId = id]]
            BY <1>0, <1>10, <2>1, <2>3 DEF Metadata
        <3>3. CASE a # sync[s].article
            BY <1>0, <3>2, <3>3 DEF Live
        <3>4. CASE a = sync[s].article
            <4>1. \A status, id : [article[a] EXCEPT !.status = status, !.draftId = id].draftId = id
                BY <1>0 DEF Article
            <4>2. article'[a].draftId \in {0, sync[s].at}
                BY <1>0, <3>2, <3>4, <4>1
            <4> QED BY <2>1, <3>1, <3>4, <4>2
        <3> QED BY <3>3, <3>4
    <2> QED BY <1>10, <2>2, <2>3 DEF Metadata
<1>11. CASE UseRemote
    <2>1. resolver.article \in Articles
        BY <1>11 DEF UseRemote, FrameOK, ResolverFrame, Once
    <2>2. \/ UNCHANGED article
          \/ article' = [article EXCEPT ![resolver.article] =
                            Saved(resolver.article, resolver.seen.text)]
        BY <1>11 DEF UseRemote, SetArticle
    <2> QED BY <1>3, <2>1, <2>2 DEF Live
<1>12. CASE ApplyPush
    <2>1. push.article \in Articles
        BY <1>12 DEF ApplyPush, FrameOK, PushFrame, Once
    <2>2. CASE UNCHANGED article
        BY <2>2 DEF Live
    <2>3. CASE Live(push.article)
        <3>1. CASE push.article # a
            BY <1>0, <1>12, <2>1, <3>1 DEF ApplyPush, Live
        <3>2. CASE push.article = a
            BY <1>0, <1>12, <2>1, <2>3, <3>2 DEF ApplyPush, Article
        <3> QED BY <3>1, <3>2
    <2> QED BY <1>12, <2>2, <2>3 DEF ApplyPush
<1>13. CASE ApplyRun
    <2>1. run.article \in Articles /\ Live(run.article)
        BY <1>13 DEF ApplyRun, FrameOK, RunFrame, TypeOK, Run
    <2>2. CASE run.article # a
        BY <1>0, <1>13, <2>1, <2>2 DEF ApplyRun, Live
    <2>3. CASE run.article = a
        BY <1>0, <1>13, <2>1, <2>3 DEF ApplyRun, Article
    <2> QED BY <2>2, <2>3
<1>14. CASE CompleteRun
    <2>1. run.article \in Articles
        BY <1>14 DEF CompleteRun, FrameOK, RunFrame, TypeOK, Run
    <2> QED BY <1>0, <1>14, <2>1 DEF CompleteRun, Article, Live
<1> QED BY <1>1, <1>4, <1>5, <1>6, <1>7, <1>8, <1>9, <1>10, <1>11, <1>12, <1>13, <1>14,
           Writers DEF ArticleStep

LEMMA PushChange ==
    ASSUME RemoteInv, [Next]_vars
    PROVE  \/ UNCHANGED push
           \/ /\ push' = IdlePush
              /\ \/ ReadForPush /\ push.pc = "queued" /\ ~Live(push.article)
                 \/ OperationFails /\ push.pc = "ready"
                 \/ /\ ApplyPush /\ push.pc = "sent"
                    /\ \/ ~Live(push.article) \/ push.result = 0 \/ scope.platform = "medium"
                 \/ MarkPush /\ push.pc = "applied" /\ ~MayMap(push.article, push.result)
                 \/ ObservePush /\ push.pc = "marked"
           \/ \E a \in Articles :
                 /\ RequestPush(a) /\ push.pc = "idle" /\ push'.pc = "queued"
                 /\ push'.article = a /\ push'.target = 0 /\ push'.result = 0
           \/ /\ push'.article = push.article /\ push.pc # "idle"
              /\ \/ /\ ReadForPush /\ push.pc = "queued" /\ push'.pc = "ready"
                    /\ Live(push.article) /\ push'.text = article[push.article].text
                    /\ push'.target = article[push.article].draftId
                    /\ push'.result = push.result
                 \/ /\ push'.target = push.target
                    /\ \/ /\ ClaimPush /\ ~Writes /\ push.pc = "ready" /\ push'.pc = "sent"
                          /\ push'.result = push.target /\ push'.text = push.text
                       \/ /\ OperatePush /\ push.pc = "ready" /\ push'.pc = "sent" /\ Writes
                          /\ WriteRemote(push'.result) /\ push'.result \in Remotes
                          /\ push'.text = push.text
                       \/ /\ push'.result = push.result
                          /\ \/ /\ ApplyPush /\ push.pc = "sent" /\ push'.pc = "applied"
                                /\ Live(push.article) /\ push'.text = push.text
                             \/ /\ MarkPush /\ push.pc = "applied" /\ push'.pc = "marked"
                                /\ MayMap(push.article, push.result)
                                /\ push'.text = article[push.article].text
                             \/ /\ CrashPush /\ push.pc = "ready" /\ push'.pc = "queued"
                                /\ push'.text = push.text
                             \/ /\ CrashPush /\ push.pc \in Written /\ push'.pc = "sent"
                                /\ push'.text = push.text
<1> USE DEF RemoteInv
<1>0. push \in Push
    BY DEF TypeOK
<1>1. ASSUME NEW a \in Articles, RequestPush(a)
      PROVE  /\ push.pc = "idle" /\ push'.pc = "queued"
             /\ push'.article = a /\ push'.target = 0 /\ push'.result = 0
    BY <1>1 DEF RequestPush, IdlePush
<1>2. ASSUME ReadForPush, push' # IdlePush
      PROVE  /\ push'.article = push.article /\ push.pc = "queued" /\ push'.pc = "ready"
             /\ Live(push.article) /\ push'.text = article[push.article].text
             /\ push'.target = article[push.article].draftId /\ push'.result = push.result
    <2>1. /\ push.pc = "queued" /\ Live(push.article)
          /\ push' = [push EXCEPT !.pc = "ready", !.text = article[push.article].text,
                                  !.target = article[push.article].draftId]
        BY <1>2 DEF ReadForPush
    <2> QED BY <1>0, <2>1 DEF Push
<1>3. ASSUME ClaimPush
      PROVE  /\ push'.article = push.article /\ push'.target = push.target
             /\ ~Writes /\ push.pc = "ready" /\ push'.pc = "sent"
             /\ push'.result = push.target /\ push'.text = push.text
    BY <1>0, <1>3 DEF ClaimPush, Push
<1>4. ASSUME OperatePush
      PROVE  /\ push'.article = push.article /\ push'.target = push.target
             /\ push.pc = "ready" /\ push'.pc = "sent" /\ Writes
             /\ WriteRemote(push'.result) /\ push'.result \in Remotes
             /\ push'.text = push.text
    <2>1. PICK r \in Remotes : WriteRemote(r) /\ push' = [push EXCEPT !.pc = "sent", !.result = r]
        BY <1>4 DEF OperatePush
    <2>2. /\ push'.article = push.article /\ push'.target = push.target
          /\ push'.pc = "sent" /\ push'.result = r /\ push'.text = push.text
        BY <1>0, <2>1 DEF Push
    <2> QED BY <2>1, <2>2 DEF WriteRemote
<1>5. ASSUME ApplyPush, push' # IdlePush
      PROVE  /\ push'.article = push.article /\ push'.target = push.target
             /\ push'.result = push.result /\ push.pc = "sent" /\ push'.pc = "applied"
             /\ Live(push.article) /\ push'.text = push.text
    BY <1>0, <1>5 DEF ApplyPush, Push
<1>6. ASSUME MarkPush, push' # IdlePush
      PROVE  /\ push'.article = push.article /\ push'.target = push.target
             /\ push'.result = push.result /\ push.pc = "applied" /\ push'.pc = "marked"
             /\ MayMap(push.article, push.result) /\ push'.text = article[push.article].text
    BY <1>0, <1>6 DEF MarkPush, Push
<1>7. ASSUME CrashPush
      PROVE  /\ push'.article = push.article /\ push'.target = push.target
             /\ push'.result = push.result /\ push'.text = push.text
             /\ \/ push.pc = "ready" /\ push'.pc = "queued"
                \/ push.pc \in Written /\ push'.pc = "sent"
    BY <1>0, <1>7 DEF CrashPush, Push, Written
<1>8. /\ OperationFails => push' = IdlePush /\ push.pc = "ready"
      /\ ObservePush => push' = IdlePush /\ push.pc = "marked"
      /\ ReadForPush => push.pc = "queued"
      /\ ReadForPush /\ Live(push.article) => push'.pc = "ready"
      /\ ApplyPush => push.pc = "sent"
      /\ ApplyPush /\ Live(push.article) /\ push.result # 0 /\ scope.platform # "medium"
            => push'.pc = "applied"
      /\ MarkPush => push.pc = "applied"
      /\ MarkPush /\ MayMap(push.article, push.result) => push'.pc = "marked"
      /\ IdlePush.pc = "idle"
    BY <1>0 DEF OperationFails, ObservePush, ReadForPush, ApplyPush, MarkPush, Push, IdlePush
<1>9. \A pc \in {"queued", "ready", "sent", "applied", "marked"} : pc # "idle"
    OBVIOUS
<1>10. push.pc \in Written => push.pc # "idle"
    BY DEF Written
<1> QED BY <1>1, <1>2, <1>3, <1>4, <1>5, <1>6, <1>7, <1>8, <1>9, <1>10, Writers
        DEF PushMove, PushStep

LEMMA RunChange ==
    ASSUME RemoteInv, [Next]_vars
    PROVE  \/ UNCHANGED run
           \/ run' = NoRun
           \/ \E a \in Articles, mode \in {"draft", "publish"} :
                 /\ RequestRun(a, mode) /\ run.job = "none" /\ Live(a) /\ run'.article = a
                 /\ run'.status = "awaiting_approval" /\ run'.job = "none"
                 /\ run'.text = article[a].text /\ run'.target = 0
           \/ /\ run'.article = run.article /\ run.article \in Articles
              /\ run'.text = run.text /\ Live(run.article)
              /\ \/ /\ OperateRun /\ run.job = "ready" /\ run'.job = "sent"
                    /\ run'.status = run.status
                    /\ run'.target \in Remotes /\ Upload(run'.target)
                 \/ /\ ReadForRun /\ run.job = "queued" /\ run'.job = "ready"
                    /\ run'.status = run.status
                    /\ run'.target = IF article[run.article].draftId # 0
                                     THEN article[run.article].draftId
                                     ELSE IF Mapped(run.article) # {}
                                          THEN FirstOf(run.article) ELSE 0
                 \/ /\ run'.target = run.target
                    /\ \/ /\ ApproveRun /\ MayPush /\ run.job = "none" /\ run'.job = "approved"
                          /\ run.status = "awaiting_approval" /\ run'.status = "running"
                       \/ /\ run'.status = run.status
                          /\ \/ CreateRunJob /\ run.job = "approved" /\ run'.job = "queued"
                             \/ RunRefused /\ run.job = "ready" /\ run'.job = "refused"
                             \/ IdentifyRun /\ run.job = "sent" /\ run'.job = "marked"
                             \/ ApplyRun /\ run.job = "marked" /\ run'.job = "applied"
                       \/ /\ LoginMissing \/ CompleteRun \/ CrashRun
                          /\ run.job # "none" /\ run'.job = "none"
                          /\ run'.status \in {run.status, "completed", "failed"}
<1> USE DEF RemoteInv
<1>0. /\ run \in Run
      /\ run.job # "none" \/ run.status = "awaiting_approval" =>
            run.article \in Articles /\ Live(run.article)
      /\ run.status = "awaiting_approval" => run.job = "none"
    BY DEF FrameOK, TypeOK, RunFrame, Run
<1>1. ASSUME NEW a \in Articles, NEW mode \in {"draft", "publish"}, RequestRun(a, mode)
      PROVE  /\ run.job = "none" /\ Live(a) /\ run'.article = a
             /\ run'.status = "awaiting_approval" /\ run'.job = "none"
             /\ run'.text = article[a].text /\ run'.target = 0
    BY <1>1 DEF RequestRun, NoRun
<1>2. ASSUME NEW a \in Articles, Delete(a) PROVE run' = NoRun \/ run' = run
    BY <1>2 DEF Delete
<1>3. ASSUME ApproveRun
      PROVE  /\ run'.article = run.article /\ run'.text = run.text /\ run'.target = run.target
             /\ MayPush /\ run.job = "none" /\ run'.job = "approved"
             /\ run.status = "awaiting_approval" /\ run'.status = "running"
    BY <1>0, <1>3 DEF ApproveRun, Run
<1>4. ASSUME CreateRunJob \/ RunRefused \/ IdentifyRun \/ ApplyRun
      PROVE  /\ run'.article = run.article /\ run'.text = run.text /\ run'.target = run.target
             /\ run'.status = run.status /\ run.job # "none"
             /\ \/ CreateRunJob /\ run.job = "approved" /\ run'.job = "queued"
                \/ RunRefused /\ run.job = "ready" /\ run'.job = "refused"
                \/ IdentifyRun /\ run.job = "sent" /\ run'.job = "marked"
                \/ ApplyRun /\ run.job = "marked" /\ run'.job = "applied"
    <2>1. CASE CreateRunJob
        BY <1>0, <2>1 DEF CreateRunJob, Run
    <2>2. CASE RunRefused
        BY <1>0, <2>2 DEF RunRefused, Run
    <2>3. CASE IdentifyRun
        BY <1>0, <2>3 DEF IdentifyRun, Run
    <2>4. CASE ApplyRun
        BY <1>0, <2>4 DEF ApplyRun, Run
    <2> QED BY <1>4, <2>1, <2>2, <2>3, <2>4
<1>5. ASSUME LoginMissing \/ CompleteRun \/ CrashRun
      PROVE  /\ run'.article = run.article /\ run'.text = run.text /\ run'.target = run.target
             /\ run.job # "none" /\ run'.job = "none"
             /\ run'.status \in {run.status, "completed", "failed"}
    BY <1>0, <1>5 DEF LoginMissing, CompleteRun, CrashRun, Run
<1>6. ASSUME ReadForRun
      PROVE  /\ run'.article = run.article /\ run'.text = run.text
             /\ run.job = "queued" /\ run'.job = "ready" /\ run'.status = run.status
             /\ run'.target = IF article[run.article].draftId # 0
                              THEN article[run.article].draftId
                              ELSE IF Mapped(run.article) # {}
                                   THEN FirstOf(run.article) ELSE 0
    <2> DEFINE target == IF article[run.article].draftId # 0
                         THEN article[run.article].draftId
                         ELSE IF Mapped(run.article) # {} THEN FirstOf(run.article) ELSE 0
    <2>1. run.job = "queued" /\ run' = [run EXCEPT !.job = "ready", !.target = target]
        BY <1>6 DEF ReadForRun
    <2> HIDE DEF target
    <2>2. /\ run'.article = run.article /\ run'.text = run.text
          /\ run.job = "queued" /\ run'.job = "ready" /\ run'.status = run.status
          /\ run'.target = target
        BY <1>0, <2>1 DEF Run
    <2> QED BY <2>2 DEF target
<1>7. ASSUME OperateRun
      PROVE  /\ run'.article = run.article /\ run'.text = run.text
             /\ run.job = "ready" /\ run'.job = "sent" /\ run'.status = run.status
             /\ run'.target \in Remotes /\ Upload(run'.target)
    <2>1. PICK r \in Remotes : Upload(r) /\ run' = [run EXCEPT !.job = "sent", !.target = r]
        BY <1>7 DEF OperateRun
    <2>2. /\ run'.article = run.article /\ run'.text = run.text
          /\ run'.job = "sent" /\ run'.status = run.status /\ run'.target = r
        BY <1>0, <2>1 DEF Run
    <2> QED BY <1>7, <2>1, <2>2 DEF OperateRun, Upload
<1>8. \A job \in {"approved", "queued", "ready", "sent", "marked", "applied", "refused"} :
         job # "none"
    OBVIOUS
<1> HIDE DEF RemoteInv
<1>9. CASE ApproveRun \/ CreateRunJob \/ RunRefused \/ IdentifyRun \/ ApplyRun
           \/ LoginMissing \/ CompleteRun \/ CrashRun
    <2>1. run.article \in Articles /\ Live(run.article)
        BY <1>0, <1>3, <1>4, <1>5, <1>9
    <2> QED BY <1>3, <1>4, <1>5, <1>9, <2>1
<1>10. CASE ReadForRun \/ OperateRun
    <2>1. run.article \in Articles /\ Live(run.article)
        BY <1>0, <1>6, <1>7, <1>8, <1>10
    <2> QED BY <1>6, <1>7, <1>10, <2>1
<1>11. CASE \E a \in Articles, mode \in {"draft", "publish"} : RequestRun(a, mode)
    BY <1>1, <1>11
<1> QED BY <1>2, <1>9, <1>10, <1>11, Writers DEF RunMove, RunStep

(* What a synchronization holds comes from the remote articles, from the   *)
(* identities and from the articles.                                       *)
LEMMA SyncChange ==
    ASSUME RemoteInv, [Next]_vars, NEW s \in Syncs
    PROVE  \/ sync'[s] = sync[s]
           \/ sync'[s] = IdleSync
           \/ /\ MaySync /\ UNCHANGED <<article, identity, push, run>> /\ sync'[s].pc = "drafts"
              /\ sync'[s].found = [r \in Remotes |-> Unknown]
           \/ /\ sync[s].pc \notin AtOne \cup {"idle"}
              /\ sync'[s].pc \in {"published", "details", "next"}
              /\ \A r \in Remotes : sync'[s].found[r] \in {sync[s].found[r], remote[r].text}
           \/ /\ sync[s].pc = "next" /\ sync'[s].found = sync[s].found
              /\ \E r \in Remotes :
                    /\ Locate(s, r) /\ r \in sync[s].todo /\ sync'[s].at = r
                    /\ \/ /\ LocateKnown(s, r) /\ sync'[s].pc = "compare"
                          /\ sync'[s].article = identity[r].article
                          /\ sync'[s].base = identity[r].base
                       \/ /\ LocateNew(s, r) /\ sync'[s].pc = "metadata"
                          /\ sync'[s].article \in Articles
                          /\ ~Once(sync'[s].article)
                          /\ SetArticle(sync'[s].article, Created(sync[s].found[r], 1))
           \/ /\ sync[s].pc \in AtOne /\ sync'[s].found = sync[s].found
              /\ sync'[s].at = sync[s].at /\ sync'[s].article = sync[s].article
              /\ sync'[s].base = sync[s].base
              /\ \/ /\ Compare(s) /\ sync[s].pc = "compare"
                    /\ sync'[s].pc \in {"save", "report", "metadata"}
                    /\ sync'[s].expected = article[sync[s].article].rev
                    /\ UNCHANGED <<article, had>>
                    /\ Live(sync[s].article) /\ sync'[s].pc = "save" =>
                          \/ sync[s].base = Unknown
                          \/ article[sync[s].article].text \in
                                {sync[s].base, sync[s].found[sync[s].at]}
                    /\ Live(sync[s].article) /\ sync'[s].pc = "metadata" =>
                          sync[s].found[sync[s].at] \in
                             {article[sync[s].article].text, sync[s].base}
                 \/ /\ Save(s) /\ Live(sync[s].article) /\ sync'[s].pc = "metadata"
                    /\ SetArticle(sync[s].article,
                                  Saved(sync[s].article, sync[s].found[sync[s].at]))
                 \/ sync[s].pc = "metadata" /\ sync'[s].pc = "mark"
                 \/ sync[s].pc = "mark" /\ sync'[s].pc = "observe"
                 \/ sync'[s].pc = "next"
<1> USE DEF RemoteInv
<1>0. sync \in [Syncs -> Sync] /\ sync[s] \in Sync
    BY DEF TypeOK
<1>1. \A new : SetSync(s, new) => sync'[s] = new
    BY <1>0 DEF SetSync
<1>2. ASSUME NEW a \in Articles \cup {0}, StartSync(s, a)
      PROVE  /\ MaySync /\ UNCHANGED <<article, identity, push, run>> /\ sync'[s].pc = "drafts"
             /\ sync'[s].found = [r \in Remotes |-> Unknown]
    BY <1>1, <1>2 DEF StartSync, IdleSync, store
<1>3. CrashSync(s) \/ EndSync(s) \/ Unreachable(s) => sync'[s] = IdleSync
    BY <1>1 DEF CrashSync, EndSync, Unreachable
<1>4. ASSUME NEW got, NEW lost
      PROVE  \A r \in Remotes : Fetched(s, got, lost).found[r] \in {sync[s].found[r], remote[r].text}
    <2> DEFINE texts == [r \in Remotes |-> IF r \in got THEN remote[r].text ELSE sync[s].found[r]]
    <2>1. Fetched(s, got, lost).found = texts
        BY <1>0 DEF Fetched, Sync
    <2> QED BY <2>1
<1>5. \A pc, got, lost, clean, listed :
         /\ [Fetched(s, got, lost) EXCEPT !.pc = pc].found = Fetched(s, got, lost).found
         /\ [Fetched(s, got, lost) EXCEPT !.pc = pc].pc = pc
         /\ [Fetched(s, got, lost) EXCEPT !.pc = pc, !.clean = clean].found
               = Fetched(s, got, lost).found
         /\ [Fetched(s, got, lost) EXCEPT !.pc = pc, !.clean = clean].pc = pc
         /\ [Fetched(s, got, lost) EXCEPT !.listed = listed].found = Fetched(s, got, lost).found
         /\ [Fetched(s, got, lost) EXCEPT !.listed = listed].pc = sync[s].pc
    BY <1>0 DEF Fetched, Sync
<1>6. AfterListing(s) \in {"published", "details", "next"}
    BY DEF AfterListing
<1>7. ASSUME ListAll(s) \/ ListPart(s) \/ ListLimited(s)
      PROVE  /\ sync[s].pc \notin AtOne \cup {"idle"}
             /\ sync'[s].pc \in {"published", "details", "next"}
             /\ \A r \in Remotes : sync'[s].found[r] \in {sync[s].found[r], remote[r].text}
    <2>1. sync[s].pc \notin AtOne \cup {"idle"}
        BY <1>7 DEF ListAll, ListPart, ListLimited, AtOne
    <2>2. \/ \E listed : sync'[s] = [sync[s] EXCEPT !.pc = AfterListing(s), !.listed = listed]
          \/ \E listed : sync'[s] = [sync[s] EXCEPT !.pc = AfterListing(s), !.listed = listed,
                                                   !.clean = FALSE]
          \/ \E got, lost : sync'[s] = [Fetched(s, got, lost) EXCEPT !.pc = AfterListing(s)]
          \/ \E got, lost : sync'[s] = [Fetched(s, got, lost) EXCEPT !.pc = AfterListing(s),
                                                                  !.clean = FALSE]
        BY <1>1, <1>7 DEF ListAll, ListPart, ListLimited
    <2> DEFINE Goal == /\ sync'[s].pc = AfterListing(s)
                       /\ \A r \in Remotes :
                             sync'[s].found[r] \in {sync[s].found[r], remote[r].text}
    <2>4. ASSUME NEW listed,
                 \/ sync'[s] = [sync[s] EXCEPT !.pc = AfterListing(s), !.listed = listed]
                 \/ sync'[s] = [sync[s] EXCEPT !.pc = AfterListing(s), !.listed = listed,
                                               !.clean = FALSE]
          PROVE  Goal
        <3>1. sync'[s].found = sync[s].found /\ sync'[s].pc = AfterListing(s)
            BY <1>0, <2>4 DEF Sync
        <3> QED BY <3>1
    <2>5. ASSUME NEW got, NEW lost,
                 \/ sync'[s] = [Fetched(s, got, lost) EXCEPT !.pc = AfterListing(s)]
                 \/ sync'[s] = [Fetched(s, got, lost) EXCEPT !.pc = AfterListing(s),
                                                             !.clean = FALSE]
          PROVE  Goal
        <3>0. PICK pc : pc = AfterListing(s)
            OBVIOUS
        <3>1. \/ sync'[s] = [Fetched(s, got, lost) EXCEPT !.pc = pc]
              \/ sync'[s] = [Fetched(s, got, lost) EXCEPT !.pc = pc, !.clean = FALSE]
            BY <2>5, <3>0
        <3>2. sync'[s].found = Fetched(s, got, lost).found /\ sync'[s].pc = pc
            BY <1>0, <3>1 DEF Fetched, Sync
        <3> QED BY <1>4, <3>0, <3>2
    <2> HIDE DEF Goal
    <2>6. Goal
        BY <2>2, <2>4, <2>5
    <2> QED BY <1>6, <2>1, <2>6 DEF Goal
<1>8. ASSUME NEW r \in Remotes, Detail(s, r)
      PROVE  /\ sync[s].pc \notin AtOne \cup {"idle"}
             /\ sync'[s].pc \in {"published", "details", "next"}
             /\ \A q \in Remotes : sync'[s].found[q] \in {sync[s].found[q], remote[q].text}
    <2>1. sync[s].pc = "details"
        BY <1>8 DEF Detail
    <2>2. \E got, lost, listed : sync'[s] = [Fetched(s, got, lost) EXCEPT !.listed = listed]
        BY <1>1, <1>8 DEF Detail
    <2>3. PICK got, lost : sync'[s].found = Fetched(s, got, lost).found /\ sync'[s].pc = "details"
        BY <1>5, <2>1, <2>2
    <2> QED BY <1>4, <2>1, <2>3 DEF AtOne
<1>9. ASSUME EndDetails(s)
      PROVE  /\ sync[s].pc \notin AtOne \cup {"idle"}
             /\ sync'[s].pc \in {"published", "details", "next"}
             /\ \A q \in Remotes : sync'[s].found[q] \in {sync[s].found[q], remote[q].text}
    BY <1>0, <1>1, <1>9 DEF EndDetails, AtOne, Sync
<1>10. ASSUME NEW r \in Remotes, Locate(s, r)
       PROVE  /\ sync[s].pc = "next" /\ sync'[s].found = sync[s].found
              /\ r \in sync[s].todo /\ sync'[s].at = r
              /\ \/ /\ LocateKnown(s, r) /\ sync'[s].pc = "compare"
                    /\ sync'[s].article = identity[r].article /\ sync'[s].base = identity[r].base
                 \/ /\ LocateNew(s, r) /\ sync'[s].pc = "metadata"
                    /\ sync'[s].article \in Articles /\ ~Once(sync'[s].article)
                    /\ SetArticle(sync'[s].article, Created(sync[s].found[r], 1))
    <2>1. CASE LocateKnown(s, r)
        BY <1>0, <1>1, <1>10, <2>1 DEF Locate, LocateKnown, Sync
    <2>2. CASE LocateNew(s, r)
        <3>1. PICK a \in Articles :
                 /\ Fresh(a) /\ SetArticle(a, Created(sync[s].found[r], 1))
                 /\ sync'[s] = [sync[s] EXCEPT !.pc = "metadata", !.todo = @ \ {r}, !.at = r,
                                    !.article = a, !.created = TRUE, !.base = Unknown]
            BY <1>1, <2>2 DEF LocateNew
        <3>2. /\ sync'[s].found = sync[s].found /\ sync'[s].at = r
              /\ sync'[s].pc = "metadata" /\ sync'[s].article = a
            BY <1>0, <3>1 DEF Sync
        <3> QED BY <1>10, <2>2, <3>1, <3>2 DEF Locate, Fresh, Once
    <2> QED BY <1>10, <2>1, <2>2 DEF Locate
<1>11. ASSUME Compare(s)
       PROVE  /\ sync[s].pc = "compare" /\ sync'[s].found = sync[s].found
              /\ sync'[s].at = sync[s].at /\ sync'[s].article = sync[s].article
              /\ sync'[s].base = sync[s].base
              /\ sync'[s].pc \in {"save", "report", "metadata"}
              /\ sync'[s].expected = article[sync[s].article].rev
              /\ UNCHANGED <<article, had>>
              /\ Live(sync[s].article) /\ sync'[s].pc = "save" =>
                    \/ sync[s].base = Unknown
                    \/ article[sync[s].article].text \in
                          {sync[s].base, sync[s].found[sync[s].at]}
              /\ Live(sync[s].article) /\ sync'[s].pc = "metadata" =>
                    sync[s].found[sync[s].at] \in
                       {article[sync[s].article].text, sync[s].base}
    <2> DEFINE text == sync[s].found[sync[s].at]
               local == article[sync[s].article].text
               pc == IF ~Live(sync[s].article) THEN "save"
                     ELSE IF Conflicting(local, sync[s].base, text) THEN "report"
                     ELSE IF Changed(local, sync[s].base, text) THEN "save" ELSE "metadata"
    <2>1. sync'[s] = [sync[s] EXCEPT !.expected = article[sync[s].article].rev, !.pc = pc]
        BY <1>1, <1>11 DEF Compare
    <2>2. pc \in {"save", "report", "metadata"}
        OBVIOUS
    <2>3. Live(sync[s].article) /\ pc = "save" => sync[s].base = Unknown \/ local \in {sync[s].base, text}
        BY DEF Conflicting, Changed
    <2>4. Live(sync[s].article) /\ pc = "metadata" => text \in {local, sync[s].base}
        BY DEF Conflicting, Changed
    <2> HIDE DEF pc
    <2>5. /\ sync'[s].found = sync[s].found
          /\ sync'[s].at = sync[s].at /\ sync'[s].article = sync[s].article
          /\ sync'[s].base = sync[s].base /\ sync'[s].pc = pc
          /\ sync'[s].expected = article[sync[s].article].rev
        BY <1>0, <2>1 DEF Sync
    <2> QED BY <1>11, <2>2, <2>3, <2>4, <2>5 DEF Compare, store, history
<1>12. ASSUME GiveUp(s)
       PROVE  /\ sync'[s].found = sync[s].found /\ sync'[s].pc = "next"
              /\ sync'[s].at = sync[s].at /\ sync'[s].article = sync[s].article
              /\ sync'[s].base = sync[s].base
    BY <1>0, <1>1, <1>12 DEF GiveUp, Sync
<1>13. ASSUME NEW pc, \/ SetSync(s, [sync[s] EXCEPT !.pc = pc])
                      \/ SetSync(s, [sync[s] EXCEPT !.pc = pc, !.clean = FALSE])
       PROVE  /\ sync'[s].found = sync[s].found /\ sync'[s].pc = pc
              /\ sync'[s].at = sync[s].at /\ sync'[s].article = sync[s].article
              /\ sync'[s].base = sync[s].base
    BY <1>0, <1>1, <1>13 DEF Sync
<1>14. ASSUME Save(s)
       PROVE  /\ sync[s].pc = "save" /\ sync'[s].found = sync[s].found
              /\ sync'[s].at = sync[s].at /\ sync'[s].article = sync[s].article
              /\ sync'[s].base = sync[s].base
              /\ \/ sync'[s].pc = "next"
                 \/ /\ Live(sync[s].article) /\ sync'[s].pc = "metadata"
                    /\ SetArticle(sync[s].article,
                                  Saved(sync[s].article, sync[s].found[sync[s].at]))
    BY <1>12, <1>13, <1>14 DEF Save
<1>15. ASSUME Metadata(s) \/ Mark(s) \/ Observe(s) \/ Report(s)
       PROVE  /\ sync[s].pc \in AtOne /\ sync'[s].found = sync[s].found
              /\ sync'[s].at = sync[s].at /\ sync'[s].article = sync[s].article
              /\ sync'[s].base = sync[s].base
              /\ \/ sync'[s].pc = "next"
                 \/ sync[s].pc = "metadata" /\ sync'[s].pc = "mark"
                 \/ sync[s].pc = "mark" /\ sync'[s].pc = "observe"
    BY <1>12, <1>13, <1>15 DEF Metadata, Mark, Observe, Report, AtOne
<1>16. "save" \in AtOne /\ "compare" \in AtOne
    BY DEF AtOne
<1>17. \A t \in Syncs \ {s} :
          (\E a \in Articles \cup {0} : StartSync(t, a)) \/ SyncStep(t) \/ CrashSync(t)
             => sync'[s] = sync[s]
    BY OtherRows
<1> HIDE DEF RemoteInv
<1>18. CASE SyncStep(s)
    <2>1. CASE ListAll(s) \/ ListPart(s) \/ ListLimited(s) \/ EndDetails(s)
               \/ \E r \in Remotes : Detail(s, r)
        BY <1>7, <1>8, <1>9, <2>1
    <2>2. CASE \E r \in Remotes : Locate(s, r)
        BY <1>10, <2>2
    <2>3. CASE Compare(s)
        BY <1>11, <1>16, <2>3
    <2>4. CASE Save(s)
        BY <1>14, <1>16, <2>4
    <2>5. CASE Metadata(s) \/ Mark(s) \/ Observe(s) \/ Report(s)
        BY <1>15, <2>5
    <2>6. CASE EndSync(s) \/ Unreachable(s)
        BY <1>3, <2>6
    <2> QED BY <1>18, <2>1, <2>2, <2>3, <2>4, <2>5, <2>6 DEF SyncStep
<1>19. CASE \E a \in Articles \cup {0} : StartSync(s, a)
    BY <1>2, <1>19
<1> QED BY <1>3, <1>17, <1>18, <1>19, Writers DEF SyncMove

LEMMA ResolverChange ==
    ASSUME RemoteInv, [Next]_vars
    PROVE  \/ UNCHANGED resolver
           \/ resolver' = IdleResolver
           \/ \E a \in Articles :
                 /\ Live(a) /\ latest[a].state \in Available
                 /\ UNCHANGED <<article, identity, latest>>
                 /\ resolver'.pc \in {"save", "observe"} /\ resolver'.article = a
                 /\ resolver'.seen = latest[a]
           \/ /\ resolver'.article = resolver.article /\ resolver'.seen = resolver.seen
              /\ \/ /\ UseRemote /\ resolver.pc = "save" /\ resolver'.pc = "mark"
                    /\ Live(resolver.article)
                    /\ SetArticle(resolver.article, Saved(resolver.article, resolver.seen.text))
                    /\ UNCHANGED <<identity, latest>>
                 \/ resolver.pc = "mark" /\ resolver'.pc = "observe"
<1> USE DEF RemoteInv
<1>0. resolver \in Resolver
    BY DEF TypeOK
<1>1. ASSUME NEW a \in Articles, NEW action \in {"use_remote", "keep_local"},
             StartResolve(a, action)
      PROVE  /\ Live(a) /\ latest[a].state \in Available
             /\ UNCHANGED <<article, identity, latest>>
             /\ resolver'.pc \in {"save", "observe"} /\ resolver'.article = a
             /\ resolver'.seen = latest[a]
    BY <1>1 DEF StartResolve, store
<1>2. ASSUME UseRemote, resolver' # IdleResolver
      PROVE  /\ resolver'.article = resolver.article /\ resolver'.seen = resolver.seen
             /\ resolver.pc = "save" /\ resolver'.pc = "mark" /\ Live(resolver.article)
             /\ SetArticle(resolver.article, Saved(resolver.article, resolver.seen.text))
             /\ UNCHANGED <<identity, latest>>
    BY <1>0, <1>2 DEF UseRemote, Resolver
<1>3. ASSUME MarkResolved, resolver' # IdleResolver
      PROVE  /\ resolver'.article = resolver.article /\ resolver'.seen = resolver.seen
             /\ resolver.pc = "mark" /\ resolver'.pc = "observe"
    BY <1>0, <1>3 DEF MarkResolved, Resolver
<1>4. ObserveResolved \/ CrashResolve => resolver' = IdleResolver
    BY DEF ObserveResolved, CrashResolve
<1> HIDE DEF RemoteInv
<1>5. CASE \E a \in Articles, action \in {"use_remote", "keep_local"} : StartResolve(a, action)
    BY <1>1, <1>5
<1> QED BY <1>2, <1>3, <1>4, <1>5, Writers DEF ResolverMove, ResolveStep

LEMMA LatestChange ==
    ASSUME RemoteInv, [Next]_vars, NEW a \in Articles, latest'[a] # latest[a],
           latest'[a] # NoObservation
    PROVE  /\ Live(a) /\ UNCHANGED <<article, identity, remote, had, shown, mine, waived>>
           /\ identity[latest'[a].remote].article = a /\ latest'[a].remote \in Remotes
           /\ \/ \E s \in Syncs :
                    /\ sync[s].pc \in AtOne /\ sync[s].article = a
                    /\ latest'[a].remote = sync[s].at
                    /\ latest'[a].text = sync[s].found[sync[s].at]
              \/ latest'[a].text = Unknown /\ latest'[a].state \notin Available
              \/ /\ resolver.pc # "idle" /\ resolver.article = a
                 /\ latest'[a].remote = resolver.seen.remote
                 /\ latest'[a].text = resolver.seen.text
              \/ /\ push.pc = "marked" /\ push.article = a
                 /\ latest'[a].remote = push.result /\ latest'[a].text = push.text
<1> USE DEF RemoteInv
<1>1. \A b, state, r, text : Record(b, state, r, text) =>
         a = b /\ latest'[a].remote = r /\ latest'[a].text = text /\ latest'[a].state = state
    BY DEF Record, TypeOK
<1>2. ASSUME NEW b \in Articles, Delete(b) PROVE FALSE
    BY <1>2 DEF Delete, TypeOK
<1>3. ASSUME NEW s \in Syncs, Observe(s) \/ Report(s)
      PROVE  /\ Live(a) /\ UNCHANGED <<article, identity, remote, had, shown, mine, waived>>
             /\ sync[s].pc \in AtOne /\ sync[s].article = a /\ sync[s].at \in Remotes
             /\ identity[sync[s].at].article = a
             /\ latest'[a].remote = sync[s].at
             /\ latest'[a].text = sync[s].found[sync[s].at]
    <2>1. sync[s].pc \in AtOne
        BY <1>3 DEF Observe, Report, AtOne
    <2>2. MayRecord(sync[s].article, sync[s].at)
        BY <1>3 DEF Observe, Report
    <2>3. /\ sync[s].article = a
          /\ latest'[a].remote = sync[s].at
          /\ latest'[a].text = sync[s].found[sync[s].at]
        <3>1. \E state : Record(sync[s].article, state, sync[s].at, sync[s].found[sync[s].at])
            BY <1>3, <2>2 DEF Observe, Report
        <3> QED BY <1>1, <3>1
    <2>4. UNCHANGED <<article, identity, remote, had, shown, mine, waived>>
        BY <1>3 DEF Observe, Report
    <2> QED BY <2>1, <2>2, <2>3, <2>4, AtOneTypes DEF MayRecord
<1>4. ASSUME NEW s \in Syncs, EndSync(s) \/ Unreachable(s)
      PROVE  /\ Live(a) /\ UNCHANGED <<article, identity, remote, had, shown, mine, waived>>
             /\ identity[latest'[a].remote].article = a /\ latest'[a].remote \in Remotes
             /\ latest'[a].text = Unknown /\ latest'[a].state \notin Available
    <2>1. /\ sync[s].about # 0 /\ MayRecord(sync[s].about, sync[s].want)
          /\ sync[s].about = a
          /\ latest'[a].remote = sync[s].want /\ latest'[a].text = Unknown
          /\ latest'[a].state \in {"remote_deleted", "inaccessible"}
        <3>1. /\ sync[s].about # 0 /\ MayRecord(sync[s].about, sync[s].want)
              /\ \E state \in {"remote_deleted", "inaccessible"} :
                    Record(sync[s].about, state, sync[s].want, Unknown)
            BY <1>4 DEF EndSync, Unreachable, Absence
        <3> QED BY <1>1, <3>1
    <2>2. sync[s].want \in Remotes
        BY <2>1 DEF FrameOK, SyncFrame
    <2>3. UNCHANGED <<article, identity, remote, had, shown, mine, waived>>
        BY <1>4 DEF EndSync, Unreachable, history
    <2> QED BY <2>1, <2>2, <2>3 DEF MayRecord, Available
<1>5. ASSUME ObserveResolved
      PROVE  /\ Live(a) /\ UNCHANGED <<article, identity, remote, had, shown, mine, waived>>
             /\ identity[latest'[a].remote].article = a /\ latest'[a].remote \in Remotes
             /\ resolver.pc # "idle" /\ resolver.article = a
             /\ latest'[a].remote = resolver.seen.remote
             /\ latest'[a].text = resolver.seen.text
    <2>1. /\ resolver.pc = "observe" /\ resolver.article = a
          /\ MayRecord(resolver.article, resolver.seen.remote)
          /\ latest'[a].remote = resolver.seen.remote
          /\ latest'[a].text = resolver.seen.text
        <3>1. /\ resolver.pc = "observe" /\ MayRecord(resolver.article, resolver.seen.remote)
              /\ \E state : Record(resolver.article, state, resolver.seen.remote,
                                   resolver.seen.text)
            BY <1>5 DEF ObserveResolved
        <3> QED BY <1>1, <3>1
    <2> QED BY <1>5, <2>1 DEF ObserveResolved, MayRecord, FrameOK, ResolverFrame
<1>6. ASSUME ObservePush
      PROVE  /\ Live(a) /\ UNCHANGED <<article, identity, remote, had, shown, mine, waived>>
             /\ identity[latest'[a].remote].article = a /\ latest'[a].remote \in Remotes
             /\ push.pc = "marked" /\ push.article = a
             /\ latest'[a].remote = push.result /\ latest'[a].text = push.text
    <2>1. /\ push.pc = "marked" /\ push.article = a
          /\ MayRecord(push.article, push.result)
          /\ latest'[a].remote = push.result /\ latest'[a].text = push.text
        <3>1. /\ push.pc = "marked" /\ MayRecord(push.article, push.result)
              /\ Record(push.article, "in_sync", push.result, push.text)
            BY <1>6 DEF ObservePush
        <3> QED BY <1>1, <3>1
    <2>2. push.result \in Remotes
        BY <2>1 DEF FrameOK, PushFrame, TypeOK, Push
    <2> QED BY <1>6, <2>1, <2>2 DEF ObservePush, MayRecord
<1> HIDE DEF RemoteInv
<1> QED BY <1>2, <1>3, <1>4, <1>5, <1>6, Writers DEF LatestStep

LEMMA MadeGrows ==
    ASSUME RemoteInv, [Next]_vars
    PROVE  made' \in Nat /\ 0..made \subseteq 0..made' /\ 1..made \subseteq 1..made'
<1>1. made \in Nat /\ made' \in {made, made + 1}
    <2>1. made \in Nat
        BY RemoteAssumption DEF RemoteInv, TypeOK
    <2> USE DEF store, calls, history
    <2>2. ASSUME NEW a \in Articles, Edit(a) \/ Delete(a) \/ RequestPush(a)
          PROVE  made' \in {made, made + 1}
        BY <2>2 DEF Edit, Delete, RequestPush
    <2>3. ASSUME NEW r \in Remotes, Author(r) \/ Post(r) \/ Remove(r)
          PROVE  made' \in {made, made + 1}
        BY <2>3 DEF Author, Post, Remove
    <2>4. ASSUME NEW r \in Remotes, NEW a \in Articles, Import(r, a) PROVE UNCHANGED made
        BY <2>4 DEF Import
    <2>5. ASSUME NEW s \in Syncs, NEW a \in Articles \cup {0}, StartSync(s, a) PROVE UNCHANGED made
        BY <2>5 DEF StartSync
    <2>6. ASSUME NEW s \in Syncs, SyncStep(s) \/ CrashSync(s) PROVE UNCHANGED made
        BY <2>6 DEF SyncStep, CrashSync, ListAll, ListPart, ListLimited, EndDetails, Detail, Locate,
           Compare, Save, Metadata, Mark, Observe, Report, EndSync, Unreachable
    <2>7. ASSUME NEW a \in Articles, NEW action \in {"use_remote", "keep_local"},
                 StartResolve(a, action)
          PROVE  UNCHANGED made
        BY <2>7 DEF StartResolve
    <2>8. ResolveStep \/ CrashResolve => UNCHANGED made
        BY DEF ResolveStep, UseRemote, MarkResolved, ObserveResolved, CrashResolve
    <2>9. PushStep \/ CrashPush => UNCHANGED made
        BY DEF PushStep, CrashPush, ReadForPush, ClaimPush, OperatePush, OperationFails,
           ApplyPush, MarkPush, ObservePush
    <2>10. ASSUME NEW a \in Articles, NEW mode \in {"draft", "publish"}, RequestRun(a, mode)
           PROVE  UNCHANGED made
        BY <2>10 DEF RequestRun
    <2>11. ApproveRun \/ RunStep \/ CrashRun => UNCHANGED made
        BY DEF ApproveRun, RunStep, CrashRun, CreateRunJob, ReadForRun, LoginMissing,
           OperateRun, RunRefused, IdentifyRun, ApplyRun, CompleteRun
    <2>12. UNCHANGED vars => UNCHANGED made
        BY DEF vars
    <2> QED BY <2>1, <2>2, <2>3, <2>4, <2>5, <2>6, <2>7, <2>8, <2>9, <2>10, <2>11, <2>12
            DEF Next, Crash
<1> QED BY <1>1

-----------------------------------------------------------------------------
(* Every edit has its number.                                              *)

LEMMA NumberedInit == Init => Numbered
<1> SUFFICES ASSUME Init PROVE Numbered
    OBVIOUS
<1>1. made = 0 /\ push.pc = "idle" /\ run.article = 0 /\ resolver.pc = "idle"
      /\ \A a \in Articles : mine[a] = {} /\ latest[a].state = "none"
    BY DEF Init, IdlePush, NoRun, IdleResolver, NoObservation
<1>2. \A a \in Articles : article[a].text \subseteq {0} /\ had[a] = {article[a].text}
    BY DEF Init, Created, NoArticle, Heading
<1>3. \A r \in Remotes : remote[r].text \subseteq {0} /\ shown[r] = {remote[r].text}
    BY DEF Init, Heading
<1>4. /\ \A a \in Articles : latest[a].text = Unknown
      /\ \A r \in Remotes : identity[r].base = Unknown
      /\ \A s \in Syncs : sync[s].pc = "idle"
    BY DEF Init, NoObservation, NoIdentity, IdleSync
<1> QED BY <1>1, <1>2, <1>3, <1>4 DEF Numbered, Sending, AtOne

LEMMA NumberedStep ==
    ASSUME RemoteInv, Numbered, [Next]_vars
    PROVE  Numbered'
<1> USE DEF RemoteInv
<1>0. /\ made' \in Nat /\ 0..made \subseteq 0..made' /\ 1..made \subseteq 1..made'
      /\ made \in Nat
    BY MadeGrows, RemoteAssumption DEF TypeOK
<1>1. \A a \in Articles : article[a].text \subseteq 0..made \/ ~Live(a)
    BY DEF Numbered, FrameOK, ArticleFrame
<1>2. \A r \in Remotes : remote[r].text \subseteq 0..made
    BY DEF Numbered, FrameOK, RemoteFrame
<1>3. \A s \in Syncs, r \in Remotes : sync[s].found[r] \in Text =>
         sync[s].found[r] \subseteq 0..made
    BY DEF Numbered, FrameOK, SyncFrame
<1>4. \A s \in Syncs : sync[s].pc \in AtOne => sync[s].found[sync[s].at] \subseteq 0..made
    BY <1>3, AtOneTypes
<1>5. push.pc \in Sending => Rendered(push.text) \subseteq 0..made
    BY DEF Numbered, Rendered
<1>6. run.article # 0 => run.text \subseteq 0..made /\ Rendered(run.text) \subseteq 0..made
    BY DEF Numbered, Rendered
<1>7. ASSUME NEW a \in Articles, NEW text \in had'[a]
      PROVE  text \subseteq 0..made'
    <2>0. \A old \in had[a] : old \subseteq 0..made'
        BY <1>0 DEF Numbered
    <2>1. \A b, new : SetArticle(b, new) => text \in had[a] \/ text = new.text
        BY <1>7 DEF SetArticle, TypeOK
    <2>2. \A b, new : b \in Articles => \/ Saved(b, new).text = article[b].text
                                        \/ Saved(b, new).text = new
        BY DEF Saved, TypeOK, Article
    <2>3. \A new, rev : Created(new, rev).text = new
        BY DEF Created, NoArticle
    <2>4. ASSUME NEW b \in Articles, Edit(b) PROVE text \subseteq 0..made'
        <3>1. /\ SetArticle(b, Saved(b, article[b].text \cup {made + 1}))
              /\ made' = made + 1 /\ Live(b)
            BY <2>4 DEF Edit
        <3>2. article[b].text \subseteq 0..made' /\ article[b].text \cup {made + 1} \subseteq 0..made'
            BY <1>0, <1>1, <3>1
        <3> QED BY <2>0, <2>1, <2>2, <3>1, <3>2
    <2>5. ASSUME NEW s \in Syncs, Save(s) PROVE text \subseteq 0..made'
        <3>1. sync[s].pc = "save" /\ sync[s].pc \in AtOne
            BY <2>5 DEF Save, AtOne
        <3>2. \/ UNCHANGED had
              \/ /\ Live(sync[s].article)
                 /\ SetArticle(sync[s].article,
                               Saved(sync[s].article, sync[s].found[sync[s].at]))
            BY <2>5 DEF Save
        <3> QED BY <1>0, <1>1, <1>4, <2>0, <2>1, <2>2, <3>1, <3>2 DEF Live
    <2>6. ASSUME NEW s \in Syncs, NEW r \in Remotes, Locate(s, r) PROVE text \subseteq 0..made'
        <3>1. r \in sync[s].todo /\ sync[s].found[r] \subseteq 0..made
            BY <1>3, <2>6 DEF Locate, FrameOK, SyncFrame
        <3>2. UNCHANGED had \/ \E b : SetArticle(b, Created(sync[s].found[r], 1))
            BY <2>6 DEF Locate, LocateKnown, LocateNew
        <3> QED BY <1>0, <2>0, <2>1, <2>3, <3>1, <3>2
    <2>7. CASE UseRemote
        <3>1. resolver.seen.text \subseteq 0..made
            BY <2>7 DEF UseRemote, Numbered
        <3>2. \/ UNCHANGED had
              \/ /\ Live(resolver.article)
                 /\ SetArticle(resolver.article, Saved(resolver.article, resolver.seen.text))
            BY <2>7 DEF UseRemote
        <3> QED BY <1>0, <1>1, <2>0, <2>1, <2>2, <3>1, <3>2 DEF Live
    <2>8. ASSUME NEW r \in Remotes, NEW b \in Articles, Import(r, b) PROVE text \subseteq 0..made'
        <3>1. UNCHANGED had \/ SetArticle(b, Created(remote[r].text, 2))
            BY <2>8 DEF Import, MergeInto, CreateFrom
        <3> QED BY <1>0, <1>2, <2>0, <2>1, <2>3, <3>1
    <2>9. \/ \E b \in Articles : Delete(b) \/ RequestPush(b)
          \/ \E s \in Syncs : Metadata(s)
          \/ ApplyPush \/ ApplyRun \/ CompleteRun
          => UNCHANGED had
        BY DEF Delete, RequestPush, Metadata, ApplyPush, ApplyRun, CompleteRun, history
    <2> QED BY <2>0, <2>4, <2>5, <2>6, <2>7, <2>8, <2>9, <1>7, Writers DEF ArticleStep
<1>8. ASSUME NEW r \in Remotes, NEW text \in shown'[r]
      PROVE  text \subseteq 0..made'
    <2>0. \A old \in shown[r] : old \subseteq 0..made'
        BY <1>0 DEF Numbered
    <2>1. \A q, state, new : SetRemote(q, state, new) => text \in shown[r] \/ text = new
        BY <1>8 DEF SetRemote, TypeOK
    <2>2. ASSUME NEW q \in Remotes, Author(q) PROVE text \subseteq 0..made'
        <3>1. /\ SetRemote(q, remote[q].state, remote[q].text \cup {made + 1})
              /\ made' = made + 1
            BY <2>2 DEF Author
        <3>2. remote[q].text \cup {made + 1} \subseteq 0..made'
            BY <1>0, <1>2, <3>1
        <3> QED BY <2>0, <2>1, <3>1, <3>2
    <2>3. ASSUME NEW q \in Remotes, Post(q) \/ Remove(q) PROVE text \subseteq 0..made'
        <3>1. SetRemote(q, "published", remote[q].text) \/ SetRemote(q, "deleted", remote[q].text)
            BY <2>3 DEF Post, Remove
        <3> QED BY <1>0, <1>2, <2>0, <2>1, <3>1
    <2>4. CASE OperatePush \/ OperationFails
        <3>1. push.pc \in Sending
            BY <2>4 DEF OperatePush, OperationFails, WriteRemote, Sending
        <3>2. UNCHANGED shown \/ \E q : SetRemote(q, "draft", Rendered(push.text))
            BY <2>4 DEF OperatePush, OperationFails, WriteRemote
        <3> QED BY <1>0, <1>5, <2>0, <2>1, <3>1, <3>2
    <2>5. CASE OperateRun \/ RunRefused
        <3>1. run.article # 0
            BY <2>5 DEF OperateRun, RunRefused, FrameOK, RunFrame
        <3>2. UNCHANGED shown \/ \E q : Upload(q)
            BY <2>5 DEF OperateRun, RunRefused
        <3>3. ASSUME NEW q, Upload(q)
              PROVE  \E state : SetRemote(q, state, Rendered(run.text)) \/ SetRemote(q, state, run.text)
            BY <3>3 DEF Upload, WriteStory, UploadDraft
        <3> QED BY <1>0, <1>6, <2>0, <2>1, <3>1, <3>2, <3>3
    <2> QED BY <2>0, <2>2, <2>3, <2>4, <2>5, <1>8, Writers DEF RemoteStep
<1>9. \A a \in Articles : mine'[a] \subseteq 1..made'
    <2>1. ASSUME NEW b \in Articles, Edit(b), NEW a \in Articles
          PROVE  mine'[a] \subseteq 1..made'
        <3>1. made' = made + 1 /\ mine'[a] \subseteq mine[a] \cup {made + 1}
            BY <2>1 DEF Edit, TypeOK
        <3>2. made + 1 \in 1..made'
            BY <1>0, <3>1
        <3> QED BY <1>0, <3>1, <3>2 DEF Numbered
    <2>2. UNCHANGED mine \/ \E a \in Articles : Edit(a)
        BY MineChange
    <2>3. CASE UNCHANGED mine
        BY <1>0, <2>3 DEF Numbered
    <2> QED BY <2>1, <2>2, <2>3
<1>10. ASSUME NEW a \in Articles, latest'[a].text # Unknown
       PROVE  latest'[a].text \subseteq 0..made'
    <2>1. CASE latest'[a] = latest[a]
        BY <1>0, <1>10, <2>1 DEF Numbered
    <2>2. CASE latest'[a] # latest[a]
        <3>1. latest'[a] # NoObservation
            BY <1>10 DEF NoObservation
        <3>2. push.pc = "marked" => push.pc \in Sending
            BY DEF Sending
        <3> QED BY <1>0, <1>4, <1>10, <2>2, <3>1, <3>2, LatestChange DEF Numbered
    <2> QED BY <2>1, <2>2
<1>11. push'.pc \in Sending => push'.text \subseteq 0..made'
    <2>1. IdlePush.pc \notin Sending /\ "queued" \notin Sending
        BY DEF IdlePush, Sending
    <2>2. push.pc = "ready" \/ push.pc \in Written \/ push.pc = "applied" => push.pc \in Sending
        BY DEF Sending, Written
    <2>3. push.pc \in Sending => push.text \subseteq 0..made'
        BY <1>0 DEF Numbered
    <2>4. push.pc = "sent" => push.pc \in Sending
        BY DEF Sending
    <2>5. Live(push.article) => article[push.article].text \subseteq 0..made'
        BY <1>0, <1>1 DEF Live
    <2> QED BY <2>1, <2>2, <2>3, <2>4, <2>5, PushChange DEF MayMap
<1>12. run'.article # 0 => run'.text \subseteq 0..made'
    <2>1. NoRun.article = 0
        BY DEF NoRun
    <2>2. run.article # 0 => run.text \subseteq 0..made'
        BY <1>0 DEF Numbered
    <2>3. \A a \in Articles : Live(a) => article[a].text \subseteq 0..made'
        BY <1>0, <1>1
    <2> QED BY <2>1, <2>2, <2>3, RunChange, Blank
<1>13. resolver'.pc # "idle" => resolver'.seen.text \subseteq 0..made'
    <2>1. IdleResolver.pc = "idle"
        BY DEF IdleResolver
    <2>2. resolver.pc # "idle" => resolver.seen.text \subseteq 0..made'
        BY <1>0 DEF Numbered
    <2>3. \A a \in Articles : latest[a].state \in Available => latest[a].text \subseteq 0..made'
        BY <1>0, Blank DEF Numbered, FrameOK, LatestFrame, Available
    <2> QED BY <2>1, <2>2, <2>3, ResolverChange
<1>14. ASSUME NEW r \in Remotes, identity'[r].base # Unknown
       PROVE  identity'[r].base \subseteq 0..made'
    <2>1. CASE identity'[r] = identity[r]
        BY <1>0, <1>14, <2>1 DEF Numbered
    <2>2. \A a, base : identity'[r] = [article |-> a, base |-> base] => identity'[r].base = base
        OBVIOUS
    <2>3. ASSUME NEW s \in Syncs, Mark(s), r = sync[s].at
          PROVE  sync[s].found[r] \subseteq 0..made'
        BY <1>0, <1>4, <2>3 DEF Mark, AtOne
    <2>4. MarkResolved => resolver.seen.text \subseteq 0..made'
        BY <1>0 DEF MarkResolved, Numbered
    <2>5. Live(push.article) => article[push.article].text \subseteq 0..made'
        BY <1>0, <1>1 DEF Live
    <2>6. CASE identity'[r] # identity[r]
        <3>1. \/ identity'[r].base = Unknown
              \/ \E s \in Syncs : /\ Mark(s) /\ r = sync[s].at
                                  /\ identity'[r].base = sync[s].found[r]
              \/ MarkResolved /\ identity'[r].base = resolver.seen.text
              \/ Live(push.article) /\ identity'[r].base = article[push.article].text
            BY <2>6, IdentityChange
        <3> QED BY <1>14, <2>3, <2>4, <2>5, <3>1
    <2> QED BY <2>1, <2>6
<1>15. ASSUME NEW s \in Syncs, sync'[s].pc \in AtOne, sync'[s].base # Unknown
       PROVE  sync'[s].base \subseteq 0..made'
    <2>1. /\ IdleSync.pc \notin AtOne /\ "drafts" \notin AtOne /\ "published" \notin AtOne
          /\ "details" \notin AtOne /\ "next" \notin AtOne
        BY DEF IdleSync, AtOne
    <2>2. ASSUME NEW r \in Remotes, LocateNew(s, r) PROVE sync'[s].base = Unknown
        BY <2>2 DEF LocateNew, SetSync, TypeOK, Sync
    <2>3. sync[s].pc \in AtOne /\ sync[s].base # Unknown => sync[s].base \subseteq 0..made'
        BY <1>0 DEF Numbered
    <2>4. \A r \in Remotes : identity[r].base # Unknown => identity[r].base \subseteq 0..made'
        BY <1>0 DEF Numbered
    <2> QED BY <1>15, <2>1, <2>2, <2>3, <2>4, SyncChange
<1> QED BY <1>7, <1>8, <1>9, <1>10, <1>11, <1>12, <1>13, <1>14, <1>15 DEF Numbered

LEMMA OneMapped ==
    ASSUME RemoteInv, [Next]_vars, NEW q \in Remotes, NEW r \in Remotes,
           identity'[q] # identity[q], identity'[r] # identity[r]
    PROVE  q = r \/ \E a \in Articles : Delete(a)
<1>1. \A a, p, base : MapTo(a, p, base) => q = r
    BY DEF MapTo, RemoteInv, TypeOK
<1>2. ASSUME IdentityStep, \A a \in Articles : ~Delete(a)
      PROVE  UNCHANGED identity \/ \E a, p, base : MapTo(a, p, base)
    BY <1>2 DEF IdentityStep, Mark, Locate, LocateKnown, LocateNew, MarkResolved, MarkPush,
                IdentifyRun
<1> QED BY <1>1, <1>2, Writers

-----------------------------------------------------------------------------
(* Whose drafts, targets and results are.                                  *)

LEMMA CarefulRules ==
    ASSUME Careful
    PROVE  /\ MaySync => ~Pushing
           /\ MayPush => Quiet
           /\ \A a : MayEdit(a) => ~Unmarked(a) /\ (push.article # a \/ push.pc = "queued")
           /\ \A a, making : Lone(a, making) => Mapped(a) = {} /\ ~making
           /\ Does("push") \/ Does("publish") => ~Does("import")
           /\ scope.platform # "medium" => Writes
BY DEF Careful, Does, MaySync, MayPush, MayEdit, Lone, Writes, HasToken

LEMMA ApartStep ==
    ASSUME RemoteInv, Careful, Apart, [Next]_vars
    PROVE  Apart'
<1>1. UNCHANGED scope
    BY Writers
<1>2. \A s \in Syncs : Quiet => sync'[s].pc = "idle" \/ (MaySync /\ UNCHANGED <<push, run>>)
    BY SyncChange DEF Quiet, IdleSync, Locate, AtOne
<1>3. UNCHANGED <<push, run>> => Pushing' = Pushing
    BY DEF Pushing
<1>4. Pushing' /\ ~Pushing => Quiet
    <2>1. push.pc = "idle" /\ push'.pc # "idle" => \E a \in Articles : RequestPush(a)
        BY PushChange DEF IdlePush
    <2>2. run.job = "none" /\ run'.job # "none" => ApproveRun /\ MayPush
        BY RunChange DEF NoRun
    <2>3. \A a : RequestPush(a) => MayPush
        BY DEF RequestPush
    <2> QED BY <2>1, <2>2, <2>3, CarefulRules DEF Pushing
<1>5. Pushing' => Quiet'
    <2>1. ASSUME Pushing', NEW s \in Syncs PROVE sync'[s].pc = "idle"
        BY <1>2, <1>3, <1>4, <2>1, CarefulRules DEF Apart
    <2> QED BY <2>1 DEF Quiet
<1>6. push'.pc # "idle" => Does("push")
    <2>1. \A a : RequestPush(a) => Does("push")
        BY DEF RequestPush
    <2> QED BY <2>1, PushChange DEF Apart, IdlePush
<1>7. run'.article # 0 => Does("publish") /\ scope.platform # "devto"
    <2>1. \A a, mode : RequestRun(a, mode) => Does("publish") /\ scope.platform # "devto"
        BY DEF RequestRun
    <2> QED BY <2>1, RunChange DEF Apart, NoRun
<1>8. scope.platform # "medium" => Writes
    BY CarefulRules
<1> QED BY <1>1, <1>5, <1>6, <1>7, <1>8 DEF Apart, Does, Writes, HasToken

(* What a push or a run is about to write stays as it is mapped.           *)
LEMMA KeptMapping ==
    ASSUME RemoteInv, Apart, OwnRun, [Next]_vars, push.pc # "idle",
           NEW r \in Remotes, r \in {push.target, push.result},
           NEW a, a = push.article, identity[r].article \in {0, a}
    PROVE  /\ identity'[r].article \in {0, a}
           /\ Live(a)' /\ identity[r].article = a => identity'[r].article = a
           /\ identity'[r].article # 0 /\ identity[r].article = 0 => MarkPush /\ r = push.result
<1>1. Quiet
    BY DEF Apart, Pushing
<1>2. push.article \in Articles
    BY DEF RemoteInv, FrameOK, PushFrame, Once
<1>3. IdentifyRun => run.job = "sent"
    BY DEF IdentifyRun
<1>4. ~(IdentifyRun /\ r = run.target /\ identity[r].article = 0)
    BY <1>3 DEF OwnRun
<1>5. NoIdentity.article = 0
    BY DEF NoIdentity
<1>6. \A base : [article |-> push.article, base |-> base].article = push.article
    OBVIOUS
<1>7. identity'[r].article # identity[r].article =>
         \/ identity[r].article \in Articles /\ identity'[r].article = 0
         \/ MarkPush /\ r = push.result /\ identity'[r].article = push.article
    BY <1>1, <1>4, <1>5, <1>6, MappingChange
<1>8. Live(a)' /\ identity[r].article = a => identity'[r].article = a
    BY <1>2, GrowthStep DEF Growth
<1> QED BY <1>2, <1>7, <1>8, Blank

LEMMA OwnDraftStep ==
    ASSUME RemoteInv, Careful, Apart, OwnDraft, OwnPush, OwnRun, OneRemote, [Next]_vars
    PROVE  OwnDraft'
<1> SUFFICES ASSUME (Does("push") \/ Does("publish"))', NEW a \in Articles, Live(a)',
                    article'[a].draftId # 0
             PROVE  \/ identity'[article'[a].draftId].article = a
                    \/ /\ push'.article = a /\ push'.pc \in {"sent", "applied"}
                       /\ push'.result = article'[a].draftId
                       /\ identity'[push'.result].article = 0
    BY Writers DEF OwnDraft, Does, Live
<1> DEFINE d == article'[a].draftId
<1>0. (Does("push") \/ Does("publish")) /\ ~Does("import") /\ a # 0
    BY Writers, CarefulRules, Blank DEF Does
<1>1. d \in Remotes
    BY TypeStep DEF RemoteInv, TypeOK, Article
<1>2. identity[d].article = a => identity'[d].article = a
    BY <1>1, GrowthStep DEF Growth, Live
<1>3. /\ push.target # 0 => push.target \in Remotes
      /\ push.target # 0 /\ Live(push.article) => identity[push.target].article = push.article
    BY DEF RemoteInv, TypeOK, Push, OwnPush
<1> HIDE DEF d
<1>4. ASSUME push.article = a, push.pc \in {"sent", "applied"}, push.result = d,
             identity[d].article = 0, Live(a)
      PROVE  \/ identity'[d].article = a
             \/ /\ push'.article = a /\ push'.pc \in {"sent", "applied"}
                /\ push'.result = d /\ identity'[d].article = 0
    <2>1. scope.platform # "medium"
        BY <1>0, <1>1, <1>3, <1>4, Blank DEF OwnPush, Written
    <2>2. identity'[d].article \in {0, a}
        BY <1>1, <1>4, KeptMapping
    <2>3. push.result # 0 /\ MayMap(push.article, push.result)
        BY <1>1, <1>4, Blank DEF MayMap
    <2>4. UNCHANGED push \/ (ApplyPush /\ push'.pc = "applied" /\ push'.article = push.article
                             /\ push'.result = push.result)
          \/ (CrashPush /\ push'.pc = "sent" /\ push'.article = push.article
              /\ push'.result = push.result)
          \/ MarkPush
        BY <1>4, <2>1, <2>3, PushChange DEF Written
    <2>5. MarkPush => identity'[d].article = a
        <3>1. MarkPush => MapTo(push.article, push.result, article[push.article].text)
            BY <2>3 DEF MarkPush
        <3> QED BY <1>1, <1>4, <3>1 DEF MapTo, RemoteInv, TypeOK
    <2> QED BY <1>4, <2>2, <2>4, <2>5
<1>5. ASSUME Live(a), d = article[a].draftId
      PROVE  \/ identity'[d].article = a
             \/ /\ push'.article = a /\ push'.pc \in {"sent", "applied"}
                /\ push'.result = d /\ identity'[d].article = 0
    <2>1. d # 0
        BY DEF d
    <2>2. \/ identity[d].article = a
          \/ /\ push.article = a /\ push.pc \in {"sent", "applied"}
             /\ push.result = d /\ identity[d].article = 0
        BY <1>0, <1>5, <2>1 DEF OwnDraft, Does
    <2> QED BY <1>2, <1>4, <1>5, <2>2
<1>6. ASSUME ApplyPush, a = push.article, Live(a), d = push.result
      PROVE  \/ identity'[d].article = a
             \/ /\ push'.article = a /\ push'.pc \in {"sent", "applied"}
                /\ push'.result = d /\ identity'[d].article = 0
    <2>1. push.pc = "sent" /\ identity[d].article \in {0, a}
        BY <1>1, <1>6, Blank DEF ApplyPush, OwnPush
    <2> QED BY <1>2, <1>4, <1>6, <2>1
<1>7. ASSUME ApplyRun, a = run.article, Live(a), d = run.target
      PROVE  identity'[d].article = a
    <2>1. run.job = "marked"
        BY <1>7 DEF ApplyRun
    <2> QED BY <1>1, <1>2, <1>7, <2>1, Blank DEF OwnRun
<1>8. \/ Live(a) /\ d = article[a].draftId
      \/ identity[d].article = a
      \/ ApplyPush /\ a = push.article /\ Live(a) /\ d = push.result
      \/ ApplyRun /\ a = run.article /\ Live(a) /\ d = run.target
    BY <1>0, DraftChange DEF d
<1>9. \/ identity'[d].article = a
      \/ /\ push'.article = a /\ push'.pc \in {"sent", "applied"}
         /\ push'.result = d /\ identity'[d].article = 0
    BY <1>2, <1>5, <1>6, <1>7, <1>8
<1> QED BY <1>9 DEF d

LEMMA OwnPushStep ==
    ASSUME RemoteInv, Careful, Apart, OwnDraft, OwnPush, OwnRun, [Next]_vars
    PROVE  OwnPush'
<1>0. /\ push \in Push /\ UNCHANGED scope /\ 0 \notin Remotes
      /\ push.pc = "idle" => push.target = 0 /\ push.result = 0
      /\ push.pc # "idle" => Once(push.article) /\ push.article # 0
    BY Writers, Blank DEF RemoteInv, TypeOK, FrameOK, PushFrame, IdlePush, Once
<1>1. \A a \in Articles : Once(a) /\ Live(a)' => Live(a)
    BY GrowthStep DEF Growth
<1>2. /\ IdlePush.target = 0 /\ IdlePush.result = 0 /\ IdlePush.pc = "idle"
      /\ "idle" \notin Written /\ "queued" \notin Written /\ "ready" \notin Written
      /\ {"sent", "applied", "marked"} = Written
    BY DEF IdlePush, Written
<1>3. ASSUME push'.target = push.target, push'.article = push.article, push'.target # 0
      PROVE  /\ identity'[push'.target].article \in {0, push'.article}
             /\ Live(push.article)' => identity'[push'.target].article = push'.article
    <2>1. /\ push.pc # "idle" /\ push.target \in Remotes
          /\ identity[push.target].article \in {0, push.article}
          /\ Live(push.article) => identity[push.target].article = push.article
        BY <1>0, <1>3 DEF OwnPush, Push
    <2>2. PICK a : a = push.article
        OBVIOUS
    <2>3. /\ identity'[push.target].article \in {0, a}
          /\ Live(a)' /\ identity[push.target].article = a => identity'[push.target].article = a
        BY <2>1, <2>2, KeptMapping
    <2>4. Live(a)' => Live(a)
        BY <1>0, <1>1, <2>1, <2>2 DEF Once
    <2> QED BY <1>3, <2>1, <2>2, <2>3, <2>4 DEF Live
<1>4. ASSUME push'.result = push.result, push'.article = push.article, push'.result # 0
      PROVE  identity'[push'.result].article \in {0, push'.article}
    <2>1. /\ push.pc # "idle" /\ push.result \in Remotes
          /\ identity[push.result].article \in {0, push.article}
        BY <1>0, <1>4 DEF OwnPush, Push
    <2> QED BY <1>4, <2>1, KeptMapping
<1>5. ASSUME ReadForPush, Live(push.article), push'.article = push.article, push.pc = "queued",
             push'.target = article[push.article].draftId, push'.target # 0
      PROVE  /\ identity'[push'.target].article = push'.article
    <2>1. Does("push") /\ push.article \in Articles
        BY <1>5 DEF Apart, Live
    <2>2. identity[push'.target].article = push.article
        BY <1>5, <2>1 DEF OwnDraft, Does
    <2> QED BY <1>5, <2>2 DEF ReadForPush, store
<1>6. ASSUME ClaimPush, push'.result = push.target, push'.article = push.article, push'.result # 0
      PROVE  identity'[push'.result].article \in {0, push'.article}
    BY <1>6 DEF ClaimPush, store, OwnPush
<1>7. ASSUME OperatePush, push'.result \in Remotes, WriteRemote(push'.result),
             push'.article = push.article
      PROVE  identity'[push'.result].article \in {0, push'.article}
    <2>1. UNCHANGED identity
        BY <1>7 DEF OperatePush, store
    <2>2. CASE UpdateDraft(push'.result)
        BY <1>0, <1>7, <2>1, <2>2 DEF UpdateDraft, OwnPush
    <2>3. CASE CreateDraft(push'.result)
        BY <1>7, <2>1, <2>3 DEF CreateDraft, New, RemoteInv, FrameOK, RemoteFrame, There
    <2> QED BY <1>7, <2>2, <2>3 DEF WriteRemote
<1>8. push'.target # 0 => /\ identity'[push'.target].article \in {0, push'.article}
                          /\ Live(push.article)' =>
                                identity'[push'.target].article = push'.article
    BY <1>2, <1>3, <1>5, PushChange
<1>9. push'.result # 0 => identity'[push'.result].article \in {0, push'.article}
    BY <1>2, <1>4, <1>6, <1>7, PushChange
<1>10. push'.pc \notin Written => push'.result = 0
    BY <1>0, <1>2, PushChange DEF OwnPush
<1>11. push'.pc \in Written /\ scope.platform = "medium" => push'.result = push'.target
    <2>1. ~Writes \/ scope.platform # "medium"
        BY DEF Writes
    <2> QED BY <1>0, <1>2, <2>1, PushChange DEF OwnPush
<1> QED BY <1>0, <1>8, <1>9, <1>10, <1>11 DEF OwnPush, Written, Live

LEMMA OwnRunStep ==
    ASSUME RemoteInv, Careful, Apart, OwnDraft, OwnPush, OwnRun, OneRemote, [Next]_vars
    PROVE  OwnRun'
<1>0. /\ run \in Run /\ 0 \notin Remotes
      /\ run.job # "none" => run.article \in Articles /\ run.article # 0 /\ Quiet
      /\ run.target # 0 => There(run.target)
    BY Blank DEF RemoteInv, TypeOK, FrameOK, RunFrame, Run, Apart, Pushing
<1>1. \A a \in Articles, r \in Remotes : identity[r].article = a /\ Live(a)' => identity'[r].article = a
    BY GrowthStep DEF Growth
<1>2. run'.article # 0 => run'.article \in Articles /\ article'[run'.article].state = "live"
    BY RunFrameStep DEF RunFrame, Live
<1>3. ASSUME run'.target = run.target, run'.article = run.article, run.target # 0,
             identity[run.target].article = run.article, run.job # "none"
      PROVE  identity'[run'.target].article = run'.article
    <2>1. PICK a : a = run.article
        OBVIOUS
    <2>2. a \in Articles /\ Live(a)' /\ run.target \in Remotes
        BY <1>0, <1>2, <1>3, <2>1 DEF Live, Run
    <2> QED BY <1>1, <1>3, <2>1, <2>2
(* A target that is not mapped yet stays so until the run maps it.         *)
<1>4. ASSUME run.job = "sent", run.target # 0, identity[run.target].article = 0
      PROVE  \/ identity'[run.target].article = 0
             \/ IdentifyRun /\ identity'[run.target].article = run.article
    <2>1. Quiet /\ run.target \in Remotes /\ run.target # push.result
        BY <1>0, <1>4 DEF OwnRun, Run
    <2>2. \A a, base : [article |-> a, base |-> base].article = a
        OBVIOUS
    <2> QED BY <1>4, <2>1, <2>2, MappingChange DEF NoIdentity
<1>5. ASSUME ReadForRun, run.job = "queued", run'.article = run.article, Live(run.article),
             run'.target = IF article[run.article].draftId # 0
                           THEN article[run.article].draftId
                           ELSE IF Mapped(run.article) # {} THEN FirstOf(run.article) ELSE 0,
             run'.target # 0
      PROVE  identity'[run'.target].article = run'.article
    <2>1. /\ Does("publish") /\ run.article \in Articles /\ UNCHANGED identity
          /\ run.article # 0
        BY <1>0, <1>5 DEF Apart, ReadForRun, store
    <2>2. CASE article[run.article].draftId # 0
        <3>1. \/ identity[run'.target].article = run.article
              \/ /\ push.article = run.article /\ push.pc \in {"sent", "applied"}
                 /\ push.result = run'.target /\ identity[push.result].article = 0
            BY <1>5, <2>1, <2>2 DEF OwnDraft, Does
        <3>2. ASSUME push.article = run.article, push.pc \in {"sent", "applied"},
                     push.result = run'.target, identity[push.result].article = 0
              PROVE  FALSE
            <4>1. scope.platform = "medium"
                BY <1>5, <3>2 DEF OneRemote, RunPending
            <4>2. push.result = push.target
                BY <3>2, <4>1 DEF OwnPush, Written
            <4> QED BY <1>5, <2>1, <3>2, <4>2 DEF OwnPush
        <3> QED BY <1>5, <2>1, <3>1, <3>2
    <2>3. CASE article[run.article].draftId = 0
        BY <1>5, <2>1, <2>3, FirstIsMapped DEF Mapped
    <2> QED BY <2>2, <2>3
<1>6. ASSUME OperateRun, run.job = "ready", run'.target \in Remotes, Upload(run'.target),
             run'.article = run.article
      PROVE  /\ identity'[run'.target].article \in {0, run'.article}
             /\ identity'[run'.target].article = 0 => remote[run'.target].state = "absent"
    <2>1. UNCHANGED identity
        BY <1>6 DEF OperateRun, store
    <2>2. (run.target # 0 /\ run'.target = run.target) \/ New(run'.target)
        BY <1>6 DEF Upload, WriteStory, UploadDraft
    <2>3. New(run'.target) => identity[run'.target].article = 0 /\ remote[run'.target].state = "absent"
        BY <1>6 DEF New, RemoteInv, FrameOK, RemoteFrame, There
    <2>4. run.target # 0 => identity[run.target].article = run.article
        BY <1>6 DEF OwnRun
    <2> QED BY <1>0, <1>6, <2>1, <2>2, <2>3, <2>4
<1>7. run'.job \in {"ready", "sent", "marked", "applied"} /\ run'.target # 0 =>
         identity'[run'.target].article \in
            IF run'.job = "sent" THEN {0, run'.article} ELSE {run'.article}
    <2>1. ASSUME run'.target = run.target, run'.article = run.article, run.target # 0,
                 run.job \in {"ready", "sent", "marked", "applied"},
                 run'.job = run.job \/ (run.job = "sent" /\ IdentifyRun /\ run'.job = "marked")
                                    \/ (run.job = "marked" /\ run'.job = "applied")
          PROVE  identity'[run'.target].article \in
                    IF run'.job = "sent" THEN {0, run'.article} ELSE {run'.article}
        <3>1. CASE identity[run.target].article = run.article
            BY <1>3, <2>1, <3>1
        <3>2. CASE identity[run.target].article # run.article
            <4>1. run.job = "sent" /\ identity[run.target].article = 0
                BY <2>1, <3>2 DEF OwnRun
            <4>2. IdentifyRun => identity'[run.target].article = run.article
                BY <1>0, <2>1, <4>1 DEF IdentifyRun, MapTo, RemoteInv, TypeOK, Run
            <4>3. run'.job = "sent" => ~IdentifyRun
                BY <1>0 DEF IdentifyRun, Run
            <4> QED BY <1>4, <2>1, <4>1, <4>2, <4>3
        <3> QED BY <3>1, <3>2
    <2>2. NoRun.job = "none"
        BY DEF NoRun
    <2> QED BY <1>5, <1>6, <2>1, <2>2, RunChange
<1>8. ASSUME run'.job = "sent", identity'[run'.target].article = 0
      PROVE  run'.target \notin {push'.target, push'.result}
    <2>1. \A r \in Remotes : r \in {push.target, push.result} => remote[r].state # "absent"
        BY <1>0 DEF RemoteInv, FrameOK, PushFrame, There
    <2>2. CASE UNCHANGED run
        <3>1. run.job = "sent" /\ run.target \in Remotes
            BY <1>0, <1>8, <2>2 DEF RemoteInv, FrameOK, RunFrame, Run
        <3>2. identity[run.target].article = 0
            <4>1. identity[run.target].article \in {0, run.article}
                BY <1>0, <3>1 DEF OwnRun
            <4>2. run'.target = run.target /\ run'.article = run.article /\ run.target # 0
                  /\ run.article # 0 /\ run.job # "none"
                BY <1>0, <2>2, <3>1
            <4> QED BY <1>3, <1>8, <4>1, <4>2
        <3>3. run.target \notin {push.target, push.result} /\ remote[run.target].state # "absent"
            BY <1>0, <3>1, <3>2 DEF OwnRun, There
        <3>4. ReadForPush /\ Live(push.article) /\ push.pc = "queued"
                 /\ article[push.article].draftId = run.target => FALSE
            <4>1. ReadForPush /\ Live(push.article) /\ push.pc = "queued"
                    /\ article[push.article].draftId = run.target =>
                       identity[run.target].article = push.article /\ push.article # 0
                BY <1>0, <3>1, Blank DEF OwnDraft, Does, Apart, Live
            <4> QED BY <3>2, <4>1
        <3>5. ASSUME NEW r, WriteRemote(r) PROVE r = push.target \/ remote[r].state = "absent"
            BY <3>5 DEF WriteRemote, UpdateDraft, CreateDraft, New
        <3>6. /\ run.target # 0 /\ run'.target = run.target
              /\ IdlePush.target = 0 /\ IdlePush.result = 0
            BY <1>0, <2>2, <3>1 DEF IdlePush
        <3> QED BY <3>3, <3>4, <3>5, <3>6, PushChange
    <2>3. CASE OperateRun /\ run.job = "ready" /\ run'.target \in Remotes /\ Upload(run'.target)
               /\ run'.article = run.article
        <3>1. remote[run'.target].state = "absent" /\ UNCHANGED push
            BY <1>6, <1>8, <2>3 DEF OperateRun
        <3> QED BY <2>1, <2>3, <3>1
    <2>4. NoRun.job = "none"
        BY DEF NoRun
    <2> QED BY <1>8, <2>2, <2>3, <2>4, RunChange
<1> QED BY <1>7, <1>8 DEF OwnRun

LEMMA OneRemoteStep ==
    ASSUME RemoteInv, Careful, Apart, OwnDraft, OwnPush, OwnRun, OneRemote, [Next]_vars
    PROVE  OneRemote'
<1> SUFFICES ASSUME scope.platform # "medium" PROVE OneRemote'
    BY Writers DEF OneRemote
<1>0. /\ 0 \notin Articles /\ 0 \notin Remotes
      /\ push.pc # "idle" => Once(push.article) /\ ~Does("import") /\ Quiet
      /\ run.job # "none" => Quiet
      /\ push \in Push /\ run \in Run
    BY Blank, CarefulRules DEF RemoteInv, TypeOK, FrameOK, PushFrame, Apart, Pushing
<1>1. \A a \in Articles : Once(a) /\ Live(a)' => Live(a)
    BY GrowthStep DEF Growth
<1>2. \A r \in Remotes : identity[r].article # 0 =>
         Once(identity[r].article) /\ Live(identity[r].article)
    BY DEF RemoteInv, FrameOK, RemoteFrame, Live, Once
(* How the remote articles of an article become more.                      *)
<1>3. ASSUME NEW a \in Articles, NEW r \in Remotes, identity'[r].article = a,
             identity[r].article # a
      PROVE  \/ ~Once(a) /\ ~Quiet
             \/ /\ MarkPush /\ r = push.result /\ a = push.article /\ Live(a)
                /\ identity[r].article = 0 /\ push.pc = "applied"
             \/ /\ IdentifyRun /\ r = run.target /\ a = run.article
                /\ identity[r].article = 0 /\ run.job = "sent"
    <2>1. \A b, base : [article |-> b, base |-> base].article = b
        OBVIOUS
    <2>2. (MarkPush => push.pc = "applied") /\ (IdentifyRun => run.job = "sent")
        BY DEF MarkPush, IdentifyRun
    <2> QED BY <1>0, <1>3, <2>1, <2>2, MappingChange DEF NoIdentity
<1>4. run.job = "sent" => Mapped(run.article) = {} /\ push.article # run.article
    BY DEF OneRemote, RunPending
<1>5. push.pc = "applied" /\ Live(push.article) /\ identity[push.result].article = 0 =>
         push.target = 0 /\ Mapped(push.article) \subseteq {push.result}
    BY <1>0 DEF OneRemote, OwnPush, Written, Sending, Live
<1>6. ASSUME NEW q \in Remotes, NEW r \in Remotes, identity'[q].article = identity'[r].article,
             identity'[r].article # 0
      PROVE  q = r
    <2>0. PICK a \in Articles : a = identity'[r].article
        BY <1>6, TypeStep DEF RemoteInv, TypeOK, Identity
    <2>1. CASE identity[q].article = a /\ identity[r].article = a
        BY <1>0, <2>0, <2>1 DEF OneRemote
    <2>2. ASSUME NEW p \in Remotes, NEW o \in Remotes, identity[p].article = a,
                 identity'[p].article = a, identity[o].article # a, identity'[o].article = a
          PROVE  p = o
        <3>1. Once(a) /\ a # 0 /\ p \in Mapped(a)
            BY <1>0, <1>2, <2>2 DEF Mapped
        <3> QED BY <1>3, <1>4, <1>5, <2>2, <3>1
    <2>3. CASE identity[q].article # a /\ identity[r].article # a
        <3>1. q = r \/ \E b \in Articles : Delete(b)
            BY <1>6, <2>0, <2>3, OneMapped
        <3>2. \A b : Delete(b) => identity'[r] \in {identity[r], NoIdentity}
            BY DEF Delete
        <3> QED BY <1>0, <2>0, <2>3, <3>1, <3>2 DEF NoIdentity
    <2> QED BY <1>6, <2>0, <2>1, <2>2, <2>3
(* Articles of calls under way.                                            *)
<1>7. ASSUME NEW a \in Articles, a = push.article, push.pc \in {"queued", "ready"}, Live(a)',
             push'.pc \in {"queued", "ready"}
      PROVE  article'[a].draftId # 0 \/ Mapped(a)' = {}
    <2>1. Live(a) /\ Quiet /\ ~Does("import") /\ Once(a)
        BY <1>0, <1>1, <1>7
    <2>2. article[a].draftId # 0 \/ Mapped(a) = {}
        BY <1>7, <2>1 DEF OneRemote
    <2>3. ASSUME article[a].draftId # 0 PROVE article'[a].draftId # 0
        <3>1. ApplyPush => push.pc = "sent"
            BY DEF ApplyPush
        <3>2. ApplyRun => run.target # 0
            BY DEF ApplyRun, RemoteInv, FrameOK, RunFrame
        <3> QED BY <1>7, <2>1, <2>3, <3>1, <3>2, DraftChange
    <2>4. ASSUME Mapped(a) = {}, NEW r \in Remotes, identity'[r].article = a PROVE FALSE
        <3>1. identity[r].article # a
            BY <2>4 DEF Mapped
        <3> QED BY <1>3, <1>4, <1>7, <2>1, <2>4, <3>1
    <2> QED BY <2>2, <2>3, <2>4 DEF Mapped
<1>8. ASSUME NEW a \in Articles, RequestPush(a), Live(a)'
      PROVE  article'[a].draftId # 0 \/ Mapped(a)' = {}
    <2>1. article[a].draftId # 0 \/ Mapped(a) = {}
        BY <1>8, CarefulRules DEF RequestPush
    <2>2. article'[a].draftId = article[a].draftId /\ UNCHANGED identity
        BY <1>8 DEF RequestPush, RemoteInv, TypeOK, Article
    <2> QED BY <2>1, <2>2 DEF Mapped
<1>9. push'.pc \in {"queued", "ready"} /\ Live(push.article)' =>
         article'[push'.article].draftId # 0 \/ Mapped(push.article)' = {}
    <2>1. /\ IdlePush.pc \notin {"queued", "ready"} /\ "sent" \notin {"queued", "ready"}
          /\ "applied" \notin {"queued", "ready"} /\ "marked" \notin {"queued", "ready"}
        BY DEF IdlePush
    <2>2. PICK a : a = push'.article
        OBVIOUS
    <2>3. ASSUME push'.pc \in {"queued", "ready"}, Live(a)'
          PROVE  article'[a].draftId # 0 \/ Mapped(a)' = {}
        <3>1. a \in Articles
            BY <2>3 DEF Live
        <3>2. \/ push'.article = push.article /\ push.pc \in {"queued", "ready"}
              \/ RequestPush(a)
            BY <2>1, <2>2, <2>3, PushChange
        <3> QED BY <1>7, <1>8, <2>2, <2>3, <3>1, <3>2
    <2> QED BY <2>2, <2>3 DEF Live, Mapped
<1>10. ASSUME NEW a \in Articles, a = push.article, push.pc \in Sending, push.target = 0,
              Live(a)', NEW r \in Remotes, identity'[r].article = a
       PROVE  r = push.result
    <2>1. Live(a) /\ Quiet /\ Once(a)
        BY <1>0, <1>1, <1>10 DEF Sending
    <2>2. Mapped(a) \subseteq {push.result}
        BY <1>10, <2>1 DEF OneRemote
    <2> QED BY <1>3, <1>4, <1>10, <2>1, <2>2 DEF Mapped
<1>11. push'.pc \in Sending /\ Live(push.article)' /\ push'.target = 0 =>
          Mapped(push.article)' \subseteq {push'.result} \ {0}
    <2>1. PICK a : a = push'.article
        OBVIOUS
    <2>2. ASSUME push'.pc \in Sending, Live(a)', push'.target = 0,
                 NEW r \in Remotes, identity'[r].article = a
          PROVE  r = push'.result
        <3>1. a \in Articles /\ "queued" \notin Sending /\ IdlePush.pc \notin Sending
              /\ {"ready", "sent", "applied", "marked"} = Sending
            BY <2>2 DEF Live, Sending, IdlePush
        <3>2. \/ /\ push'.article = push.article /\ push'.target = push.target
                 /\ push.pc \in Sending
                 /\ push'.result = push.result \/ push.pc = "ready"
              \/ /\ ReadForPush /\ push'.article = push.article /\ push.pc = "queued"
                 /\ push'.target = article[push.article].draftId /\ Live(push.article)
            BY <2>2, <3>1, PushChange DEF Written
        <3>3. push.pc = "ready" => push.result = 0
            BY DEF OwnPush, Written
        <3>4. CASE ReadForPush /\ push'.article = push.article /\ push.pc = "queued"
                   /\ push'.target = article[push.article].draftId /\ Live(push.article)
            <4>1. Mapped(a) = {} /\ UNCHANGED identity
                BY <2>1, <2>2, <3>4 DEF OneRemote, ReadForPush, store
            <4> QED BY <2>2, <4>1 DEF Mapped
        <3> QED BY <1>0, <1>10, <2>1, <2>2, <3>1, <3>2, <3>3, <3>4
    <2>3. \A r \in Remotes : r # 0
        BY <1>0
    <2> QED BY <2>1, <2>2, <2>3 DEF Live, Mapped
<1>12. push'.pc \in Written => push'.result # 0
    <2>1. /\ IdlePush.pc \notin Written /\ "queued" \notin Written /\ "ready" \notin Written
          /\ {"sent", "applied", "marked"} = Written
        BY DEF IdlePush, Written
    <2>2. Writes
        BY CarefulRules
    <2> QED BY <1>0, <2>1, <2>2, PushChange DEF OneRemote
<1>13. push'.pc \in Written /\ push'.target # 0 => push'.result = push'.target
    <2>1. /\ IdlePush.pc \notin Written /\ "queued" \notin Written /\ "ready" \notin Written
          /\ {"sent", "applied", "marked"} = Written
        BY DEF IdlePush, Written
    <2>2. \A r : WriteRemote(r) => r = push.target \/ push.target = 0
        BY DEF WriteRemote, UpdateDraft, CreateDraft
    <2> QED BY <1>0, <2>1, <2>2, PushChange DEF OneRemote
<1>14. RunPending(run.article)' /\ run'.job \notin {"marked", "applied", "refused"} =>
          Mapped(run.article)' = {} /\ push'.article # run'.article
    <2> SUFFICES ASSUME run'.job # "none" \/ run'.status = "awaiting_approval",
                        run'.job \notin {"marked", "applied", "refused"}
                 PROVE  Mapped(run.article)' = {} /\ push'.article # run'.article
        BY DEF RunPending
    <2>1. PICK a : a = run'.article
        OBVIOUS
    <2>2. ASSUME NEW mode, RequestRun(a, mode)
          PROVE  Mapped(a)' = {} /\ push'.article # a
        <3>1. Mapped(a) = {} /\ push.article # a /\ UNCHANGED <<identity, push>>
            BY <2>2, CarefulRules DEF RequestRun, store
        <3> QED BY <3>1 DEF Mapped
    <2>3. ASSUME run.article = a, RunPending(a), run.job \notin {"marked", "applied", "refused"},
                 ~IdentifyRun
          PROVE  Mapped(a)' = {} /\ push'.article # a
        <3>1. /\ Mapped(a) = {} /\ push.article # a
              /\ Live(a) /\ a \in Articles /\ Once(a) /\ Does("publish")
            <4>1. run.article # 0
                BY <2>3 DEF RunPending, RemoteInv, FrameOK, RunFrame
            <4>2. Live(a) /\ a \in Articles
                BY <2>3, <4>1 DEF RemoteInv, FrameOK, RunFrame, Live
            <4> QED BY <2>3, <4>1, <4>2 DEF OneRemote, Apart, Live, Once
        <3>2. ASSUME NEW r \in Remotes, identity'[r].article = a PROVE FALSE
            <4>1. identity[r].article # a
                BY <3>1, <3>2 DEF Mapped
            <4> QED BY <1>3, <2>3, <3>1, <3>2, <4>1
        <3>3. ~RequestPush(a)
            <4>1. RequestPush(a) => article[a].draftId # 0 \/ ~RunPending(a)
                BY CarefulRules DEF RequestPush
            <4>2. article[a].draftId # 0 => identity[article[a].draftId].article = a
                BY <3>1 DEF OwnDraft, Does
            <4>3. article[a].draftId # 0 => article[a].draftId \in Remotes
                BY <3>1 DEF RemoteInv, TypeOK, Article
            <4> QED BY <2>3, <3>1, <4>1, <4>2, <4>3 DEF Mapped
        <3>4. IdlePush.article # a
            BY <1>0, <3>1 DEF IdlePush
        <3>5. push'.article # a
            BY <3>1, <3>3, <3>4, PushChange
        <3> QED BY <3>2, <3>5 DEF Mapped
    <2>4. \/ \E mode : RequestRun(a, mode)
          \/ /\ run.article = a /\ RunPending(a) /\ run.job \notin {"marked", "applied", "refused"}
             /\ run'.job # "marked"
        <3>1. NoRun.job = "none" /\ NoRun.status = "none"
            BY DEF NoRun
        <3>2. (run.status = "awaiting_approval" => run.job = "none")
            BY DEF RemoteInv, FrameOK, RunFrame
        <3> QED BY <2>1, <3>1, <3>2, RunChange DEF RunPending
    <2>5. IdentifyRun => run'.job = "marked"
        BY <1>0 DEF IdentifyRun, Run
    <2> QED BY <2>1, <2>2, <2>3, <2>4, <2>5 DEF Mapped
<1> QED BY <1>6, <1>9, <1>11, <1>12, <1>13, <1>14 DEF OneRemote

-----------------------------------------------------------------------------
(* Baselines.                                                              *)

(* The text the user takes over while a push is under way is of the        *)
(* remote article that the push writes.                                    *)
LEMMA ResolvedIsPushed ==
    ASSUME RemoteInv, OwnPush, OneRemote, scope.platform # "medium", Live(push.article),
           push.pc \in Sending, resolver.pc # "idle", resolver.article = push.article
    PROVE  resolver.seen.remote = IF push.pc = "ready" THEN push.target ELSE push.result
<1>1. /\ resolver.seen.remote \in Remotes /\ push.article # 0 /\ push \in Push
      /\ identity[resolver.seen.remote].article = push.article
    BY Blank DEF RemoteInv, TypeOK, FrameOK, ResolverFrame, Live
<1>2. resolver.seen.remote \in Mapped(push.article)
    BY <1>1 DEF Mapped
<1>3. CASE push.target = 0
    <2>1. Mapped(push.article) \subseteq {push.result} \ {0}
        BY <1>3 DEF OneRemote
    <2>2. push.pc = "ready" => push.result = 0
        BY DEF OwnPush, Written
    <2> QED BY <1>2, <2>1, <2>2
<1>4. CASE push.target # 0
    <2>1. push.target \in Remotes /\ identity[push.target].article = push.article
        BY <1>1, <1>4 DEF OwnPush, Push
    <2>2. push.target = resolver.seen.remote
        BY <1>1, <2>1 DEF OneRemote
    <2>3. push.pc # "ready" => push.result = push.target
        BY <1>4 DEF OneRemote, Sending, Written
    <2> QED BY <2>2, <2>3
<1> QED BY <1>3, <1>4

(* While a push is under way its article changes by a resolution only.     *)
LEMMA PushedText ==
    ASSUME RemoteInv, Numbered, Careful, Apart, [Next]_vars, push.pc \in Sending,
           NEW a, a = push.article, Live(a)'
    PROVE  /\ Live(a) /\ a \in Articles
           /\ \/ article'[a].text = article[a].text
              \/ /\ UseRemote /\ resolver.pc = "save" /\ resolver.article = a
                 /\ article'[a].text = resolver.seen.text
<1>1. Once(a) /\ Quiet /\ push.pc # "queued" /\ a \in Articles
    BY DEF RemoteInv, FrameOK, PushFrame, Sending, Once, Apart, Pushing
<1>2. ~Edit(a)
    BY <1>1, CarefulRules DEF Edit
<1>3. \A s \in Syncs : ~Save(s)
    BY <1>1 DEF Save, Quiet
<1>4. UseRemote => resolver.pc = "save"
    BY DEF UseRemote
<1> QED BY <1>1, <1>2, <1>3, <1>4, TextChange

LEMMA SharedStays ==
    ASSUME RemoteInv, [Next]_vars, NEW r \in Remotes, NEW text, Shared(text, r)
    PROVE  Meets(text, shown'[r])
BY GrowthStep DEF Growth, Shared, Meets

LEMMA BaseOKStep ==
    ASSUME RemoteInv, Numbered, Careful, Apart, OwnPush, OneRemote, BaseOK, [Next]_vars
    PROVE  BaseOK'
<1>0. /\ 0 \notin Articles /\ 0 \notin Remotes /\ UNCHANGED scope
      /\ push \in Push /\ resolver \in Resolver
      /\ push.pc # "idle" => Once(push.article) /\ Quiet
    BY Blank, Writers DEF RemoteInv, TypeOK, FrameOK, PushFrame, Apart, Pushing
<1>1. \A a \in Articles : had[a] \subseteq had'[a] /\ (Once(a) /\ Live(a)' => Live(a))
    BY GrowthStep DEF Growth
<1>2. \A r \in Remotes : \A text \in shown[r] : Shared(text, r)
    BY DEF Shared, Meets
<1>3. \A s \in Syncs : sync[s].pc \in AtOne =>
         /\ sync[s].at \in Remotes /\ Once(sync[s].article) /\ sync[s].article \in Articles
         /\ Shared(sync[s].found[sync[s].at], sync[s].at)
         /\ sync[s].found[sync[s].at] \in Text
    BY <1>2 DEF RemoteInv, FrameOK, SyncFrame, Once
<1>4. \A a \in Articles : Live(a) => article[a].text \in had[a]
    BY DEF RemoteInv, FrameOK, ArticleFrame
<1>5. push.pc \in {"applied", "marked"} =>
         scope.platform # "medium" /\ push.result \in Remotes /\ push.pc \in Written
    BY <1>0 DEF RemoteInv, FrameOK, PushFrame, Push, Written
<1>6. resolver.pc # "idle" => Once(resolver.article) /\ resolver.seen.remote \in Remotes
                              /\ resolver.article \in Articles
    BY DEF RemoteInv, FrameOK, ResolverFrame, Once
<1>7. BaselineWasShared'
    <2> SUFFICES ASSUME NEW r \in Remotes, identity'[r].base # Unknown
                 PROVE  /\ identity'[r].base \in had'[identity'[r].article]
                        /\ Meets(identity'[r].base, shown'[r])
        BY DEF BaselineWasShared, Meets
    <2>1. CASE identity'[r] = identity[r]
        <3>1. identity[r].article \in Articles
            BY <2>1 DEF RemoteInv, FrameOK, RemoteFrame, Live
        <3>2. identity[r].base \in had[identity[r].article] /\ Shared(identity[r].base, r)
            BY <2>1 DEF BaseOK, BaselineWasShared, Shared, Meets
        <3>3. Meets(identity[r].base, shown'[r])
            BY <3>2, SharedStays
        <3> QED BY <1>1, <2>1, <3>1, <3>2, <3>3
    <2>2. ASSUME NEW a \in Articles, NEW text, text \in had[a], Shared(text, r),
                 identity'[r] = [article |-> a, base |-> text]
          PROVE  /\ identity'[r].base \in had'[identity'[r].article]
                 /\ Meets(identity'[r].base, shown'[r])
        BY <1>1, <2>2, SharedStays
    <2>3. NoIdentity.base = Unknown /\ [article |-> run.article, base |-> Unknown].base = Unknown
        BY DEF NoIdentity
    <2>4. ASSUME NEW s \in Syncs, Mark(s), r = sync[s].at, Live(sync[s].article)
          PROVE  /\ sync[s].article \in Articles
                 /\ sync[s].found[r] \in had[sync[s].article] /\ Shared(sync[s].found[r], r)
        <3>1. sync[s].pc = "mark" /\ sync[s].pc \in AtOne
            BY <2>4 DEF Mark, AtOne
        <3> QED BY <1>3, <2>4, <3>1 DEF BaseOK
    <2>5. ASSUME MarkResolved, r = resolver.seen.remote, Live(resolver.article)
          PROVE  /\ resolver.article \in Articles
                 /\ resolver.seen.text \in had[resolver.article]
                 /\ Shared(resolver.seen.text, r)
        BY <1>6, <2>5 DEF MarkResolved, BaseOK
    <2>6. ASSUME MarkPush, r = push.result, Live(push.article)
          PROVE  /\ push.article \in Articles
                 /\ article[push.article].text \in had[push.article]
                 /\ Shared(article[push.article].text, r)
        BY <1>4, <1>5, <2>6 DEF MarkPush, BaseOK, Live
    <2>7. CASE identity'[r] # identity[r]
        BY <2>2, <2>3, <2>4, <2>5, <2>6, <2>7, IdentityChange
    <2> QED BY <2>1, <2>7
<1>8. ASSUME NEW a \in Articles, latest'[a].state \in Available
      PROVE  Meets(latest'[a].text, shown'[latest'[a].remote])
    <2>1. CASE latest'[a] = latest[a]
        <3>1. latest[a].remote \in Remotes /\ Shared(latest[a].text, latest[a].remote)
            BY <1>8, <2>1 DEF BaseOK, RemoteInv, FrameOK, LatestFrame, Available
        <3> QED BY <2>1, <3>1, SharedStays
    <2>2. CASE latest'[a] # latest[a]
        <3>1. latest'[a] # NoObservation
            BY <1>8 DEF Available, NoObservation
        <3>2. /\ Live(a) /\ latest'[a].remote \in Remotes
              /\ \/ \E s \in Syncs :
                       /\ sync[s].pc \in AtOne /\ latest'[a].remote = sync[s].at
                       /\ latest'[a].text = sync[s].found[sync[s].at]
                 \/ /\ resolver.pc # "idle" /\ resolver.article = a
                    /\ latest'[a].remote = resolver.seen.remote
                    /\ latest'[a].text = resolver.seen.text
                 \/ /\ push.pc = "marked" /\ push.article = a
                    /\ latest'[a].remote = push.result /\ latest'[a].text = push.text
            BY <1>8, <2>2, <3>1, LatestChange
        <3>3. Shared(latest'[a].text, latest'[a].remote)
            BY <1>3, <1>5, <3>2 DEF BaseOK
        <3> QED BY <3>2, <3>3, SharedStays
    <2> QED BY <2>1, <2>2
<1>9. ASSUME NEW s \in Syncs, NEW a \in Articles, sync'[s].article = a, Live(a)'
      PROVE  /\ sync'[s].pc = "compare" /\ sync'[s].base # Unknown => sync'[s].base \in had'[a]
             /\ sync'[s].pc \in {"metadata", "mark", "observe"} =>
                   sync'[s].found[sync'[s].at] \in had'[a]
    <2>0. /\ {"compare", "metadata", "mark", "observe", "save", "report"} \subseteq AtOne
          /\ IdleSync.pc = "idle" /\ Unknown \notin Text /\ "next" \notin AtOne
        BY Blank DEF AtOne, IdleSync
    <2>1. sync[s].pc \in AtOne /\ sync[s].article = a => Live(a)
        BY <1>1, <1>3, <1>9
    <2>2. ASSUME NEW text, SetArticle(a, Saved(a, text)) PROVE text \in had'[a]
        <3>1. Saved(a, text).text = text
            BY DEF Saved, RemoteInv, TypeOK, Article
        <3> QED BY <2>2, <3>1 DEF SetArticle, RemoteInv, TypeOK
    <2>3. \A text : SetArticle(a, Created(text, 1)) => text \in had'[a]
        BY DEF SetArticle, Created, NoArticle, RemoteInv, TypeOK
    <2>4. \A r \in Remotes : identity[r].article = a /\ identity[r].base # Unknown =>
             identity[r].base \in had'[a]
        BY <1>1 DEF BaseOK, BaselineWasShared
    <2>5. CASE sync'[s] = sync[s]
        BY <1>1, <1>9, <2>0, <2>1, <2>5 DEF BaseOK
    <2>6. CASE sync[s].pc \in AtOne /\ sync[s].article = a
        <3>1. /\ sync[s].pc = "compare" /\ sync[s].base # Unknown => sync[s].base \in had'[a]
              /\ sync[s].pc \in {"metadata", "mark", "observe"} =>
                    sync[s].found[sync[s].at] \in had'[a]
            BY <1>1, <2>1, <2>6 DEF BaseOK
        <3>2. article[a].text \in had'[a] /\ sync[s].found[sync[s].at] # Unknown
            BY <1>1, <1>3, <1>4, <2>0, <2>1, <2>6
        <3> QED BY <1>9, <2>0, <2>1, <2>2, <2>6, <3>1, <3>2, SyncChange
    <2>7. CASE ~(sync[s].pc \in AtOne /\ sync[s].article = a) /\ sync'[s] # sync[s]
        <3>1. \/ sync'[s].pc \notin {"compare", "metadata", "mark", "observe"}
              \/ \E r \in Remotes :
                    /\ sync'[s].at = r /\ sync'[s].found = sync[s].found
                    /\ \/ /\ sync'[s].pc = "compare" /\ identity[r].article = a
                          /\ sync'[s].base = identity[r].base
                       \/ /\ sync'[s].pc = "metadata"
                          /\ SetArticle(a, Created(sync[s].found[r], 1))
            BY <1>9, <2>0, <2>7, SyncChange
        <3> QED BY <2>3, <2>4, <3>1
    <2> QED BY <2>5, <2>6, <2>7
<1>10. ASSUME NEW a \in Articles, resolver'.article = a, Live(a)', resolver'.pc # "idle"
       PROVE  /\ Meets(resolver'.seen.text, shown'[resolver'.seen.remote])
              /\ resolver'.pc = "mark" => resolver'.seen.text \in had'[a]
    <2>1. CASE resolver'.article = resolver.article /\ resolver'.seen = resolver.seen
               /\ resolver.pc # "idle"
        <3>1. Live(resolver.article)
            BY <1>1, <1>6, <1>10, <2>1
        <3>2. Shared(resolver.seen.text, resolver.seen.remote) /\ resolver.seen.remote \in Remotes
            BY <1>6, <2>1, <3>1 DEF BaseOK
        <3>3. ASSUME SetArticle(a, Saved(a, resolver.seen.text))
              PROVE  resolver.seen.text \in had'[a]
            <4>1. Saved(a, resolver.seen.text).text = resolver.seen.text
                BY DEF Saved, RemoteInv, TypeOK, Article
            <4> QED BY <3>3, <4>1 DEF SetArticle, RemoteInv, TypeOK
        <3>4. resolver.pc = "mark" => resolver.seen.text \in had'[a]
            BY <1>1, <1>10, <2>1, <3>1 DEF BaseOK
        <3>5. resolver'.pc = "mark" => resolver'.seen.text \in had'[a]
            BY <1>10, <2>1, <3>3, <3>4, ResolverChange DEF IdleResolver
        <3> QED BY <2>1, <3>2, <3>5, SharedStays
    <2>2. CASE /\ resolver'.pc \in {"save", "observe"} /\ resolver'.seen = latest[a]
               /\ latest[a].state \in Available
        <3>1. Shared(latest[a].text, latest[a].remote) /\ latest[a].remote \in Remotes
            BY <2>2 DEF BaseOK, RemoteInv, FrameOK, LatestFrame, Available
        <3> QED BY <2>2, <3>1, SharedStays
    <2> QED BY <1>10, <2>1, <2>2, ResolverChange DEF IdleResolver
<1>11. ASSUME NEW a \in Articles, push'.article = a, Live(a)', scope.platform # "medium"
       PROVE  /\ push'.pc = "ready" =>
                    \/ article'[a].text = push'.text
                    \/ push'.target # 0 /\ Meets(article'[a].text, shown'[push'.target])
              /\ push'.pc \in Written => Meets(article'[a].text, shown'[push'.result])
              /\ push'.pc = "marked" => Meets(push'.text, shown'[push'.result])
    <2>0. /\ "idle" \notin Written /\ "queued" \notin Written /\ "ready" \notin Written
          /\ {"sent", "applied", "marked"} = Written /\ IdlePush.pc = "idle"
          /\ {"ready", "sent", "applied", "marked"} = Sending /\ Writes
        BY <1>11, CarefulRules DEF Written, Sending, IdlePush
    <2>1. ASSUME push.article = a, push.pc \in Sending
          PROVE  /\ Live(a) /\ a \in Articles
                 /\ article'[a].text = article[a].text \/
                       IF push.pc = "ready"
                       THEN push.target # 0 /\ Shared(article'[a].text, push.target)
                       ELSE Shared(article'[a].text, push.result)
        <3>1. /\ Live(a) /\ a \in Articles
              /\ \/ article'[a].text = article[a].text
                 \/ /\ resolver.pc = "save" /\ resolver.article = a
                    /\ article'[a].text = resolver.seen.text
            BY <1>11, <2>1, PushedText
        <3>2. ASSUME resolver.pc = "save", resolver.article = a
              PROVE  /\ Shared(resolver.seen.text, resolver.seen.remote)
                     /\ resolver.seen.remote = IF push.pc = "ready" THEN push.target
                                               ELSE push.result
                     /\ resolver.seen.remote # 0
            BY <1>0, <1>6, <1>11, <2>1, <3>1, <3>2, ResolvedIsPushed DEF BaseOK
        <3> QED BY <3>1, <3>2
    <2>2. ASSUME push.article = a, push.pc = "ready", push'.target = push.target,
                 push'.text = push.text
          PROVE  \/ article'[a].text = push'.text
                 \/ push'.target # 0 /\ Meets(article'[a].text, shown'[push'.target])
        <3>1. Live(a) /\ push.target \in Remotes \cup {0}
            BY <1>0, <2>0, <2>1, <2>2 DEF Push
        <3>2. \/ article[a].text = push.text
              \/ push.target # 0 /\ Shared(article[a].text, push.target)
            BY <1>11, <2>2, <3>1 DEF BaseOK
        <3>3. \/ article'[a].text = push.text
              \/ push.target # 0 /\ Shared(article'[a].text, push.target)
            BY <2>0, <2>1, <2>2, <3>2
        <3> QED BY <2>2, <3>1, <3>3, SharedStays
    <2>3. ASSUME push.article = a, push.pc \in Written
          PROVE  Meets(article'[a].text, shown'[push.result])
        <3>1. Live(a) /\ push.result \in Remotes /\ push.pc \in Sending
            BY <1>0, <1>11, <2>0, <2>1, <2>3 DEF OneRemote, Push
        <3>2. Shared(article[a].text, push.result)
            BY <1>11, <2>3, <3>1 DEF BaseOK
        <3>3. Shared(article'[a].text, push.result)
            BY <2>0, <2>1, <2>3, <3>1, <3>2
        <3> QED BY <3>1, <3>3, SharedStays
    <2>4. ASSUME ReadForPush, Live(push.article), push.article = a,
                 push'.text = article[push.article].text
          PROVE  article'[a].text = push'.text
        BY <2>4 DEF ReadForPush, store
    <2>5. ASSUME OperatePush, push.article = a, push.pc = "ready", WriteRemote(push'.result),
                 push'.result \in Remotes
          PROVE  Meets(article'[a].text, shown'[push'.result])
        <3>1. UNCHANGED article /\ Live(a)
            BY <2>0, <2>1, <2>5 DEF OperatePush, store
        <3>2. shown'[push'.result] = shown[push'.result] \cup {Rendered(push.text)}
            BY <2>5 DEF WriteRemote, SetRemote, RemoteInv, TypeOK
        <3>3. push.target # 0 => push'.result = push.target
            BY <2>5 DEF WriteRemote, UpdateDraft, CreateDraft
        <3>4. \/ article[a].text = push.text
              \/ push.target # 0 /\ Shared(article[a].text, push.target)
            BY <1>11, <2>5, <3>1 DEF BaseOK
        <3>5. article[a].text = push.text => Meets(article[a].text, shown'[push'.result])
            BY <3>2 DEF Meets
        <3>6. Shared(article[a].text, push'.result) => Meets(article[a].text, shown'[push'.result])
            BY <2>5, SharedStays
        <3> QED BY <3>1, <3>3, <3>4, <3>5, <3>6
    <2>6. ASSUME push.article = a, push.pc = "marked"
          PROVE  Meets(push.text, shown'[push.result])
        <3>1. Live(a) /\ push.result \in Remotes
            BY <1>5, <2>0, <2>1, <2>6
        <3> QED BY <1>11, <2>6, <3>1, SharedStays DEF BaseOK
    <2>7. ASSUME MarkPush, push.article = a, push'.text = article[push.article].text
          PROVE  UNCHANGED article
        BY <2>7 DEF MarkPush
    <2>8. push'.pc = "ready" =>
             \/ article'[a].text = push'.text
             \/ push'.target # 0 /\ Meets(article'[a].text, shown'[push'.target])
        BY <1>11, <2>0, <2>2, <2>4, PushChange
    <2>9. push'.pc \in Written => Meets(article'[a].text, shown'[push'.result])
        BY <1>11, <2>0, <2>3, <2>5, PushChange
    <2>10. push'.pc = "marked" => Meets(push'.text, shown'[push'.result])
        <3>1. push.pc = "applied" => push.pc \in Written
            BY <2>0
        <3> QED BY <1>11, <2>0, <2>3, <2>6, <2>7, <3>1, PushChange
    <2> QED BY <2>8, <2>9, <2>10
<1>12. \A a \in Articles : latest'[a].state \in Available =>
          Shared(latest[a].text, latest[a].remote)'
    BY <1>8 DEF Shared
<1>13. \A s \in Syncs : LET me == sync'[s] IN
          Live(sync[s].article)' =>
             /\ me.pc = "compare" /\ me.base # Unknown => me.base \in had'[me.article]
             /\ me.pc \in {"metadata", "mark", "observe"} => me.found[me.at] \in had'[me.article]
    BY <1>9 DEF Live
<1>14. resolver'.pc # "idle" /\ Live(resolver.article)' =>
          /\ Shared(resolver.seen.text, resolver.seen.remote)'
          /\ resolver'.pc = "mark" => resolver'.seen.text \in had'[resolver'.article]
    BY <1>10 DEF Live, Shared
<1>15. Live(push.article)' /\ scope'.platform # "medium" =>
          /\ push'.pc = "ready" =>
                \/ article'[push'.article].text = push'.text
                \/ push'.target # 0 /\ Shared(article[push.article].text, push.target)'
          /\ push'.pc \in Written => Shared(article[push.article].text, push.result)'
          /\ push'.pc = "marked" => Shared(push.text, push.result)'
    BY <1>0, <1>11 DEF Live, Shared
<1> QED BY <1>7, <1>12, <1>13, <1>14, <1>15 DEF BaseOK, Written

-----------------------------------------------------------------------------

LEMMA SharedInit ==
    ASSUME Init, Careful
    PROVE  SharedInv
<1>1. /\ \A r \in Remotes : identity[r].article = 0 /\ identity[r].base = Unknown
      /\ \A a \in Articles : latest[a].state = "none" /\ article[a].draftId = 0
      /\ \A s \in Syncs : sync[s].pc = "idle"
    BY DEF Init, NoIdentity, NoObservation, IdleSync, NoArticle, Created
<1>2. /\ push.pc = "idle" /\ push.article = 0 /\ push.target = 0 /\ push.result = 0
      /\ run.article = 0 /\ run.job = "none" /\ run.status = "none" /\ run.target = 0
      /\ resolver.pc = "idle"
    BY DEF Init, IdlePush, NoRun, IdleResolver
<1>3. Apart
    BY <1>2, CarefulRules DEF Apart, Pushing
<1>4. OwnDraft /\ OwnPush /\ OwnRun
    BY <1>1, <1>2 DEF OwnDraft, OwnPush, OwnRun, Written
<1>5. OneRemote
    BY <1>1, <1>2 DEF OneRemote, RunPending, Sending, Written
<1>6. ~Live(0)
    BY Blank DEF Live
<1>7. BaseOK
    BY <1>1, <1>2, <1>6 DEF BaseOK, BaselineWasShared, Available
<1> QED BY <1>3, <1>4, <1>5, <1>7 DEF SharedInv

LEMMA SharedStep ==
    ASSUME RemoteInv, Numbered, Careful => SharedInv, [Next]_vars
    PROVE  Careful' => SharedInv'
<1>1. Careful' => Careful
    BY Writers DEF Careful, Does
<1>2. ASSUME Careful PROVE SharedInv'
    BY <1>2, ApartStep, OwnDraftStep, OwnPushStep, OwnRunStep, OneRemoteStep, BaseOKStep
       DEF SharedInv
<1> QED BY <1>1, <1>2

(* Careful behaviours, their numbered texts and what pushes and baselines  *)
(* refer to.                                                               *)
LEMMA SharedInvariant == Spec => [](RemoteInv /\ Numbered /\ (Careful => SharedInv))
<1>1. Init => RemoteInv /\ Numbered /\ (Careful => SharedInv)
    BY RemoteInvInit, NumberedInit, SharedInit
<1>2. RemoteInv /\ Numbered /\ (Careful => SharedInv) /\ [Next]_vars
        => (RemoteInv /\ Numbered /\ (Careful => SharedInv))'
    BY RemoteInvStep, NumberedStep, SharedStep
<1> QED BY <1>1, <1>2, PTL DEF Spec

(* A baseline is a text that both the article and its remote had, though   *)
(* synchronizations, resolutions and pushes set it in transactions apart   *)
(* from the ones that read the texts (hashnode_sync.py _sync_article,      *)
(* handlers.py handle_push, services/reconciliation.py resolve), in every  *)
(* behaviour that is careful: nobody edits an article during its push or   *)
(* before it has a baseline, no synchronization is under way beside a      *)
(* push, each article has one remote, and imports do not meet pushes.      *)
THEOREM BaselinesShared == Spec => [](Careful => BaselineWasShared)
<1>1. SharedInv => BaselineWasShared
    BY DEF SharedInv, BaseOK
<1> QED BY <1>1, SharedInvariant, PTL

-----------------------------------------------------------------------------
(* The user's edits.                                                       *)

Kept == RemoteInv /\ Numbered /\ Careful /\ SharedInv /\ EditInv

(* An edit is new, and comes when nobody holds the article's text.         *)
LEMMA MineGrows ==
    ASSUME RemoteInv, Numbered, Careful, [Next]_vars, NEW a \in Articles
    PROVE  \/ mine'[a] = mine[a]
           \/ /\ Edit(a) /\ mine'[a] = mine[a] \cup {made + 1}
              /\ made \in Nat /\ made < MaxEdits
              /\ ~Unmarked(a) /\ (push.article # a \/ push.pc = "queued")
              /\ Live(a) /\ article'[a].text = article[a].text \cup {made + 1}
              /\ article'[a].rev = article[a].rev + 1
              /\ UNCHANGED <<remote, identity, latest, sync, push, run, resolver, waived>>
<1>1. UNCHANGED mine \/ \E b \in Articles : Edit(b)
    BY MineChange
<1>2. ASSUME NEW b \in Articles, Edit(b), b # a PROVE mine'[a] = mine[a]
    BY <1>2 DEF Edit, RemoteInv, TypeOK
<1>3. ASSUME Edit(a)
      PROVE  /\ mine'[a] = mine[a] \cup {made + 1}
             /\ made \in Nat /\ made < MaxEdits
             /\ ~Unmarked(a) /\ (push.article # a \/ push.pc = "queued")
             /\ Live(a) /\ article'[a].text = article[a].text \cup {made + 1}
             /\ article'[a].rev = article[a].rev + 1
             /\ UNCHANGED <<remote, identity, latest, sync, push, run, resolver, waived>>
    <2>1. /\ mine'[a] = mine[a] \cup {made + 1} /\ Live(a) /\ MayEdit(a) /\ made < MaxEdits
          /\ UNCHANGED <<remote, identity, latest, sync, push, run, resolver, waived>>
        BY <1>3 DEF Edit, calls, RemoteInv, TypeOK
    <2>2. made \in Nat
        BY RemoteAssumption DEF RemoteInv, TypeOK
    <2>3. article[a].text \subseteq 0..made
        BY <2>1 DEF Numbered, RemoteInv, FrameOK, ArticleFrame
    <2>4. article[a].text \cup {made + 1} # article[a].text
        BY <2>2, <2>3
    <2>5. article'[a] = [article[a] EXCEPT !.text = article[a].text \cup {made + 1}, !.rev = @ + 1]
        BY <1>3, <2>4 DEF Edit, SetArticle, Saved, RemoteInv, TypeOK
    <2>6. /\ article'[a].text = article[a].text \cup {made + 1}
          /\ article'[a].rev = article[a].rev + 1
        BY <2>5 DEF RemoteInv, TypeOK, Article
    <2> QED BY <2>1, <2>2, <2>6, CarefulRules
<1> QED BY <1>1, <1>2, <1>3

(* A text known before the step has the user's edits it had.               *)
LEMMA OldEdits ==
    ASSUME RemoteInv, Numbered, Careful, [Next]_vars, NEW a \in Articles,
           NEW text, text \subseteq 0..made \/ text = Unknown
    PROVE  text \cap mine'[a] = text \cap mine[a]
<1>1. MaxEdits \in Nat
    BY RemoteAssumption
<1>2. ASSUME made \in Nat, made < MaxEdits PROVE made + 1 \notin text
    BY <1>1, <1>2 DEF Unknown
<1> QED BY <1>2, MineGrows

(* What changes the text of a remote article.                              *)
LEMMA RemoteChange ==
    ASSUME RemoteInv, [Next]_vars, NEW r \in Remotes, remote'[r].text # remote[r].text
    PROVE  /\ UNCHANGED <<article, identity, latest, sync, resolver, mine, waived>>
           /\ \/ /\ remote'[r].text = remote[r].text \cup {made + 1} /\ UNCHANGED <<push, run>>
              \/ /\ push.pc = "ready" /\ Writes /\ WriteRemote(r)
                 /\ remote'[r].text = Rendered(push.text) /\ UNCHANGED run
              \/ /\ run.job = "ready" /\ Upload(r) /\ UNCHANGED push
                 /\ remote'[r].text \in {Rendered(run.text), run.text}
<1>1. \A q, state, text : SetRemote(q, state, text) => q = r /\ remote'[r].text = text
    <2>1. ASSUME NEW q, NEW state, NEW text, SetRemote(q, state, text)
          PROVE  q = r /\ remote'[r].text = text
        <3>1. q = r /\ remote'[r] = [state |-> state, text |-> text]
            BY <2>1 DEF SetRemote, RemoteInv, TypeOK
        <3> QED BY <3>1
    <2> QED BY <2>1
<1>2. \A q \in Remotes : WriteRemote(q) => q = r /\ remote'[r].text = Rendered(push.text)
    BY <1>1 DEF WriteRemote
<1>3. \A q \in Remotes : Upload(q) =>
         q = r /\ remote'[r].text \in {Rendered(run.text), run.text}
    BY <1>1 DEF Upload, WriteStory, UploadDraft
<1> USE DEF store, calls, history
<1>4. ASSUME NEW q \in Remotes, Author(q)
      PROVE  /\ remote'[r].text = remote[r].text \cup {made + 1}
             /\ UNCHANGED <<article, identity, latest, sync, resolver, mine, waived, push, run>>
    <2>1. q = r /\ remote'[r].text = remote[q].text \cup {made + 1}
        BY <1>1, <1>4 DEF Author
    <2> QED BY <1>4, <2>1 DEF Author
<1>5. ASSUME NEW q \in Remotes, Post(q) \/ Remove(q) PROVE FALSE
    BY <1>1, <1>5 DEF Post, Remove
<1>6. ASSUME OperatePush \/ OperationFails
      PROVE  /\ push.pc = "ready" /\ Writes /\ WriteRemote(r)
             /\ remote'[r].text = Rendered(push.text)
             /\ UNCHANGED <<article, identity, latest, sync, resolver, mine, waived, run>>
    <2>1. PICK q \in Remotes : WriteRemote(q)
        BY <1>6 DEF OperatePush, OperationFails
    <2>2. q = r /\ remote'[r].text = Rendered(push.text)
        BY <1>2, <2>1
    <2>3. push.pc = "ready" /\ Writes
        BY <2>1 DEF WriteRemote
    <2> QED BY <1>6, <2>1, <2>2, <2>3 DEF OperatePush, OperationFails
<1>7. ASSUME OperateRun \/ RunRefused
      PROVE  /\ run.job = "ready" /\ Upload(r)
             /\ remote'[r].text \in {Rendered(run.text), run.text}
             /\ UNCHANGED <<article, identity, latest, sync, resolver, mine, waived, push>>
    <2>1. PICK q \in Remotes : Upload(q)
        BY <1>7 DEF OperateRun, RunRefused
    <2>2. q = r /\ remote'[r].text \in {Rendered(run.text), run.text}
        BY <1>3, <2>1
    <2> QED BY <1>7, <2>1, <2>2 DEF OperateRun, RunRefused
<1> QED BY <1>4, <1>5, <1>6, <1>7, Writers DEF RemoteStep

(* While a push or a run writes, no synchronization holds a text.          *)
LEMMA QuietFinds ==
    ASSUME RemoteInv, Quiet
    PROVE  \A r \in Remotes, s \in Syncs : sync[s].found[r] \notin Text
BY Blank DEF Quiet, RemoteInv, FrameOK, SyncFrame, IdleSync

(* What a push or a run wrote has every edit of its article.               *)
LEMMA PushReached ==
    ASSUME Kept, push.pc \in Written, Live(push.article), scope.platform # "medium"
    PROVE  /\ Reached(push.result, mine[push.article])
           /\ push.result \in Remotes /\ push.article \in Articles
<1>1. Pushing /\ push.result \in Remotes
    BY DEF Kept, SharedInv, OneRemote, RemoteInv, TypeOK, Push, Pushing, Written
<1>2. Quiet
    BY <1>1 DEF Kept, SharedInv, Apart
<1>3. mine[push.article] \subseteq remote[push.result].text \cup waived
    BY DEF Kept, EditInv, PushCarries
<1> QED BY <1>1, <1>2, <1>3, QuietFinds DEF Reached, Kept, Live

LEMMA RunReached ==
    ASSUME Kept, run.job = "sent"
    PROVE  /\ Reached(run.target, mine[run.article])
           /\ run.target \in Remotes /\ run.article \in Articles
<1>1. Pushing /\ run.target \in Remotes /\ run.article # 0 /\ run.status = "running"
      /\ run.article \in Articles
    BY DEF Kept, RemoteInv, TypeOK, FrameOK, RunFrame, Run, Pushing, Live
<1>2. Quiet
    BY <1>1 DEF Kept, SharedInv, Apart
<1>3. mine[run.article] \subseteq remote[run.target].text \cup waived
    BY <1>1 DEF Kept, EditInv, RunCarries
<1> QED BY <1>1, <1>2, <1>3, QuietFinds DEF Reached, Kept

(* The heading is no edit.                                                 *)
LEMMA RenderedKeeps ==
    ASSUME RemoteInv, Numbered, NEW a \in Articles, NEW text,
           mine[a] \subseteq text \cup waived
    PROVE  mine[a] \subseteq Rendered(text) \cup waived
<1>1. mine[a] \subseteq 1..made /\ made \in Nat
    BY RemoteAssumption DEF Numbered, RemoteInv, TypeOK
<1>2. 0 \notin mine[a]
    BY <1>1
<1> QED BY <1>2 DEF Rendered, Heading

(* A mapped remote article is written by its author, or with every edit of *)
(* its article.                                                            *)
LEMMA WriteReaches ==
    ASSUME Kept, [Next]_vars, NEW r \in Remotes, remote'[r].text # remote[r].text,
           NEW a \in Articles, identity[r].article = a
    PROVE  \/ remote'[r].text = remote[r].text \cup {made + 1}
           \/ Quiet /\ mine[a] \subseteq remote'[r].text \cup waived
<1>0. RemoteInv /\ Numbered
    BY DEF Kept
<1>1. Live(a) /\ There(r)
    BY Blank DEF Kept, RemoteInv, FrameOK, RemoteFrame
<1>2. ~New(r)
    BY <1>1 DEF New, There
<1>3. ASSUME push.pc = "ready", Writes, WriteRemote(r), remote'[r].text = Rendered(push.text)
      PROVE  Quiet /\ mine[a] \subseteq remote'[r].text \cup waived
    <2>1. push.target = r
        BY <1>2, <1>3 DEF WriteRemote, UpdateDraft, CreateDraft
    <2>2. push.article = a
        BY <2>1, Blank DEF Kept, SharedInv, OwnPush
    <2>3. scope.platform # "medium" /\ Quiet
        BY <1>3 DEF Writes, Kept, SharedInv, Apart, Pushing
    <2>4. mine[a] \subseteq push.text \cup waived
        BY <1>1, <1>3, <2>2, <2>3 DEF Kept, EditInv, PushCarries
    <2> QED BY <1>0, <1>3, <2>3, <2>4, RenderedKeeps
<1>4. ASSUME run.job = "ready", Upload(r), remote'[r].text \in {Rendered(run.text), run.text}
      PROVE  Quiet /\ mine[a] \subseteq remote'[r].text \cup waived
    <2>1. run.target = r
        BY <1>2, <1>4 DEF Upload, WriteStory, UploadDraft
    <2>2. run.article = a
        BY <1>4, <2>1, Blank DEF Kept, SharedInv, OwnRun
    <2>3. run.status = "running" /\ run.article # 0 /\ Quiet
        BY <1>4, <2>2, Blank DEF Kept, SharedInv, Apart, Pushing, RemoteInv, FrameOK, RunFrame
    <2>4. mine[a] \subseteq run.text \cup waived
        BY <2>2, <2>3 DEF Kept, EditInv, RunCarries
    <2> QED BY <1>0, <1>4, <2>3, <2>4, RenderedKeeps
<1> QED BY <1>0, <1>3, <1>4, RemoteChange

(* What a synchronization has of a remote article.                         *)
LEMMA FoundChange ==
    ASSUME RemoteInv, [Next]_vars, NEW s \in Syncs, NEW r \in Remotes
    PROVE  sync'[s].found[r] \in {sync[s].found[r], Unknown, remote[r].text}
<1>1. IdleSync.found[r] = Unknown
    BY DEF IdleSync
<1> QED BY <1>1, SyncChange

(* The same of the next state, for a text of this one.                     *)
ReachedNext(r, edits) ==
    /\ edits \subseteq remote'[r].text \cup waived'
    /\ \A s \in Syncs : sync'[s].found[r] \in Text =>
          edits \subseteq sync'[s].found[r] \cup waived'
OldNext(r, text) ==
    identity'[r].article # 0 => ReachedNext(r, text \cap mine'[identity'[r].article])

(* An edit that reached the provider stays there, and a remote article     *)
(* that becomes the article's has all of its edits.                        *)
LEMMA ReachedStays ==
    ASSUME Kept, [Next]_vars, NEW r \in Remotes, NEW a \in Articles, NEW edits,
           identity'[r].article = a, edits \subseteq mine[a],
           Reached(r, edits) \/ identity[r].article # a
    PROVE  ReachedNext(r, edits)
<1>0. RemoteInv /\ waived \subseteq waived'
    BY MineChange DEF Kept
<1>1. Reached(r, edits)
    <2>1. ASSUME identity[r].article # a PROVE Reached(r, mine[a])
        <3>1. CASE ~Once(a)
            <4>1. mine[a] = {}
                BY <1>0, <3>1 DEF RemoteInv, FrameOK, ArticleFrame
            <4> QED BY <4>1 DEF Reached
        <3>2. CASE MarkPush /\ r = push.result /\ Live(push.article)
                   /\ identity'[r] = [article |-> push.article, base |-> article[push.article].text]
            <4>1. push.pc \in Written /\ scope.platform # "medium" /\ push.article = a
                BY <1>0, <3>2 DEF MarkPush, Written, RemoteInv, FrameOK, PushFrame
            <4> QED BY <3>2, <4>1, PushReached
        <3>3. CASE IdentifyRun /\ r = run.target
                   /\ identity'[r] = [article |-> run.article, base |-> Unknown]
            <4>1. run.job = "sent" /\ run.article = a
                BY <3>3 DEF IdentifyRun
            <4> QED BY <3>3, <4>1, RunReached
        <3>4. NoIdentity.article # a
            BY Blank DEF NoIdentity
        <3> QED BY <1>0, <2>1, <3>1, <3>2, <3>3, <3>4, MappingChange
    <2> QED BY <2>1 DEF Reached
<1>2. ASSUME identity[r].article = a, Quiet, mine[a] \subseteq remote'[r].text \cup waived
      PROVE  edits \subseteq remote'[r].text \cup waived
    BY <1>2
<1>3. edits \subseteq remote'[r].text \cup waived
    <2>1. CASE remote'[r].text = remote[r].text
        BY <1>1, <2>1 DEF Reached
    <2>2. CASE remote'[r].text # remote[r].text
        <3>1. UNCHANGED identity
            BY <1>0, <2>2, RemoteChange
        <3>2. \/ remote'[r].text = remote[r].text \cup {made + 1}
              \/ mine[a] \subseteq remote'[r].text \cup waived
            BY <2>2, <3>1, WriteReaches
        <3> QED BY <1>1, <3>2 DEF Reached
    <2> QED BY <2>1, <2>2
<1>4. ASSUME NEW s \in Syncs, sync'[s].found[r] \in Text
      PROVE  edits \subseteq sync'[s].found[r] \cup waived'
    BY <1>0, <1>1, <1>4, FoundChange, Blank DEF Reached
<1> QED BY <1>0, <1>3, <1>4 DEF ReachedNext

LEMMA OldStays ==
    ASSUME Kept, [Next]_vars, NEW r \in Remotes, NEW text,
           text \subseteq 0..made \/ text = Unknown, Old(r, text)
    PROVE  OldNext(r, text)
<1>0. RemoteInv /\ Numbered /\ Careful
    BY DEF Kept
<1> SUFFICES ASSUME NEW a, a = identity'[r].article, a # 0
             PROVE  ReachedNext(r, text \cap mine'[a])
    BY DEF OldNext
<1>1. a \in Articles
    BY <1>0, TypeStep DEF TypeOK, Identity
<1>2. text \cap mine'[a] = text \cap mine[a]
    BY <1>0, <1>1, OldEdits
<1>3. Reached(r, text \cap mine[a]) \/ identity[r].article # a
    BY DEF Old
<1>4. ReachedNext(r, text \cap mine[a])
    BY <1>1, <1>3, ReachedStays
<1> QED BY <1>2, <1>4

(* The provider's text, a fetched one and a baseline stay old.             *)
LEMMA OldRemote ==
    ASSUME Kept, [Next]_vars, NEW r \in Remotes, Old(r, remote[r].text)
    PROVE  OldNext(r, remote'[r].text)
<1>0. RemoteInv /\ Numbered /\ Careful
    BY DEF Kept
<1>1. remote[r].text \subseteq 0..made
    BY <1>0 DEF RemoteInv, FrameOK, RemoteFrame, Numbered
<1>2. OldNext(r, remote[r].text)
    BY <1>1, OldStays
<1>3. ASSUME NEW a \in Articles, a = identity'[r].article, remote'[r].text # remote[r].text
      PROVE  ReachedNext(r, remote'[r].text \cap mine'[a])
    <2>1. UNCHANGED <<identity, sync, mine, waived>>
        BY <1>0, <1>3, RemoteChange
    <2>2. CASE remote'[r].text = remote[r].text \cup {made + 1}
        <3>1. mine[a] \subseteq 1..made /\ made \in Nat
            BY <1>0, RemoteAssumption DEF Numbered, RemoteInv, TypeOK
        <3>2. remote'[r].text \cap mine'[a] = remote[r].text \cap mine'[a]
            BY <2>1, <2>2, <3>1
        <3> QED BY <1>2, <1>3, <3>2, Blank DEF OldNext
    <2>3. CASE Quiet /\ mine[a] \subseteq remote'[r].text \cup waived
        BY <1>0, <2>1, <2>3, QuietFinds DEF ReachedNext
    <2> QED BY <1>3, <2>1, <2>2, <2>3, WriteReaches
<1> QED BY <1>0, <1>2, <1>3, TypeStep DEF OldNext, TypeOK, Identity

LEMMA OldFound ==
    ASSUME Kept, [Next]_vars, NEW r \in Remotes, NEW s \in Syncs
    PROVE  OldNext(r, sync'[s].found[r])
<1>0. RemoteInv /\ Numbered /\ OldTexts
    BY DEF Kept, EditInv
<1>1. ASSUME NEW text, text \in {sync[s].found[r], Unknown, remote[r].text}
      PROVE  OldNext(r, text)
    <2>1. text \subseteq 0..made \/ text = Unknown
        <3>1. sync[s].found[r] \in Text \cup {Unknown}
            BY <1>0 DEF RemoteInv, TypeOK, Sync
        <3> QED BY <1>0, <1>1, <3>1 DEF RemoteInv, FrameOK, SyncFrame, RemoteFrame, Numbered
    <2>2. \A a \in Articles : Unknown \cap mine[a] = {}
        BY <1>0, RemoteAssumption DEF RemoteInv, TypeOK, Edits, Unknown
    <2>3. Old(r, Unknown)
        BY <1>0, <2>2 DEF Old, Reached, RemoteInv, TypeOK, Identity
    <2> QED BY <1>0, <1>1, <2>1, <2>3, OldStays DEF OldTexts
<1> QED BY <1>0, <1>1, FoundChange

LEMMA OldUnknown ==
    ASSUME Kept, [Next]_vars, NEW r \in Remotes
    PROVE  OldNext(r, Unknown)
<1>0. RemoteInv
    BY DEF Kept
<1>1. \A a \in Articles : Unknown \cap mine'[a] = {}
    BY <1>0, TypeStep, RemoteAssumption DEF TypeOK, Edits, Unknown
<1> QED BY <1>0, <1>1, TypeStep DEF OldNext, ReachedNext, TypeOK, Identity

LEMMA OldBase ==
    ASSUME Kept, [Next]_vars, NEW r \in Remotes
    PROVE  OldNext(r, identity'[r].base)
<1>0. RemoteInv /\ Numbered /\ OldTexts
    BY DEF Kept, EditInv
<1>1. CASE identity'[r] = identity[r]
    BY <1>0, <1>1, OldStays DEF OldTexts, Numbered
<1>2. ASSUME NEW s \in Syncs, identity'[r].base = sync[s].found[r] PROVE OldNext(r, identity'[r].base)
    <2>1. sync[s].found[r] \in Text \cup {Unknown}
        BY <1>0 DEF RemoteInv, TypeOK, Sync
    <2>2. sync[s].found[r] \subseteq 0..made \/ sync[s].found[r] = Unknown
        BY <1>0, <2>1 DEF RemoteInv, FrameOK, SyncFrame, Numbered
    <2> QED BY <1>0, <1>2, <2>2, OldStays DEF OldTexts
<1>3. ASSUME MarkResolved, r = resolver.seen.remote, Live(resolver.article),
             identity'[r].base = resolver.seen.text
      PROVE  OldNext(r, identity'[r].base)
    <2>1. resolver.pc # "idle"
        BY <1>3 DEF MarkResolved
    <2> QED BY <1>0, <1>3, <2>1, OldStays DEF OldTexts, Numbered
<1>4. ASSUME MarkPush, r = push.result, Live(push.article),
             identity'[r] = [article |-> push.article, base |-> article[push.article].text]
      PROVE  OldNext(r, identity'[r].base)
    <2>1. push.pc \in Written /\ scope.platform # "medium"
        BY <1>0, <1>4 DEF MarkPush, Written, RemoteInv, FrameOK, PushFrame
    <2>2. PICK a \in Articles : a = push.article
        BY <2>1, <1>4 DEF Live
    <2>3. Reached(r, mine[a])
        BY <1>4, <2>1, <2>2, PushReached
    <2>4. identity'[r].article = a
        BY <1>4, <2>2
    <2>5. ReachedNext(r, mine[a])
        BY <2>3, <2>4, ReachedStays
    <2>6. UNCHANGED mine
        BY <1>4 DEF MarkPush, history
    <2> QED BY <2>4, <2>5, <2>6 DEF OldNext, ReachedNext
<1> QED BY <1>0, <1>1, <1>2, <1>3, <1>4, OldUnknown, IdentityChange

LEMMA OldTextsStep ==
    ASSUME Kept, [Next]_vars
    PROVE  OldTexts'
<1>0. RemoteInv /\ Numbered /\ OldTexts
    BY DEF Kept, EditInv
<1>1. \A a \in Articles : Once(a) /\ Live(a)' => Live(a)
    BY <1>0, GrowthStep DEF Growth
<1>2. ASSUME NEW a \in Articles, latest'[a].state # "none"
      PROVE  OldNext(latest'[a].remote, latest'[a].text)
    <2>1. CASE latest'[a] = latest[a]
        <3>1. latest[a].remote \in Remotes /\ Old(latest[a].remote, latest[a].text)
            BY <1>0, <1>2, <2>1 DEF OldTexts, RemoteInv, FrameOK, LatestFrame
        <3> QED BY <1>0, <2>1, <3>1, OldStays DEF Numbered
    <2>2. CASE latest'[a] # latest[a]
        <3>0. latest'[a] # NoObservation
            BY <1>2 DEF NoObservation
        <3>1. Live(a) /\ latest'[a].remote \in Remotes
              /\ UNCHANGED <<article, identity, remote, had, shown, mine, waived>>
            BY <1>0, <2>2, <3>0, LatestChange
        <3>2. ASSUME NEW s \in Syncs, latest'[a].remote = sync[s].at,
                     latest'[a].text = sync[s].found[sync[s].at]
              PROVE  OldNext(latest'[a].remote, latest'[a].text)
            <4>1. /\ sync[s].found[sync[s].at] \in Text \cup {Unknown}
                  /\ Old(sync[s].at, sync[s].found[sync[s].at])
                BY <1>0, <3>1, <3>2 DEF RemoteInv, TypeOK, Sync, OldTexts
            <4>2. \/ sync[s].found[sync[s].at] \subseteq 0..made
                  \/ sync[s].found[sync[s].at] = Unknown
                BY <1>0, <3>1, <3>2, <4>1 DEF RemoteInv, FrameOK, SyncFrame, Numbered
            <4> QED BY <3>1, <3>2, <4>1, <4>2, OldStays
        <3>3. ASSUME resolver.pc # "idle", resolver.article = a,
                     latest'[a].remote = resolver.seen.remote,
                     latest'[a].text = resolver.seen.text
              PROVE  OldNext(latest'[a].remote, latest'[a].text)
            <4>1. /\ Old(resolver.seen.remote, resolver.seen.text)
                  /\ resolver.seen.text \subseteq 0..made
                BY <1>0, <3>1, <3>3 DEF OldTexts, Numbered
            <4> QED BY <3>1, <3>3, <4>1, OldStays
        <3>4. ASSUME push.pc = "marked", push.article = a, latest'[a].remote = push.result,
                     latest'[a].text = push.text
              PROVE  OldNext(latest'[a].remote, latest'[a].text)
            <4>1. push.pc \in Written /\ scope.platform # "medium" /\ push.pc \in Sending
                BY <1>0, <3>4 DEF Written, Sending, RemoteInv, FrameOK, PushFrame
            <4>2. Reached(push.result, mine[a])
                BY <3>1, <3>4, <4>1, PushReached
            <4>3. identity[push.result].article \in {0, a}
                BY <3>1, <3>4, Blank DEF Kept, SharedInv, OwnPush
            <4>4. Old(push.result, push.text)
                BY <4>2, <4>3 DEF Old, Reached
            <4>5. push.text \subseteq 0..made
                BY <1>0, <4>1 DEF Numbered
            <4> QED BY <3>1, <3>4, <4>4, <4>5, OldStays
        <3> QED BY <1>0, <2>2, <3>0, <3>1, <3>2, <3>3, <3>4, OldUnknown, LatestChange
    <2> QED BY <2>1, <2>2
<1>3. ASSUME NEW s \in Syncs, sync'[s].pc \in {"compare", "save"}
      PROVE  OldNext(sync'[s].at, sync'[s].base)
    <2>0. {"compare", "save"} \subseteq AtOne /\ "next" \notin AtOne /\ IdleSync.pc = "idle"
        BY DEF AtOne, IdleSync
    <2>1. ASSUME sync[s].pc \in {"compare", "save"}, sync'[s].at = sync[s].at,
                 sync'[s].base = sync[s].base
          PROVE  OldNext(sync'[s].at, sync'[s].base)
        <3>1. sync[s].at \in Remotes /\ Old(sync[s].at, sync[s].base)
            BY <1>0, <2>0, <2>1, AtOneTypes DEF OldTexts
        <3>2. sync[s].base \subseteq 0..made \/ sync[s].base = Unknown
            BY <1>0, <2>0, <2>1 DEF Numbered
        <3> QED BY <2>1, <3>1, <3>2, OldStays
    <2>2. ASSUME NEW r \in Remotes, sync'[s].at = r, sync'[s].base = identity[r].base
          PROVE  OldNext(sync'[s].at, sync'[s].base)
        <3>1. Old(r, identity[r].base) /\ (identity[r].base \subseteq 0..made \/ identity[r].base = Unknown)
            BY <1>0 DEF OldTexts, Numbered
        <3> QED BY <2>2, <3>1, OldStays
    <2> QED BY <1>0, <1>3, <2>0, <2>1, <2>2, SyncChange
<1>4. ASSUME resolver'.pc # "idle", Live(resolver.article)'
      PROVE  OldNext(resolver'.seen.remote, resolver'.seen.text)
    <2>1. CASE resolver.pc # "idle" /\ resolver'.article = resolver.article
               /\ resolver'.seen = resolver.seen
        <3>1. Once(resolver.article) /\ resolver.seen.remote \in Remotes
            BY <1>0, <2>1 DEF RemoteInv, FrameOK, ResolverFrame
        <3>2. Live(resolver.article)
            BY <1>1, <1>4, <2>1, <3>1 DEF Once, Live
        <3>3. /\ Old(resolver.seen.remote, resolver.seen.text)
              /\ resolver.seen.text \subseteq 0..made
            BY <1>0, <2>1, <3>2 DEF OldTexts, Numbered
        <3> QED BY <2>1, <3>1, <3>3, OldStays
    <2>2. ASSUME NEW a \in Articles, latest[a].state \in Available, resolver'.seen = latest[a]
          PROVE  OldNext(resolver'.seen.remote, resolver'.seen.text)
        <3>1. /\ latest[a].remote \in Remotes /\ latest[a].text \in Text
              /\ Old(latest[a].remote, latest[a].text)
            BY <1>0, <2>2 DEF OldTexts, RemoteInv, FrameOK, LatestFrame, Available
        <3>2. latest[a].text \subseteq 0..made
            BY <1>0, <3>1, Blank DEF Numbered
        <3> QED BY <2>2, <3>1, <3>2, OldStays
    <2>3. IdleResolver.pc = "idle"
        BY DEF IdleResolver
    <2> QED BY <1>0, <1>4, <2>1, <2>2, <2>3, ResolverChange
<1>5. \A r \in Remotes : OldNext(r, remote'[r].text)
    BY <1>0, OldRemote DEF OldTexts
<1>6. \A r \in Remotes :
         /\ OldNext(r, identity'[r].base) /\ OldNext(r, remote'[r].text)
         /\ \A s \in Syncs : OldNext(r, sync'[s].found[r])
    BY <1>5, OldBase, OldFound
<1> QED BY <1>2, <1>3, <1>4, <1>6 DEF OldTexts, Old, OldNext, Reached, ReachedNext

LEMMA UneditedStep ==
    ASSUME Kept, [Next]_vars
    PROVE  Unedited'
<1>0. RemoteInv /\ Numbered /\ Careful /\ Unedited
    BY DEF Kept, EditInv
<1> SUFFICES ASSUME NEW r \in Remotes, NEW a, a = identity'[r].article, a # 0,
                    identity'[r].base = Unknown
             PROVE  ReachedNext(r, mine'[a])
    BY DEF Unedited, Reached, ReachedNext
<1>1. a \in Articles
    BY <1>0, TypeStep DEF TypeOK, Identity
<1>2. CASE identity[r].article # a
    <2>1. mine'[a] = mine[a]
        BY <1>0, <1>1, <1>2, MineGrows
    <2>2. ReachedNext(r, mine[a])
        BY <1>1, <1>2, ReachedStays
    <2> QED BY <2>1, <2>2
<1>3. CASE identity[r].article = a
    <2>1. identity[r].base = Unknown
        <3>1. \A s \in Syncs : Mark(s) /\ r = sync[s].at => sync[s].found[r] \in Text
            BY <1>0, AtOneTypes DEF Mark, AtOne
        <3>2. MarkResolved => resolver.seen.text \in Text
            BY <1>0 DEF MarkResolved, RemoteInv, FrameOK, ResolverFrame
        <3>3. Live(push.article) => article[push.article].text \in Text
            BY <1>0 DEF Live, RemoteInv, TypeOK, Article
        <3>4. NoIdentity.article = 0
            BY DEF NoIdentity
        <3>5. identity'[r] # identity[r] => FALSE
            BY <1>0, <1>1, <1>3, <3>1, <3>2, <3>3, <3>4, Blank, IdentityChange
        <3> QED BY <3>5
    <2>2. Reached(r, mine[a])
        BY <1>0, <1>1, <1>3, <2>1, Blank DEF Unedited
    <2>3. mine'[a] = mine[a]
        <3>1. Unmarked(a)
            BY <1>3, <2>1 DEF Unmarked, Mapped
        <3> QED BY <1>0, <1>1, <3>1, MineGrows
    <2>4. ReachedNext(r, mine[a])
        BY <1>1, <2>2, ReachedStays
    <2> QED BY <2>3, <2>4
<1> QED BY <1>2, <1>3

LEMMA NoSilentStep ==
    ASSUME Kept, [Next]_vars
    PROVE  NoSilentOverwrite'
<1>0. RemoteInv /\ Numbered /\ Careful /\ EditInv /\ waived \subseteq waived'
    BY MineChange DEF Kept
<1> SUFFICES ASSUME NEW a \in Articles, Live(a)'
             PROVE  mine'[a] \subseteq article'[a].text \cup waived'
    BY DEF NoSilentOverwrite, Live
<1>1. Live(a) => mine[a] \subseteq article[a].text \cup waived
    BY <1>0 DEF EditInv, NoSilentOverwrite
<1>2. CASE mine'[a] # mine[a]
    BY <1>0, <1>1, <1>2, MineGrows
<1>3. CASE mine'[a] = mine[a] /\ ~Once(a)
    <2>1. mine[a] = {}
        BY <1>0, <1>3 DEF RemoteInv, FrameOK, ArticleFrame
    <2> QED BY <1>3, <2>1
<1>4. CASE mine'[a] = mine[a] /\ Once(a)
    <2>1. Live(a) /\ mine[a] \subseteq article[a].text \cup waived
        BY <1>0, <1>1, <1>4, TextChange
    <2>2. ASSUME NEW s \in Syncs, Save(s), sync[s].article = a,
                 sync[s].expected = article[a].rev
          PROVE  mine[a] \subseteq sync[s].found[sync[s].at] \cup waived
        <3>1. sync[s].pc = "save" /\ sync[s].pc \in AtOne
            BY <2>2 DEF Save, AtOne
        <3>2. /\ sync[s].at \in Remotes /\ sync[s].found[sync[s].at] \in Text
              /\ identity[sync[s].at].article = a
            BY <1>0, <2>1, <2>2, <3>1 DEF RemoteInv, FrameOK, SyncFrame
        <3>3. IF sync[s].base = Unknown
              THEN mine[a] \subseteq sync[s].found[sync[s].at] \cup waived
              ELSE article[a].text \in {sync[s].base, sync[s].found[sync[s].at]}
            BY <1>0, <2>1, <2>2, <3>1 DEF EditInv, Compared
        <3>4. Old(sync[s].at, sync[s].base)
            BY <1>0, <3>1 DEF EditInv, OldTexts
        <3>5. sync[s].base \cap mine[a] \subseteq sync[s].found[sync[s].at] \cup waived
            BY <3>2, <3>4, Blank DEF Old, Reached
        <3> QED BY <2>1, <3>3, <3>5
    <2>3. ASSUME UseRemote, resolver.article = a, article'[a].rev = article[a].rev + 1
          PROVE  mine[a] \subseteq resolver.seen.text \cup waived'
        <3>1. article[a].rev \in Nat
            BY <1>0 DEF RemoteInv, TypeOK, Article
        <3>2. waived' = waived \cup (article[a].text \ resolver.seen.text)
            BY <2>3, <3>1 DEF UseRemote
        <3> QED BY <2>1, <3>2
    <2>4. mine[a] \subseteq article'[a].text \cup waived'
        BY <1>0, <1>4, <2>1, <2>2, <2>3, TextChange
    <2> QED BY <1>4, <2>4
<1> QED BY <1>2, <1>3, <1>4

LEMMA ComparedStep ==
    ASSUME Kept, [Next]_vars, NEW s \in Syncs
    PROVE  Compared(s)'
<1>0. RemoteInv /\ Numbered /\ Careful /\ EditInv /\ waived \subseteq waived'
    BY MineChange DEF Kept
<1> SUFFICES ASSUME NEW a, a = sync'[s].article, Live(a)', sync'[s].pc \in {"compare", "save"}
             PROVE  /\ sync'[s].pc = "compare" /\ sync'[s].base = Unknown =>
                          mine'[a] \subseteq sync'[s].found[sync'[s].at] \cup waived'
                    /\ sync'[s].pc = "save" => sync'[s].expected <= article'[a].rev
                    /\ sync'[s].pc = "save" /\ sync'[s].expected = article'[a].rev =>
                          IF sync'[s].base = Unknown
                          THEN mine'[a] \subseteq sync'[s].found[sync'[s].at] \cup waived'
                          ELSE article'[a].text \in {sync'[s].base, sync'[s].found[sync'[s].at]}
    BY DEF Compared, Live
<1>1. /\ "compare" \in AtOne /\ "save" \in AtOne /\ "next" \notin AtOne
      /\ IdleSync.pc = "idle" /\ a \in Articles
    BY DEF AtOne, IdleSync, Live
<1>2. CASE sync'[s] = sync[s]
    <2>1. Once(a) /\ sync[s].expected \in Nat /\ article[a].rev \in Nat
        BY <1>0, <1>1, <1>2 DEF RemoteInv, FrameOK, SyncFrame, TypeOK, Sync, Article
    <2>2. /\ Live(a)
          /\ \/ article'[a].text = article[a].text /\ article'[a].rev = article[a].rev
             \/ article'[a].rev = article[a].rev + 1
        BY <1>0, <1>1, <2>1, TextChange
    <2>3. /\ sync[s].pc = "compare" /\ sync[s].base = Unknown =>
                mine[a] \subseteq sync[s].found[sync[s].at] \cup waived
          /\ sync[s].pc = "save" => sync[s].expected <= article[a].rev
          /\ sync[s].pc = "save" /\ sync[s].expected = article[a].rev =>
                IF sync[s].base = Unknown
                THEN mine[a] \subseteq sync[s].found[sync[s].at] \cup waived
                ELSE article[a].text \in {sync[s].base, sync[s].found[sync[s].at]}
        BY <1>0, <1>2, <2>2 DEF EditInv, Compared
    <2>4. sync[s].pc = "compare" /\ sync[s].base = Unknown => mine'[a] = mine[a]
        <3>1. sync[s].pc = "compare" /\ sync[s].base = Unknown => Unmarked(a)
            BY <1>2 DEF Unmarked
        <3> QED BY <1>0, <1>1, <3>1, MineGrows
    <2>5. article'[a].rev = article[a].rev => mine'[a] = mine[a] /\ article'[a].text = article[a].text
        BY <1>0, <1>1, <2>1, <2>2, MineGrows
    <2>6. sync[s].pc = "save" => sync[s].expected <= article'[a].rev
        BY <2>1, <2>2, <2>3
    <2>7. sync[s].pc = "save" /\ sync[s].expected = article'[a].rev =>
             sync[s].expected = article[a].rev /\ article'[a].rev = article[a].rev
        BY <2>1, <2>2, <2>3
    <2> QED BY <1>0, <1>2, <2>3, <2>4, <2>5, <2>6, <2>7
<1>3. ASSUME NEW r \in Remotes, Locate(s, r), r \in sync[s].todo, sync'[s].at = r,
             sync'[s].found = sync[s].found, LocateKnown(s, r), sync'[s].pc = "compare",
             a = identity[r].article, sync'[s].base = identity[r].base,
             sync'[s].base = Unknown
      PROVE  mine'[a] \subseteq sync'[s].found[sync'[s].at] \cup waived'
    <2>1. sync[s].found[r] \in Text
        BY <1>0, <1>3 DEF RemoteInv, FrameOK, SyncFrame
    <2>2. Reached(r, mine[a])
        BY <1>0, <1>1, <1>3, Blank DEF EditInv, Unedited
    <2>3. UNCHANGED mine
        BY <1>3 DEF Locate
    <2> QED BY <1>0, <1>3, <2>1, <2>2, <2>3 DEF Reached
<1>4. ASSUME Compare(s), sync[s].pc = "compare", sync'[s].pc = "save",
             sync'[s].found = sync[s].found, sync'[s].at = sync[s].at,
             sync[s].article = a, sync'[s].base = sync[s].base,
             sync'[s].expected = article[sync[s].article].rev, UNCHANGED article,
             \/ sync[s].base = Unknown
             \/ article[sync[s].article].text \in {sync[s].base, sync[s].found[sync[s].at]}
      PROVE  /\ sync'[s].expected <= article'[a].rev
             /\ IF sync'[s].base = Unknown
                THEN mine'[a] \subseteq sync'[s].found[sync'[s].at] \cup waived'
                ELSE article'[a].text \in {sync'[s].base, sync'[s].found[sync'[s].at]}
    <2>1. Live(a) /\ article[a].rev \in Nat
        BY <1>0, <1>1, <1>4 DEF Live, RemoteInv, TypeOK, Article
    <2>2. sync[s].base = Unknown => mine[a] \subseteq sync[s].found[sync[s].at] \cup waived
        BY <1>0, <1>4, <2>1 DEF EditInv, Compared
    <2>3. UNCHANGED mine
        BY <1>4 DEF Compare, history
    <2> QED BY <1>0, <1>4, <2>1, <2>2, <2>3
<1>5. UNCHANGED article => (Live(a) <=> Live(a)')
    BY DEF Live
<1> QED BY <1>0, <1>1, <1>2, <1>3, <1>4, <1>5, SyncChange

LEMMA PushCarriesStep ==
    ASSUME Kept, [Next]_vars
    PROVE  PushCarries'
<1>0. /\ RemoteInv /\ Numbered /\ Careful /\ EditInv /\ SharedInv /\ waived \subseteq waived'
      /\ UNCHANGED scope
    BY MineChange, Writers DEF Kept
<1> SUFFICES ASSUME NEW a, a = push'.article, Live(a)', scope.platform # "medium",
                    push'.pc # "idle", push'.pc # "queued"
             PROVE  /\ push'.pc = "ready" => mine'[a] \subseteq push'.text \cup waived'
                    /\ push'.pc \in Written =>
                          mine'[a] \subseteq remote'[push'.result].text \cup waived'
    BY <1>0 DEF PushCarries, Live, Written
<1>1. /\ Writes /\ a \in Articles /\ IdlePush.pc = "idle"
      /\ {"sent", "applied", "marked"} = Written /\ "ready" \notin Written /\ "idle" \notin Written
    BY <1>0, CarefulRules DEF Live, Written, IdlePush
<1>2. push.pc # "idle" /\ push.article = a => Live(a)
    <2>1. push.pc # "idle" /\ push.article = a => Once(a)
        BY <1>0 DEF RemoteInv, FrameOK, PushFrame
    <2> QED BY <1>0, <1>1, <2>1, GrowthStep DEF Growth
<1>3. push.article = a /\ push.pc \notin {"idle", "queued"} => mine'[a] = mine[a]
    BY <1>0, <1>1, MineGrows
<1>4. ASSUME push.article = a, push.pc \in Written
      PROVE  mine'[a] \subseteq remote'[push.result].text \cup waived'
    <2>1. /\ push.result \in Remotes
          /\ mine[a] \subseteq remote[push.result].text \cup waived
        BY <1>0, <1>1, <1>2, <1>4, PushReached DEF Reached
    <2>2. There(push.result)
        BY <1>0, <2>1, Blank DEF RemoteInv, FrameOK, PushFrame
    <2>3. ~(Upload(push.result) /\ run.job = "ready")
        BY <2>2 DEF Upload, WriteStory, UploadDraft, New, There
    <2>4. \/ remote'[push.result].text = remote[push.result].text
          \/ remote'[push.result].text = remote[push.result].text \cup {made + 1}
        BY <1>0, <1>1, <1>4, <2>1, <2>3, RemoteChange
    <2> QED BY <1>0, <1>1, <1>3, <1>4, <2>1, <2>4
<1>5. ASSUME ReadForPush, push.article = a, push'.text = article[push.article].text,
             Live(push.article)
      PROVE  mine'[a] \subseteq push'.text \cup waived'
    <2>1. mine[a] \subseteq article[a].text \cup waived
        BY <1>0, <1>1, <1>5 DEF EditInv, NoSilentOverwrite
    <2> QED BY <1>5, <2>1 DEF ReadForPush, history
<1>6. ASSUME OperatePush, push.article = a, push.pc = "ready", WriteRemote(push'.result),
             push'.result \in Remotes
      PROVE  mine'[a] \subseteq remote'[push'.result].text \cup waived'
    <2>1. mine[a] \subseteq push.text \cup waived
        BY <1>0, <1>2, <1>6 DEF EditInv, PushCarries
    <2>2. mine[a] \subseteq Rendered(push.text) \cup waived
        BY <1>0, <1>1, <2>1, RenderedKeeps
    <2>3. PICK r : r = push'.result
        OBVIOUS
    <2>4. remote'[r] = [state |-> "draft", text |-> Rendered(push.text)]
        BY <1>0, <1>6, <2>3 DEF WriteRemote, SetRemote, RemoteInv, TypeOK
    <2>5. remote'[r].text = Rendered(push.text)
        BY <2>4
    <2> QED BY <1>0, <1>3, <1>6, <2>2, <2>3, <2>5
<1>7. push'.pc = "ready" => mine'[a] \subseteq push'.text \cup waived'
    <2>1. push.article = a /\ push.pc = "ready" => mine[a] \subseteq push.text \cup waived
        BY <1>0, <1>2 DEF EditInv, PushCarries
    <2> QED BY <1>0, <1>1, <1>3, <1>5, <2>1, PushChange
<1>8. push'.pc \in Written => mine'[a] \subseteq remote'[push'.result].text \cup waived'
    BY <1>0, <1>1, <1>4, <1>6, PushChange
<1> QED BY <1>7, <1>8

LEMMA RunCarriesStep ==
    ASSUME Kept, [Next]_vars
    PROVE  RunCarries'
<1>0. /\ RemoteInv /\ Numbered /\ Careful /\ EditInv /\ SharedInv /\ waived \subseteq waived'
    BY MineChange DEF Kept
<1> SUFFICES ASSUME NEW a, a = run'.article, a # 0,
                    run'.status \in {"awaiting_approval", "running"}
             PROVE  /\ mine'[a] \subseteq run'.text \cup waived'
                    /\ run'.job = "sent" => mine'[a] \subseteq remote'[run'.target].text \cup waived'
    BY DEF RunCarries
<1>1. a \in Articles /\ NoRun.article = 0
    BY <1>0, TypeStep DEF TypeOK, Run, NoRun
<1>2. run.article = a /\ run.status \in {"awaiting_approval", "running"} =>
         /\ mine'[a] = mine[a] /\ mine[a] \subseteq run.text \cup waived
    <2>1. run.article = a /\ run.status \in {"awaiting_approval", "running"} => Unmarked(a)
        BY DEF Unmarked
    <2> QED BY <1>0, <1>1, <2>1, MineGrows DEF EditInv, RunCarries
<1>3. ASSUME run.article = a, run.job = "sent"
      PROVE  mine'[a] \subseteq remote'[run.target].text \cup waived'
    <2>1. /\ run.target \in Remotes /\ mine[a] \subseteq remote[run.target].text \cup waived
        BY <1>3, RunReached DEF Reached
    <2>2. There(run.target) /\ run.status = "running"
        BY <1>0, <1>3, <2>1, Blank DEF RemoteInv, FrameOK, RunFrame
    <2>3. ~(push.pc = "ready" /\ Writes /\ WriteRemote(run.target))
        <3>1. ASSUME Writes, WriteRemote(run.target) PROVE push.target = run.target
            BY <2>2, <3>1 DEF WriteRemote, UpdateDraft, CreateDraft, New, There
        <3>2. identity[run.target].article # 0 => identity[run.target].article = run.article
            BY <1>0, <1>3, <2>1, Blank DEF SharedInv, OwnRun
        <3>3. identity[run.target].article = 0 => push.target # run.target
            BY <1>0, <1>3 DEF SharedInv, OwnRun
        <3>4. Writes => Mapped(run.article) = {}
            BY <1>0, <1>3 DEF SharedInv, OneRemote, Writes, RunPending
        <3> QED BY <2>1, <3>1, <3>2, <3>3, <3>4 DEF Mapped
    <2>4. \/ remote'[run.target].text = remote[run.target].text
          \/ remote'[run.target].text = remote[run.target].text \cup {made + 1}
        BY <1>0, <1>3, <2>1, <2>3, RemoteChange
    <2> QED BY <1>0, <1>2, <1>3, <2>1, <2>2, <2>4
<1>4. ASSUME NEW b \in Articles, NEW mode \in {"draft", "publish"}, RequestRun(b, mode), b = a,
             Live(b), run'.text = article[b].text
      PROVE  mine'[a] \subseteq run'.text \cup waived'
    <2>1. mine[a] \subseteq article[a].text \cup waived
        BY <1>0, <1>4 DEF EditInv, NoSilentOverwrite
    <2> QED BY <1>4, <2>1 DEF RequestRun
<1>5. ASSUME OperateRun, run.job = "ready", run.article = a, Upload(run'.target), run'.target \in Remotes
      PROVE  mine'[a] \subseteq remote'[run'.target].text \cup waived'
    <2>1. run.status = "running"
        BY <1>0, <1>5 DEF RemoteInv, FrameOK, RunFrame
    <2>2. mine'[a] = mine[a] /\ mine[a] \subseteq run.text \cup waived
        BY <1>2, <1>5, <2>1
    <2>3. mine[a] \subseteq Rendered(run.text) \cup waived
        BY <1>0, <1>1, <2>2, RenderedKeeps
    <2>4. PICK r : r = run'.target
        OBVIOUS
    <2>5. \E state : \E text \in {Rendered(run.text), run.text} :
             remote'[r] = [state |-> state, text |-> text]
        BY <1>0, <1>5, <2>4 DEF Upload, WriteStory, UploadDraft, SetRemote, RemoteInv, TypeOK
    <2>6. remote'[r].text \in {Rendered(run.text), run.text}
        BY <2>5
    <2> QED BY <1>0, <2>2, <2>3, <2>4, <2>6
<1>6. mine'[a] \subseteq run'.text \cup waived'
    BY <1>0, <1>1, <1>2, <1>4, RunChange
<1>7. run'.job = "sent" => mine'[a] \subseteq remote'[run'.target].text \cup waived'
    BY <1>0, <1>1, <1>3, <1>5, RunChange
<1> QED BY <1>6, <1>7

LEMMA EditInit ==
    ASSUME Init
    PROVE  EditInv
<1>1. /\ \A a \in Articles : mine[a] = {} /\ latest[a].state = "none"
      /\ \A r \in Remotes : identity[r].article = 0
      /\ \A s \in Syncs : sync[s].pc = "idle"
      /\ push.article = 0 /\ run.article = 0 /\ resolver.pc = "idle"
    BY DEF Init, NoObservation, NoIdentity, IdleSync, IdlePush, NoRun, IdleResolver
<1>2. ~Live(0)
    BY Blank DEF Live
<1>3. OldTexts
    BY <1>1 DEF OldTexts, Old
<1> QED BY <1>1, <1>2, <1>3 DEF EditInv, NoSilentOverwrite, Unedited, Compared, PushCarries,
                                RunCarries

LEMMA EditStep ==
    ASSUME RemoteInv, Numbered, CarefulInv, [Next]_vars
    PROVE  CarefulInv'
<1>1. Careful' => Careful
    BY Writers DEF Careful, Does
<1>2. Careful' => SharedInv'
    BY SharedStep DEF CarefulInv
<1>3. ASSUME Careful PROVE EditInv'
    <2>1. Kept
        BY <1>3 DEF Kept, CarefulInv
    <2>2. \A s \in Syncs : Compared(s)'
        BY <2>1, ComparedStep
    <2> QED BY <2>1, <2>2, NoSilentStep, OldTextsStep, UneditedStep, PushCarriesStep,
               RunCarriesStep DEF EditInv
<1> QED BY <1>1, <1>2, <1>3 DEF CarefulInv

LEMMA CarefulInvariant == Spec => [](RemoteInv /\ Numbered /\ CarefulInv)
<1>1. Init => RemoteInv /\ Numbered /\ CarefulInv
    BY RemoteInvInit, NumberedInit, SharedInit, EditInit DEF CarefulInv
<1>2. RemoteInv /\ Numbered /\ CarefulInv /\ [Next]_vars
        => (RemoteInv /\ Numbered /\ CarefulInv)'
    BY RemoteInvStep, NumberedStep, EditStep
<1> QED BY <1>1, <1>2, PTL DEF Spec

(* In a careful behaviour no synchronization, however many of them overlap *)
(* and crash, takes an edit made in the editor out of the article: it is   *)
(* compared with a baseline that has no edit the provider lacks, and saved *)
(* over the revision that was compared, or the user chose the remote       *)
(* version himself.                                                        *)
THEOREM EditsAreKept == Spec => [](Careful => NoSilentOverwrite)
<1>1. Careful /\ CarefulInv => NoSilentOverwrite
    BY DEF CarefulInv, EditInv
<1> QED BY <1>1, CarefulInvariant, PTL

=============================================================================
