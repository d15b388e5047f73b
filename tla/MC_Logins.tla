----------------------------- MODULE MC_Logins -----------------------------
(* Logins of an agent and of a publishing platform, one in a behaviour.    *)
EXTENDS AgentLogin, BrowserLogin

Anthropic(ops) == [provider |-> "anthropic", ops |-> {"start", "poll"} \cup ops]
OpenAI(ops) == [provider |-> "openai", ops |-> {"start", "poll"} \cup ops]
NoAgent == [provider |-> "openai", ops |-> {}]
AgentScopes ==
    {NoAgent,
     Anthropic({"callback", "cancel", "time"}), OpenAI({"cancel", "time"}),
     Anthropic({"callback", "time", "reject"}), OpenAI({"time", "exit"}),
     OpenAI({"cancel", "time", "slow"}), Anthropic({"callback", "time", "outage"}),
     OpenAI({"time", "restart"}), OpenAI({"time", "crash"}), OpenAI({"time", "late"}),
     OpenAI({"time", "race"}), OpenAI({"time", "two_tabs"}),
     Anthropic({"disconnect", "key", "outage", "crash"}), OpenAI({"disconnect", "overlap"}),
     OpenAI({"oauth", "status", "test"}), Anthropic({"oauth", "status", "code"})}

Platform(ops) == {"start", "complete"} \cup ops
NoPlatform == {}
PlatformScopes ==
    {NoPlatform, Platform({"disconnect", "expire", "outage", "crash"}),
     Platform({"disconnect", "expire", "lost"}), Platform({"disconnect", "foreign"}),
     Platform({"disconnect", "foreign", "outage"}),
     Platform({"disconnect", "expire", "two_requests"}), Platform({"complete_too"})}

Init == /\ LoginInit /\ BrowserInit
        /\ (loginScope = NoAgent) # (browserScope = NoPlatform)

A == UNCHANGED browserVars
B == UNCHANGED loginVars
Next ==
    \/ \E c \in LoginClients :
          \/ \E kind \in Starts : Spawn(c, kind) /\ A
          \/ Register(c) /\ A
          \/ NoAddress(c) /\ A
          \/ StartUnavailable(c) /\ A
          \/ CreateFlow(c) /\ A
          \/ \E kind \in Readers, f \in 1..MaxLogins : ReadFlow(c, kind, f) /\ A
          \/ UpdateFlow(c) /\ A
          \/ \E kind \in Probes : Ask(c, kind) /\ A
          \/ CheckAge(c) /\ A
          \/ Whoami(c) /\ A
          \/ LookAtProcess(c) /\ A
          \/ WhoamiSlow(c) /\ A
          \/ Answer(c) /\ A
          \/ SaveConnection(c) /\ A
          \/ \E p \in 1..MaxLogins : SubmitCode(c, p) /\ A
          \/ Submit(c) /\ A
          \/ Stop(c) /\ A
          \/ Disconnect(c) /\ A
          \/ ClearConnection(c) /\ A
          \/ Logout(c) /\ A
          \/ Unreachable(c) /\ A
    \/ \E n \in 1..MaxLogins :
          \/ Authorize(n) /\ A
          \/ LogIn(n) /\ A
          \/ GiveUp(n) /\ A
          \/ Age(n) /\ A
          \/ Lapse(n) /\ A
    \/ ListActive /\ A
    \/ SaveToken /\ A
    \/ RunnerRestarts /\ A
    \/ ApiRestarts /\ A
    \/ \E c \in BrowserClients :
          \/ BeginStart(c) /\ B
          \/ CloseOld(c) /\ B
          \/ OpenSession(c) /\ B
          \/ OpenRefused(c) /\ B
          \/ StoreSession(c) /\ B
          \/ BeginComplete(c) /\ B
          \/ MarkVerifying(c) /\ B
          \/ FinishReused(c) /\ B
          \/ FinishNew(c) /\ B
          \/ FinishForeign(c) /\ B
          \/ DeleteForeign(c) /\ B
          \/ FinishFails(c) /\ B
          \/ Record(c) /\ B
          \/ BeginDisconnect(c) /\ B
          \/ CloseLast(c) /\ B
          \/ DeleteProfile(c) /\ B
          \/ EraseLink(c) /\ B
    \/ \E n \in 1..MaxSessions :
          \/ SignIn(n) /\ B
          \/ SignedOut(n) /\ B
    \/ BrowserCrash /\ B

Spec == Init /\ [][Next]_<<loginVars, browserVars>>
FairSpec == Spec /\ LoginFairness /\ BrowserFairness
-----------------------------------------------------------------------------

(* What the two tables, the runner and Skyvern hold keeps its type.        *)
TypesOK == LoginTypeOK /\ BrowserTypeOK

(* What is offered as connected works: an agent has a CLI that is logged   *)
(* in, a platform has a profile that is signed in and not deleted.         *)
ConnectedWorks == ConnectedHasLogin /\ ConnectedProfileWorks

(* Nothing is left behind that no request can end: no login process of a   *)
(* CLI, no profile signed in to the user's account, no open browser.       *)
NothingOrphaned == NoOrphanLogin /\ ProfileIsKnown /\ SessionIsKnown

(* A login ends, as connected when it was authorized and nothing fails,    *)
(* and so does the verification of a browser login.                        *)
LoginsEnd == FlowEnds /\ AuthorizedConnects /\ VerifyingEnds
=============================================================================
