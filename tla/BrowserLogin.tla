---------------------------- MODULE BrowserLogin ----------------------------
(***************************************************************************)
(* The browser login of one publishing platform: the row of                *)
(* browser_connections, and the browser sessions and signed-in profiles    *)
(* that Skyvern keeps for it.  Nothing but the row knows their names, and  *)
(* a session has no timeout.  Every request is a process: its transactions *)
(* and its calls of the runner are steps of their own.                     *)
(***************************************************************************)
EXTENDS Integers, Sequences, FiniteSets

CONSTANTS
    BrowserClients,   (* requests that may be under way at the same time     *)
    BrowserScopes,    (* what a behaviour exercises                          *)
    MaxSessions,      (* bound: browser sessions opened                      *)
    MaxBrowserFaults  (* bound: crashes and calls of the runner that fail    *)

BrowserOps == {"start", "complete", "disconnect", "expire"}
BrowserRisks == {"outage", "lost", "foreign", "crash", "torn", "two_requests",
                 "complete_too"}

ASSUME BrowserAssumption ==
    /\ BrowserScopes \subseteq SUBSET (BrowserOps \cup BrowserRisks)
    /\ {MaxSessions, MaxBrowserFaults} \subseteq Nat

VARIABLES
    browserScope,  (* the operations and risks of this behaviour             *)
    link,          (* the row of browser_connections, "none" without one     *)
    sessions,      (* the browser sessions opened so far                     *)
    profiles,      (* the browser profiles made so far                       *)
    calls,         (* requests under way                                     *)
    mishaps        (* faults so far                                          *)

browserVars == <<browserScope, link, sessions, profiles, calls, mishaps>>
skyvernVars == <<sessions, profiles>>

-----------------------------------------------------------------------------

Link == [status: {"none", "waiting_for_login", "verifying", "connected", "failed"},
         session: 0..MaxSessions, profile: 0..MaxSessions]
Session == [open: BOOLEAN, signed: BOOLEAN, profile: 0..MaxSessions]
Profile == {"empty", "signed", "expired", "deleted"}
BrowserCall == [kind: {"none", "start", "complete", "disconnect"},
                pc: {"idle", "close", "open", "store", "mark", "finish", "unmake", "record",
                     "delete", "erase"},
                session: 0..MaxSessions, profile: 0..MaxSessions,
                out: {"none", "connected", "failed"}]
NoCall == [kind |-> "none", pc |-> "idle", session |-> 0, profile |-> 0, out |-> "none"]
NoLink == [status |-> "none", session |-> 0, profile |-> 0]

BrowserDoes(op) == op \in browserScope
Mishap(op) == BrowserDoes(op) /\ mishaps < MaxBrowserFaults /\ mishaps' = mishaps + 1
MayRequest(c, kind) ==
    /\ BrowserDoes(kind) /\ calls[c] = NoCall
    /\ \A d \in BrowserClients :
          \/ calls[d] = NoCall
          \/ BrowserDoes("complete_too")
          \/ BrowserDoes("two_requests") /\ "complete" \notin {kind, calls[d].kind}
Proceed(c, call) == calls' = [calls EXCEPT ![c] = call]
Step(c, pc) == Proceed(c, [calls[c] EXCEPT !.pc = pc])
Done(c) == Proceed(c, NoCall)

-----------------------------------------------------------------------------

(* What Skyvern does.  A session that is closed saves the profile it has   *)
(* loaded; a new profile is made of a session that is closed.              *)
Closed(s) ==
    /\ sessions' = [sessions EXCEPT ![s].open = FALSE]
    /\ LET p == sessions[s].profile IN
       profiles' = IF p # 0 /\ sessions[s].signed /\ profiles[p] # "deleted"
                   THEN [profiles EXCEPT ![p] = "signed"] ELSE profiles

MadeFrom(s) == IF sessions[s].signed THEN "signed" ELSE "empty"

SignIn(s) ==
    /\ s \in DOMAIN sessions /\ sessions[s].open /\ ~sessions[s].signed
    /\ link.session = s /\ link.status = "waiting_for_login"
    /\ sessions' = [sessions EXCEPT ![s].signed = TRUE]
    /\ UNCHANGED <<browserScope, link, profiles, calls, mishaps>>

(* The platform signs the browser out.                                     *)
SignedOut(p) ==
    /\ BrowserDoes("expire") /\ p \in DOMAIN profiles /\ profiles[p] = "signed"
    /\ profiles' = [profiles EXCEPT ![p] = "expired"]
    /\ UNCHANGED <<browserScope, link, sessions, calls, mishaps>>

-----------------------------------------------------------------------------

(* Starting: the session of an unfinished login is closed if it can be.    *)
FirstOfStart(row) == IF row.status = "waiting_for_login" THEN "close" ELSE "open"
BeginStart(c) ==
    /\ MayRequest(c, "start") /\ Len(sessions) < MaxSessions
    /\ Proceed(c, [NoCall EXCEPT !.kind = "start", !.pc = FirstOfStart(link),
                                 !.session = link.session, !.profile = link.profile])
    /\ UNCHANGED <<browserScope, link, skyvernVars, mishaps>>

CloseOld(c) ==
    /\ calls[c].kind = "start" /\ calls[c].pc = "close"
    /\ \/ Closed(calls[c].session) /\ UNCHANGED mishaps
       \/ Mishap("outage") /\ UNCHANGED skyvernVars
    /\ Step(c, "open")
    /\ UNCHANGED <<browserScope, link>>

OpenSession(c) ==
    /\ calls[c].pc = "open" /\ Len(sessions) < MaxSessions
    /\ LET p == calls[c].profile IN
       /\ p # 0 => profiles[p] # "deleted"
       /\ sessions' = Append(sessions, [open |-> TRUE, profile |-> p,
                                        signed |-> p # 0 /\ profiles[p] = "signed"])
    /\ \/ /\ Proceed(c, [calls[c] EXCEPT !.pc = "store", !.session = Len(sessions) + 1])
          /\ UNCHANGED mishaps
       \/ Mishap("lost") /\ Done(c)      (* opened after the answer was due  *)
    /\ UNCHANGED <<browserScope, link, profiles>>

(* 503: no runner, or a profile that Skyvern no longer has.                *)
OpenRefused(c) ==
    /\ calls[c].pc = "open"
    /\ \/ Mishap("outage")
       \/ /\ calls[c].profile # 0 /\ profiles[calls[c].profile] = "deleted"
          /\ UNCHANGED mishaps
    /\ Done(c)
    /\ UNCHANGED <<browserScope, link, skyvernVars>>

StoreSession(c) ==
    /\ calls[c].pc = "store"
    /\ link' = [status |-> "waiting_for_login", session |-> calls[c].session,
                profile |-> calls[c].profile]
    /\ Done(c)
    /\ UNCHANGED <<browserScope, skyvernVars, mishaps>>

-----------------------------------------------------------------------------

(* Completing: close the session, keep its profile, look whether it is     *)
(* signed in.                                                              *)

(* update_browser_connection: a profile that is not given stays, and a row *)
(* that has been erased is an error.                                       *)
Updated(row, status, profile) ==
    [row EXCEPT !.status = status, !.profile = IF profile = 0 THEN @ ELSE profile]
Update(status, profile) ==
    link' = IF link.status = "none" THEN link ELSE Updated(link, status, profile)

BeginComplete(c) ==
    /\ MayRequest(c, "complete") /\ link.status = "waiting_for_login"
    /\ Len(profiles) + Cardinality({d \in BrowserClients : calls[d].kind = "complete"})
            < MaxSessions
    /\ Proceed(c, [NoCall EXCEPT !.kind = "complete", !.pc = "mark",
                                 !.session = link.session, !.profile = link.profile])
    /\ UNCHANGED <<browserScope, link, skyvernVars, mishaps>>

MarkVerifying(c) ==
    /\ calls[c].pc = "mark"
    /\ Update("verifying", 0)
    /\ IF link.status = "none" THEN Done(c) ELSE Step(c, "finish")
    /\ UNCHANGED <<browserScope, skyvernVars, mishaps>>

(* Seeded faults: whatever has a profile is signed in; the state of the    *)
(* profile is stored for the verdict.                                      *)
HasProfile(state) == "connected"
RawState(state) == state
Verified(state) == IF state = "signed" THEN "connected" ELSE "failed"
Recording(c, out, p) ==
    Proceed(c, [calls[c] EXCEPT !.pc = "record", !.out = out, !.profile = p])

FinishReused(c) ==
    /\ calls[c].pc = "finish" /\ calls[c].profile # 0
    /\ Closed(calls[c].session)
    /\ Recording(c, Verified(profiles'[calls[c].profile]), calls[c].profile)
    /\ UNCHANGED <<browserScope, link, mishaps>>
FinishNew(c) ==
    /\ calls[c].pc = "finish" /\ calls[c].profile = 0
    /\ LET s == calls[c].session  state == MadeFrom(s) IN
       /\ sessions' = [sessions EXCEPT ![s].open = FALSE]
       /\ profiles' = Append(profiles, state)
       /\ \/ Recording(c, Verified(state), Len(profiles) + 1) /\ UNCHANGED mishaps
          \/ Mishap("lost") /\ Recording(c, "failed", 0)
    /\ UNCHANGED <<browserScope, link>>
(* A profile of another organization is deleted again, if it can be: a     *)
(* deletion that fails is passed over.                                     *)
FinishForeign(c) ==
    /\ calls[c].pc = "finish" /\ calls[c].profile = 0
    /\ MadeFrom(calls[c].session) = "signed" /\ Mishap("foreign")
    /\ sessions' = [sessions EXCEPT ![calls[c].session].open = FALSE]
    /\ profiles' = Append(profiles, "signed")
    /\ Proceed(c, [calls[c] EXCEPT !.pc = "unmake", !.profile = Len(profiles) + 1])
    /\ UNCHANGED <<browserScope, link>>
DeleteForeign(c) ==
    /\ calls[c].pc = "unmake"
    /\ \/ profiles' = [profiles EXCEPT ![calls[c].profile] = "deleted"] /\ UNCHANGED mishaps
       \/ Mishap("outage") /\ UNCHANGED profiles
    /\ Recording(c, "failed", 0)
    /\ UNCHANGED <<browserScope, link, sessions>>
(* The runner is away, before or after it has closed the session.          *)
FinishFails(c) ==
    /\ calls[c].pc = "finish" /\ Mishap("outage")
    /\ Closed(calls[c].session) \/ UNCHANGED skyvernVars
    /\ Recording(c, "failed", 0)
    /\ UNCHANGED <<browserScope, link>>

Record(c) ==
    /\ calls[c].pc = "record"
    /\ Update(calls[c].out, calls[c].profile)
    /\ Done(c)
    /\ UNCHANGED <<browserScope, skyvernVars, mishaps>>

-----------------------------------------------------------------------------

(* Disconnecting: first what Skyvern keeps, then the row.  The runner is   *)
(* given up on after 70 seconds, Skyvern has 120: what it does after that  *)
(* is done, though the request has failed ("lost").                        *)

DeleteOrErase(profile) == IF profile = 0 THEN "erase" ELSE "delete"
BeginDisconnect(c) ==
    /\ MayRequest(c, "disconnect")
    /\ Proceed(c, [NoCall EXCEPT
          !.kind = "disconnect", !.session = link.session, !.profile = link.profile,
          !.pc = IF link.status = "waiting_for_login" THEN "close"
                 ELSE DeleteOrErase(link.profile)])
    /\ UNCHANGED <<browserScope, link, skyvernVars, mishaps>>

CloseLast(c) ==
    /\ calls[c].kind = "disconnect" /\ calls[c].pc = "close"
    /\ \/ /\ Closed(calls[c].session) /\ UNCHANGED mishaps
          /\ Step(c, DeleteOrErase(calls[c].profile))
       \/ Mishap("lost") /\ Closed(calls[c].session) /\ Done(c)
       \/ Mishap("outage") /\ Done(c) /\ UNCHANGED skyvernVars
    /\ UNCHANGED <<browserScope, link>>

DeleteProfile(c) ==
    /\ calls[c].pc = "delete"
    /\ LET p == calls[c].profile IN
       \/ /\ profiles[p] # "deleted"
          /\ profiles' = [profiles EXCEPT ![p] = "deleted"]
          /\ \/ Step(c, "erase") /\ UNCHANGED mishaps
             \/ Mishap("lost") /\ Done(c)
       \/ /\ \/ profiles[p] = "deleted" /\ UNCHANGED mishaps
             \/ Mishap("outage")
          /\ Done(c)
          /\ UNCHANGED profiles
    /\ UNCHANGED <<browserScope, link, sessions>>

EraseLink(c) ==
    /\ calls[c].pc = "erase"
    /\ link' = NoLink
    /\ Done(c)
    /\ UNCHANGED <<browserScope, skyvernVars, mishaps>>

(* The API dies.  "torn" is a death between a change at Skyvern and the    *)
(* transaction that tells of it.                                           *)
BrowserCrash ==
    /\ \E c \in BrowserClients : calls[c] # NoCall
    /\ Mishap("crash")
    /\ \A c \in BrowserClients :
          BrowserDoes("torn") \/ calls[c].pc \notin {"store", "unmake", "record", "erase"}
    /\ calls' = [c \in BrowserClients |-> NoCall]
    /\ UNCHANGED <<browserScope, link, skyvernVars>>

-----------------------------------------------------------------------------

BrowserInit ==
    /\ browserScope \in BrowserScopes
    /\ link = NoLink /\ sessions = <<>> /\ profiles = <<>>
    /\ calls = [c \in BrowserClients |-> NoCall] /\ mishaps = 0

BrowserStep(c) ==
    \/ CloseOld(c) \/ OpenSession(c) \/ OpenRefused(c) \/ StoreSession(c)
    \/ MarkVerifying(c) \/ FinishReused(c) \/ FinishNew(c) \/ FinishForeign(c)
    \/ DeleteForeign(c) \/ FinishFails(c) \/ Record(c) \/ CloseLast(c) \/ DeleteProfile(c)
    \/ EraseLink(c)
BrowserRequest(c) == BeginStart(c) \/ BeginComplete(c) \/ BeginDisconnect(c)
BrowserWorld ==
    \/ \E n \in 1..MaxSessions : SignIn(n) \/ SignedOut(n)
    \/ BrowserCrash
BrowserNext ==
    \/ \E c \in BrowserClients : BrowserStep(c) \/ BrowserRequest(c)
    \/ BrowserWorld

BrowserSpec == BrowserInit /\ [][BrowserNext]_browserVars

(* A request goes on: every call of the runner has a timeout.              *)
BrowserFairness == \A c \in BrowserClients : WF_browserVars(BrowserStep(c))

-----------------------------------------------------------------------------

BrowserTypeOK ==
    /\ browserScope \in BrowserScopes /\ link \in Link
    /\ Len(sessions) <= MaxSessions /\ \A s \in DOMAIN sessions : sessions[s] \in Session
    /\ Len(profiles) <= MaxSessions /\ \A p \in DOMAIN profiles : profiles[p] \in Profile
    /\ calls \in [BrowserClients -> BrowserCall] /\ mishaps \in 0..MaxBrowserFaults

(* What a connected platform publishes with was signed in and is not       *)
(* deleted, but for the moment between the deletion and the erasure.  A    *)
(* disconnection that fails because its deletion is answered too late      *)
(* leaves the row connected, and a completion that overlaps a              *)
(* disconnection and the login after it can bring a deleted profile back.  *)
ConnectedProfileWorks ==
    \/ BrowserDoes("torn")
    \/ BrowserDoes("disconnect") /\ {"lost", "complete_too"} \cap browserScope # {}
    \/ link.status = "connected" =>
          \/ link.profile # 0 /\ profiles[link.profile] \in {"signed", "expired"}
          \/ \E c \in BrowserClients : calls[c].pc = "erase"

(* No profile that is signed in to the user's account is forgotten: the    *)
(* row names it, or a request that is about to.  Failed verifications,     *)
(* failed deletions and new logins all must keep the name; one that was    *)
(* made for another organization and could not be deleted has none.        *)
ProfileIsKnown ==
    \/ {"lost", "torn", "complete_too"} \cap browserScope # {}
    \/ {"foreign", "outage"} \subseteq browserScope
    \/ \A p \in DOMAIN profiles :
          profiles[p] \in {"signed", "expired"} =>
              link.profile = p \/ \E c \in BrowserClients : calls[c].profile = p

(* No browser stays open that nobody can close: it is the one of the login *)
(* that waits, or of a request under way.                                  *)
SessionIsKnown ==
    \/ {"outage", "lost", "torn", "crash", "two_requests", "complete_too"} \cap browserScope # {}
    \/ \A s \in DOMAIN sessions :
          sessions[s].open =>
              \/ link.session = s /\ link.status = "waiting_for_login"
              \/ \E c \in BrowserClients : calls[c].session = s

(* A login that is being verified ends, however the runner fails; only the *)
(* death of the API leaves it so, until another login starts.              *)
VerifyingEnds ==
    "crash" \notin browserScope =>
        (link.status = "verifying" ~> link.status # "verifying")
=============================================================================
