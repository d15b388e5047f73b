---------------------------- MODULE LoginProofs ----------------------------
(***************************************************************************)
(* Theorems about the logins, of agents and of publishing platforms, for   *)
(* every number of requests, logins, sessions and faults, and for every    *)
(* choice of operations: types, what is offered as connected works,        *)
(* nothing is left that no request can end, and waiting has an end.        *)
(*                                                                         *)
(* A request of an agent is classified by what its step does to it (Goes)  *)
(* and to the row (Writes); a step of a platform is first described field  *)
(* by field.  The invariants are then argued over those descriptions.      *)
(***************************************************************************)
EXTENDS MC_Logins, SequenceTheorems, FiniteSetTheorems, TLAPS
-----------------------------------------------------------------------------
(* The login of an agent: its invariant.                                   *)

(* A request that stands at a step holds what the step uses: the process   *)
(* it started, the flow it asked about, the answer it was given.  n flows  *)
(* and m processes exist.                                                  *)
Fits(r, n, m) ==
    /\ r.proc \in 0..m
    /\ r.pc = "url" => r.kind \in Starts /\ r.proc \in 1..m
    /\ r.pc = "flow" => r.kind = "start" /\ r.out \in {Waiting, "failed"}
    /\ r.pc \in {"age", "whoami", "look", "answer"} => r.kind \in {"poll"} \cup Probes
    /\ r.pc = "answer" => r.out \in {"connected", "failed", "timed_out", "pending"}
    /\ r.pc = "save" => r.out = "connected"
    /\ r.pc = "update" => r.out \in Outcomes
    /\ (r.pc \in {"stop", "update"} \/ r.kind = "poll") => r.flow \in 1..n
    /\ r.pc = "stop" => r.kind \in {"callback", "cancel"} /\ r.out \in {"canceled", "failed"}
    /\ r.pc \in {"clear", "logout"} => r.kind = "disconnect"
    /\ r.pc = "idle" <=> r.kind = "none"

RequestInv ==
    /\ reqs \in [LoginClients -> Request]
    /\ \A c \in LoginClients : Fits(reqs[c], Len(flows), Len(procs))

TableInv ==
    /\ flows \in Seq(Flow) /\ procs \in Seq(Process)
    /\ \A f \in 1..Len(flows) : flows[f].proc \in 0..Len(procs)
    /\ loginScope \in LoginScopes /\ conn \in Connection
    /\ session \in 0..Len(procs) /\ cli \in BOOLEAN

(* Every process and every flow was paid for by a start, and so is the     *)
(* flow that a start under way will create.                                *)
Promised == {c \in LoginClients : reqs[c].kind = "start" /\ reqs[c].pc \in {"url", "flow"}}
StartsPay ==
    /\ loginSpent \in [starts: 0..MaxLogins, faults: 0..MaxLoginFaults]
    /\ IsFiniteSet(Promised)
    /\ Len(procs) <= loginSpent.starts
    /\ Len(flows) + Cardinality(Promised) <= loginSpent.starts

AgentInv == RequestInv /\ TableInv /\ StartsPay

(* A request that was told of a credential, and is to save it, is right:   *)
(* a disconnection has the field to itself, and the connection does not    *)
(* say "connected" any more when it logs the CLI out.                      *)
ToldConnected(r) == r.pc \in {"answer", "save", "update"} /\ r.out = "connected"
Credible ==
    /\ conn = [status |-> "connected", token |-> "session"] => cli
    /\ \A c \in LoginClients : ToldConnected(reqs[c]) => cli
    /\ \A c \in LoginClients : reqs[c].pc = "logout" => conn.token # "session"
    /\ \A c, d \in LoginClients :
          reqs[c].kind = "disconnect" /\ d # c => reqs[d] = NoRequest
CredentialInv == LoginDoes("overlap") \/ Credible

(* One start at a time; until it has its address no process is registered. *)
Running(p) == procs[p].state # "exited"
Owned ==
    /\ \A p \in 1..Len(procs) : Running(p) =>
          p = session \/ \E c \in LoginClients : reqs[c].pc = "url" /\ reqs[c].proc = p
    /\ \A c \in LoginClients : reqs[c].pc = "url" => session = 0
    /\ \A c, d \in LoginClients :
          reqs[c].kind \in Starts /\ reqs[d].kind \in Starts => c = d
OwnerInv == LoginDoes("two_tabs") \/ Owned

-----------------------------------------------------------------------------
(* The login of a platform: its invariant.                                 *)

SessionNames == 0..Len(sessions)
ProfileNames == 0..Len(profiles)

(* What the row, the sessions and the requests name exists: n sessions, m  *)
(* profiles.                                                               *)
CallFits(k, n, m) ==
    /\ k.session \in 0..n /\ k.profile \in 0..m
    /\ k.pc = "close" => k.session # 0 /\ k.kind \in {"start", "disconnect"}
    /\ k.pc \in {"open", "store"} => k.kind = "start"
    /\ k.pc = "store" => k.session # 0
    /\ k.pc \in {"mark", "finish", "unmake"} => k.session # 0
    /\ k.pc \in {"mark", "finish", "unmake", "record"} <=> k.kind = "complete"
    /\ k.pc = "unmake" => k.profile # 0
    /\ k.pc = "record" => k.out \in {"connected", "failed"}
    /\ k.pc = "record" /\ k.out = "connected" => k.profile # 0
    /\ k.pc = "delete" => k.profile # 0
    /\ k.pc \in {"delete", "erase"} => k.kind = "disconnect"
    /\ k.pc = "idle" <=> k = NoCall
    /\ k.kind = "none" => k = NoCall

ShelfInv ==
    /\ browserScope \in BrowserScopes /\ mishaps \in 0..MaxBrowserFaults
    /\ sessions \in Seq(Session) /\ profiles \in Seq(Profile)
    /\ \A s \in 1..Len(sessions) : sessions[s].profile \in ProfileNames
    /\ link \in Link /\ link.session \in SessionNames /\ link.profile \in ProfileNames
    /\ link.status = "waiting_for_login" => link.session # 0
    /\ link.status = "none" => link = NoLink
CallInv ==
    /\ calls \in [BrowserClients -> BrowserCall]
    /\ \A c \in BrowserClients : CallFits(calls[c], Len(sessions), Len(profiles))

(* A completion that has not finished has room for the profile it may make.*)
Completing == {c \in BrowserClients : calls[c].kind = "complete"}
Unfinished == {c \in BrowserClients : calls[c].pc \in {"mark", "finish"}}
RoomInv ==
    /\ IsFiniteSet(Completing)
    /\ Len(sessions) <= MaxSessions
    /\ Len(profiles) + Cardinality(Unfinished) <= MaxSessions
PlatformInv == ShelfInv /\ CallInv /\ RoomInv

(* What the code does not serialize is left to the scopes; in the others a *)
(* completion has the row to itself.                                       *)
CompletesAlone ==
    BrowserDoes("complete_too") \/
    \A c, d \in BrowserClients : calls[c].kind = "complete" /\ d # c => calls[d] = NoCall

(* A verdict "connected" was given on a profile that stays.                *)
Stays(p) == profiles[p] \in {"signed", "expired"}
VerdictInv ==
    {"complete_too", "disconnect"} \subseteq browserScope \/
    \A c \in BrowserClients :
        calls[c].pc = "record" /\ calls[c].out = "connected" => Stays(calls[c].profile)
DisconnectsAsked ==
    \A c \in BrowserClients : calls[c].kind = "disconnect" => BrowserDoes("disconnect")
WorksInv == ConnectedProfileWorks /\ VerdictInv /\ DisconnectsAsked

(* A foreign profile that is to be deleted again has no other name.        *)
UnmadeInv ==
    \A c \in BrowserClients : calls[c].pc = "unmake" =>
        /\ link.profile # calls[c].profile
        /\ \A d \in BrowserClients : d # c => calls[d].profile # calls[c].profile

(* At most one profile is not deleted, and whoever works for the platform  *)
(* knows it.                                                               *)
Brought(p) == \E c \in BrowserClients :
    calls[c].pc \in {"unmake", "record"} /\ calls[c].profile = p
ProfileInv ==
    \/ {"lost", "torn", "complete_too"} \cap browserScope # {}
    \/ {"foreign", "outage"} \subseteq browserScope
    \/
        /\ \A p \in DOMAIN profiles : profiles[p] # "deleted" =>
              /\ link.profile = p \/ (link.profile = 0 /\ Brought(p))
              /\ \A c \in BrowserClients :
                    calls[c].kind \in {"start", "disconnect"} => calls[c].profile = p
        /\ \A c \in BrowserClients : calls[c].kind = "complete" =>
              /\ link.status # "none"
              /\ calls[c].pc \notin {"unmake", "record"} => calls[c].profile = link.profile
              /\ calls[c].profile # 0 => link.profile \in {0, calls[c].profile}
              /\ calls[c].pc = "unmake" => BrowserDoes("foreign")
        /\ \A c \in BrowserClients :
              calls[c].pc = "erase" /\ calls[c].profile # 0
                  => profiles[calls[c].profile] = "deleted"

(* A request alone, and a browser open only between the answer that opened *)
(* it and the call that closes it.                                         *)
Unfailing == {"outage", "lost", "torn", "crash", "two_requests", "complete_too"} \cap browserScope = {}
SessionInv ==
    Unfailing =>
        /\ \A c, d \in BrowserClients : calls[c] = NoCall \/ calls[d] = NoCall \/ c = d
        /\ \A c \in BrowserClients : calls[c].kind = "complete" => link.status # "none"
        /\ \A s \in DOMAIN sessions : sessions[s].open =>
              \/ /\ link.session = s /\ link.status = "waiting_for_login"
                 /\ \A c \in BrowserClients :
                       calls[c] # NoCall => calls[c].pc \in {"close", "mark"} /\ calls[c].session = s
              \/ \E c \in BrowserClients :
                    calls[c].pc \in {"store", "finish"} /\ calls[c].session = s
-----------------------------------------------------------------------------
(* Sequences and records of the agent's tables.                            *)

LEMMA Remade ==
    ASSUME NEW S, NEW n \in Nat, NEW g \in [1..n -> S]
    PROVE  g \in Seq(S) /\ Len(g) = n
<1>1. [i \in 1..n |-> g[i]] \in Seq(S)
    BY IsASeq
<1>2. g \in Seq(S) /\ DOMAIN g = 1..n
    BY <1>1
<1> QED BY <1>2, LenProperties

(* What Mark does to a table: the flows of the set get the status.         *)
IsMarked(g, fs, set, status) ==
    /\ g \in Seq(Flow) /\ Len(g) = Len(fs)
    /\ \A f \in 1..Len(fs) :
          /\ g[f].proc = fs[f].proc
          /\ g[f].status = IF f \in set THEN status ELSE fs[f].status
          /\ g[f].lapsed = IF f \in set THEN FALSE ELSE fs[f].lapsed

LEMMA Marked ==
    ASSUME NEW fs \in Seq(Flow), NEW set, NEW status \in {Waiting, "deleted"} \cup Outcomes
    PROVE  IsMarked(Mark(fs, set, status), fs, set, status)
<1> DEFINE g == Mark(fs, set, status)
<1>1. /\ DOMAIN fs = 1..Len(fs) /\ Len(fs) \in Nat
      /\ \A f \in 1..Len(fs) : fs[f] \in Flow
    BY LenProperties
<1>2. \A f \in 1..Len(fs) :
         g[f] = IF f \in set THEN [fs[f] EXCEPT !.status = status, !.lapsed = FALSE] ELSE fs[f]
    BY <1>1 DEF Mark
<1>3. \A f \in 1..Len(fs) : g[f] \in Flow
    BY <1>1, <1>2 DEF Flow
<1>4. \A f \in 1..Len(fs) : /\ g[f].proc = fs[f].proc
                            /\ g[f].status = IF f \in set THEN status ELSE fs[f].status
                            /\ g[f].lapsed = IF f \in set THEN FALSE ELSE fs[f].lapsed
    BY <1>1, <1>2 DEF Flow
<1>5. g \in [1..Len(fs) -> Flow]
    BY <1>1, <1>3 DEF Mark
<1>6. g \in Seq(Flow) /\ Len(g) = Len(fs)
    BY <1>1, <1>5, Remade
<1> QED BY <1>4, <1>6 DEF IsMarked

(* What waits stays open, but for what is over and what is marked.         *)
LEMMA Expired ==
    ASSUME NEW fs \in Seq(Flow), NEW cn \in Connection, Expire(fs, cn)
    PROVE  /\ flows' \in Seq(Flow) /\ Len(flows') = Len(fs)
           /\ \A f \in 1..Len(fs) : flows'[f].proc = fs[f].proc
           /\ conn' \in Connection
           /\ conn'.token = cn.token
           /\ conn'.status \in {cn.status, "timed_out"}
           /\ conn'.status = Waiting => cn.status = Waiting /\ Open(flows') = Open(fs)
<1>1. Overdue(fs) = {} => conn' = cn /\ Open(flows') = Open(fs)
    <2>1. SUFFICES ASSUME Overdue(fs) = {} PROVE conn' = cn /\ Open(flows') = Open(fs)
        OBVIOUS
    <2>2. DOMAIN flows' = DOMAIN fs /\ \A f \in DOMAIN fs : flows'[f] = fs[f]
        BY <2>1 DEF Expire, Mark
    <2> QED BY <2>1, <2>2 DEF Expire, Open
<1>2. Overdue(fs) # {} => conn' = [cn EXCEPT !.status = "timed_out"]
    BY DEF Expire
<1>3. "timed_out" \in {Waiting, "deleted"} \cup Outcomes
    BY DEF Outcomes
<1>4. flows' = Mark(fs, Overdue(fs), "timed_out")
    BY DEF Expire
<1>5. /\ flows' \in Seq(Flow) /\ Len(flows') = Len(fs)
      /\ \A f \in 1..Len(fs) : flows'[f].proc = fs[f].proc
    <2>1. IsMarked(flows', fs, Overdue(fs), "timed_out")
        BY <1>3, <1>4, Marked
    <2> QED BY <2>1 DEF IsMarked
<1>6. conn' \in Connection
    BY <1>1, <1>2 DEF Connection, Outcomes
<1>7. conn'.token = cn.token /\ conn'.status \in {cn.status, "timed_out"}
    BY <1>1, <1>2 DEF Connection
<1>8. "timed_out" # Waiting
    BY DEF Waiting
<1>9. Overdue(fs) # {} => conn'.status = "timed_out"
    BY <1>2 DEF Connection
<1> QED BY <1>1, <1>5, <1>6, <1>7, <1>8, <1>9

-----------------------------------------------------------------------------
(* An agent's tables and requests keep their shape.                        *)

LEMMA Lengths ==
    ASSUME AgentInv
    PROVE  /\ Len(flows) \in Nat /\ Len(procs) \in Nat /\ MaxLogins \in Nat
           /\ Len(flows) <= MaxLogins /\ Len(procs) <= MaxLogins
           /\ DOMAIN flows = 1..Len(flows) /\ DOMAIN procs = 1..Len(procs)
           /\ \A f \in 1..Len(flows) : flows[f] \in Flow
           /\ \A p \in 1..Len(procs) : procs[p] \in Process
           /\ loginSpent.starts \in 0..MaxLogins /\ loginSpent.faults \in 0..MaxLoginFaults
<1>1. /\ Len(flows) \in Nat /\ Len(procs) \in Nat
      /\ DOMAIN flows = 1..Len(flows) /\ DOMAIN procs = 1..Len(procs)
      /\ \A f \in 1..Len(flows) : flows[f] \in Flow
      /\ \A p \in 1..Len(procs) : procs[p] \in Process
    BY LenProperties DEF AgentInv, TableInv
<1>2. Cardinality(Promised) \in Nat
    BY FS_CardinalityType DEF AgentInv, StartsPay
<1>3. MaxLogins \in Nat
    BY LoginAssumption
<1>4. loginSpent.starts \in 0..MaxLogins /\ loginSpent.faults \in 0..MaxLoginFaults
    BY DEF AgentInv, StartsPay
<1> QED BY <1>1, <1>2, <1>3, <1>4 DEF AgentInv, StartsPay

LEMMA ReqsMove ==
    ASSUME AgentInv, NEW c \in LoginClients, NEW r \in Request, Send(c, r),
           Len(flows') \in Nat, Len(procs') \in Nat,
           Fits(r, Len(flows'), Len(procs')),
           Len(flows) <= Len(flows'), Len(procs) <= Len(procs')
    PROVE  /\ RequestInv'
           /\ \A d \in LoginClients : reqs'[d] = IF d = c THEN r ELSE reqs[d]
<1>1. reqs' \in [LoginClients -> Request]
    BY DEF Send, AgentInv, RequestInv
<1>2. \A d \in LoginClients : reqs'[d] = IF d = c THEN r ELSE reqs[d]
    BY DEF Send, AgentInv, RequestInv
<1>3. \A d \in LoginClients : Fits(reqs[d], Len(flows'), Len(procs'))
    BY Lengths DEF AgentInv, RequestInv, Fits
<1> QED BY <1>1, <1>2, <1>3 DEF RequestInv

(* Requests that end or move on make no new promises.                      *)
LEMMA PromisesKept ==
    ASSUME AgentInv, Promised' \subseteq Promised, Len(flows') = Len(flows),
           Len(procs') = Len(procs), loginSpent'.starts = loginSpent.starts,
           loginSpent' \in [starts: 0..MaxLogins, faults: 0..MaxLoginFaults]
    PROVE  StartsPay'
<1>1. /\ IsFiniteSet(Promised) /\ Len(procs) <= loginSpent.starts
      /\ Len(flows) + Cardinality(Promised) <= loginSpent.starts
    BY DEF AgentInv, StartsPay
<1>2. IsFiniteSet(Promised') /\ Cardinality(Promised') <= Cardinality(Promised)
    BY <1>1, FS_Subset
<1>3. Cardinality(Promised) \in Nat /\ Cardinality(Promised') \in Nat
    BY <1>1, <1>2, FS_CardinalityType
<1> QED BY <1>1, <1>2, <1>3, Lengths DEF StartsPay

LEMMA PromiseMade ==
    ASSUME AgentInv, NEW c, Promised' \subseteq Promised \cup {c}, Len(flows') = Len(flows),
           Len(procs') \in {Len(procs), Len(procs) + 1},
           loginSpent'.starts = loginSpent.starts + 1,
           loginSpent' \in [starts: 0..MaxLogins, faults: 0..MaxLoginFaults]
    PROVE  StartsPay'
<1>1. /\ IsFiniteSet(Promised) /\ Len(procs) <= loginSpent.starts
      /\ Len(flows) + Cardinality(Promised) <= loginSpent.starts
    BY DEF AgentInv, StartsPay
<1>2. /\ IsFiniteSet(Promised \cup {c})
      /\ Cardinality(Promised \cup {c}) <= Cardinality(Promised) + 1
      /\ Cardinality(Promised) \in Nat
    <2>1. Cardinality(Promised) \in Nat
        BY <1>1, FS_CardinalityType
    <2>2. /\ IsFiniteSet(Promised \cup {c})
          /\ Cardinality(Promised \cup {c}) =
                IF c \in Promised THEN Cardinality(Promised) ELSE Cardinality(Promised) + 1
        BY <1>1, FS_AddElement
    <2> QED BY <2>1, <2>2
<1>3. IsFiniteSet(Promised') /\ Cardinality(Promised') <= Cardinality(Promised \cup {c})
    BY <1>2, FS_Subset
<1>4. Cardinality(Promised') \in Nat /\ Cardinality(Promised \cup {c}) \in Nat
    BY <1>2, <1>3, FS_CardinalityType
<1> QED BY <1>1, <1>2, <1>3, <1>4, Lengths DEF StartsPay

LEMMA PromiseKept ==
    ASSUME AgentInv, NEW c \in Promised, Promised' \subseteq Promised \ {c},
           Len(flows') = Len(flows) + 1, Len(procs') = Len(procs), UNCHANGED loginSpent
    PROVE  StartsPay'
<1>1. /\ IsFiniteSet(Promised) /\ Len(procs) <= loginSpent.starts
      /\ Len(flows) + Cardinality(Promised) <= loginSpent.starts
      /\ loginSpent \in [starts: 0..MaxLogins, faults: 0..MaxLoginFaults]
    BY DEF AgentInv, StartsPay
<1>2. /\ IsFiniteSet(Promised \ {c})
      /\ Cardinality(Promised \ {c}) = Cardinality(Promised) - 1
      /\ Cardinality(Promised) \in Nat
    BY <1>1, FS_RemoveElement, FS_CardinalityType
<1>3. IsFiniteSet(Promised') /\ Cardinality(Promised') <= Cardinality(Promised \ {c})
    BY <1>2, FS_Subset
<1>4. Cardinality(Promised') \in Nat
    BY <1>3, FS_CardinalityType
<1> QED BY <1>1, <1>2, <1>3, <1>4, Lengths DEF StartsPay

(* What a step spends.                                                     *)
Typed(spent) == spent \in [starts: 0..MaxLogins, faults: 0..MaxLoginFaults]

LEMMA Spends ==
    ASSUME AgentInv
    PROVE  /\ Typed(loginSpent)
           /\ \A op : LoginFault(op) =>
                 Typed(loginSpent') /\ loginSpent'.starts = loginSpent.starts
           /\ loginSpent.starts < MaxLogins =>
                 Typed([loginSpent EXCEPT !.starts = @ + 1])
<1>1. MaxLogins \in Nat /\ MaxLoginFaults \in Nat
    BY LoginAssumption
<1> QED BY <1>1 DEF AgentInv, StartsPay, Typed, LoginFault

(* A request that moves on keeps the invariant, if it fits.                *)
LEMMA Keeps ==
    ASSUME AgentInv, NEW c \in LoginClients, NEW r \in Request, Send(c, r),
           r.kind = "start" /\ r.pc \in {"url", "flow"} => c \in Promised,
           Len(flows') = Len(flows), Len(procs') = Len(procs), TableInv',
           Fits(r, Len(flows), Len(procs)),
           Typed(loginSpent'), loginSpent'.starts = loginSpent.starts
    PROVE  AgentInv'
<1>1. /\ RequestInv'
      /\ \A d \in LoginClients : reqs'[d] = IF d = c THEN r ELSE reqs[d]
    BY ReqsMove, Lengths
<1>2. Promised' \subseteq Promised
    BY <1>1 DEF Promised
<1>3. StartsPay'
    BY <1>2, PromisesKept DEF Typed
<1> QED BY <1>1, <1>3 DEF AgentInv

LEMMA Stands ==
    ASSUME AgentInv, UNCHANGED reqs, Len(flows') = Len(flows), Len(procs') = Len(procs),
           TableInv', Typed(loginSpent'), loginSpent'.starts = loginSpent.starts
    PROVE  AgentInv'
<1>1. RequestInv'
    BY Lengths DEF AgentInv, RequestInv
<1>2. Promised' \subseteq Promised
    BY DEF Promised
<1> QED BY <1>1, <1>2, PromisesKept DEF AgentInv, Typed

(* Requests: a record with some fields given.                              *)
LEMMA Calls ==
    ASSUME AgentInv
    PROVE  /\ NoRequest \in Request /\ Fits(NoRequest, Len(flows), Len(procs))
           /\ \A kind \in {"disconnect", "code"} \cup Starts \cup Readers \cup Probes,
                 pc \in {"url", "flow", "age", "answer", "save", "update", "submit",
                         "stop", "clear", "logout"} :
                 /\ Call(kind, pc) \in Request
                 /\ Call(kind, pc).kind = kind /\ Call(kind, pc).pc = pc
                 /\ Call(kind, pc).flow = 0 /\ Call(kind, pc).proc = 0
                 /\ Call(kind, pc).out = "none" /\ Call(kind, pc).evict = FALSE
<1>1. 0 \in 0..MaxLogins
    BY Lengths
<1>2. NoRequest \in Request
    BY <1>1 DEF NoRequest, Request
<1>3. Fits(NoRequest, Len(flows), Len(procs))
    BY Lengths DEF NoRequest, Fits
<1> QED BY <1>2, <1>3 DEF Call, Request, NoRequest

(* The steps of auth_status: each goes on with what it has read, or has    *)
(* the answer, and "connected" only when the CLI is logged in.             *)
Asking == {"age", "whoami", "look"}
Looks(c) == CheckAge(c) \/ Whoami(c) \/ LookAtProcess(c) \/ WhoamiSlow(c)
GoesOn(c, r) ==
    /\ r \in Request /\ Send(c, r)
    /\ reqs[c].pc \in Asking /\ r.pc \in Asking \cup {"answer"}
    /\ r.kind = reqs[c].kind /\ r.flow = reqs[c].flow /\ r.proc \in 0..Len(procs)
    /\ r.pc = "answer" => r.out \in {"connected", "failed", "timed_out", "pending"}
    /\ r.pc = "answer" /\ r.out = "connected" => cli

LEMMA LookingGoesOn ==
    ASSUME AgentInv, NEW c \in LoginClients, Looks(c)
    PROVE  /\ \E r : GoesOn(c, r)
           /\ UNCHANGED <<loginScope, flows, conn, procs, session, cli>>
           /\ Typed(loginSpent') /\ loginSpent'.starts = loginSpent.starts
<1>1. /\ reqs[c] \in Request /\ Fits(reqs[c], Len(flows), Len(procs))
      /\ session \in 0..Len(procs) /\ session \in 0..MaxLogins
      /\ 0 \in 0..Len(procs) /\ 0 \in 0..MaxLogins
    BY Lengths DEF AgentInv, RequestInv, TableInv
<1>2. ASSUME NEW out \in {"connected", "failed", "timed_out", "pending"}, NEW evict \in BOOLEAN,
             Answered(c, out, evict), reqs[c].pc \in Asking, out = "connected" => cli
      PROVE  \E r : GoesOn(c, r)
    <2> DEFINE r == [reqs[c] EXCEPT !.pc = "answer", !.out = out, !.evict = evict, !.proc = 0]
    <2>0. out \in {"none", "pending", Waiting} \cup Outcomes
        BY <1>2 DEF Outcomes
    <2>1. /\ r \in Request /\ r.pc = "answer" /\ r.out = out /\ r.kind = reqs[c].kind
          /\ r.flow = reqs[c].flow /\ r.proc = 0
        BY <1>1, <2>0 DEF Request
    <2>2. Send(c, r)
        BY <1>2 DEF Answered
    <2> HIDE DEF r
    <2> QED BY <1>1, <1>2, <2>1, <2>2 DEF GoesOn
<1>3. ASSUME CheckAge(c) PROVE \E r : GoesOn(c, r)
    <2> DEFINE r == [reqs[c] EXCEPT !.pc = "whoami", !.proc = session]
    <2>1. /\ r \in Request /\ r.pc = "whoami" /\ r.kind = reqs[c].kind
          /\ r.flow = reqs[c].flow /\ r.proc = session
        BY <1>1 DEF Request
    <2>2. reqs[c].pc = "age" /\ (Answered(c, "timed_out", TRUE) \/ Send(c, r))
        BY <1>3 DEF CheckAge
    <2> HIDE DEF r
    <2> QED BY <1>1, <1>2, <2>1, <2>2 DEF GoesOn, Asking
<1>4. ASSUME Whoami(c) PROVE \E r : GoesOn(c, r)
    <2> DEFINE r == [reqs[c] EXCEPT !.pc = "look"]
    <2>1. /\ r \in Request /\ r.pc = "look" /\ r.kind = reqs[c].kind
          /\ r.flow = reqs[c].flow /\ r.proc = reqs[c].proc
        BY <1>1 DEF Request
    <2>2. reqs[c].pc = "whoami" /\ ((cli /\ Answered(c, "connected", TRUE)) \/ Send(c, r))
        BY <1>4 DEF Whoami, Move
    <2> HIDE DEF r
    <2> QED BY <1>1, <1>2, <2>1, <2>2 DEF GoesOn, Asking, Fits
<1>5. ASSUME LookAtProcess(c) PROVE \E r : GoesOn(c, r)
    <2>1. reqs[c].pc = "look" /\ (\/ Answered(c, "pending", FALSE)
                                 \/ Answered(c, "failed", reqs[c].proc # 0))
        BY <1>5 DEF LookAtProcess
    <2> QED BY <1>2, <2>1 DEF Asking
<1>6. ASSUME WhoamiSlow(c) PROVE \E r : GoesOn(c, r)
    <2>1. reqs[c].pc = "whoami" /\ (\/ Answered(c, "timed_out", FALSE)
                                   \/ Answered(c, "pending", FALSE))
        BY <1>6 DEF WhoamiSlow
    <2> QED BY <1>2, <2>1 DEF Asking
<1>7. UNCHANGED <<loginScope, flows, conn, procs, session, cli>>
    BY DEF Looks, CheckAge, Whoami, LookAtProcess, WhoamiSlow, runnerVars
<1>8. Typed(loginSpent') /\ loginSpent'.starts = loginSpent.starts
    BY Spends DEF Looks, CheckAge, Whoami, LookAtProcess, WhoamiSlow
<1> QED BY <1>3, <1>4, <1>5, <1>6, <1>7, <1>8 DEF Looks

LEMMA AsksKeep ==
    ASSUME AgentInv, NEW c \in LoginClients
    PROVE  /\ \A kind \in Probes : Ask(c, kind) => AgentInv'
           /\ Looks(c) => AgentInv'
           /\ \A p \in 1..MaxLogins : SubmitCode(c, p) => AgentInv'
           /\ Disconnect(c) => AgentInv'
<1> USE DEF Starts, Readers, Probes, Outcomes
<1>1. ASSUME NEW kind \in Probes, Ask(c, kind) PROVE AgentInv'
    <2>1. /\ Send(c, Call(kind, "age"))
          /\ UNCHANGED <<loginScope, flows, conn, procs, session, cli, loginSpent>>
        BY <1>1 DEF Ask, runnerVars
    <2>2. Fits(Call(kind, "age"), Len(flows), Len(procs)) /\ Call(kind, "age") \in Request
        BY Calls, Lengths DEF Fits, Asking
    <2>3. Call(kind, "age").kind # "start"
        BY Calls
    <2>4. TableInv'
        BY <2>1 DEF AgentInv, TableInv
    <2> QED BY <2>1, <2>2, <2>3, <2>4, Keeps, Spends
<1>2. ASSUME Looks(c) PROVE AgentInv'
    <2>1. PICK r : GoesOn(c, r)
        BY <1>2, LookingGoesOn
    <2>2. Fits(reqs[c], Len(flows), Len(procs))
        BY DEF AgentInv, RequestInv
    <2>3. Fits(r, Len(flows), Len(procs)) /\ r.pc \notin {"url", "flow"}
        BY <2>1, <2>2 DEF GoesOn, Fits, Asking
    <2>4. TableInv'
        BY <1>2, LookingGoesOn DEF AgentInv, TableInv
    <2> QED BY <1>2, <2>1, <2>3, <2>4, LookingGoesOn, Keeps DEF GoesOn
<1>5. ASSUME NEW p \in 1..MaxLogins, SubmitCode(c, p) PROVE AgentInv'
    <2> DEFINE r == [Call("code", "submit") EXCEPT !.proc = p]
    <2>1. p \in 1..Len(procs)
        BY <1>5, Lengths DEF SubmitCode
    <2>2. r \in Request
        <3>1. Call("code", "submit") \in Request /\ p \in 0..MaxLogins
            BY Calls
        <3> QED BY <3>1 DEF Request
    <2>3. r.kind = "code" /\ r.pc = "submit" /\ r.proc = p
        BY Calls DEF Request
    <2>4. Send(c, r) /\ UNCHANGED <<loginScope, flows, conn, procs, session, cli, loginSpent>>
        BY <1>5 DEF SubmitCode, runnerVars
    <2> HIDE DEF r
    <2>5. Fits(r, Len(flows), Len(procs))
        BY <2>1, <2>3, Lengths DEF Fits
    <2>6. TableInv'
        BY <2>4 DEF AgentInv, TableInv
    <2> QED BY <2>2, <2>3, <2>4, <2>5, <2>6, Keeps, Spends
<1>6. ASSUME Disconnect(c) PROVE AgentInv'
    <2>1. /\ Send(c, Call("disconnect", "clear"))
          /\ flows' = Mark(flows, DOMAIN flows, "deleted")
          /\ UNCHANGED <<loginScope, conn, procs, session, cli, loginSpent>>
        BY <1>6 DEF Disconnect, runnerVars
    <2>2. /\ Fits(Call("disconnect", "clear"), Len(flows), Len(procs))
          /\ Call("disconnect", "clear") \in Request
          /\ Call("disconnect", "clear").kind # "start"
        BY Calls, Lengths DEF Fits
    <2>3. IsMarked(flows', flows, DOMAIN flows, "deleted")
        BY <2>1, Marked DEF AgentInv, TableInv
    <2>4. TableInv' /\ Len(flows') = Len(flows)
        BY <2>1, <2>3, Lengths DEF AgentInv, TableInv, IsMarked
    <2> QED BY <2>1, <2>2, <2>4, Keeps, Spends
<1> QED BY <1>1, <1>2, <1>5, <1>6

(* Flows: what is read, created and settled.                               *)
LEMMA FlowsKeep ==
    ASSUME AgentInv, NEW c \in LoginClients
    PROVE  /\ \A kind \in Readers, f \in 1..MaxLogins : ReadFlow(c, kind, f) => AgentInv'
           /\ CreateFlow(c) => AgentInv'
           /\ UpdateFlow(c) => AgentInv'
           /\ SaveConnection(c) => AgentInv'
           /\ ClearConnection(c) => AgentInv'
<1> USE DEF Starts, Readers, Probes, Outcomes
<1>0. /\ reqs[c] \in Request /\ Fits(reqs[c], Len(flows), Len(procs))
      /\ flows \in Seq(Flow) /\ conn \in Connection
      /\ Typed(loginSpent)
    BY Spends DEF AgentInv, RequestInv, TableInv
<1>1. ASSUME Expire(flows, conn), UNCHANGED <<loginScope, procs, session, cli>>
      PROVE  TableInv' /\ Len(flows') = Len(flows)
    BY <1>0, <1>1, Expired, Lengths DEF AgentInv, TableInv
<1>2. ASSUME NEW kind \in Readers, NEW f \in 1..MaxLogins, ReadFlow(c, kind, f) PROVE AgentInv'
    <2>1. /\ f \in 1..Len(flows) /\ flows[f].proc \in 0..Len(procs)
          /\ Expire(flows, conn)
          /\ UNCHANGED <<loginScope, procs, session, cli, loginSpent>>
        BY <1>2, Lengths DEF ReadFlow, Known, runnerVars, AgentInv, TableInv
    <2>2. TableInv' /\ Len(flows') = Len(flows)
        BY <1>1, <2>1
    <2>3. CASE UNCHANGED reqs
        BY <1>0, <2>1, <2>2, <2>3, Stands
    <2>4. ASSUME NEW first \in FirstStep(kind), Send(c, [first EXCEPT !.flow = f, !.proc = flows[f].proc])
          PROVE  AgentInv'
        <3> DEFINE r == [first EXCEPT !.flow = f, !.proc = flows[f].proc]
        <3>1. /\ first \in Request /\ first.kind = kind
              /\ \/ first.pc = "age" /\ kind = "poll"
                 \/ first.pc = "submit" /\ kind = "callback"
                 \/ first.pc = "stop" /\ first.out \in {"canceled", "failed"} /\ kind # "poll"
            <4>1. CASE kind = "poll"
                BY <2>4, <4>1, Calls DEF FirstStep
            <4>2. CASE kind = "cancel"
                <5>1. first = [Call("cancel", "stop") EXCEPT !.out = "canceled"]
                    BY <2>4, <4>2 DEF FirstStep
                <5>2. Call("cancel", "stop") \in Request /\ Call("cancel", "stop").kind = "cancel"
                      /\ Call("cancel", "stop").pc = "stop"
                    BY Calls
                <5> QED BY <4>2, <5>1, <5>2 DEF Request
            <4>3. CASE kind = "callback"
                <5>1. \/ first = Call("callback", "submit")
                      \/ first = [Call("callback", "stop") EXCEPT !.out = "failed"]
                    BY <2>4, <4>3 DEF FirstStep
                <5>2. \A pc \in {"submit", "stop"} :
                         /\ Call("callback", pc) \in Request
                         /\ Call("callback", pc).kind = "callback" /\ Call("callback", pc).pc = pc
                    BY Calls
                <5> QED BY <4>3, <5>1, <5>2 DEF Request
            <4> QED BY <4>1, <4>2, <4>3
        <3>2. f \in 0..MaxLogins /\ flows[f].proc \in 0..MaxLogins
            BY <2>1, Lengths
        <3>3. r \in Request
            BY <3>1, <3>2 DEF Request
        <3>4. /\ r.kind = kind /\ r.pc = first.pc /\ r.out = first.out
              /\ r.flow = f /\ r.proc = flows[f].proc
            BY <3>1 DEF Request
        <3>5. Send(c, r)
            BY <2>4
        <3> HIDE DEF r
        <3>6. Fits(r, Len(flows), Len(procs)) /\ r.kind # "start"
            BY <2>1, <3>1, <3>4, Lengths DEF Fits
        <3> QED BY <1>0, <2>1, <2>2, <3>3, <3>5, <3>6, Keeps
    <2> QED BY <1>2, <2>3, <2>4 DEF ReadFlow
<1>3. ASSUME CreateFlow(c) PROVE AgentInv'
    <2> DEFINE flow == [status |-> reqs[c].out, proc |-> reqs[c].proc, lapsed |-> FALSE]
               fs == Append(Superseded(flows), flow)
               cn == Starting(conn, reqs[c].out)
    <2>1. /\ reqs[c].pc = "flow" /\ reqs[c].kind = "start" /\ reqs[c].out \in {Waiting, "failed"}
          /\ Expire(fs, cn) /\ Send(c, NoRequest)
          /\ UNCHANGED <<loginScope, procs, session, cli, loginSpent>>
        BY <1>0, <1>3 DEF CreateFlow, Return, runnerVars, Fits
    <2>2. IsMarked(Superseded(flows), flows, Open(flows), "canceled")
        BY <1>0, Marked DEF Superseded
    <2>3. flow \in Flow /\ cn \in Connection
        BY <1>0, <2>1 DEF Flow, Request, Starting, Connection
    <2>4. /\ fs \in Seq(Flow) /\ Len(fs) = Len(flows) + 1
          /\ \A f \in 1..Len(flows) : fs[f] = Superseded(flows)[f]
          /\ fs[Len(flows) + 1] = flow
        BY <2>2, <2>3, AppendProperties DEF IsMarked
    <2>5. \A f \in 1..Len(fs) : fs[f].proc \in 0..Len(procs)
        <3>1. \A f \in 1..Len(flows) : fs[f].proc \in 0..Len(procs)
            BY <2>2, <2>4 DEF IsMarked, AgentInv, TableInv
        <3>2. flow.proc \in 0..Len(procs)
            BY <1>0 DEF Fits
        <3>3. fs[Len(flows) + 1].proc \in 0..Len(procs)
            BY <2>4, <3>2
        <3> HIDE DEF fs, flow
        <3> QED BY <2>4, <3>1, <3>3, Lengths
    <2> HIDE DEF flow, fs, cn
    <2>6. /\ flows' \in Seq(Flow) /\ Len(flows') = Len(flows) + 1 /\ conn' \in Connection
          /\ \A f \in 1..Len(flows') : flows'[f].proc \in 0..Len(procs)
        BY <2>1, <2>3, <2>4, <2>5, Expired
    <2>7. TableInv'
        BY <2>1, <2>6 DEF AgentInv, TableInv
    <2>8. Fits(NoRequest, Len(flows'), Len(procs')) /\ NoRequest \in Request
        BY Calls DEF Fits, NoRequest
    <2>9. /\ RequestInv'
          /\ \A d \in LoginClients : reqs'[d] = IF d = c THEN NoRequest ELSE reqs[d]
        BY <2>1, <2>6, <2>8, ReqsMove, Lengths
    <2>10. c \in Promised /\ Promised' \subseteq Promised \ {c}
        BY <2>1, <2>9 DEF Promised, NoRequest
    <2> QED BY <2>1, <2>6, <2>7, <2>9, <2>10, PromiseKept DEF AgentInv
<1>4. ASSUME UpdateFlow(c) PROVE AgentInv'
    <2>1. /\ reqs[c].out \in Outcomes /\ Send(c, NoRequest)
          /\ UNCHANGED <<loginScope, procs, session, cli, loginSpent>>
        BY <1>0, <1>4 DEF UpdateFlow, Return, runnerVars, Fits
    <2>2. CASE UNCHANGED <<flows, conn>>
        <3>1. TableInv' /\ Len(flows') = Len(flows)
            BY <2>1, <2>2 DEF AgentInv, TableInv
        <3> QED BY <1>0, <2>1, <3>1, Keeps, Calls DEF NoRequest
    <2>3. CASE Expire(Mark(flows, {reqs[c].flow}, reqs[c].out), [conn EXCEPT !.status = reqs[c].out])
        <3> DEFINE fs == Mark(flows, {reqs[c].flow}, reqs[c].out)
                   cn == [conn EXCEPT !.status = reqs[c].out]
        <3>1. IsMarked(fs, flows, {reqs[c].flow}, reqs[c].out)
            BY <1>0, <2>1, Marked
        <3>2. cn \in Connection
            BY <1>0, <2>1 DEF Connection
        <3>3. Expire(fs, cn)
            BY <2>3
        <3> HIDE DEF fs, cn
        <3>4. /\ fs \in Seq(Flow) /\ Len(fs) = Len(flows)
              /\ \A f \in 1..Len(flows) : fs[f].proc = flows[f].proc
            BY <3>1 DEF IsMarked
        <3>5. /\ flows' \in Seq(Flow) /\ Len(flows') = Len(flows) /\ conn' \in Connection
              /\ \A f \in 1..Len(flows) : flows'[f].proc = flows[f].proc
            BY <3>2, <3>3, <3>4, Expired
        <3>6. TableInv' /\ Len(flows') = Len(flows)
            BY <2>1, <3>5 DEF AgentInv, TableInv
        <3> QED BY <1>0, <2>1, <3>6, Keeps, Calls DEF NoRequest
    <2> QED BY <1>4, <2>2, <2>3 DEF UpdateFlow
<1>5. ASSUME SaveConnection(c) PROVE AgentInv'
    <2>1. /\ reqs[c].pc = "save" /\ reqs[c].out = "connected"
          /\ conn' \in Connection /\ UNCHANGED <<loginScope, flows, procs, session, cli, loginSpent>>
        BY <1>0, <1>5 DEF SaveConnection, Fits, Connection, runnerVars
    <2>2. TableInv'
        BY <2>1 DEF AgentInv, TableInv
    <2>3. CASE Return(c)
        BY <1>0, <2>1, <2>2, <2>3, Keeps, Calls DEF Return, NoRequest
    <2>4. CASE reqs[c].kind = "poll" /\ Move(c, "update")
        <3> DEFINE r == [reqs[c] EXCEPT !.pc = "update"]
        <3>1. r \in Request
            BY <1>0 DEF Request
        <3>2. /\ r.kind = reqs[c].kind /\ r.pc = "update" /\ r.out = reqs[c].out
              /\ r.proc = reqs[c].proc /\ r.flow = reqs[c].flow
            BY <1>0 DEF Request
        <3>3. Send(c, r)
            BY <2>4 DEF Move
        <3> HIDE DEF r
        <3>4. Fits(r, Len(flows), Len(procs))
            BY <1>0, <2>1, <2>4, <3>2 DEF Fits
        <3> QED BY <1>0, <2>1, <2>2, <3>1, <3>2, <3>3, <3>4, Keeps
    <2> QED BY <1>5, <2>3, <2>4 DEF SaveConnection
<1>6. ASSUME ClearConnection(c) PROVE AgentInv'
    <2> DEFINE r == [reqs[c] EXCEPT !.pc = "logout"]
    <2>1. /\ reqs[c].pc = "clear" /\ reqs[c].kind = "disconnect" /\ Send(c, r)
          /\ conn' \in Connection /\ UNCHANGED <<loginScope, flows, procs, session, cli, loginSpent>>
        BY <1>0, <1>6 DEF ClearConnection, Fits, Connection, runnerVars, Move
    <2>2. TableInv'
        BY <2>1 DEF AgentInv, TableInv
    <2>3. r \in Request
        BY <1>0 DEF Request
    <2>4. /\ r.kind = reqs[c].kind /\ r.pc = "logout" /\ r.out = reqs[c].out
          /\ r.proc = reqs[c].proc /\ r.flow = reqs[c].flow
        BY <1>0 DEF Request
    <2> HIDE DEF r
    <2>5. Fits(r, Len(flows), Len(procs))
        BY <1>0, <2>1, <2>4 DEF Fits
    <2> QED BY <1>0, <2>1, <2>2, <2>3, <2>4, <2>5, Keeps
<1> QED BY <1>2, <1>3, <1>4, <1>5, <1>6

(* The table of processes.                                                 *)
ProcsStand ==
    /\ procs' \in Seq(Process) /\ Len(procs') = Len(procs)
    /\ session' \in 0..Len(procs) /\ cli' \in BOOLEAN
    /\ UNCHANGED <<loginScope, flows, conn>>

LEMMA ProcsKeep == ASSUME AgentInv, ProcsStand PROVE TableInv'
    BY DEF AgentInv, TableInv, ProcsStand

LEMMA OneProcess ==
    ASSUME AgentInv, NEW p \in 1..Len(procs), NEW x \in Process
    PROVE  /\ [procs EXCEPT ![p] = x] \in Seq(Process)
           /\ Len([procs EXCEPT ![p] = x]) = Len(procs)
    BY ExceptSeq DEF AgentInv, TableInv

LEMMA EndedKeeps ==
    ASSUME AgentInv, NEW p \in 0..Len(procs)
    PROVE  /\ Ended(p) \in Seq(Process) /\ Len(Ended(p)) = Len(procs)
           /\ \A q \in 1..Len(procs) : Ended(p)[q] = IF q = p THEN Gone ELSE procs[q]
<1>1. Gone \in Process
    BY DEF Gone, Process
<1>2. CASE p = 0
    BY <1>2, Lengths DEF Ended, AgentInv, TableInv
<1>3. CASE p # 0
    <2>1. p \in 1..Len(procs)
        BY <1>3, Lengths
    <2>2. /\ [procs EXCEPT ![p] = Gone] \in Seq(Process)
          /\ Len([procs EXCEPT ![p] = Gone]) = Len(procs)
        BY <1>1, <2>1, OneProcess
    <2> QED BY <1>3, <2>2, Lengths DEF Ended
<1> QED BY <1>2, <1>3

LEMMA CancelStands ==
    ASSUME AgentInv, CancelLogin, UNCHANGED <<loginScope, flows, conn>>, cli' \in BOOLEAN
    PROVE  ProcsStand /\ TableInv'
<1>1. session \in 0..Len(procs)
    BY DEF AgentInv, TableInv
<1>2. ProcsStand
    BY <1>1, EndedKeeps, Lengths DEF CancelLogin, ProcsStand
<1> QED BY <1>2, ProcsKeep

(* A request that answers a start.                                         *)
LEMMA StartedKeeps ==
    ASSUME AgentInv, NEW c \in LoginClients, NEW out \in {Waiting, "failed"},
           reqs[c].pc = "url", Started(c, out), ProcsStand,
           Typed(loginSpent'), loginSpent'.starts = loginSpent.starts
    PROVE  AgentInv'
<1>0. reqs[c] \in Request /\ Fits(reqs[c], Len(flows), Len(procs))
    BY DEF AgentInv, RequestInv
<1>1. TableInv' /\ Len(flows') = Len(flows) /\ Len(procs') = Len(procs)
    BY ProcsKeep DEF ProcsStand
<1>2. CASE Return(c)
    BY <1>1, <1>2, Keeps, Calls DEF Return, NoRequest
<1>3. CASE reqs[c].kind = "start" /\ Send(c, [reqs[c] EXCEPT !.pc = "flow", !.out = out])
    <2> DEFINE r == [reqs[c] EXCEPT !.pc = "flow", !.out = out]
    <2>1. r \in Request
        BY <1>0 DEF Request, Outcomes
    <2>2. r.kind = "start" /\ r.pc = "flow" /\ r.out = out /\ r.proc = reqs[c].proc
        BY <1>0, <1>3 DEF Request
    <2>3. Send(c, r)
        BY <1>3
    <2> HIDE DEF r
    <2>4. Fits(r, Len(flows), Len(procs))
        BY <1>0, <2>2 DEF Fits, Starts, Probes
    <2>5. c \in Promised
        BY <1>3 DEF Promised
    <2> QED BY <1>1, <2>1, <2>3, <2>4, <2>5, Keeps
<1> QED BY <1>2, <1>3 DEF Started

LEMMA RunnerKeeps ==
    ASSUME AgentInv, NEW c \in LoginClients
    PROVE  /\ \A kind \in Starts : Spawn(c, kind) => AgentInv'
           /\ Register(c) => AgentInv'
           /\ NoAddress(c) => AgentInv'
           /\ StartUnavailable(c) => AgentInv'
           /\ Answer(c) => AgentInv'
           /\ Submit(c) => AgentInv'
           /\ Stop(c) => AgentInv'
           /\ Logout(c) => AgentInv'
           /\ Unreachable(c) => AgentInv'
<1> USE DEF Starts, Readers, Probes
<1>0. /\ reqs[c] \in Request /\ Fits(reqs[c], Len(flows), Len(procs))
      /\ Typed(loginSpent) /\ session \in 0..Len(procs) /\ cli \in BOOLEAN
    BY Spends DEF AgentInv, RequestInv, TableInv
(* The request goes on to a step where it has what it has. *)
<1>1. ASSUME NEW pc \in {"save", "update"}, NEW out \in Outcomes, reqs[c].pc \in {"age", "answer", "stop"},
             Send(c, [reqs[c] EXCEPT !.pc = pc, !.out = out]),
             reqs[c].kind = "poll" \/ reqs[c].pc = "stop" \/ pc = "save",
             pc = "save" => out = "connected",
             ProcsStand, Typed(loginSpent'), loginSpent'.starts = loginSpent.starts
      PROVE  AgentInv'
    <2> DEFINE r == [reqs[c] EXCEPT !.pc = pc, !.out = out]
    <2>1. r \in Request
        BY <1>0 DEF Request, Outcomes
    <2>2. /\ r.kind = reqs[c].kind /\ r.pc = pc /\ r.out = out
          /\ r.proc = reqs[c].proc /\ r.flow = reqs[c].flow
        BY <1>0 DEF Request
    <2>3. Send(c, r)
        BY <1>1
    <2> HIDE DEF r
    <2>4. Fits(r, Len(flows), Len(procs)) /\ r.pc \notin {"url", "flow"}
        BY <1>0, <1>1, <2>2 DEF Fits
    <2>5. TableInv' /\ Len(flows') = Len(flows) /\ Len(procs') = Len(procs)
        BY <1>1, ProcsKeep DEF ProcsStand
    <2> QED BY <1>1, <2>1, <2>3, <2>4, <2>5, Keeps
<1>2. ASSUME ProcsStand, Return(c), Typed(loginSpent'), loginSpent'.starts = loginSpent.starts
      PROVE  AgentInv'
    <2>1. TableInv' /\ Len(flows') = Len(flows) /\ Len(procs') = Len(procs)
        BY <1>2, ProcsKeep DEF ProcsStand
    <2> QED BY <1>2, <2>1, Keeps, Calls DEF Return, NoRequest
<1>3. ASSUME UNCHANGED <<loginScope, flows, conn, runnerVars>> PROVE ProcsStand
    BY <1>0, <1>3 DEF ProcsStand, runnerVars, AgentInv, TableInv
<1>4. ASSUME NEW kind \in Starts, Spawn(c, kind) PROVE AgentInv'
    <2> DEFINE new == [state |-> "starting", code |-> FALSE, old |-> FALSE]
               r == [Call(kind, "url") EXCEPT !.proc = Len(procs) + 1]
    <2>1. /\ loginSpent.starts < MaxLogins /\ procs' = Append(Ended(session), new)
          /\ session' = 0 /\ Send(c, r)
          /\ loginSpent' = [loginSpent EXCEPT !.starts = @ + 1]
          /\ UNCHANGED <<loginScope, flows, conn, cli>>
        BY <1>4 DEF Spawn, Evicted
    <2>2. new \in Process
        BY DEF Process
    <2>3. procs' \in Seq(Process) /\ Len(procs') = Len(procs) + 1
        BY <1>0, <2>1, <2>2, EndedKeeps, AppendProperties
    <2>4. TableInv'
        BY <1>0, <2>1, <2>3, Lengths DEF AgentInv, TableInv
    <2>5. Len(procs) + 1 \in 0..MaxLogins
        BY <2>1, Lengths DEF AgentInv, StartsPay
    <2>6. r \in Request /\ r.kind = kind /\ r.pc = "url" /\ r.proc = Len(procs) + 1
        <3>1. Call(kind, "url") \in Request /\ Call(kind, "url").kind = kind
              /\ Call(kind, "url").pc = "url"
            BY Calls
        <3> QED BY <2>5, <3>1 DEF Request
    <2> HIDE DEF r
    <2>7. Fits(r, Len(flows'), Len(procs'))
        BY <2>1, <2>3, <2>6, Lengths DEF Fits
    <2>8. /\ RequestInv'
          /\ \A d \in LoginClients : reqs'[d] = IF d = c THEN r ELSE reqs[d]
        BY <2>1, <2>3, <2>6, <2>7, ReqsMove, Lengths
    <2>9. Promised' \subseteq Promised \cup {c}
        BY <2>8 DEF Promised
    <2>10. Typed(loginSpent') /\ loginSpent'.starts = loginSpent.starts + 1
        BY <1>0, <2>1, Spends DEF Typed
    <2>11. StartsPay'
        BY <2>1, <2>3, <2>9, <2>10, PromiseMade DEF Typed
    <2> QED BY <2>4, <2>8, <2>11 DEF AgentInv
<1>5. ASSUME Register(c) PROVE AgentInv'
    <2> DEFINE x == [procs[reqs[c].proc] EXCEPT !.state = "waiting"]
    <2>1. reqs[c].proc \in 1..Len(procs)
        BY <1>0, <1>5 DEF Register, Fits
    <2>2. x \in Process
        BY <2>1, Lengths DEF Process
    <2>3. procs' = [procs EXCEPT ![reqs[c].proc] = x]
        BY <1>5 DEF Register
    <2>4. ProcsStand
        BY <1>0, <1>5, <2>1, <2>2, <2>3, OneProcess, Lengths DEF Register, ProcsStand
    <2> QED BY <1>0, <1>5, <2>4, StartedKeeps DEF Register
<1>6. ASSUME NoAddress(c) PROVE AgentInv'
    <2>1. ProcsStand
        BY <1>0, <1>6, EndedKeeps DEF NoAddress, ProcsStand, Fits
    <2> QED BY <1>0, <1>6, <2>1, StartedKeeps, Spends DEF NoAddress
<1>7. ASSUME StartUnavailable(c) PROVE AgentInv'
    <2> DEFINE r == [Call("start", "flow") EXCEPT !.out = "failed"]
    <2>1. /\ loginSpent.starts < MaxLogins /\ loginSpent.faults < MaxLoginFaults
          /\ loginSpent' = [starts |-> loginSpent.starts + 1, faults |-> loginSpent.faults + 1]
          /\ Send(c, r) /\ UNCHANGED <<loginScope, flows, conn, procs, session, cli>>
        BY <1>7 DEF StartUnavailable, runnerVars
    <2>2. r \in Request /\ r.kind = "start" /\ r.pc = "flow" /\ r.out = "failed" /\ r.proc = 0
        <3>1. Call("start", "flow") \in Request /\ Call("start", "flow").kind = "start"
              /\ Call("start", "flow").pc = "flow" /\ Call("start", "flow").proc = 0
            BY Calls
        <3> QED BY <3>1 DEF Request, Outcomes
    <2> HIDE DEF r
    <2>3. Fits(r, Len(flows'), Len(procs'))
        BY <2>1, <2>2, Lengths DEF Fits
    <2>4. /\ RequestInv'
          /\ \A d \in LoginClients : reqs'[d] = IF d = c THEN r ELSE reqs[d]
        BY <2>1, <2>2, <2>3, ReqsMove, Lengths
    <2>5. Promised' \subseteq Promised \cup {c}
        BY <2>4 DEF Promised
    <2>6. MaxLogins \in Nat /\ MaxLoginFaults \in Nat
        BY LoginAssumption
    <2>7. Typed(loginSpent') /\ loginSpent'.starts = loginSpent.starts + 1
        BY <1>0, <2>1, <2>6 DEF Typed
    <2>8. StartsPay'
        BY <2>1, <2>5, <2>7, PromiseMade DEF Typed
    <2>9. TableInv'
        BY <2>1 DEF AgentInv, TableInv
    <2> QED BY <2>4, <2>8, <2>9 DEF AgentInv
<1>8. ASSUME Answer(c) PROVE AgentInv'
    <2>1. ProcsStand /\ Typed(loginSpent') /\ loginSpent'.starts = loginSpent.starts
        BY <1>0, <1>3, <1>8, CancelStands DEF Answer, runnerVars
    <2>2. /\ reqs[c].pc = "answer" /\ reqs[c].kind \in {"poll", "status", "test"}
          /\ reqs[c].out \in {"connected", "failed", "timed_out", "pending"}
        BY <1>0, <1>8 DEF Answer, Fits
    <2>3. \/ Return(c)
          \/ reqs[c].out = "connected" /\ Move(c, "save")
          \/ reqs[c].out \in {"failed", "timed_out"} /\ reqs[c].kind = "poll" /\ Move(c, "update")
        BY <1>8, <2>2 DEF Answer, Heard
    <2>4. \A pc : Move(c, pc) => Send(c, [reqs[c] EXCEPT !.pc = pc, !.out = reqs[c].out])
        <3>1. \A pc : [reqs[c] EXCEPT !.pc = pc] = [reqs[c] EXCEPT !.pc = pc, !.out = reqs[c].out]
            BY <1>0 DEF Request
        <3> QED BY <3>1 DEF Move
    <2> QED BY <1>1, <1>2, <2>1, <2>2, <2>3, <2>4 DEF Outcomes
<1>9. ASSUME Submit(c) PROVE AgentInv'
    <2>1. CASE Alive(session)
        <3> DEFINE x == [procs[session] EXCEPT !.code = @ \/ reqs[c].proc = session]
        <3>1. session \in 1..Len(procs)
            BY <1>0, <2>1, Lengths DEF Alive
        <3>2. x \in Process
            BY <3>1, Lengths DEF Process
        <3>3. procs' = [procs EXCEPT ![session] = x] /\ UNCHANGED session
            BY <1>9, <2>1 DEF Submit
        <3>4. ProcsStand
            BY <1>0, <1>9, <3>1, <3>2, <3>3, OneProcess DEF Submit, ProcsStand
        <3> QED BY <1>0, <1>2, <1>9, <3>4 DEF Submit
    <2>2. CASE ~Alive(session)
        <3>1. ProcsStand
            BY <1>0, <1>9, <2>2, Lengths DEF Submit, ProcsStand, AgentInv, TableInv
        <3> QED BY <1>0, <1>2, <1>9, <3>1 DEF Submit
    <2> QED BY <2>1, <2>2
<1>10. ASSUME NEW out \in Outcomes, reqs[c].out = out, reqs[c].pc = "stop", Move(c, "update"),
              ProcsStand, Typed(loginSpent'), loginSpent'.starts = loginSpent.starts
       PROVE  AgentInv'
    <2>1. [reqs[c] EXCEPT !.pc = "update"] = [reqs[c] EXCEPT !.pc = "update", !.out = out]
        BY <1>0, <1>10 DEF Request
    <2> QED BY <1>1, <1>10, <2>1 DEF Move
<1>11. ASSUME Stop(c) PROVE AgentInv'
    <2>1. ProcsStand
        BY <1>0, <1>11, CancelStands DEF Stop
    <2>2. reqs[c].out \in Outcomes
        BY <1>0, <1>11 DEF Stop, Fits, Outcomes
    <2> QED BY <1>0, <1>10, <1>11, <2>1, <2>2 DEF Stop
<1>12. ASSUME Logout(c) PROVE AgentInv'
    <2>1. cli' \in BOOLEAN /\ Typed(loginSpent') /\ loginSpent'.starts = loginSpent.starts
        BY <1>0, <1>12, Spends DEF Logout
    <2>2. ProcsStand
        BY <1>12, <2>1, CancelStands DEF Logout
    <2> QED BY <1>2, <1>12, <2>1, <2>2 DEF Logout
<1>13. ASSUME Unreachable(c) PROVE AgentInv'
    <2>1. ProcsStand /\ Typed(loginSpent') /\ loginSpent'.starts = loginSpent.starts
        BY <1>3, <1>13, Spends DEF Unreachable, runnerVars
    <2>2. CASE reqs[c].pc = "age" /\ reqs[c].kind = "poll"
        <3>1. Send(c, [reqs[c] EXCEPT !.pc = "update", !.out = "failed"])
            BY <1>13, <2>2 DEF Unreachable
        <3> QED BY <1>1, <2>1, <2>2, <3>1 DEF Outcomes
    <2>3. CASE reqs[c].pc = "stop"
        <3>1. Move(c, "update")
            BY <1>0, <1>13, <2>3 DEF Unreachable, Fits
        <3>2. reqs[c].out \in Outcomes
            BY <1>0, <2>3 DEF Fits, Outcomes
        <3> QED BY <1>10, <2>1, <2>3, <3>1, <3>2
    <2>4. CASE reqs[c].pc # "stop" /\ ~(reqs[c].pc = "age" /\ reqs[c].kind = "poll")
        <3>1. Return(c)
            BY <1>0, <1>13, <2>4 DEF Unreachable, Fits
        <3> QED BY <1>2, <2>1, <3>1
    <2> QED BY <2>2, <2>3, <2>4
<1> QED BY <1>4, <1>5, <1>6, <1>7, <1>8, <1>9, <1>11, <1>12, <1>13

(* Users, the CLI, time and crashes.                                       *)
LEMMA WorldKeeps == ASSUME AgentInv, LoginWorld PROVE AgentInv'
<1>0. /\ Typed(loginSpent) /\ session \in 0..Len(procs) /\ cli \in BOOLEAN
      /\ flows \in Seq(Flow) /\ conn \in Connection /\ procs \in Seq(Process)
    BY Spends DEF AgentInv, TableInv
<1>1. ASSUME NEW p \in 1..Len(procs), NEW x \in Process, procs' = [procs EXCEPT ![p] = x],
             UNCHANGED <<loginScope, flows, conn, session, reqs>>, cli' \in BOOLEAN,
             Typed(loginSpent'), loginSpent'.starts = loginSpent.starts
      PROVE  AgentInv'
    <2>1. ProcsStand
        BY <1>0, <1>1, OneProcess DEF ProcsStand
    <2> QED BY <1>1, <2>1, ProcsKeep, Stands DEF ProcsStand
<1>2. ASSUME NEW p \in 1..MaxLogins, Authorize(p) \/ LogIn(p) \/ GiveUp(p) \/ Age(p)
      PROVE  AgentInv'
    <2>1. p \in 1..Len(procs) /\ procs[p] \in Process
        BY <1>0, <1>2, Lengths DEF Authorize, LogIn, GiveUp, Age
    <2>2. CASE Authorize(p)
        <3>1. [procs[p] EXCEPT !.code = TRUE] \in Process
            BY <2>1 DEF Process
        <3>2. procs' = [procs EXCEPT ![p] = [procs[p] EXCEPT !.code = TRUE]]
            BY <2>2 DEF Authorize
        <3> QED BY <1>0, <1>1, <2>1, <2>2, <3>1, <3>2 DEF Authorize
    <2>3. CASE Age(p)
        <3>1. [procs[p] EXCEPT !.old = TRUE] \in Process
            BY <2>1 DEF Process
        <3>2. procs' = [procs EXCEPT ![p] = [procs[p] EXCEPT !.old = TRUE]]
            BY <2>3 DEF Age
        <3> QED BY <1>0, <1>1, <2>1, <2>3, <3>1, <3>2 DEF Age
    <2>4. ASSUME NEW state \in {"waiting", "exited"},
                 procs' = [procs EXCEPT ![p].state = state, ![p].code = FALSE]
          PROVE  \E x \in Process : procs' = [procs EXCEPT ![p] = x]
        <3>1. [procs[p] EXCEPT !.state = state, !.code = FALSE] \in Process
            BY <2>1 DEF Process
        <3>2. procs' = [procs EXCEPT ![p] = [procs[p] EXCEPT !.state = state, !.code = FALSE]]
            BY <1>0, <2>1, <2>4, Lengths
        <3> QED BY <3>1, <3>2
    <2>5. CASE LogIn(p)
        BY <1>0, <1>1, <2>1, <2>4, <2>5 DEF LogIn
    <2>6. CASE GiveUp(p)
        BY <1>0, <1>1, <2>1, <2>4, <2>6, Spends DEF GiveUp
    <2> QED BY <1>2, <2>2, <2>3, <2>5, <2>6
<1>3. ASSUME NEW f \in 1..MaxLogins, Lapse(f) PROVE AgentInv'
    <2> DEFINE x == [flows[f] EXCEPT !.lapsed = TRUE]
    <2>1. f \in 1..Len(flows) /\ flows' = [flows EXCEPT ![f] = x]
        BY <1>3, Lengths DEF Lapse, Open
    <2>2. x \in Flow /\ x.proc = flows[f].proc
        BY <2>1, Lengths DEF Flow
    <2>3. flows' \in Seq(Flow) /\ Len(flows') = Len(flows)
        BY <1>0, <2>1, <2>2, ExceptSeq
    <2>4. \A g \in 1..Len(flows) : flows'[g].proc = flows[g].proc
        BY <2>1, <2>2, Lengths
    <2>5. TableInv'
        BY <1>3, <2>3, <2>4 DEF Lapse, runnerVars, AgentInv, TableInv
    <2> QED BY <1>0, <1>3, <2>3, <2>5, Stands DEF Lapse, runnerVars
<1>4. ASSUME Expire(flows, conn), UNCHANGED <<loginScope, procs, session, cli>>
      PROVE  TableInv' /\ Len(flows') = Len(flows)
    BY <1>0, <1>4, Expired, Lengths DEF AgentInv, TableInv
<1>5. ASSUME ListActive PROVE AgentInv'
    BY <1>0, <1>4, <1>5, Stands DEF ListActive, runnerVars
<1>6. ASSUME SaveToken PROVE AgentInv'
    <2>1. TableInv'
        BY <1>6 DEF SaveToken, runnerVars, AgentInv, TableInv, Connection, Outcomes
    <2> QED BY <1>0, <1>6, <2>1, Stands DEF SaveToken, runnerVars
<1>7. ASSUME RunnerRestarts PROVE AgentInv'
    <2>1. /\ Typed(loginSpent') /\ loginSpent'.starts = loginSpent.starts
          /\ UNCHANGED <<loginScope, flows, conn, cli>> /\ session' = 0
          /\ procs' = [p \in 1..Len(procs) |-> Gone]
          /\ reqs' = [c \in LoginClients |->
                        IF reqs[c].pc \in AtTheRunner THEN NoRequest ELSE reqs[c]]
        BY <1>7, Spends, Lengths DEF RunnerRestarts
    <2>2. procs' \in Seq(Process) /\ Len(procs') = Len(procs)
        BY <2>1, Remade, Lengths DEF Gone, Process
    <2>3. TableInv'
        BY <1>0, <2>1, <2>2, Lengths DEF AgentInv, TableInv
    <2>4. RequestInv'
        BY <2>1, <2>2, Calls DEF AgentInv, RequestInv
    <2>5. Promised' \subseteq Promised
        BY <2>1 DEF Promised, NoRequest
    <2> QED BY <2>1, <2>2, <2>3, <2>4, <2>5, PromisesKept DEF AgentInv, Typed
<1>8. ASSUME ApiRestarts PROVE AgentInv'
    <2>1. /\ Typed(loginSpent') /\ loginSpent'.starts = loginSpent.starts
          /\ Expire(flows, conn) /\ UNCHANGED <<loginScope, procs, session, cli>>
          /\ reqs' = [c \in LoginClients |-> Detached(reqs[c])]
        BY <1>8, Spends DEF ApiRestarts, runnerVars
    <2>2. TableInv' /\ Len(flows') = Len(flows)
        BY <1>4, <2>1
    <2>3. ASSUME NEW c \in LoginClients
          PROVE  /\ Detached(reqs[c]) \in Request
                 /\ Fits(Detached(reqs[c]), Len(flows), Len(procs))
                 /\ ~(Detached(reqs[c]).kind = "start" /\ Detached(reqs[c]).pc \in {"url", "flow"})
        <3>1. reqs[c] \in Request /\ Fits(reqs[c], Len(flows), Len(procs))
            BY DEF AgentInv, RequestInv
        <3>2. ASSUME NEW kind \in {"oauth", "test"}, reqs[c].pc \in AtTheRunner,
                     kind = IF reqs[c].pc = "url" THEN "oauth" ELSE "test",
                     NEW r, r = [reqs[c] EXCEPT !.kind = kind]
              PROVE  r \in Request /\ Fits(r, Len(flows), Len(procs)) /\ r.kind = kind
            <4>1. r \in Request
                BY <3>1, <3>2 DEF Request, Starts, Probes
            <4>2. /\ r.kind = kind /\ r.pc = reqs[c].pc /\ r.out = reqs[c].out
                  /\ r.proc = reqs[c].proc /\ r.flow = reqs[c].flow
                BY <3>1, <3>2 DEF Request
            <4> QED BY <3>1, <3>2, <4>1, <4>2 DEF Fits, Starts, Probes, Asking, AtTheRunner
        <3>3. CASE reqs[c].pc = "url"
            <4>1. Detached(reqs[c]) = [reqs[c] EXCEPT !.kind = "oauth"]
                BY <3>3 DEF Detached, AtTheRunner
            <4> QED BY <3>2, <3>3, <4>1 DEF AtTheRunner
        <3>4. CASE reqs[c].pc \in AtTheRunner \ {"url"}
            <4>1. Detached(reqs[c]) = [reqs[c] EXCEPT !.kind = "test"]
                BY <3>4 DEF Detached, AtTheRunner
            <4> QED BY <3>2, <3>4, <4>1 DEF AtTheRunner
        <3>5. CASE reqs[c].pc \notin AtTheRunner
            <4>1. Detached(reqs[c]) = NoRequest
                BY <3>5 DEF Detached, AtTheRunner
            <4> QED BY <4>1, Calls DEF NoRequest
        <3> QED BY <3>3, <3>4, <3>5
    <2>4. RequestInv'
        BY <2>1, <2>2, <2>3 DEF RequestInv
    <2>5. Promised' \subseteq Promised
        BY <2>1, <2>3 DEF Promised
    <2> QED BY <2>1, <2>2, <2>4, <2>5, PromisesKept DEF AgentInv, Typed
<1> QED BY <1>2, <1>3, <1>5, <1>6, <1>7, <1>8 DEF LoginWorld

LEMMA AgentStart == LoginInit => AgentInv
<1> SUFFICES ASSUME LoginInit PROVE AgentInv
    OBVIOUS
<1>1. MaxLogins \in Nat /\ MaxLoginFaults \in Nat /\ Len(<<>>) = 0
    BY LoginAssumption
<1>2. flows = <<>> /\ procs = <<>> /\ <<>> \in Seq(Flow) /\ <<>> \in Seq(Process)
    BY DEF LoginInit
<1>3. NoRequest \in Request /\ Fits(NoRequest, 0, 0)
    BY <1>1 DEF NoRequest, Request, Fits, Starts, Probes, Outcomes
<1>4. RequestInv
    BY <1>1, <1>2, <1>3 DEF LoginInit, RequestInv
<1>5. TableInv
    <2>1. conn \in Connection /\ session \in 0..Len(procs) /\ cli \in BOOLEAN
        <3>1. conn \in Connection /\ session = 0 /\ cli \in BOOLEAN
            BY DEF LoginInit, Connection
        <3> QED BY <1>1, <1>2, <3>1
    <2>2. \A f \in 1..Len(flows) : FALSE
        BY <1>1, <1>2
    <2> QED BY <1>2, <2>1, <2>2 DEF LoginInit, TableInv
<1>6. Promised = {} /\ Cardinality({}) = 0 /\ IsFiniteSet({})
    BY FS_EmptySet DEF LoginInit, Promised, NoRequest
<1>7. StartsPay
    BY <1>1, <1>2, <1>6 DEF LoginInit, StartsPay
<1> QED BY <1>4, <1>5, <1>7 DEF AgentInv

LEMMA AgentSteps == AgentInv /\ [LoginNext]_loginVars => AgentInv'
<1>1. ASSUME AgentInv, LoginNext PROVE AgentInv'
    <2>1. ASSUME NEW c \in LoginClients, LoginStep(c) \/ LoginCall(c) \/ LoginFails(c)
          PROVE  AgentInv'
        <3>1. CASE LoginStep(c)
            BY <1>1, <3>1, AsksKeep, FlowsKeep, RunnerKeeps DEF LoginStep, Looks
        <3>2. CASE LoginCall(c)
            BY <1>1, <3>2, AsksKeep, FlowsKeep, RunnerKeeps DEF LoginCall
        <3>3. CASE LoginFails(c)
            BY <1>1, <3>3, AsksKeep, RunnerKeeps DEF LoginFails, Looks
        <3> QED BY <2>1, <3>1, <3>2, <3>3
    <2> QED BY <1>1, <2>1, WorldKeeps DEF LoginNext
<1>2. ASSUME AgentInv, UNCHANGED loginVars PROVE AgentInv'
    BY <1>2 DEF loginVars, AgentInv, RequestInv, TableInv, StartsPay, Promised
<1> QED BY <1>1, <1>2

LEMMA AgentTyped == AgentInv => LoginTypeOK
    BY Lengths DEF AgentInv, RequestInv, TableInv, StartsPay, LoginTypeOK

-----------------------------------------------------------------------------
(* What the step of a request may do to itself and to the connection.      *)

(* A request ends, goes on as what it is, or arrives when it may; only a   *)
(* new one has a process to start, only one that has cleared the           *)
(* connection logs out, and none is told of a credential that is not there.*)
Goes(c) ==
    /\ \A d \in LoginClients : d # c => reqs'[d] = reqs[d]
    /\ UNCHANGED loginScope
    /\ \/ reqs'[c] = reqs[c] \/ reqs'[c] = NoRequest
       \/ reqs[c].kind # "none" /\ reqs'[c].kind = reqs[c].kind
       \/ reqs[c] = NoRequest /\ MayCall(c, reqs'[c].kind)
    /\ reqs'[c].pc = "url" /\ reqs'[c] # reqs[c] => \E kind \in Starts : Spawn(c, kind)
    /\ reqs'[c].pc = "logout" /\ reqs'[c] # reqs[c] => ClearConnection(c)
    /\ ToldConnected(reqs'[c]) => ToldConnected(reqs[c]) \/ cli
    /\ reqs[c].pc = "clear" /\ reqs'[c].pc # "clear" => ClearConnection(c)
    /\ reqs[c].pc = "url" /\ reqs'[c].pc # "url" => Register(c) \/ NoAddress(c)

(* The connection: a request that was told so connects it, and only one.   *)
Writes(c) ==
    /\ cli' = cli \/ (cli' = FALSE /\ Logout(c))
    /\ conn'.status = "connected" => conn' = conn \/ ToldConnected(reqs[c])
    /\ conn'.token = "session" => conn.token = "session" \/ reqs[c].pc = "save"

LEMMA Sends ==
    ASSUME AgentInv, NEW c \in LoginClients, NEW r, Send(c, r)
    PROVE  reqs'[c] = r /\ \A d \in LoginClients : d # c => reqs'[d] = reqs[d]
    BY DEF AgentInv, RequestInv, Send

LEMMA Moved ==
    ASSUME AgentInv, NEW c \in LoginClients, NEW pc, Move(c, pc)
    PROVE  /\ \A d \in LoginClients : d # c => reqs'[d] = reqs[d]
           /\ reqs'[c].pc = pc /\ reqs'[c].kind = reqs[c].kind /\ reqs'[c].out = reqs[c].out
           /\ reqs'[c].proc = reqs[c].proc
<1>1. reqs[c] \in Request
    BY DEF AgentInv, RequestInv
<1> QED BY <1>1, Sends DEF Move, Request

LEMMA Returned ==
    ASSUME AgentInv, NEW c \in LoginClients, Return(c), UNCHANGED loginScope,
           reqs[c].pc \notin {"clear", "url"}
    PROVE  Goes(c)
    BY Sends DEF Return, NoRequest, Goes, ToldConnected

(* The calls.                                                              *)
LEMMA CallsGo ==
    ASSUME AgentInv, NEW c \in LoginClients, LoginCall(c) \/ StartUnavailable(c)
    PROVE  Goes(c) /\ Writes(c)
<1> USE DEF Starts, Readers, Probes
<1>0. conn \in Connection
    BY DEF AgentInv, TableInv
<1>1. ASSUME NEW r, Send(c, r), MayCall(c, r.kind), UNCHANGED loginScope,
             r.pc \notin {"url", "logout", "answer", "save", "update"}
      PROVE  Goes(c)
    BY <1>1, Sends DEF Goes, MayCall, NoRequest, ToldConnected
<1>2. ASSUME NEW kind \in Starts, Spawn(c, kind) PROVE Goes(c) /\ Writes(c)
    <2>1. /\ reqs'[c].kind = kind /\ reqs'[c].pc = "url"
          /\ \A d \in LoginClients : d # c => reqs'[d] = reqs[d]
        <3>1. Call(kind, "url") \in Request /\ Call(kind, "url").kind = kind /\ Call(kind, "url").pc = "url"
            BY Calls
        <3> QED BY <1>2, <3>1, Sends DEF Spawn, Request
    <2>2. reqs[c] = NoRequest /\ MayCall(c, kind) /\ UNCHANGED <<loginScope, conn, cli>>
        BY <1>2 DEF Spawn, MayCall
    <2>3. Goes(c)
        BY <1>2, <2>1, <2>2 DEF Goes, NoRequest, ToldConnected
    <2> QED BY <2>2, <2>3 DEF Writes
<1>3. ASSUME NEW kind \in Probes, Ask(c, kind) PROVE Goes(c) /\ Writes(c)
    <2>1. Call(kind, "age").kind = kind /\ Call(kind, "age").pc = "age"
        BY Calls
    <2> QED BY <1>1, <1>3, <2>1 DEF Ask, Writes, runnerVars
<1>4. ASSUME NEW p \in 1..MaxLogins, SubmitCode(c, p) PROVE Goes(c) /\ Writes(c)
    <2> DEFINE r == [Call("code", "submit") EXCEPT !.proc = p]
    <2>1. r.kind = "code" /\ r.pc = "submit"
        <3>1. Call("code", "submit") \in Request /\ Call("code", "submit").kind = "code"
              /\ Call("code", "submit").pc = "submit"
            BY Calls
        <3> QED BY <3>1 DEF Request
    <2>2. Send(c, r) /\ MayCall(c, "code") /\ UNCHANGED <<loginScope, conn, cli>>
        BY <1>4 DEF SubmitCode, runnerVars
    <2> HIDE DEF r
    <2> QED BY <1>1, <2>1, <2>2 DEF Writes
<1>5. ASSUME Disconnect(c) PROVE Goes(c) /\ Writes(c)
    <2>1. Call("disconnect", "clear").kind = "disconnect" /\ Call("disconnect", "clear").pc = "clear"
        BY Calls
    <2> QED BY <1>1, <1>5, <2>1 DEF Disconnect, Writes, runnerVars
<1>6. ASSUME StartUnavailable(c) PROVE Goes(c) /\ Writes(c)
    <2> DEFINE r == [Call("start", "flow") EXCEPT !.out = "failed"]
    <2>1. r.kind = "start" /\ r.pc = "flow"
        <3>1. Call("start", "flow") \in Request /\ Call("start", "flow").kind = "start"
              /\ Call("start", "flow").pc = "flow"
            BY Calls
        <3> QED BY <3>1 DEF Request
    <2>2. Send(c, r) /\ MayCall(c, "start") /\ UNCHANGED <<loginScope, conn, cli>>
        BY <1>6 DEF StartUnavailable, runnerVars
    <2> HIDE DEF r
    <2> QED BY <1>1, <2>1, <2>2 DEF Writes
<1>7. ASSUME NEW kind \in Readers, NEW f \in 1..MaxLogins, ReadFlow(c, kind, f)
      PROVE  Goes(c) /\ Writes(c)
    <2>1. /\ MayCall(c, kind) /\ reqs[c] = NoRequest /\ Expire(flows, conn)
          /\ UNCHANGED <<loginScope, cli>>
        BY <1>7 DEF ReadFlow, MayCall, runnerVars
    <2>2. Writes(c)
        BY <1>0, <2>1 DEF Writes, Expire, Connection
    <2>3. CASE UNCHANGED reqs
        BY <2>1, <2>2, <2>3 DEF Goes, ToldConnected
    <2>4. ASSUME NEW first \in FirstStep(kind),
                 Send(c, [first EXCEPT !.flow = f, !.proc = flows[f].proc])
          PROVE  Goes(c)
        <3> DEFINE r == [first EXCEPT !.flow = f, !.proc = flows[f].proc]
        <3>1. ASSUME NEW pc \in {"age", "submit", "stop"}, NEW out,
                     first = [Call(kind, pc) EXCEPT !.out = out]
              PROVE  r.kind = kind /\ r.pc = pc
            <4>1. Call(kind, pc) \in Request /\ Call(kind, pc).kind = kind /\ Call(kind, pc).pc = pc
                BY Calls
            <4> QED BY <3>1, <4>1 DEF Request
        <3>2. ASSUME NEW pc \in {"age", "submit", "stop"}, first = Call(kind, pc)
              PROVE  r.kind = kind /\ r.pc = pc
            <4>1. Call(kind, pc) \in Request /\ Call(kind, pc).kind = kind /\ Call(kind, pc).pc = pc
                BY Calls
            <4> QED BY <3>2, <4>1 DEF Request
        <3>3. r.kind = kind /\ r.pc \in {"age", "submit", "stop"}
            <4>1. CASE kind = "poll"
                BY <2>4, <4>1, <3>2 DEF FirstStep
            <4>2. CASE kind = "cancel"
                BY <2>4, <4>2, <3>1 DEF FirstStep
            <4>3. CASE kind = "callback"
                BY <2>4, <4>3, <3>1, <3>2 DEF FirstStep
            <4> QED BY <4>1, <4>2, <4>3
        <3>4. Send(c, r)
            BY <2>4
        <3> HIDE DEF r
        <3> QED BY <1>1, <2>1, <3>3, <3>4
    <2> QED BY <1>7, <2>2, <2>3, <2>4 DEF ReadFlow
<1> QED BY <1>2, <1>3, <1>4, <1>5, <1>6, <1>7 DEF LoginCall

(* The steps.                                                              *)
LEMMA StepsGo ==
    ASSUME AgentInv, NEW c \in LoginClients,
           LoginStep(c) \/ NoAddress(c) \/ WhoamiSlow(c) \/ Unreachable(c)
    PROVE  Goes(c) /\ Writes(c)
<1> USE DEF Starts, Readers, Probes
<1>0. /\ reqs[c] \in Request /\ Fits(reqs[c], Len(flows), Len(procs)) /\ conn \in Connection
      /\ flows \in Seq(Flow)
    BY DEF AgentInv, RequestInv, TableInv
<1>1. ASSUME NEW pc \in {"save", "update", "flow", "answer"}, NEW out,
             Send(c, [reqs[c] EXCEPT !.pc = pc, !.out = out]),
             reqs[c].pc \in {"url", "answer", "stop", "age", "save"},
             pc # "flow" /\ out = "connected" => ToldConnected(reqs[c]) \/ cli,
             reqs[c].pc = "url" => Register(c) \/ NoAddress(c), UNCHANGED loginScope
      PROVE  Goes(c)
    <2>1. /\ reqs'[c].kind = reqs[c].kind /\ reqs'[c].pc = pc /\ reqs'[c].out = out
          /\ \A d \in LoginClients : d # c => reqs'[d] = reqs[d]
        <3> DEFINE r == [reqs[c] EXCEPT !.pc = pc, !.out = out]
        <3>1. r.kind = reqs[c].kind /\ r.pc = pc /\ r.out = out
            BY <1>0 DEF Request
        <3>2. Send(c, r)
            BY <1>1
        <3> HIDE DEF r
        <3> QED BY <3>1, <3>2, Sends
    <2>2. reqs[c].kind # "none"
        BY <1>0, <1>1 DEF Fits
    <2> QED BY <1>1, <2>1, <2>2 DEF Goes, ToldConnected
<1>2. ASSUME NEW pc \in {"save", "update"}, Move(c, pc), UNCHANGED loginScope,
             reqs[c].pc \in {"answer", "stop", "save"},
             reqs[c].out = "connected" => ToldConnected(reqs[c])
      PROVE  Goes(c)
    <2>1. reqs[c].kind # "none"
        BY <1>0, <1>2 DEF Fits
    <2> QED BY <1>2, <2>1, Moved DEF Goes, ToldConnected
<1>3. ASSUME UNCHANGED <<conn, cli>> PROVE Writes(c)
    BY <1>3 DEF Writes
<1>4. ASSUME NEW out, Register(c) \/ NoAddress(c), Started(c, out), reqs[c].pc = "url",
             UNCHANGED loginScope
      PROVE  Goes(c)
    <2>1. CASE Return(c)
        BY <1>4, <2>1, Sends DEF Return, Goes, NoRequest, ToldConnected
    <2> QED BY <1>1, <1>4, <2>1 DEF Started
<1>5. ASSUME Register(c) \/ NoAddress(c) PROVE Goes(c) /\ Writes(c)
    BY <1>3, <1>4, <1>5 DEF Register, NoAddress
<1>6. ASSUME Looks(c) PROVE Goes(c) /\ Writes(c)
    <2>1. PICK r : GoesOn(c, r)
        BY <1>6, LookingGoesOn
    <2>2. UNCHANGED <<loginScope, conn, cli>>
        BY <1>6, LookingGoesOn
    <2>3. reqs'[c] = r /\ \A d \in LoginClients : d # c => reqs'[d] = reqs[d]
        BY <2>1, Sends DEF GoesOn
    <2>4. reqs[c].kind # "none"
        BY <1>0, <2>1 DEF GoesOn, Fits, Asking
    <2> QED BY <1>3, <2>1, <2>2, <2>3, <2>4 DEF GoesOn, Goes, ToldConnected, Asking
<1>7. ASSUME Answer(c) PROVE Goes(c) /\ Writes(c)
    <2>1. /\ reqs[c].pc = "answer" /\ UNCHANGED <<loginScope, conn, cli>>
          /\ reqs[c].kind \in {"poll", "status", "test"}
          /\ reqs[c].out \in {"connected", "failed", "timed_out", "pending"}
        BY <1>0, <1>7 DEF Answer, Fits
    <2>2. \/ Return(c) \/ Move(c, "save") \/ Move(c, "update")
        BY <1>7, <2>1 DEF Answer, Heard
    <2> QED BY <1>2, <1>3, <2>1, <2>2, Returned DEF ToldConnected
<1>8. ASSUME Submit(c) PROVE Goes(c) /\ Writes(c)
    BY <1>3, <1>8, Returned DEF Submit
<1>9. ASSUME Stop(c) PROVE Goes(c) /\ Writes(c)
    <2>1. reqs[c].pc = "stop" /\ Move(c, "update") /\ UNCHANGED <<loginScope, conn, cli>>
        BY <1>9 DEF Stop
    <2>2. reqs[c].out # "connected"
        BY <1>0, <2>1 DEF Fits
    <2> QED BY <1>2, <1>3, <2>1, <2>2
<1>10. ASSUME Logout(c) PROVE Goes(c) /\ Writes(c)
    BY <1>10, Returned DEF Logout, Writes
<1>11. ASSUME Unreachable(c) PROVE Goes(c) /\ Writes(c)
    <2>1. UNCHANGED <<loginScope, conn, cli>> /\ reqs[c].pc \in {"age", "submit", "stop", "logout"}
        BY <1>11 DEF Unreachable, runnerVars
    <2>2. CASE reqs[c].pc = "age" /\ reqs[c].kind = "poll"
        <3>1. Send(c, [reqs[c] EXCEPT !.pc = "update", !.out = "failed"])
            BY <1>11, <2>2 DEF Unreachable
        <3> QED BY <1>1, <1>3, <2>1, <2>2, <3>1
    <2>3. CASE reqs[c].pc = "stop"
        <3>1. Move(c, "update") /\ reqs[c].out # "connected"
            BY <1>0, <1>11, <2>3 DEF Unreachable, Fits
        <3> QED BY <1>2, <1>3, <2>1, <2>3, <3>1
    <2>4. CASE reqs[c].pc # "stop" /\ ~(reqs[c].pc = "age" /\ reqs[c].kind = "poll")
        <3>1. Return(c)
            BY <1>0, <1>11, <2>4 DEF Unreachable, Fits
        <3> QED BY <1>3, <2>1, <3>1, Returned
    <2> QED BY <2>2, <2>3, <2>4
<1>12. ASSUME CreateFlow(c) PROVE Goes(c) /\ Writes(c)
    <2> DEFINE fs == Append(Superseded(flows), [status |-> reqs[c].out, proc |-> reqs[c].proc,
                                                lapsed |-> FALSE])
               cn == Starting(conn, reqs[c].out)
    <2>1. /\ reqs[c].pc = "flow" /\ Return(c) /\ UNCHANGED <<loginScope, cli>>
          /\ Expire(fs, cn) /\ reqs[c].out # "connected"
        BY <1>0, <1>12 DEF CreateFlow, runnerVars, Fits, Waiting
    <2>2. cn.status = reqs[c].out /\ cn.token = conn.token /\ cn \in Connection
        <3>1. reqs[c].out \in {Waiting, "failed"}
            BY <1>0, <2>1 DEF Fits
        <3> QED BY <1>0, <3>1 DEF Starting, Connection, Outcomes
    <2> HIDE DEF fs, cn
    <2>3. conn'.token = conn.token /\ conn'.status # "connected"
        BY <2>1, <2>2 DEF Expire, Connection
    <2> QED BY <2>1, <2>3, Returned DEF Writes
<1>13. ASSUME UpdateFlow(c) PROVE Goes(c) /\ Writes(c)
    <2> DEFINE fs == Mark(flows, {reqs[c].flow}, reqs[c].out)
               cn == [conn EXCEPT !.status = reqs[c].out]
    <2>1. /\ reqs[c].pc = "update" /\ Return(c) /\ UNCHANGED <<loginScope, cli>>
          /\ (conn' = conn \/ Expire(fs, cn))
          /\ reqs[c].out \in Outcomes
        BY <1>0, <1>13 DEF UpdateFlow, runnerVars, Fits
    <2>2. reqs[c].out \in Outcomes => cn.status = reqs[c].out /\ cn.token = conn.token /\ cn \in Connection
        BY <1>0 DEF Connection
    <2> HIDE DEF fs, cn
    <2>3. /\ conn'.token = conn.token
          /\ conn'.status = "connected" => conn' = conn \/ reqs[c].out = "connected"
        BY <2>1, <2>2 DEF Expire, Connection
    <2> QED BY <2>1, <2>3, Returned DEF Writes, ToldConnected
<1>14. ASSUME SaveConnection(c) PROVE Goes(c) /\ Writes(c)
    <2>1. /\ reqs[c].pc = "save" /\ UNCHANGED <<loginScope, cli>>
          /\ (Return(c) \/ Move(c, "update"))
          /\ reqs[c].out = "connected"
        BY <1>0, <1>14 DEF SaveConnection, runnerVars, Fits
    <2>2. ToldConnected(reqs[c])
        BY <1>0, <2>1 DEF ToldConnected, Fits
    <2>3. Writes(c)
        BY <2>1, <2>2 DEF Writes
    <2> QED BY <1>2, <2>1, <2>2, <2>3, Returned
<1>15. ASSUME ClearConnection(c) PROVE Goes(c) /\ Writes(c)
    <2>1. /\ reqs[c].pc = "clear" /\ reqs[c].kind = "disconnect"
          /\ Move(c, "logout") /\ UNCHANGED <<loginScope, cli>>
          /\ conn' = [status |-> "disconnected", token |-> "none"]
        BY <1>0, <1>15 DEF ClearConnection, runnerVars, Fits
    <2>2. Goes(c)
        BY <1>15, <2>1, Moved DEF Goes, ToldConnected
    <2> QED BY <2>1, <2>2 DEF Writes
<1> QED BY <1>5, <1>6, <1>7, <1>8, <1>9, <1>10, <1>11, <1>12, <1>13, <1>14, <1>15 DEF LoginStep, Looks

-----------------------------------------------------------------------------
(* What is offered as connected is logged in.                              *)

LEMMA WorldWrites ==
    ASSUME AgentInv, LoginWorld
    PROVE  /\ UNCHANGED loginScope
           /\ cli' = cli \/ cli' = TRUE
           /\ conn'.status = "connected" /\ conn'.token = "session" => conn' = conn
           /\ conn'.token = "session" => conn.token = "session"
           /\ \A c \in LoginClients :
                 \/ reqs'[c] = reqs[c] \/ reqs'[c] = NoRequest
                 \/ /\ reqs'[c].pc = reqs[c].pc /\ reqs'[c].out = reqs[c].out
                    /\ reqs'[c].proc = reqs[c].proc
                    /\ reqs[c].pc \in AtTheRunner
                    /\ reqs'[c].kind = IF reqs[c].pc = "url" THEN "oauth" ELSE "test"
<1>0. conn \in Connection
    BY DEF AgentInv, TableInv
<1>1. Expire(flows, conn) => /\ conn'.token = conn.token
                             /\ conn'.status = "connected" => conn' = conn
    BY <1>0 DEF Expire, Connection
<1>2. \A p \in 1..MaxLogins : Authorize(p) \/ LogIn(p) \/ GiveUp(p) \/ Age(p) \/ Lapse(p)
         => UNCHANGED <<loginScope, conn, reqs>> /\ (cli' = cli \/ cli' = TRUE)
    BY DEF Authorize, LogIn, GiveUp, Age, Lapse, runnerVars
<1>3. ListActive => UNCHANGED <<loginScope, cli, reqs>> /\ Expire(flows, conn)
    BY DEF ListActive, runnerVars
<1>4. SaveToken => UNCHANGED <<loginScope, cli, reqs>> /\ conn'.token = "key"
    BY DEF SaveToken, runnerVars
<1>5. ASSUME RunnerRestarts
      PROVE  /\ UNCHANGED <<loginScope, conn, cli>>
             /\ \A c \in LoginClients : reqs'[c] = reqs[c] \/ reqs'[c] = NoRequest
    BY <1>5 DEF RunnerRestarts
<1>6. ASSUME ApiRestarts
      PROVE  /\ UNCHANGED <<loginScope, cli>> /\ Expire(flows, conn)
             /\ \A c \in LoginClients :
                   \/ reqs'[c] = NoRequest
                   \/ /\ reqs'[c].pc = reqs[c].pc /\ reqs'[c].out = reqs[c].out
                      /\ reqs'[c].proc = reqs[c].proc
                      /\ reqs[c].pc \in AtTheRunner
                      /\ reqs'[c].kind = IF reqs[c].pc = "url" THEN "oauth" ELSE "test"
    <2>1. ASSUME NEW c \in LoginClients
          PROVE  \/ reqs'[c] = NoRequest
                 \/ reqs[c].pc = "url" /\ reqs'[c] = [reqs[c] EXCEPT !.kind = "oauth"]
                 \/ /\ reqs[c].pc \in AtTheRunner \ {"url"}
                    /\ reqs'[c] = [reqs[c] EXCEPT !.kind = "test"]
        BY <1>6 DEF ApiRestarts, Detached, AtTheRunner
    <2>2. \A c \in LoginClients : reqs[c] \in Request
        BY DEF AgentInv, RequestInv
    <2>3. UNCHANGED <<loginScope, cli>> /\ Expire(flows, conn)
        BY <1>6 DEF ApiRestarts, runnerVars
    <2>4. ASSUME NEW c \in LoginClients, reqs'[c] # NoRequest
          PROVE  /\ reqs'[c].pc = reqs[c].pc /\ reqs'[c].out = reqs[c].out
                 /\ reqs'[c].proc = reqs[c].proc
                 /\ reqs[c].pc \in AtTheRunner
                 /\ reqs'[c].kind = IF reqs[c].pc = "url" THEN "oauth" ELSE "test"
        <3>1. CASE reqs[c].pc = "url" /\ reqs'[c] = [reqs[c] EXCEPT !.kind = "oauth"]
            BY <2>2, <3>1 DEF Request, AtTheRunner
        <3>2. CASE /\ reqs[c].pc \in AtTheRunner \ {"url"}
                   /\ reqs'[c] = [reqs[c] EXCEPT !.kind = "test"]
            BY <2>2, <3>2 DEF Request
        <3> QED BY <2>1, <2>4, <3>1, <3>2
    <2> QED BY <2>3, <2>4
<1> QED BY <1>1, <1>2, <1>3, <1>4, <1>5, <1>6 DEF LoginWorld

(* A disconnection, or a start, that is alone stays alone.                 *)
LEMMA StaysAlone ==
    ASSUME AgentInv, Credible, ~LoginDoes("overlap"), NEW e \in LoginClients, Goes(e)
    PROVE  \A c, d \in LoginClients :
              reqs'[c].kind = "disconnect" /\ d # c => reqs'[d] = NoRequest
<1>1. ASSUME NEW c \in LoginClients, NEW d \in LoginClients, reqs'[c].kind = "disconnect", d # c
      PROVE  reqs'[d] = NoRequest
    <2>1. CASE c # e /\ d # e
        BY <1>1, <2>1 DEF Goes, Credible
    <2>2. CASE c = e
        <3>1. reqs'[d] = reqs[d]
            BY <1>1, <2>2 DEF Goes
        <3>2. CASE reqs[e].kind = "disconnect"
            BY <1>1, <2>2, <3>1, <3>2 DEF Credible
        <3>3. CASE reqs[e].kind # "disconnect"
            <4>1. MayCall(e, "disconnect")
                BY <1>1, <2>2, <3>3 DEF Goes, NoRequest
            <4> QED BY <3>1, <4>1 DEF MayCall
        <3> QED BY <3>2, <3>3
    <2>3. CASE d = e
        <3>1. reqs[c].kind = "disconnect" /\ reqs[e] = NoRequest
            BY <1>1, <2>3 DEF Goes, Credible
        <3>2. ~MayCall(e, reqs'[e].kind)
            BY <1>1, <2>3, <3>1 DEF MayCall
        <3> QED BY <2>3, <3>1, <3>2 DEF Goes, NoRequest
    <2> QED BY <2>1, <2>2, <2>3
<1> QED BY <1>1

LEMMA CredentialKept ==
    ASSUME AgentInv, CredentialInv, LoginNext, LoginTypeOK'
    PROVE  CredentialInv'
<1>0. UNCHANGED loginScope
    BY CallsGo, StepsGo, WorldWrites DEF LoginNext, LoginFails, Goes
<1> SUFFICES ASSUME ~LoginDoes("overlap"), Credible PROVE Credible'
    BY <1>0 DEF CredentialInv, LoginDoes
<1>1. \A c \in LoginClients : reqs[c].pc = "logout" => reqs[c].kind = "disconnect"
    BY DEF AgentInv, RequestInv, Fits
<1>2. cli \in BOOLEAN /\ cli' \in BOOLEAN
    BY DEF AgentInv, TableInv, LoginTypeOK
<1>3. ASSUME NEW e \in LoginClients, Goes(e), Writes(e) PROVE Credible'
    <2>1. \A c, d \in LoginClients :
             reqs'[c].kind = "disconnect" /\ d # c => reqs'[d] = NoRequest
        BY <1>3, StaysAlone
    <2>2. ASSUME NEW c \in LoginClients, reqs'[c].pc = "logout" PROVE conn'.token # "session"
        <3>1. CASE ClearConnection(e)
            BY <3>1 DEF ClearConnection
        <3>2. CASE ~ClearConnection(e)
            <4>1. reqs[c].pc = "logout"
                BY <1>3, <2>2, <3>2 DEF Goes
            <4>2. c # e => reqs[e] = NoRequest
                BY <1>1, <4>1 DEF Credible
            <4>3. reqs[e].pc # "save"
                BY <4>1, <4>2 DEF NoRequest
            <4> QED BY <1>3, <4>1, <4>3 DEF Writes, Credible
        <3> QED BY <3>1, <3>2
    <2>3. CASE cli' = cli
        <3>1. \A c \in LoginClients : ToldConnected(reqs'[c]) => cli
            BY <1>3 DEF Goes, Credible
        <3>2. conn' = [status |-> "connected", token |-> "session"] => cli
            BY <1>3 DEF Writes, Credible
        <3> QED BY <2>1, <2>2, <2>3, <3>1, <3>2 DEF Credible
    <2>4. CASE Logout(e)
        <3>1. reqs[e].pc = "logout" /\ reqs[e].kind = "disconnect" /\ conn' = conn
            BY <1>1, <2>4 DEF Logout
        <3>2. conn'.token # "session"
            BY <3>1 DEF Credible
        <3>3. reqs'[e] = NoRequest
            BY <2>4, Sends DEF Logout, Return
        <3>4. \A c \in LoginClients : reqs'[c] = NoRequest
            BY <1>3, <3>1, <3>3 DEF Goes, Credible
        <3>5. \A c \in LoginClients : ~ToldConnected(reqs'[c])
            BY <3>4 DEF ToldConnected, NoRequest
        <3> QED BY <2>1, <2>2, <3>2, <3>5 DEF Credible
    <2> QED BY <1>3, <2>3, <2>4 DEF Writes
<1>4. ASSUME LoginWorld PROVE Credible'
    <2>1. \A c \in LoginClients : ToldConnected(reqs'[c]) => cli
        BY <1>4, WorldWrites DEF ToldConnected, NoRequest, Credible
    <2>2. \A c \in LoginClients : reqs'[c].pc = "logout" => reqs[c].pc = "logout"
        BY <1>4, WorldWrites DEF NoRequest
    <2>3. \A c \in LoginClients : reqs'[c].kind = "disconnect" => reqs[c].kind = "disconnect"
        BY <1>4, WorldWrites DEF NoRequest
    <2>4. ASSUME NEW c \in LoginClients, NEW d \in LoginClients, reqs'[c].kind = "disconnect", d # c
          PROVE  reqs'[d] = NoRequest
        <3>1. reqs[d] = NoRequest
            BY <2>3, <2>4 DEF Credible
        <3> QED BY <1>4, <3>1, WorldWrites DEF NoRequest, AtTheRunner
    <2>5. conn' = [status |-> "connected", token |-> "session"] => cli
        BY <1>4, WorldWrites DEF Credible
    <2> QED BY <1>2, <1>4, <2>1, <2>2, <2>4, <2>5, WorldWrites DEF Credible
<1> QED BY <1>3, <1>4, CallsGo, StepsGo DEF LoginNext, LoginFails

-----------------------------------------------------------------------------
(* A connection that waits has a login that waits.                         *)

LEMMA WaitingKept ==
    ASSUME AgentInv, WaitingIsBacked, ~LoginDoes("torn"), LoginNext
    PROVE  WaitingIsBacked'
<1> USE DEF Starts, Readers, Probes
<1>0. /\ conn \in Connection /\ flows \in Seq(Flow)
      /\ \A c \in LoginClients : reqs[c] \in Request /\ Fits(reqs[c], Len(flows), Len(procs))
    BY DEF AgentInv, RequestInv, TableInv
<1> SUFFICES ASSUME conn'.status = Waiting
             PROVE  Open(flows') # {} \/ \E c \in LoginClients : reqs'[c].pc = "clear"
    BY DEF WaitingIsBacked
(* What waited is open still, or whoever disconnects has not cleared it yet. *)
<1>1. ASSUME conn.status = Waiting, Open(flows') = Open(flows),
             \A c \in LoginClients : reqs[c].pc = "clear" => reqs'[c].pc = "clear"
      PROVE  Open(flows') # {} \/ \E c \in LoginClients : reqs'[c].pc = "clear"
    BY <1>1 DEF WaitingIsBacked
<1>2. Expire(flows, conn) => conn.status = Waiting /\ Open(flows') = Open(flows)
    BY <1>0, Expired
<1>3. ASSUME NEW c \in LoginClients, LoginStep(c) \/ LoginCall(c) \/ LoginFails(c)
      PROVE  Open(flows') # {} \/ \E d \in LoginClients : reqs'[d].pc = "clear"
    <2>1. Goes(c)
        BY <1>3, CallsGo, StepsGo DEF LoginFails
    <2>2. ~ClearConnection(c)
        BY DEF ClearConnection, Waiting
    <2>3. \A d \in LoginClients : reqs[d].pc = "clear" => reqs'[d].pc = "clear"
        BY <2>1, <2>2 DEF Goes
    <2>4. CASE UNCHANGED <<flows, conn>> \/ Expire(flows, conn)
        BY <1>1, <1>2, <2>3, <2>4
    <2>5. CASE SaveConnection(c)
        BY <2>5 DEF SaveConnection, Waiting
    <2>6. CASE Disconnect(c)
        <3>1. reqs'[c].pc = "clear"
            BY <2>6, Calls, Sends DEF Disconnect
        <3> QED BY <3>1
    <2>7. CASE UpdateFlow(c)
        <3> DEFINE fs == Mark(flows, {reqs[c].flow}, reqs[c].out)
                   cn == [conn EXCEPT !.status = reqs[c].out]
        <3>1. reqs[c].out \in Outcomes
            BY <1>0, <2>7 DEF UpdateFlow, Fits
        <3>2. cn.status # Waiting /\ cn \in Connection
            BY <1>0, <3>1 DEF Connection, Outcomes, Waiting
        <3>3. ~Expire(fs, cn)
            <4> HIDE DEF fs, cn
            <4>1. Expire(fs, cn) => conn'.status \in {cn.status, "timed_out"}
                BY <3>2 DEF Expire, Connection
            <4> QED BY <3>2, <4>1 DEF Waiting
        <3>4. UNCHANGED <<flows, conn>>
            BY <2>7, <3>3 DEF UpdateFlow
        <3> QED BY <2>4, <3>4
    <2>8. CASE CreateFlow(c)
        <3> DEFINE flow == [status |-> reqs[c].out, proc |-> reqs[c].proc, lapsed |-> FALSE]
                   fs == Append(Superseded(flows), flow)
                   cn == Starting(conn, reqs[c].out)
        <3>1. reqs[c].pc = "flow" /\ reqs[c].out \in {Waiting, "failed"} /\ Expire(fs, cn)
            BY <1>0, <2>8 DEF CreateFlow, Fits
        <3>2. flow \in Flow /\ cn \in Connection /\ cn.status = reqs[c].out
            BY <1>0, <3>1 DEF Flow, Request, Starting, Connection, Outcomes
        <3>3. IsMarked(Superseded(flows), flows, Open(flows), "canceled")
            BY <1>0, Marked DEF Superseded, Outcomes
        <3>4. fs \in Seq(Flow) /\ fs[Len(flows) + 1] = flow /\ Len(fs) = Len(flows) + 1
            BY <3>2, <3>3, AppendProperties DEF IsMarked
        <3>5. Len(flows) + 1 \in DOMAIN fs
            BY <3>4, LenProperties, Lengths
        <3>6. flow.status = reqs[c].out
            OBVIOUS
        <3> HIDE DEF flow, fs, cn
        <3>7. cn.status = Waiting /\ Open(flows') = Open(fs)
            BY <3>1, <3>2, <3>4, Expired
        <3> QED BY <3>2, <3>4, <3>5, <3>6, <3>7 DEF Open
    <2> QED BY <1>3, <2>2, <2>4, <2>5, <2>6, <2>7, <2>8
        DEF LoginStep, LoginCall, LoginFails, Spawn, ReadFlow, Ask, SubmitCode, Register,
            CheckAge, Whoami, LookAtProcess, Answer, Submit, Stop, Logout, StartUnavailable, NoAddress, WhoamiSlow,
            Unreachable
<1>4. ASSUME LoginWorld
      PROVE  Open(flows') # {} \/ \E d \in LoginClients : reqs'[d].pc = "clear"
    <2>1. ASSUME NEW f \in 1..MaxLogins, Lapse(f) PROVE Open(flows') = Open(flows)
        <3>1. f \in DOMAIN flows /\ flows[f] \in Flow /\ flows' = [flows EXCEPT ![f].lapsed = TRUE]
            BY <1>0, <2>1, Lengths DEF Lapse, Open
        <3>2. DOMAIN flows' = DOMAIN flows /\ \A g \in DOMAIN flows : flows'[g].status = flows[g].status
            BY <3>1 DEF Flow
        <3> QED BY <3>2 DEF Open
    <2>2. CASE \E p \in 1..MaxLogins : Authorize(p) \/ LogIn(p) \/ GiveUp(p) \/ Age(p) \/ Lapse(p)
        BY <1>1, <2>1, <2>2 DEF Authorize, LogIn, GiveUp, Age, Lapse
    <2>3. CASE ListActive
        BY <1>1, <1>2, <2>3 DEF ListActive
    <2>4. CASE SaveToken
        BY <2>4 DEF SaveToken, Waiting
    <2>5. CASE RunnerRestarts
        BY <1>1, <2>5 DEF RunnerRestarts, AtTheRunner
    <2>6. CASE ApiRestarts
        BY <1>1, <1>2, <2>6 DEF ApiRestarts
    <2> QED BY <1>4, <2>2, <2>3, <2>4, <2>5, <2>6 DEF LoginWorld
<1> QED BY <1>3, <1>4 DEF LoginNext

-----------------------------------------------------------------------------
(* A login process that runs is the registered one, or is about to be.     *)

(* Steps after which no more processes run, and no start has come or gone. *)
LEMMA Quieter ==
    ASSUME AgentInv, Owned,
           \A p \in 1..Len(procs') :
              procs'[p].state # "exited" => p \in 1..Len(procs) /\ Running(p),
           \/ session' = session
           \/ session' = 0 /\ (session # 0 => procs'[session].state = "exited"),
           \A c \in LoginClients :
              reqs[c].pc = "url" => reqs'[c].pc = "url" /\ reqs'[c].proc = reqs[c].proc,
           \A c \in LoginClients : reqs'[c].pc = "url" => reqs[c].pc = "url",
           \A c, d \in LoginClients :
              reqs'[c].kind \in Starts /\ reqs'[d].kind \in Starts => c = d
    PROVE  Owned'
<1>1. ASSUME NEW p \in 1..Len(procs'), Running(p)'
      PROVE  p = session' \/ \E c \in LoginClients : reqs'[c].pc = "url" /\ reqs'[c].proc = p
    <2>1. p \in 1..Len(procs) /\ Running(p)
        BY <1>1 DEF Running
    <2>2. p = session => session' = session
        BY <1>1, <2>1, Lengths DEF Running
    <2> QED BY <2>1, <2>2 DEF Owned
<1>2. \A c \in LoginClients : reqs'[c].pc = "url" => session' = 0
    BY DEF Owned
<1> QED BY <1>1, <1>2 DEF Owned

LEMMA OneStart ==
    ASSUME AgentInv, Owned, ~LoginDoes("two_tabs"), NEW e \in LoginClients, Goes(e)
    PROVE  \A c, d \in LoginClients :
              reqs'[c].kind \in Starts /\ reqs'[d].kind \in Starts => c = d
<1>1. ASSUME NEW d \in LoginClients, d # e, reqs'[e].kind \in Starts PROVE reqs[d].kind \notin Starts
    <2>1. "none" \notin Starts
        BY DEF Starts
    <2>2. CASE reqs[e].kind \in Starts
        BY <1>1, <2>2 DEF Owned
    <2>3. CASE reqs[e].kind \notin Starts
        <3>1. MayCall(e, reqs'[e].kind)
            BY <1>1, <2>1, <2>3 DEF Goes, NoRequest
        <3> QED BY <1>1, <3>1 DEF MayCall
    <2> QED BY <2>2, <2>3
<1> QED BY <1>1 DEF Goes, Owned

LEMMA OwnerKept ==
    ASSUME AgentInv, OwnerInv, LoginNext
    PROVE  OwnerInv'
<1>0. UNCHANGED loginScope
    BY CallsGo, StepsGo, WorldWrites DEF LoginNext, LoginFails, Goes
<1> SUFFICES ASSUME ~LoginDoes("two_tabs"), Owned PROVE Owned'
    BY <1>0 DEF OwnerInv, LoginDoes
<1>1. /\ session \in 0..Len(procs) /\ procs \in Seq(Process)
      /\ \A c \in LoginClients : reqs[c] \in Request /\ Fits(reqs[c], Len(flows), Len(procs))
    BY DEF AgentInv, RequestInv, TableInv
<1>2. ASSUME CancelLogin
      PROVE  /\ \A p \in 1..Len(procs') :
                   procs'[p].state # "exited" => p \in 1..Len(procs) /\ Running(p)
             /\ session' = 0 /\ (session # 0 => procs'[session].state = "exited")
    BY <1>1, <1>2, EndedKeeps, Lengths DEF CancelLogin, Gone, Running
<1>3. ASSUME NEW c \in LoginClients, NEW kind \in Starts, Spawn(c, kind) PROVE Owned'
    <2> DEFINE new == [state |-> "starting", code |-> FALSE, old |-> FALSE]
    <2>1. /\ MayCall(c, kind) /\ procs' = Append(Ended(session), new) /\ session' = 0
        BY <1>3 DEF Spawn, Evicted
    <2>2. /\ reqs'[c].kind = kind /\ reqs'[c].pc = "url" /\ reqs'[c].proc = Len(procs) + 1
          /\ \A d \in LoginClients : d # c => reqs'[d] = reqs[d]
        <3> DEFINE r == [Call(kind, "url") EXCEPT !.proc = Len(procs) + 1]
        <3>1. Call(kind, "url") \in Request /\ Call(kind, "url").kind = kind /\ Call(kind, "url").pc = "url"
            BY Calls DEF Starts
        <3>2. r.kind = kind /\ r.pc = "url" /\ r.proc = Len(procs) + 1
            BY <3>1 DEF Request
        <3>3. Send(c, r)
            BY <1>3 DEF Spawn
        <3> HIDE DEF r
        <3> QED BY <3>2, <3>3, Sends
    <2>3. \A d \in LoginClients : d # c => reqs[d].kind \notin Starts /\ reqs[d].pc # "url"
        BY <1>1, <2>1 DEF MayCall, Fits
    <2>4. reqs[c].pc # "url"
        BY <2>1 DEF MayCall, NoRequest
    <2>5. \A p \in 1..Len(procs) : Running(p) => p = session
        BY <2>3, <2>4 DEF Owned
    <2>6. /\ Len(procs') = Len(procs) + 1
          /\ \A p \in 1..Len(procs) : procs'[p] = Ended(session)[p]
        <3>1. new \in Process
            BY DEF Process
        <3>2. Ended(session) \in Seq(Process) /\ Len(Ended(session)) = Len(procs)
            BY <1>1, EndedKeeps
        <3> HIDE DEF new
        <3> QED BY <2>1, <3>1, <3>2, AppendProperties
    <2>7. \A p \in 1..Len(procs) : procs'[p].state = "exited"
        BY <1>1, <2>5, <2>6, EndedKeeps DEF Running, Gone
    <2>8. \A p \in 1..Len(procs') : Running(p)' => p = Len(procs) + 1
        BY <2>6, <2>7, Lengths DEF Running
    <2> QED BY <2>1, <2>2, <2>3, <2>8 DEF Owned
<1>4. ASSUME NEW c \in LoginClients, Register(c) \/ NoAddress(c) PROVE Owned'
    <2>1. /\ reqs[c].pc = "url" /\ reqs[c].kind \in Starts /\ reqs[c].proc \in 1..Len(procs)
          /\ session = 0
        BY <1>1, <1>4 DEF Register, NoAddress, Fits, Owned
    <2>2. \A d \in LoginClients : d # c => reqs[d].kind \notin Starts /\ reqs[d].pc # "url"
        BY <1>1, <2>1 DEF Owned, Fits
    <2>3. /\ reqs'[c].pc # "url" /\ \A d \in LoginClients : d # c => reqs'[d] = reqs[d]
        <3>1. ASSUME NEW out, Started(c, out)
              PROVE  reqs'[c].pc # "url" /\ \A d \in LoginClients : d # c => reqs'[d] = reqs[d]
            <4>1. CASE Return(c)
                BY <4>1, Sends DEF Return, NoRequest
            <4>2. CASE Send(c, [reqs[c] EXCEPT !.pc = "flow", !.out = out])
                <5> DEFINE r == [reqs[c] EXCEPT !.pc = "flow", !.out = out]
                <5>1. r.pc = "flow" /\ Send(c, r)
                    BY <1>1, <4>2 DEF Request
                <5> HIDE DEF r
                <5> QED BY <5>1, Sends
            <4> QED BY <3>1, <4>1, <4>2 DEF Started
        <3> QED BY <1>4, <3>1 DEF Register, NoAddress
    <2>4. \A p \in 1..Len(procs) : Running(p) => p = reqs[c].proc
        BY <2>1, <2>2, Lengths DEF Owned
    <2>5. \A d \in LoginClients : reqs'[d].pc # "url"
        BY <2>2, <2>3
    <2>6. \A d \in LoginClients : reqs'[d].kind \in Starts => d = c
        BY <2>2, <2>3
    <2>7. CASE Register(c)
        <3>1. /\ Len(procs') = Len(procs) /\ session' = reqs[c].proc
              /\ \A p \in 1..Len(procs) : p # reqs[c].proc => procs'[p] = procs[p]
            <4>1. procs' = [procs EXCEPT ![reqs[c].proc].state = "waiting"]
                BY <2>7 DEF Register
            <4>2. [procs[reqs[c].proc] EXCEPT !.state = "waiting"] \in Process
                BY <2>1, Lengths DEF Process
            <4>3. Len(procs') = Len(procs)
                BY <2>1, <4>1, <4>2, OneProcess
            <4> QED BY <2>7, <4>1, <4>3, Lengths DEF Register
        <3>2. \A p \in 1..Len(procs') : Running(p)' => p = session'
            BY <2>4, <3>1 DEF Running
        <3> QED BY <2>5, <2>6, <3>2 DEF Owned
    <2>8. CASE NoAddress(c)
        <3>1. /\ Len(procs') = Len(procs)
              /\ \A p \in 1..Len(procs) : procs'[p] = IF p = reqs[c].proc THEN Gone ELSE procs[p]
            BY <2>1, <2>8, EndedKeeps DEF NoAddress
        <3>2. \A p \in 1..Len(procs') : ~Running(p)'
            BY <2>4, <3>1 DEF Running, Gone
        <3> QED BY <2>5, <2>6, <3>2 DEF Owned
    <2> QED BY <1>4, <2>7, <2>8
<1>5. ASSUME NEW c \in LoginClients, Goes(c), ~Register(c), ~NoAddress(c),
             \A kind \in Starts : ~Spawn(c, kind)
      PROVE  /\ \A d \in LoginClients :
                   reqs[d].pc = "url" => reqs'[d].pc = "url" /\ reqs'[d] = reqs[d]
             /\ \A d \in LoginClients : reqs'[d].pc = "url" => reqs[d].pc = "url"
             /\ \A d, f \in LoginClients :
                   reqs'[d].kind \in Starts /\ reqs'[f].kind \in Starts => d = f
    BY <1>5, OneStart DEF Goes
<1>6. ASSUME NEW c \in LoginClients, LoginStep(c) \/ LoginCall(c) \/ LoginFails(c),
             ~Register(c), ~NoAddress(c), \A kind \in Starts : ~Spawn(c, kind)
      PROVE  Owned'
    <2>1. Goes(c)
        BY <1>6, CallsGo, StepsGo DEF LoginFails
    <2>2. CASE UNCHANGED <<procs, session>> \/ CancelLogin
        BY <1>2, <1>5, <1>6, <2>1, <2>2, Quieter DEF Running
    <2>3. CASE Submit(c)
        <3>1. CASE Alive(session)
            <4>1. session \in 1..Len(procs) /\ session' = session
                BY <1>1, <2>3, <3>1, Lengths DEF Alive, Submit
            <4>2. procs' = [procs EXCEPT ![session].code = @ \/ reqs[c].proc = session]
                BY <2>3, <3>1 DEF Submit
            <4>3. [procs[session] EXCEPT !.code = @ \/ reqs[c].proc = session] \in Process
                BY <4>1, Lengths DEF Process
            <4>4. /\ Len(procs') = Len(procs)
                  /\ \A p \in 1..Len(procs) : procs'[p].state = procs[p].state
                BY <4>1, <4>2, <4>3, OneProcess, Lengths DEF Process
            <4> QED BY <1>5, <1>6, <2>1, <4>1, <4>4, Quieter DEF Running
        <3>2. CASE ~Alive(session)
            <4>1. UNCHANGED procs /\ session' = 0 /\ (session # 0 => procs[session].state = "exited")
                BY <2>3, <3>2 DEF Submit, Alive
            <4> QED BY <1>5, <1>6, <2>1, <4>1, Quieter DEF Running
        <3> QED BY <3>1, <3>2
    <2> QED BY <1>6, <2>2, <2>3
        DEF LoginStep, LoginCall, LoginFails, ReadFlow, Ask, SubmitCode, CreateFlow, UpdateFlow,
            SaveConnection, ClearConnection, Disconnect, CheckAge, Whoami, LookAtProcess, Answer,
            Stop, Logout, StartUnavailable, WhoamiSlow, Unreachable, runnerVars
<1>7. ASSUME LoginWorld PROVE Owned'
    <2>1. \A c, d \in LoginClients :
             reqs'[c].kind \in Starts /\ reqs'[d].kind \in Starts => c = d
        <3>1. \A c \in LoginClients : reqs'[c].kind \in Starts => reqs[c].kind \in Starts
            BY <1>1, <1>7, WorldWrites DEF NoRequest, Starts, Fits
        <3> QED BY <3>1 DEF Owned
    <2>2. CASE UNCHANGED <<procs, session>> /\ ~RunnerRestarts
        <3>1. \A c \in LoginClients :
                 /\ reqs[c].pc = "url" => reqs'[c].pc = "url" /\ reqs'[c].proc = reqs[c].proc
                 /\ reqs'[c].pc = "url" => reqs[c].pc = "url"
            <4>1. CASE UNCHANGED reqs
                BY <4>1
            <4>2. CASE ApiRestarts
                <5>1. \A c \in LoginClients : reqs'[c] = Detached(reqs[c])
                    BY <4>2 DEF ApiRestarts
                <5>2. \A c \in LoginClients :
                         reqs[c].pc = "url" => reqs'[c] = [reqs[c] EXCEPT !.kind = "oauth"]
                    BY <5>1 DEF Detached, AtTheRunner
                <5>3. \A c \in LoginClients :
                         reqs[c].pc = "url" => reqs'[c].pc = "url" /\ reqs'[c].proc = reqs[c].proc
                    BY <1>1, <5>2 DEF Request
                <5>4. \A c \in LoginClients : reqs'[c].pc = "url" => reqs[c].pc = "url"
                    BY <1>7, WorldWrites DEF NoRequest
                <5> QED BY <5>3, <5>4
            <4> QED BY <1>7, <2>2, <4>1, <4>2
                DEF LoginWorld, Authorize, LogIn, GiveUp, Age, Lapse, ListActive, SaveToken
        <3> QED BY <2>1, <2>2, <3>1, Quieter DEF Running
    <2>3. CASE RunnerRestarts
        <3>1. procs' = [p \in 1..Len(procs) |-> Gone] /\ session' = 0
            BY <2>3, Lengths DEF RunnerRestarts, AtTheRunner
        <3>2. Len(procs') = Len(procs)
            BY <3>1, Remade, Lengths DEF Gone, Process
        <3>3. \A c \in LoginClients : reqs'[c].pc # "url"
            BY <2>3 DEF RunnerRestarts, AtTheRunner, NoRequest
        <3> QED BY <2>1, <3>1, <3>2, <3>3 DEF Owned, Running, Gone
    <2>4. ASSUME NEW p \in 1..MaxLogins, Authorize(p) \/ LogIn(p) \/ GiveUp(p) \/ Age(p)
          PROVE  Owned'
        <3>1. p \in 1..Len(procs) /\ procs[p] \in Process /\ procs' \in Seq(Process)
            BY <1>1, <1>7, <2>4, Lengths, WorldKeeps
            DEF Authorize, LogIn, GiveUp, Age, AgentInv, TableInv
        <3>2. UNCHANGED <<session, reqs>>
            BY <2>4 DEF Authorize, LogIn, GiveUp, Age
        <3>3. /\ DOMAIN procs' = DOMAIN procs
              /\ \A q \in 1..Len(procs) : q # p => procs'[q] = procs[q]
              /\ procs'[p].state # "exited" => procs[p].state # "exited"
            BY <2>4, <3>1, Lengths DEF Authorize, LogIn, GiveUp, Age, Process
        <3>4. Len(procs') = Len(procs)
            BY <3>1, <3>3, LenProperties, Lengths
        <3> QED BY <2>1, <3>2, <3>3, <3>4, Quieter DEF Running
    <2> QED BY <1>7, <2>2, <2>3, <2>4 DEF LoginWorld, Lapse, ListActive, SaveToken, ApiRestarts, runnerVars
<1> QED BY <1>3, <1>4, <1>6, <1>7 DEF LoginNext

-----------------------------------------------------------------------------
(* A platform's row, sessions, profiles and requests keep their shape.     *)

LEMMA Shelves ==
    ASSUME PlatformInv
    PROVE  /\ Len(sessions) \in Nat /\ Len(profiles) \in Nat /\ MaxSessions \in Nat
           /\ Len(sessions) <= MaxSessions /\ Len(profiles) <= MaxSessions
           /\ DOMAIN sessions = 1..Len(sessions) /\ DOMAIN profiles = 1..Len(profiles)
           /\ \A s \in 1..Len(sessions) : sessions[s] \in Session
           /\ \A p \in 1..Len(profiles) : profiles[p] \in Profile
           /\ IsFiniteSet(Unfinished) /\ Unfinished \subseteq Completing
           /\ Cardinality(Unfinished) \in Nat /\ Cardinality(Completing) \in Nat
           /\ Cardinality(Unfinished) <= Cardinality(Completing)
<1>1. /\ Len(sessions) \in Nat /\ Len(profiles) \in Nat
      /\ DOMAIN sessions = 1..Len(sessions) /\ DOMAIN profiles = 1..Len(profiles)
      /\ \A s \in 1..Len(sessions) : sessions[s] \in Session
      /\ \A p \in 1..Len(profiles) : profiles[p] \in Profile
    BY LenProperties DEF PlatformInv, ShelfInv
<1>2. Unfinished \subseteq Completing
    BY DEF PlatformInv, CallInv, CallFits, Unfinished, Completing
<1>3. IsFiniteSet(Unfinished) /\ Cardinality(Unfinished) <= Cardinality(Completing)
    BY <1>2, FS_Subset DEF PlatformInv, RoomInv
<1>4. Cardinality(Unfinished) \in Nat /\ Cardinality(Completing) \in Nat
    BY <1>3, FS_CardinalityType DEF PlatformInv, RoomInv
<1>5. MaxSessions \in Nat
    BY BrowserAssumption
<1> QED BY <1>1, <1>2, <1>3, <1>4, <1>5 DEF PlatformInv, RoomInv

LEMMA Proceeds ==
    ASSUME PlatformInv, NEW c \in BrowserClients, NEW k \in BrowserCall, Proceed(c, k)
    PROVE  /\ calls' \in [BrowserClients -> BrowserCall]
           /\ calls'[c] = k /\ \A d \in BrowserClients : d # c => calls'[d] = calls[d]
    BY DEF PlatformInv, CallInv, Proceed

(* A request that moves on keeps the invariant, if it fits and takes no    *)
(* more room.                                                              *)
LEMMA CallKeeps ==
    ASSUME PlatformInv, NEW c \in BrowserClients, NEW k \in BrowserCall, Proceed(c, k),
           CallFits(k, Len(sessions'), Len(profiles')), ShelfInv',
           Len(sessions') \in Nat, Len(sessions) <= Len(sessions'), Len(sessions') <= MaxSessions,
           Len(profiles') = Len(profiles),
           k.kind = "complete" => calls[c].kind = "complete",
           k.pc \in {"mark", "finish"} => calls[c].pc \in {"mark", "finish"}
    PROVE  PlatformInv'
<1>1. /\ calls' \in [BrowserClients -> BrowserCall]
      /\ calls'[c] = k /\ \A d \in BrowserClients : d # c => calls'[d] = calls[d]
    BY Proceeds
<1>2. \A d \in BrowserClients : CallFits(calls'[d], Len(sessions'), Len(profiles'))
    <2>1. \A d \in BrowserClients : CallFits(calls[d], Len(sessions), Len(profiles))
        BY DEF PlatformInv, CallInv
    <2> QED BY <1>1, <2>1, Shelves DEF CallFits
<1>3. CallInv'
    BY <1>1, <1>2 DEF CallInv
<1>4. Completing' \subseteq Completing /\ Unfinished' \subseteq Unfinished
    BY <1>1 DEF Completing, Unfinished
<1>5. /\ IsFiniteSet(Completing') /\ IsFiniteSet(Unfinished')
      /\ Cardinality(Unfinished') <= Cardinality(Unfinished) /\ Cardinality(Unfinished') \in Nat
    <2>1. IsFiniteSet(Completing)
        BY DEF PlatformInv, RoomInv
    <2>2. IsFiniteSet(Completing')
        BY <1>4, <2>1, FS_Subset
    <2>3. IsFiniteSet(Unfinished') /\ Cardinality(Unfinished') <= Cardinality(Unfinished)
        BY <1>4, Shelves, FS_Subset
    <2> QED BY <2>2, <2>3, FS_CardinalityType
<1>6. RoomInv'
    BY <1>5, Shelves DEF RoomInv, PlatformInv
<1> QED BY <1>3, <1>6 DEF PlatformInv

(* Skyvern closes a session, and saves the profile it has loaded.          *)
LEMMA Closes ==
    ASSUME PlatformInv, NEW s \in 1..Len(sessions), Closed(s)
    PROVE  /\ sessions' \in Seq(Session) /\ Len(sessions') = Len(sessions)
           /\ \A t \in 1..Len(sessions) :
                 /\ sessions'[t].profile = sessions[t].profile
                 /\ sessions'[t].open = IF t = s THEN FALSE ELSE sessions[t].open
           /\ profiles' \in Seq(Profile) /\ Len(profiles') = Len(profiles)
           /\ \A p \in 1..Len(profiles) :
                 profiles'[p] = profiles[p] \/ (profiles[p] # "deleted" /\ profiles'[p] = "signed")
<1> DEFINE x == [sessions[s] EXCEPT !.open = FALSE]
           p == sessions[s].profile
<1>1. sessions[s] \in Session /\ p \in 0..Len(profiles)
    BY Shelves DEF PlatformInv, ShelfInv, ProfileNames
<1>2. x \in Session /\ x.profile = sessions[s].profile /\ x.open = FALSE
    BY <1>1 DEF Session
<1>3. sessions' = [sessions EXCEPT ![s] = x]
    BY DEF Closed
<1>4. sessions' \in Seq(Session) /\ Len(sessions') = Len(sessions)
    BY <1>2, <1>3, ExceptSeq DEF PlatformInv, ShelfInv
<1>5. \A t \in 1..Len(sessions) : sessions'[t] = IF t = s THEN x ELSE sessions[t]
    BY <1>3, Shelves
<1>6. \/ profiles' = profiles
      \/ p # 0 /\ profiles[p] # "deleted" /\ profiles' = [profiles EXCEPT ![p] = "signed"]
    BY DEF Closed
<1>7. CASE profiles' = profiles
    <2>1. profiles \in Seq(Profile)
        BY DEF PlatformInv, ShelfInv
    <2> HIDE DEF x, p
    <2> QED BY <1>2, <1>4, <1>5, <1>7, <2>1
<1>8. CASE p # 0 /\ profiles[p] # "deleted" /\ profiles' = [profiles EXCEPT ![p] = "signed"]
    <2> HIDE DEF x, p
    <2>1. p \in 1..Len(profiles) /\ "signed" \in Profile /\ profiles \in Seq(Profile)
        BY <1>1, <1>8, Shelves DEF Profile, PlatformInv, ShelfInv
    <2>2. profiles' \in Seq(Profile) /\ Len(profiles') = Len(profiles)
        BY <1>8, <2>1, ExceptSeq
    <2> QED BY <1>2, <1>4, <1>5, <1>8, <2>1, <2>2, Shelves
<1> QED BY <1>6, <1>7, <1>8

LEMMA ShelvesClose ==
    ASSUME PlatformInv, NEW s \in 1..Len(sessions), Closed(s), UNCHANGED <<browserScope, link>>,
           mishaps' \in 0..MaxBrowserFaults
    PROVE  ShelfInv' /\ Len(sessions') = Len(sessions) /\ Len(profiles') = Len(profiles)
    BY Closes DEF PlatformInv, ShelfInv, SessionNames, ProfileNames

LEMMA ShelvesStand ==
    ASSUME PlatformInv, UNCHANGED <<browserScope, skyvernVars>>, mishaps' \in 0..MaxBrowserFaults,
           \/ link' = link
           \/ /\ link' \in Link /\ link'.session \in SessionNames /\ link'.profile \in ProfileNames
              /\ link'.status = "waiting_for_login" => link'.session # 0
              /\ link'.status = "none" => link' = NoLink
    PROVE  ShelfInv' /\ Len(sessions') = Len(sessions) /\ Len(profiles') = Len(profiles)
    BY DEF PlatformInv, ShelfInv, SessionNames, ProfileNames, skyvernVars

LEMMA Mishaps ==
    ASSUME PlatformInv
    PROVE  /\ mishaps \in 0..MaxBrowserFaults
           /\ \A op : Mishap(op) => mishaps' \in 0..MaxBrowserFaults /\ BrowserDoes(op)
<1>1. MaxBrowserFaults \in Nat
    BY BrowserAssumption
<1> QED BY <1>1 DEF PlatformInv, ShelfInv, Mishap

(* The call of a request is made from NoCall, and moved by its pc.         *)
LEMMA NoCallFits ==
    ASSUME PlatformInv, Len(sessions') \in Nat, Len(profiles') \in Nat
    PROVE  /\ NoCall \in BrowserCall /\ CallFits(NoCall, Len(sessions'), Len(profiles'))
           /\ CallFits(NoCall, Len(sessions), Len(profiles))
           /\ NoCall.kind = "none" /\ NoCall.pc = "idle"
    BY Shelves DEF NoCall, BrowserCall, CallFits, SessionNames, ProfileNames

(* What a request is after its next step.                                  *)
LEMMA Steps ==
    ASSUME PlatformInv, NEW c \in BrowserClients,
           NEW pc \in {"close", "open", "store", "mark", "finish", "delete", "erase"},
           NEW k, k = [calls[c] EXCEPT !.pc = pc]
    PROVE  /\ k \in BrowserCall /\ k.pc = pc /\ k.kind = calls[c].kind /\ k.out = calls[c].out
           /\ k.session = calls[c].session /\ k.profile = calls[c].profile
<1>1. calls[c] \in BrowserCall
    BY DEF PlatformInv, CallInv
<1> QED BY <1>1 DEF BrowserCall

(* A foreign profile is made, and is to be deleted again.                  *)
Unmakes(c) == [calls[c] EXCEPT !.pc = "unmake", !.profile = Len(profiles) + 1]
LEMMA Unmaking ==
    ASSUME PlatformInv, NEW c \in Unfinished
    PROVE  /\ Unmakes(c) \in BrowserCall /\ Unmakes(c).pc = "unmake"
           /\ Unmakes(c).kind = calls[c].kind /\ Unmakes(c).session = calls[c].session
           /\ Unmakes(c).profile = Len(profiles) + 1 /\ c \in BrowserClients
<1>1. calls[c] \in BrowserCall /\ c \in BrowserClients
    BY DEF PlatformInv, CallInv, Unfinished
<1>2. Len(profiles) + 1 \in 0..MaxSessions
    <2>1. Cardinality(Unfinished) # 0
        BY Shelves, FS_EmptySet
    <2> QED BY <2>1, Shelves DEF PlatformInv, RoomInv
<1> QED BY <1>1, <1>2 DEF BrowserCall, Unmakes

Judged(c, out, p) == [calls[c] EXCEPT !.pc = "record", !.out = out, !.profile = p]
LEMMA Records ==
    ASSUME PlatformInv, NEW c \in BrowserClients, NEW out \in {"connected", "failed"},
           NEW p \in 0..MaxSessions
    PROVE  /\ Judged(c, out, p) \in BrowserCall /\ Judged(c, out, p).pc = "record"
           /\ Judged(c, out, p).kind = calls[c].kind /\ Judged(c, out, p).out = out
           /\ Judged(c, out, p).session = calls[c].session
           /\ Judged(c, out, p).profile = p
<1>1. calls[c] \in BrowserCall
    BY DEF PlatformInv, CallInv
<1> QED BY <1>1 DEF BrowserCall, Judged

(* A request arrives with what the row says.                               *)
Arriving(kind, pc) == [NoCall EXCEPT !.kind = kind, !.pc = pc, !.session = link.session,
                                     !.profile = link.profile]
LEMMA Arrives ==
    ASSUME PlatformInv, NEW kind \in {"start", "complete", "disconnect"},
           NEW pc \in {"close", "open", "mark", "delete", "erase"}
    PROVE  /\ Arriving(kind, pc) \in BrowserCall
           /\ Arriving(kind, pc).pc = pc /\ Arriving(kind, pc).kind = kind
           /\ Arriving(kind, pc).out = "none" /\ Arriving(kind, pc).session = link.session
           /\ Arriving(kind, pc).profile = link.profile /\ Arriving(kind, pc) # NoCall
<1>1. link.session \in 0..MaxSessions /\ link.profile \in 0..MaxSessions
    BY DEF PlatformInv, ShelfInv, Link
<1>2. NoCall \in BrowserCall /\ NoCall.out = "none" /\ NoCall.pc = "idle"
    BY Shelves DEF NoCall, BrowserCall
<1>3. /\ Arriving(kind, pc) \in BrowserCall
      /\ Arriving(kind, pc).pc = pc /\ Arriving(kind, pc).kind = kind
      /\ Arriving(kind, pc).out = "none" /\ Arriving(kind, pc).session = link.session
      /\ Arriving(kind, pc).profile = link.profile
    BY <1>1, <1>2 DEF BrowserCall, Arriving
<1> QED BY <1>2, <1>3

LEMMA StartKeeps ==
    ASSUME PlatformInv, NEW c \in BrowserClients,
           BeginStart(c) \/ CloseOld(c) \/ OpenSession(c) \/ OpenRefused(c) \/ StoreSession(c)
    PROVE  PlatformInv'
<1>0. /\ calls[c] \in BrowserCall /\ CallFits(calls[c], Len(sessions), Len(profiles))
      /\ link.session \in SessionNames /\ link.profile \in ProfileNames
    BY DEF PlatformInv, CallInv, ShelfInv
<1>1. CASE BeginStart(c)
    <2> DEFINE k == Arriving("start", FirstOfStart(link))
    <2>1. FirstOfStart(link) \in {"close", "open"}
          /\ (FirstOfStart(link) = "close" => link.session # 0)
        BY DEF FirstOfStart, PlatformInv, ShelfInv
    <2>2. /\ k \in BrowserCall /\ k.pc = FirstOfStart(link) /\ k.kind = "start"
          /\ k.session = link.session /\ k.profile = link.profile /\ k # NoCall
        BY <2>1, Arrives
    <2>3. /\ Proceed(c, k) /\ UNCHANGED <<browserScope, link, sessions, profiles, mishaps>>
        BY <1>1 DEF BeginStart, Arriving, skyvernVars
    <2> HIDE DEF k
    <2>4. CallFits(k, Len(sessions'), Len(profiles'))
        BY <1>0, <2>1, <2>2, <2>3 DEF CallFits, SessionNames, ProfileNames
    <2>5. ShelfInv'
        BY <2>3, ShelvesStand, Mishaps DEF skyvernVars
    <2> QED BY <2>1, <2>2, <2>3, <2>4, <2>5, CallKeeps, Shelves
<1>2. CASE CloseOld(c)
    <2> DEFINE k == [calls[c] EXCEPT !.pc = "open"]
    <2>1. calls[c].kind = "start" /\ calls[c].session \in 1..Len(sessions) /\ Proceed(c, k)
        BY <1>0, <1>2, Shelves DEF CloseOld, CallFits, Step, SessionNames
    <2>2. ShelfInv' /\ Len(sessions') = Len(sessions) /\ Len(profiles') = Len(profiles)
        <3>1. UNCHANGED <<browserScope, link>>
            BY <1>2 DEF CloseOld
        <3>2. CASE Closed(calls[c].session) /\ UNCHANGED mishaps
            BY <2>1, <3>1, <3>2, ShelvesClose, Mishaps
        <3>3. CASE Mishap("outage") /\ UNCHANGED skyvernVars
            BY <3>1, <3>3, ShelvesStand, Mishaps
        <3> QED BY <1>2, <3>2, <3>3 DEF CloseOld
    <2>3. k \in BrowserCall /\ k.pc = "open" /\ k.kind = "start" /\ k.session = calls[c].session
          /\ k.profile = calls[c].profile
        BY <2>1, Steps
    <2> HIDE DEF k
    <2>4. CallFits(k, Len(sessions'), Len(profiles'))
        BY <1>0, <2>2, <2>3 DEF CallFits, SessionNames, ProfileNames, NoCall
    <2> QED BY <2>1, <2>2, <2>3, <2>4, CallKeeps, Shelves
<1>3. ASSUME Done(c), ShelfInv', Len(sessions') \in Nat, Len(sessions) <= Len(sessions'),
             Len(sessions') <= MaxSessions, Len(profiles') = Len(profiles)
      PROVE  PlatformInv'
    BY <1>3, CallKeeps, NoCallFits, Shelves DEF Done
<1>4. CASE OpenSession(c)
    <2> DEFINE p == calls[c].profile
               x == [open |-> TRUE, profile |-> p, signed |-> p # 0 /\ profiles[p] = "signed"]
               k == [calls[c] EXCEPT !.pc = "store", !.session = Len(sessions) + 1]
    <2>1. /\ calls[c].kind = "start" /\ Len(sessions) < MaxSessions /\ p \in ProfileNames
          /\ sessions' = Append(sessions, x) /\ UNCHANGED <<browserScope, link, profiles>>
          /\ mishaps' \in 0..MaxBrowserFaults
          /\ Proceed(c, k) \/ Done(c)
        BY <1>0, <1>4, Mishaps DEF OpenSession, CallFits, ProfileNames
    <2>2. x \in Session /\ x.profile = p
        BY <1>0 DEF Session, BrowserCall
    <2> HIDE DEF x
    <2>3. /\ sessions' \in Seq(Session) /\ Len(sessions') = Len(sessions) + 1
          /\ \A s \in 1..Len(sessions) : sessions'[s] = sessions[s]
          /\ sessions'[Len(sessions) + 1] = x
        BY <2>1, <2>2, AppendProperties DEF PlatformInv, ShelfInv
    <2>4. ShelfInv'
        <3>1. \A s \in 1..Len(sessions') : sessions'[s].profile \in ProfileNames'
            BY <2>1, <2>2, <2>3, Shelves DEF PlatformInv, ShelfInv, ProfileNames
        <3>2. link.session \in SessionNames'
            BY <1>0, <2>3, Shelves DEF SessionNames
        <3> QED BY <2>1, <2>3, <3>1, <3>2 DEF PlatformInv, ShelfInv, ProfileNames
    <2>5. Len(sessions') \in Nat /\ Len(sessions) <= Len(sessions') /\ Len(sessions') <= MaxSessions
        BY <2>1, <2>3, Shelves
    <2>6. CASE Done(c)
        BY <1>3, <2>1, <2>4, <2>5, <2>6
    <2>7. CASE Proceed(c, k)
        <3>1. Len(sessions) + 1 \in 0..MaxSessions
            BY <2>1, Shelves
        <3>2. /\ k \in BrowserCall /\ k.pc = "store" /\ k.kind = "start"
              /\ k.session = Len(sessions) + 1 /\ k.profile = p
            BY <1>0, <2>1, <3>1 DEF BrowserCall
        <3> HIDE DEF k
        <3>3. CallFits(k, Len(sessions'), Len(profiles'))
            BY <1>0, <2>1, <2>3, <3>2, Shelves DEF CallFits, SessionNames, ProfileNames, NoCall
        <3> QED BY <2>1, <2>4, <2>5, <2>7, <3>2, <3>3, CallKeeps
    <2> QED BY <2>1, <2>6, <2>7
<1>5. CASE OpenRefused(c)
    <2>1. /\ Done(c) /\ UNCHANGED <<browserScope, link, skyvernVars>>
          /\ mishaps' \in 0..MaxBrowserFaults
        BY <1>5, Mishaps DEF OpenRefused
    <2>2. ShelfInv' /\ Len(sessions') = Len(sessions) /\ Len(profiles') = Len(profiles)
        BY <2>1, ShelvesStand
    <2> QED BY <1>3, <2>1, <2>2, Shelves
<1>6. CASE StoreSession(c)
    <2> DEFINE new == [status |-> "waiting_for_login", session |-> calls[c].session,
                       profile |-> calls[c].profile]
    <2>1. /\ Done(c) /\ UNCHANGED <<browserScope, skyvernVars, mishaps>> /\ link' = new
          /\ calls[c].pc = "store"
        BY <1>6 DEF StoreSession
    <2>2. new \in Link /\ new.session \in SessionNames /\ new.profile \in ProfileNames
          /\ new.session # 0 /\ new.status = "waiting_for_login"
        BY <1>0, <2>1 DEF Link, BrowserCall, CallFits, SessionNames, ProfileNames
    <2> HIDE DEF new
    <2>3. ShelfInv' /\ Len(sessions') = Len(sessions) /\ Len(profiles') = Len(profiles)
        BY <2>1, <2>2, ShelvesStand, Mishaps
    <2> QED BY <1>3, <2>1, <2>3, Shelves
<1> QED BY <1>1, <1>2, <1>4, <1>5, <1>6

(* Updating the row.                                                       *)
LEMMA Updates ==
    ASSUME PlatformInv, NEW status \in {"verifying", "connected", "failed"}, NEW p \in ProfileNames,
           Update(status, p), UNCHANGED <<browserScope, skyvernVars, mishaps>>
    PROVE  /\ ShelfInv' /\ Len(sessions') = Len(sessions) /\ Len(profiles') = Len(profiles)
           /\ link.status = "none" => link' = link
           /\ link.status # "none" => /\ link'.status = status /\ link'.session = link.session
                                      /\ link'.profile = IF p = 0 THEN link.profile ELSE p
<1>1. link \in Link /\ link.session \in SessionNames /\ link.profile \in ProfileNames
    BY DEF PlatformInv, ShelfInv
<1>2. p \in 0..MaxSessions
    BY Shelves DEF ProfileNames
<1>3. link.status # "none" =>
         /\ link' \in Link /\ link'.status = status /\ link'.session = link.session
         /\ link'.profile = IF p = 0 THEN link.profile ELSE p
    BY <1>1, <1>2 DEF Update, Updated, Link
<1>4. link.status = "none" => link' = link
    BY DEF Update
<1> QED BY <1>1, <1>3, <1>4, ShelvesStand, Mishaps

(* A verdict takes the room of the profile it was given on.                *)
LEMMA RoomTaken ==
    ASSUME PlatformInv, NEW c \in Unfinished, NEW k \in BrowserCall, Proceed(c, k),
           k.pc \in {"unmake", "record"}, k.kind = "complete",
           Len(sessions') = Len(sessions), Len(profiles') = Len(profiles) + 1
    PROVE  RoomInv'
<1>1. c \in BrowserClients /\ calls[c].kind = "complete"
    BY DEF Unfinished, PlatformInv, CallInv, CallFits
<1>2. calls'[c] = k /\ \A d \in BrowserClients : d # c => calls'[d] = calls[d]
    BY <1>1, Proceeds
<1>3. Completing' \subseteq Completing /\ Unfinished' = Unfinished \ {c}
    BY <1>1, <1>2 DEF Completing, Unfinished
<1>4. IsFiniteSet(Completing')
    BY <1>3, FS_Subset DEF PlatformInv, RoomInv
<1>5. Cardinality(Unfinished') = Cardinality(Unfinished) - 1
    BY <1>3, Shelves, FS_RemoveElement
<1> QED BY <1>4, <1>5, Shelves DEF RoomInv, PlatformInv

LEMMA CompleteKeeps ==
    ASSUME PlatformInv, NEW c \in BrowserClients,
           \/ BeginComplete(c) \/ MarkVerifying(c) \/ FinishReused(c) \/ FinishNew(c)
           \/ FinishForeign(c) \/ DeleteForeign(c) \/ FinishFails(c) \/ Record(c)
    PROVE  PlatformInv'
<1>0. /\ calls[c] \in BrowserCall /\ CallFits(calls[c], Len(sessions), Len(profiles))
      /\ link.session \in SessionNames /\ link.profile \in ProfileNames
    BY DEF PlatformInv, CallInv, ShelfInv
<1>1. ASSUME Done(c), ShelfInv', Len(sessions') = Len(sessions), Len(profiles') = Len(profiles)
      PROVE  PlatformInv'
    BY <1>1, CallKeeps, NoCallFits, Shelves DEF Done
<1>2. CASE BeginComplete(c)
    <2> DEFINE k == Arriving("complete", "mark")
    <2>1. /\ k \in BrowserCall /\ k.pc = "mark" /\ k.kind = "complete"
          /\ k.session = link.session /\ k.profile = link.profile /\ k # NoCall
        BY Arrives
    <2>2. /\ Proceed(c, k) /\ UNCHANGED <<browserScope, link, sessions, profiles, mishaps>>
          /\ Len(profiles) + Cardinality(Completing) < MaxSessions
          /\ link.session # 0
        BY <1>2 DEF BeginComplete, Arriving, skyvernVars, Completing, PlatformInv, ShelfInv
    <2> HIDE DEF k
    <2>3. ShelfInv'
        BY <2>2, ShelvesStand, Mishaps DEF skyvernVars
    <2>4. CallFits(k, Len(sessions), Len(profiles))
        BY <1>0, <2>1, <2>2 DEF CallFits, SessionNames, ProfileNames
    <2>5. /\ calls' \in [BrowserClients -> BrowserCall]
          /\ calls'[c] = k /\ \A d \in BrowserClients : d # c => calls'[d] = calls[d]
        BY <2>1, <2>2, Proceeds
    <2>6. CallInv'
        BY <2>2, <2>4, <2>5 DEF PlatformInv, CallInv, CallFits, SessionNames, ProfileNames
    <2>7. Completing' \subseteq Completing \cup {c} /\ Unfinished' \subseteq Unfinished \cup {c}
        BY <2>5 DEF Completing, Unfinished
    <2>8. IsFiniteSet(Completing')
        <3>1. IsFiniteSet(Completing \cup {c})
            BY FS_AddElement DEF PlatformInv, RoomInv
        <3> QED BY <2>7, <3>1, FS_Subset
    <2>9. Cardinality(Unfinished') \in Nat /\ Cardinality(Unfinished') <= Cardinality(Unfinished) + 1
        <3>1. /\ IsFiniteSet(Unfinished \cup {c})
              /\ Cardinality(Unfinished \cup {c}) =
                    IF c \in Unfinished THEN Cardinality(Unfinished) ELSE Cardinality(Unfinished) + 1
            BY Shelves, FS_AddElement
        <3>2. IsFiniteSet(Unfinished') /\ Cardinality(Unfinished') <= Cardinality(Unfinished \cup {c})
            BY <2>7, <3>1, FS_Subset
        <3> QED BY <3>1, <3>2, Shelves, FS_CardinalityType
    <2>10. RoomInv'
        BY <2>2, <2>8, <2>9, Shelves DEF RoomInv
    <2> QED BY <2>3, <2>6, <2>10 DEF PlatformInv
<1>3. CASE MarkVerifying(c)
    <2>1. /\ Update("verifying", 0) /\ UNCHANGED <<browserScope, skyvernVars, mishaps>>
          /\ calls[c].pc = "mark" /\ calls[c].kind = "complete"
          /\ Done(c) \/ Step(c, "finish")
        BY <1>0, <1>3 DEF MarkVerifying, CallFits
    <2>2. ShelfInv' /\ Len(sessions') = Len(sessions) /\ Len(profiles') = Len(profiles)
        BY <2>1, Updates, Shelves DEF ProfileNames
    <2>3. CASE Done(c)
        BY <1>1, <2>2, <2>3
    <2>4. CASE Step(c, "finish")
        <3> DEFINE k == [calls[c] EXCEPT !.pc = "finish"]
        <3>1. /\ k \in BrowserCall /\ k.pc = "finish" /\ k.kind = "complete"
              /\ k.session = calls[c].session /\ k.profile = calls[c].profile
            BY <2>1, Steps
        <3>2. Proceed(c, k)
            BY <2>4 DEF Step
        <3> HIDE DEF k
        <3>3. CallFits(k, Len(sessions'), Len(profiles'))
            BY <1>0, <2>1, <2>2, <3>1 DEF CallFits, SessionNames, ProfileNames, NoCall
        <3> QED BY <2>1, <2>2, <3>1, <3>2, <3>3, CallKeeps, Shelves
    <2> QED BY <2>1, <2>3, <2>4
<1>4. ASSUME NEW out \in {"connected", "failed"}, NEW p \in ProfileNames, Recording(c, out, p),
             calls[c].pc \in {"finish", "unmake"}, out = "connected" => p # 0,
             ShelfInv', Len(sessions') = Len(sessions), Len(profiles') = Len(profiles)
      PROVE  PlatformInv'
    <2> DEFINE k == Judged(c, out, p)
    <2>1. p \in 0..MaxSessions /\ calls[c].kind = "complete"
        BY <1>0, <1>4, Shelves DEF ProfileNames, CallFits
    <2>2. /\ k \in BrowserCall /\ k.pc = "record" /\ k.kind = "complete" /\ k.out = out
          /\ k.session = calls[c].session /\ k.profile = p
        BY <2>1, Records
    <2>3. Proceed(c, k)
        BY <1>4 DEF Recording, Judged
    <2> HIDE DEF k
    <2>4. CallFits(k, Len(sessions'), Len(profiles'))
        BY <1>0, <1>4, <2>2 DEF CallFits, SessionNames, ProfileNames, NoCall
    <2> QED BY <1>4, <2>1, <2>2, <2>3, <2>4, CallKeeps, Shelves
<1>5. CASE FinishReused(c)
    <2>1. /\ calls[c].profile \in ProfileNames /\ calls[c].profile # 0
          /\ calls[c].session \in 1..Len(sessions)
          /\ Closed(calls[c].session) /\ UNCHANGED <<browserScope, link, mishaps>>
          /\ Recording(c, Verified(profiles'[calls[c].profile]), calls[c].profile)
          /\ calls[c].pc = "finish"
        BY <1>0, <1>5, Shelves DEF FinishReused, CallFits, SessionNames, ProfileNames
    <2>2. ShelfInv' /\ Len(sessions') = Len(sessions) /\ Len(profiles') = Len(profiles)
        BY <2>1, ShelvesClose, Mishaps
    <2>3. Verified(profiles'[calls[c].profile]) \in {"connected", "failed"}
        BY DEF Verified
    <2> QED BY <1>4, <2>1, <2>2, <2>3
<1>6. CASE FinishFails(c)
    <2>1. /\ calls[c].session \in 1..Len(sessions) /\ calls[c].pc = "finish"
          /\ UNCHANGED <<browserScope, link>> /\ mishaps' \in 0..MaxBrowserFaults
          /\ Closed(calls[c].session) \/ UNCHANGED skyvernVars
          /\ Recording(c, "failed", 0)
        BY <1>0, <1>6, Shelves, Mishaps DEF FinishFails, CallFits, SessionNames
    <2>2. ShelfInv' /\ Len(sessions') = Len(sessions) /\ Len(profiles') = Len(profiles)
        BY <2>1, ShelvesClose, ShelvesStand
    <2>3. 0 \in ProfileNames
        BY Shelves DEF ProfileNames
    <2> QED BY <1>4, <2>1, <2>2, <2>3
(* A profile is made. *)
<1>7. ASSUME NEW state \in Profile, profiles' = Append(profiles, state), calls[c].pc = "finish",
             sessions' = [sessions EXCEPT ![calls[c].session].open = FALSE],
             UNCHANGED <<browserScope, link>>, mishaps' \in 0..MaxBrowserFaults,
             NEW k \in BrowserCall, Proceed(c, k), k.pc \in {"unmake", "record"},
             k.kind = "complete", k.session = calls[c].session,
             CallFits(k, Len(sessions), Len(profiles) + 1)
      PROVE  PlatformInv'
    <2> DEFINE s == calls[c].session
               x == [sessions[s] EXCEPT !.open = FALSE]
    <2>1. s \in 1..Len(sessions) /\ calls[c].kind = "complete" /\ c \in Unfinished
        BY <1>0, <1>7, Shelves DEF CallFits, SessionNames, Unfinished
    <2>2. x \in Session /\ x.profile = sessions[s].profile
        BY <2>1, Shelves DEF Session
    <2>3. sessions' = [sessions EXCEPT ![s] = x]
        BY <1>7
    <2>4. sessions' \in Seq(Session) /\ Len(sessions') = Len(sessions)
        BY <2>1, <2>2, <2>3, ExceptSeq DEF PlatformInv, ShelfInv
    <2>5. profiles' \in Seq(Profile) /\ Len(profiles') = Len(profiles) + 1
        BY <1>7, AppendProperties DEF PlatformInv, ShelfInv
    <2>6. \A t \in 1..Len(sessions) : sessions'[t].profile = sessions[t].profile
        BY <2>2, <2>3, Shelves
    <2>7. ShelfInv'
        BY <1>7, <2>4, <2>5, <2>6, Shelves DEF PlatformInv, ShelfInv, SessionNames, ProfileNames
    <2>8. /\ calls' \in [BrowserClients -> BrowserCall]
          /\ calls'[c] = k /\ \A d \in BrowserClients : d # c => calls'[d] = calls[d]
        BY <1>7, Proceeds
    <2>9. CallInv'
        <3>1. \A d \in BrowserClients : d # c => CallFits(calls'[d], Len(sessions'), Len(profiles'))
            <4>1. \A d \in BrowserClients : CallFits(calls[d], Len(sessions), Len(profiles))
                BY DEF PlatformInv, CallInv
            <4> QED BY <2>4, <2>5, <2>8, <4>1, Shelves DEF CallFits, SessionNames, ProfileNames
        <3> QED BY <1>7, <2>4, <2>5, <2>8, <3>1 DEF CallInv
    <2>10. RoomInv'
        BY <1>7, <2>1, <2>4, <2>5, RoomTaken
    <2> QED BY <2>7, <2>9, <2>10 DEF PlatformInv
<1>8. CASE FinishNew(c)
    <2> DEFINE s == calls[c].session
    <2>1. /\ calls[c].pc = "finish" /\ calls[c].kind = "complete" /\ c \in Unfinished
          /\ MadeFrom(s) \in Profile
          /\ sessions' = [sessions EXCEPT ![s].open = FALSE]
          /\ profiles' = Append(profiles, MadeFrom(s)) /\ UNCHANGED <<browserScope, link>>
          /\ mishaps' \in 0..MaxBrowserFaults
          /\ \/ Recording(c, Verified(MadeFrom(s)), Len(profiles) + 1)
             \/ Recording(c, "failed", 0)
        BY <1>0, <1>8, Mishaps DEF FinishNew, MadeFrom, Profile, CallFits, Unfinished
    <2>2. Verified(MadeFrom(s)) \in {"connected", "failed"} /\ Len(profiles) + 1 # 0
        BY Shelves DEF Verified
    <2>3. Len(profiles) + 1 \in 0..MaxSessions /\ 0 \in 0..MaxSessions
        <3>1. Cardinality(Unfinished) # 0
            BY <2>1, Shelves, FS_EmptySet
        <3> QED BY <3>1, Shelves DEF PlatformInv, RoomInv
    <2>4. ASSUME NEW out \in {"connected", "failed"}, NEW p \in {0, Len(profiles) + 1},
                 out = "connected" => p # 0, Recording(c, out, p)
          PROVE  PlatformInv'
        <3> DEFINE k == Judged(c, out, p)
        <3>1. /\ k \in BrowserCall /\ k.pc = "record" /\ k.kind = "complete" /\ k.out = out
              /\ k.session = s /\ k.profile = p
            BY <2>1, <2>3, <2>4, Records
        <3>2. Proceed(c, k)
            BY <2>4 DEF Recording, Judged
        <3> HIDE DEF k
        <3>3. CallFits(k, Len(sessions), Len(profiles) + 1)
            BY <1>0, <2>1, <2>4, <3>1, Shelves DEF CallFits, NoCall
        <3> QED BY <1>7, <2>1, <3>1, <3>2, <3>3
    <2> QED BY <2>1, <2>2, <2>4
<1>9. CASE FinishForeign(c)
    <2> DEFINE k == Unmakes(c)
    <2>1. /\ calls[c].pc = "finish" /\ calls[c].kind = "complete" /\ c \in Unfinished
          /\ sessions' = [sessions EXCEPT ![calls[c].session].open = FALSE]
          /\ profiles' = Append(profiles, "signed") /\ "signed" \in Profile
          /\ UNCHANGED <<browserScope, link>> /\ mishaps' \in 0..MaxBrowserFaults
          /\ Proceed(c, k)
        BY <1>0, <1>9, Mishaps DEF FinishForeign, Profile, CallFits, Unfinished, Unmakes
    <2>2. /\ k \in BrowserCall /\ k.pc = "unmake" /\ k.kind = "complete"
          /\ k.session = calls[c].session /\ k.profile = Len(profiles) + 1
        BY <2>1, Unmaking
    <2> HIDE DEF k
    <2>3. CallFits(k, Len(sessions), Len(profiles) + 1)
        BY <1>0, <2>1, <2>2, Shelves DEF CallFits, NoCall
    <2> QED BY <1>7, <2>1, <2>2, <2>3
<1>11. CASE DeleteForeign(c)
    <2>1. /\ calls[c].pc = "unmake" /\ calls[c].profile \in 1..Len(profiles)
          /\ UNCHANGED <<browserScope, link, sessions>> /\ mishaps' \in 0..MaxBrowserFaults
          /\ profiles' = [profiles EXCEPT ![calls[c].profile] = "deleted"] \/ UNCHANGED profiles
          /\ Recording(c, "failed", 0)
        BY <1>0, <1>11, Shelves, Mishaps DEF DeleteForeign, CallFits
    <2>2. profiles' \in Seq(Profile) /\ Len(profiles') = Len(profiles)
        <3>1. "deleted" \in Profile /\ profiles \in Seq(Profile)
            BY DEF Profile, PlatformInv, ShelfInv
        <3> QED BY <2>1, <3>1, ExceptSeq
    <2>3. ShelfInv'
        BY <2>1, <2>2 DEF PlatformInv, ShelfInv, SessionNames, ProfileNames
    <2>4. 0 \in ProfileNames
        BY Shelves DEF ProfileNames
    <2> QED BY <1>4, <2>1, <2>2, <2>3, <2>4
<1>10. CASE Record(c)
    <2>1. /\ Update(calls[c].out, calls[c].profile) /\ Done(c)
          /\ UNCHANGED <<browserScope, skyvernVars, mishaps>>
          /\ calls[c].out \in {"connected", "failed"} /\ calls[c].profile \in ProfileNames
        BY <1>0, <1>10 DEF Record, CallFits, ProfileNames
    <2>2. ShelfInv' /\ Len(sessions') = Len(sessions) /\ Len(profiles') = Len(profiles)
        BY <2>1, Updates
    <2> QED BY <1>1, <2>1, <2>2
<1> QED BY <1>2, <1>3, <1>5, <1>6, <1>8, <1>9, <1>10, <1>11

LEMMA DisconnectKeeps ==
    ASSUME PlatformInv, NEW c \in BrowserClients,
           BeginDisconnect(c) \/ CloseLast(c) \/ DeleteProfile(c) \/ EraseLink(c)
    PROVE  PlatformInv'
<1>0. /\ calls[c] \in BrowserCall /\ CallFits(calls[c], Len(sessions), Len(profiles))
      /\ link.session \in SessionNames /\ link.profile \in ProfileNames
      /\ profiles \in Seq(Profile)
    BY DEF PlatformInv, CallInv, ShelfInv
<1>1. ASSUME Done(c), ShelfInv', Len(sessions') = Len(sessions), Len(profiles') = Len(profiles)
      PROVE  PlatformInv'
    BY <1>1, CallKeeps, NoCallFits, Shelves DEF Done
<1>2. ASSUME NEW pc \in {"delete", "erase"}, Step(c, pc), calls[c].kind = "disconnect",
             pc = "delete" => calls[c].profile # 0,
             ShelfInv', Len(sessions') = Len(sessions), Len(profiles') = Len(profiles)
      PROVE  PlatformInv'
    <2> DEFINE k == [calls[c] EXCEPT !.pc = pc]
    <2>1. /\ k \in BrowserCall /\ k.pc = pc /\ k.kind = "disconnect"
          /\ k.session = calls[c].session /\ k.profile = calls[c].profile
        BY <1>2, Steps
    <2>2. Proceed(c, k)
        BY <1>2 DEF Step
    <2> HIDE DEF k
    <2>3. CallFits(k, Len(sessions'), Len(profiles'))
        BY <1>0, <1>2, <2>1 DEF CallFits, SessionNames, ProfileNames, NoCall
    <2> QED BY <1>2, <2>1, <2>2, <2>3, CallKeeps, Shelves
<1>3. CASE BeginDisconnect(c)
    <2> DEFINE pc == IF link.status = "waiting_for_login" THEN "close" ELSE DeleteOrErase(link.profile)
               k == Arriving("disconnect", pc)
    <2>1. /\ pc \in {"close", "delete", "erase"}
          /\ pc = "close" => link.session # 0
          /\ pc = "delete" => link.profile # 0
        BY DEF DeleteOrErase, PlatformInv, ShelfInv
    <2>2. Proceed(c, k) /\ UNCHANGED <<browserScope, link, skyvernVars, mishaps>>
        <3>1. k = [NoCall EXCEPT !.kind = "disconnect", !.session = link.session,
                                 !.profile = link.profile, !.pc = pc]
            BY DEF NoCall, Arriving
        <3> QED BY <1>3, <3>1 DEF BeginDisconnect
    <2> HIDE DEF pc
    <2>3. /\ k \in BrowserCall /\ k.pc = pc /\ k.kind = "disconnect"
          /\ k.session = link.session /\ k.profile = link.profile /\ k # NoCall
        BY <2>1, Arrives
    <2> HIDE DEF k
    <2>4. ShelfInv' /\ Len(sessions') = Len(sessions) /\ Len(profiles') = Len(profiles)
        BY <2>2, ShelvesStand, Mishaps
    <2>5. CallFits(k, Len(sessions'), Len(profiles'))
        BY <1>0, <2>1, <2>3, <2>4 DEF CallFits, SessionNames, ProfileNames
    <2> QED BY <2>1, <2>2, <2>3, <2>4, <2>5, CallKeeps, Shelves
<1>4. CASE CloseLast(c)
    <2>1. /\ calls[c].kind = "disconnect" /\ calls[c].session \in 1..Len(sessions)
          /\ UNCHANGED <<browserScope, link>> /\ mishaps' \in 0..MaxBrowserFaults
          /\ \/ /\ Closed(calls[c].session)
                /\ Step(c, DeleteOrErase(calls[c].profile)) \/ Done(c)
             \/ Done(c) /\ UNCHANGED skyvernVars
        BY <1>0, <1>4, Shelves, Mishaps DEF CloseLast, CallFits, SessionNames
    <2>2. ShelfInv' /\ Len(sessions') = Len(sessions) /\ Len(profiles') = Len(profiles)
        BY <2>1, ShelvesClose, ShelvesStand
    <2>3. /\ DeleteOrErase(calls[c].profile) \in {"delete", "erase"}
          /\ DeleteOrErase(calls[c].profile) = "delete" => calls[c].profile # 0
        BY DEF DeleteOrErase
    <2> QED BY <1>1, <1>2, <2>1, <2>2, <2>3
<1>5. CASE DeleteProfile(c)
    <2>1. /\ calls[c].kind = "disconnect" /\ calls[c].profile \in 1..Len(profiles)
          /\ UNCHANGED <<browserScope, link, sessions>> /\ mishaps' \in 0..MaxBrowserFaults
          /\ \/ /\ profiles' = [profiles EXCEPT ![calls[c].profile] = "deleted"]
                /\ Step(c, "erase") \/ Done(c)
             \/ Done(c) /\ UNCHANGED profiles
        BY <1>0, <1>5, Shelves, Mishaps DEF DeleteProfile, CallFits, ProfileNames
    <2>2. profiles' \in Seq(Profile) /\ Len(profiles') = Len(profiles)
        <3>1. "deleted" \in Profile
            BY DEF Profile
        <3> QED BY <1>0, <2>1, <3>1, ExceptSeq
    <2>3. ShelfInv'
        BY <2>1, <2>2 DEF PlatformInv, ShelfInv, SessionNames, ProfileNames
    <2> QED BY <1>1, <1>2, <2>1, <2>2, <2>3
<1>6. CASE EraseLink(c)
    <2>1. link' = NoLink /\ Done(c) /\ UNCHANGED <<browserScope, skyvernVars, mishaps>>
        BY <1>6 DEF EraseLink
    <2>2. /\ NoLink \in Link /\ NoLink.session \in SessionNames /\ NoLink.profile \in ProfileNames
          /\ NoLink.status = "none"
        BY Shelves DEF NoLink, Link, SessionNames, ProfileNames
    <2>3. ShelfInv' /\ Len(sessions') = Len(sessions) /\ Len(profiles') = Len(profiles)
        BY <2>1, <2>2, ShelvesStand, Mishaps
    <2> QED BY <1>1, <2>1, <2>3
<1> QED BY <1>3, <1>4, <1>5, <1>6

LEMMA PlatformSteps == PlatformInv /\ [BrowserNext]_browserVars => PlatformInv'
<1>1. ASSUME PlatformInv, NEW s \in 1..MaxSessions, SignIn(s) PROVE PlatformInv'
    <2> DEFINE x == [sessions[s] EXCEPT !.signed = TRUE]
    <2>1. /\ s \in 1..Len(sessions) /\ sessions' = [sessions EXCEPT ![s] = x]
          /\ UNCHANGED <<browserScope, link, profiles, calls, mishaps>>
        BY <1>1, Shelves DEF SignIn
    <2>2. x \in Session /\ x.profile = sessions[s].profile
        BY <1>1, <2>1, Shelves DEF Session
    <2> HIDE DEF x
    <2>3. sessions' \in Seq(Session) /\ Len(sessions') = Len(sessions)
        BY <1>1, <2>1, <2>2, ExceptSeq DEF PlatformInv, ShelfInv
    <2>4. \A t \in 1..Len(sessions) : sessions'[t].profile = sessions[t].profile
        BY <1>1, <2>1, <2>2, Shelves
    <2> QED BY <1>1, <2>1, <2>3, <2>4
        DEF PlatformInv, ShelfInv, CallInv, RoomInv, CallFits, SessionNames, ProfileNames,
            Completing, Unfinished
<1>2. ASSUME PlatformInv, NEW p \in 1..MaxSessions, SignedOut(p) PROVE PlatformInv'
    <2>1. /\ p \in 1..Len(profiles) /\ profiles' = [profiles EXCEPT ![p] = "expired"]
          /\ UNCHANGED <<browserScope, link, sessions, calls, mishaps>>
        BY <1>2, Shelves DEF SignedOut
    <2>2. profiles' \in Seq(Profile) /\ Len(profiles') = Len(profiles)
        BY <1>2, <2>1, ExceptSeq DEF PlatformInv, ShelfInv, Profile
    <2> QED BY <1>2, <2>1, <2>2
        DEF PlatformInv, ShelfInv, CallInv, RoomInv, CallFits, SessionNames, ProfileNames,
            Completing, Unfinished
<1>3. ASSUME PlatformInv, BrowserCrash PROVE PlatformInv'
    <2>1. /\ calls' = [c \in BrowserClients |-> NoCall] /\ mishaps' \in 0..MaxBrowserFaults
          /\ UNCHANGED <<browserScope, link, skyvernVars>>
        BY <1>3, Mishaps DEF BrowserCrash
    <2>2. ShelfInv' /\ Len(sessions') = Len(sessions) /\ Len(profiles') = Len(profiles)
        BY <1>3, <2>1, ShelvesStand
    <2>3. CallInv'
        BY <1>3, <2>1, <2>2, NoCallFits, Shelves DEF CallInv
    <2>4. Completing' = {} /\ Unfinished' = {} /\ IsFiniteSet({}) /\ Cardinality({}) = 0
        BY <2>1, FS_EmptySet DEF Completing, Unfinished, NoCall
    <2>5. RoomInv'
        BY <1>3, <2>2, <2>4, Shelves DEF RoomInv
    <2> QED BY <2>2, <2>3, <2>5 DEF PlatformInv
<1>4. ASSUME PlatformInv, NEW c \in BrowserClients, BrowserStep(c) \/ BrowserRequest(c)
      PROVE  PlatformInv'
    BY <1>4, StartKeeps, CompleteKeeps, DisconnectKeeps DEF BrowserStep, BrowserRequest
<1>5. ASSUME PlatformInv, UNCHANGED browserVars PROVE PlatformInv'
    BY <1>5 DEF browserVars, PlatformInv, ShelfInv, CallInv, RoomInv, CallFits, SessionNames,
                ProfileNames, Completing, Unfinished
<1> QED BY <1>1, <1>2, <1>3, <1>4, <1>5 DEF BrowserNext, BrowserWorld

LEMMA PlatformStart == BrowserInit => PlatformInv
<1> SUFFICES ASSUME BrowserInit PROVE PlatformInv
    OBVIOUS
<1>1. /\ MaxSessions \in Nat /\ MaxBrowserFaults \in Nat
      /\ sessions = <<>> /\ profiles = <<>> /\ Len(<<>>) = 0
      /\ <<>> \in Seq(Session) /\ <<>> \in Seq(Profile)
    BY BrowserAssumption DEF BrowserInit
<1>2. NoLink \in Link /\ NoLink.session = 0 /\ NoLink.profile = 0 /\ NoLink.status = "none"
    BY <1>1 DEF NoLink, Link
<1>3. NoCall \in BrowserCall /\ CallFits(NoCall, Len(sessions), Len(profiles))
    BY <1>1 DEF NoCall, BrowserCall, CallFits, SessionNames, ProfileNames
<1>4. \A s \in 1..Len(sessions) : FALSE
    BY <1>1
<1>5. ShelfInv
    BY <1>1, <1>2, <1>4 DEF BrowserInit, ShelfInv, SessionNames, ProfileNames
<1>6. CallInv
    BY <1>3 DEF BrowserInit, CallInv
<1>7. Completing = {} /\ Unfinished = {} /\ IsFiniteSet({}) /\ Cardinality({}) = 0
    BY FS_EmptySet DEF BrowserInit, Completing, Unfinished, NoCall
<1>8. RoomInv
    BY <1>1, <1>7 DEF RoomInv
<1> QED BY <1>5, <1>6, <1>8 DEF PlatformInv

LEMMA PlatformTyped == PlatformInv => BrowserTypeOK
    BY Shelves DEF PlatformInv, ShelfInv, CallInv, BrowserTypeOK

-----------------------------------------------------------------------------
(* What each step of a request changes, field by field.                    *)

Others(c) == /\ calls' \in [BrowserClients -> BrowserCall]
             /\ \A d \in BrowserClients : d # c => calls'[d] = calls[d]
Moves(c, pc) == /\ Others(c) /\ calls'[c].pc = pc /\ calls'[c].kind = calls[c].kind
                /\ calls'[c].session = calls[c].session
                /\ calls'[c].profile = calls[c].profile /\ calls[c] # NoCall
Leaves(c) == Others(c) /\ calls'[c] = NoCall /\ calls[c] # NoCall
Judges(c, out, p) == /\ Others(c) /\ calls'[c].pc = "record" /\ calls'[c].kind = calls[c].kind
                     /\ calls'[c].out = out /\ calls'[c].profile = p /\ calls[c] # NoCall
Steady == sessions' = sessions /\ profiles' = profiles

(* Sessions but s stay as they are, s is closed, and a profile that is not *)
(* deleted may become signed in.                                           *)
Shuts(s) ==
    /\ Len(sessions') = Len(sessions) /\ Len(profiles') = Len(profiles)
    /\ \A t \in 1..Len(sessions) : sessions'[t].open = IF t = s THEN FALSE ELSE sessions[t].open
    /\ \A p \in 1..Len(profiles) :
          profiles'[p] = profiles[p] \/ (profiles[p] # "deleted" /\ profiles'[p] = "signed")
Makes(s, state) ==
    /\ Len(sessions') = Len(sessions) /\ Len(profiles') = Len(profiles) + 1
    /\ \A t \in 1..Len(sessions) : sessions'[t].open = IF t = s THEN FALSE ELSE sessions[t].open
    /\ \A p \in 1..Len(profiles) : profiles'[p] = profiles[p]
    /\ profiles'[Len(profiles) + 1] = state

LEMMA Where ==
    ASSUME PlatformInv, NEW c \in BrowserClients
    PROVE  /\ calls[c] \in BrowserCall /\ CallFits(calls[c], Len(sessions), Len(profiles))
           /\ calls[c].pc = "idle" <=> calls[c] = NoCall
           /\ calls[c].session \in 0..Len(sessions) /\ calls[c].profile \in 0..Len(profiles)
           /\ link \in Link /\ link.session \in 0..Len(sessions)
           /\ link.profile \in 0..Len(profiles)
           /\ NoCall.kind = "none" /\ NoCall.pc = "idle"
    BY NoCallFits DEF PlatformInv, CallInv, ShelfInv, SessionNames, ProfileNames, CallFits, NoCall

LEMMA Moving ==
    ASSUME PlatformInv, NEW c \in BrowserClients, calls[c].pc # "idle",
           NEW pc \in {"close", "open", "store", "mark", "finish", "delete", "erase"},
           Step(c, pc)
    PROVE  Moves(c, pc)
<1> DEFINE k == [calls[c] EXCEPT !.pc = pc]
<1>1. /\ k \in BrowserCall /\ k.pc = pc /\ k.kind = calls[c].kind
      /\ k.session = calls[c].session /\ k.profile = calls[c].profile
    BY Steps
<1>2. Proceed(c, k)
    BY DEF Step
<1> HIDE DEF k
<1>3. calls'[c] = k /\ Others(c)
    BY <1>1, <1>2, Proceeds DEF Others
<1> QED BY <1>1, <1>3, Where DEF Moves

LEMMA Leaving ==
    ASSUME PlatformInv, NEW c \in BrowserClients, calls[c].pc # "idle", Done(c)
    PROVE  Leaves(c)
<1>1. NoCall \in BrowserCall
    BY Shelves DEF NoCall, BrowserCall
<1> QED BY <1>1, Where, Proceeds DEF Done, Leaves, Others

LEMMA Judging ==
    ASSUME PlatformInv, NEW c \in BrowserClients, calls[c].pc # "idle",
           NEW out \in {"connected", "failed"}, NEW p \in 0..MaxSessions, Recording(c, out, p)
    PROVE  Judges(c, out, p)
<1>1. /\ Judged(c, out, p) \in BrowserCall /\ Judged(c, out, p).pc = "record"
      /\ Judged(c, out, p).kind = calls[c].kind /\ Judged(c, out, p).out = out
      /\ Judged(c, out, p).profile = p
    BY Records
<1>2. Proceed(c, Judged(c, out, p))
    BY DEF Recording, Judged
<1>3. calls'[c] = Judged(c, out, p) /\ Others(c)
    BY <1>1, <1>2, Proceeds DEF Others
<1> QED BY <1>1, <1>3, Where DEF Judges

LEMMA Shutting ==
    ASSUME PlatformInv, NEW s \in 1..Len(sessions), Closed(s)
    PROVE  Shuts(s)
    BY Closes DEF Shuts

LEMMA Making ==
    ASSUME PlatformInv, NEW s \in 1..Len(sessions), NEW state \in Profile,
           sessions' = [sessions EXCEPT ![s].open = FALSE], profiles' = Append(profiles, state)
    PROVE  Makes(s, state)
<1> DEFINE x == [sessions[s] EXCEPT !.open = FALSE]
<1>1. x \in Session /\ x.open = FALSE
    BY Shelves DEF Session
<1>2. sessions' = [sessions EXCEPT ![s] = x] /\ sessions \in Seq(Session)
    BY DEF PlatformInv, ShelfInv
<1> HIDE DEF x
<1>3. sessions' \in Seq(Session) /\ Len(sessions') = Len(sessions)
    <2>1. /\ [sessions EXCEPT ![s] = x] \in Seq(Session)
          /\ Len([sessions EXCEPT ![s] = x]) = Len(sessions)
        BY <1>1, <1>2, ExceptSeq
    <2> QED BY <1>2, <2>1
<1>4. /\ Len(profiles') = Len(profiles) + 1 /\ profiles'[Len(profiles) + 1] = state
      /\ \A p \in 1..Len(profiles) : profiles'[p] = profiles[p]
    BY AppendProperties DEF PlatformInv, ShelfInv
<1> QED BY <1>1, <1>2, <1>3, <1>4, Shelves DEF Makes

LEMMA BeginsDoes ==
    ASSUME PlatformInv, NEW c \in BrowserClients,
           BeginStart(c) \/ BeginComplete(c) \/ BeginDisconnect(c)
    PROVE  /\ Others(c) /\ calls[c] = NoCall /\ MayRequest(c, calls'[c].kind)
           /\ UNCHANGED <<browserScope, link, sessions, profiles>>
           /\ calls'[c].session = link.session /\ calls'[c].profile = link.profile
           /\ calls'[c].kind \in {"start", "complete", "disconnect"}
           /\ calls'[c].kind = "complete" => link.status = "waiting_for_login"
           /\ calls'[c].pc \notin {"store", "finish", "unmake", "record"}
           /\ link.status = "waiting_for_login" => calls'[c].pc \in {"close", "mark"}
           /\ calls'[c].pc = "erase" => calls'[c].profile = 0
<1>1. ASSUME NEW kind \in {"start", "complete", "disconnect"}, MayRequest(c, kind),
             NEW pc \in {"close", "open", "mark", "delete", "erase"},
             Proceed(c, Arriving(kind, pc)), UNCHANGED <<browserScope, link, sessions, profiles>>,
             kind = "complete" => link.status = "waiting_for_login",
             link.status = "waiting_for_login" => pc \in {"close", "mark"},
             pc = "erase" => link.profile = 0
      PROVE  /\ Others(c) /\ calls[c] = NoCall /\ MayRequest(c, calls'[c].kind)
             /\ UNCHANGED <<browserScope, link, sessions, profiles>>
             /\ calls'[c].session = link.session /\ calls'[c].profile = link.profile
             /\ calls'[c].kind \in {"start", "complete", "disconnect"}
             /\ calls'[c].kind = "complete" => link.status = "waiting_for_login"
             /\ calls'[c].pc \notin {"store", "finish", "unmake", "record"}
             /\ link.status = "waiting_for_login" => calls'[c].pc \in {"close", "mark"}
             /\ calls'[c].pc = "erase" => calls'[c].profile = 0
    <2>1. /\ Arriving(kind, pc) \in BrowserCall
          /\ Arriving(kind, pc).pc = pc /\ Arriving(kind, pc).kind = kind
          /\ Arriving(kind, pc).session = link.session /\ Arriving(kind, pc).profile = link.profile
        BY Arrives
    <2>2. calls'[c] = Arriving(kind, pc) /\ Others(c)
        BY <1>1, <2>1, Proceeds DEF Others
    <2>3. calls[c] = NoCall
        BY <1>1 DEF MayRequest
    <2> QED BY <1>1, <2>1, <2>2, <2>3
<1>2. CASE BeginStart(c)
    <2> DEFINE pc == FirstOfStart(link)
    <2>1. pc \in {"close", "open"} /\ (link.status = "waiting_for_login" => pc = "close")
        BY DEF FirstOfStart
    <2>2. Proceed(c, Arriving("start", pc)) /\ MayRequest(c, "start")
          /\ UNCHANGED <<browserScope, link, sessions, profiles>>
        BY <1>2 DEF BeginStart, Arriving, skyvernVars
    <2> HIDE DEF pc
    <2> QED BY <1>1, <2>1, <2>2
<1>3. CASE BeginComplete(c)
    <2>1. Proceed(c, Arriving("complete", "mark")) /\ MayRequest(c, "complete")
          /\ link.status = "waiting_for_login"
          /\ UNCHANGED <<browserScope, link, sessions, profiles>>
        BY <1>3 DEF BeginComplete, Arriving, skyvernVars
    <2> QED BY <1>1, <2>1
<1>4. CASE BeginDisconnect(c)
    <2> DEFINE pc == IF link.status = "waiting_for_login" THEN "close" ELSE DeleteOrErase(link.profile)
    <2>1. /\ pc \in {"close", "delete", "erase"} /\ (pc = "erase" => link.profile = 0)
          /\ link.status = "waiting_for_login" => pc = "close"
        BY DEF DeleteOrErase
    <2>2. /\ Proceed(c, Arriving("disconnect", pc)) /\ MayRequest(c, "disconnect")
          /\ UNCHANGED <<browserScope, link, sessions, profiles>>
        <3>1. Arriving("disconnect", pc) =
                 [NoCall EXCEPT !.kind = "disconnect", !.session = link.session,
                                !.profile = link.profile, !.pc = pc]
            BY DEF NoCall, Arriving
        <3> QED BY <1>4, <3>1 DEF BeginDisconnect, skyvernVars
    <2> HIDE DEF pc
    <2> QED BY <1>1, <2>1, <2>2
<1> QED BY <1>2, <1>3, <1>4

LEMMA CloseOldDoes ==
    ASSUME PlatformInv, NEW c \in BrowserClients, CloseOld(c)
    PROVE  /\ calls[c].kind = "start" /\ calls[c].pc = "close" /\ Moves(c, "open")
           /\ UNCHANGED <<browserScope, link>>
           /\ Shuts(calls[c].session) \/ (Steady /\ BrowserDoes("outage"))
<1>1. /\ calls[c].kind = "start" /\ calls[c].pc = "close" /\ Step(c, "open")
      /\ UNCHANGED <<browserScope, link>>
      /\ Closed(calls[c].session) \/ (Steady /\ BrowserDoes("outage"))
    BY Mishaps DEF CloseOld, Steady, skyvernVars
<1>2. calls[c].session \in 1..Len(sessions)
    BY <1>1, Where, Shelves DEF CallFits
<1> QED BY <1>1, <1>2, Moving, Shutting

LEMMA OpenDoes ==
    ASSUME PlatformInv, NEW c \in BrowserClients, OpenSession(c)
    PROVE  /\ calls[c].kind = "start" /\ calls[c].pc = "open"
           /\ UNCHANGED <<browserScope, link, profiles>>
           /\ Len(sessions') = Len(sessions) + 1
           /\ \A t \in 1..Len(sessions) : sessions'[t] = sessions[t]
           /\ \/ /\ Others(c) /\ calls'[c].pc = "store" /\ calls'[c].kind = "start"
                 /\ calls'[c].session = Len(sessions) + 1 /\ calls'[c].profile = calls[c].profile
              \/ Leaves(c) /\ BrowserDoes("lost")
<1> DEFINE x == [open |-> TRUE, profile |-> calls[c].profile,
                 signed |-> calls[c].profile # 0 /\ profiles[calls[c].profile] = "signed"]
           k == [calls[c] EXCEPT !.pc = "store", !.session = Len(sessions) + 1]
<1>1. /\ calls[c].pc = "open" /\ Len(sessions) < MaxSessions /\ sessions' = Append(sessions, x)
      /\ UNCHANGED <<browserScope, link, profiles>>
      /\ Proceed(c, k) \/ (Done(c) /\ BrowserDoes("lost"))
    BY Mishaps DEF OpenSession
<1>2. calls[c].kind = "start"
    BY <1>1, Where DEF CallFits
<1>3. x \in Session
    BY Where DEF Session, BrowserCall
<1>4. k \in BrowserCall /\ k.pc = "store" /\ k.kind = "start" /\ k.session = Len(sessions) + 1
      /\ k.profile = calls[c].profile
    <2>1. Len(sessions) + 1 \in 0..MaxSessions
        BY <1>1, Shelves
    <2> QED BY <1>2, <2>1, Where DEF BrowserCall
<1> HIDE DEF x, k
<1>5. /\ Len(sessions') = Len(sessions) + 1
      /\ \A t \in 1..Len(sessions) : sessions'[t] = sessions[t]
    BY <1>1, <1>3, AppendProperties DEF PlatformInv, ShelfInv
<1>6. CASE Proceed(c, k)
    <2>1. calls'[c] = k /\ Others(c)
        BY <1>4, <1>6, Proceeds DEF Others
    <2> QED BY <1>1, <1>2, <1>4, <1>5, <2>1
<1>7. CASE Done(c) /\ BrowserDoes("lost")
    BY <1>1, <1>2, <1>5, <1>7, Leaving
<1> QED BY <1>1, <1>6, <1>7

LEMMA StartDoes ==
    ASSUME PlatformInv, NEW c \in BrowserClients, OpenRefused(c) \/ StoreSession(c)
    PROVE  /\ calls[c].kind = "start" /\ calls[c].pc \in {"open", "store"} /\ Leaves(c)
           /\ Steady /\ browserScope' = browserScope
           /\ calls[c].pc = "open" => link' = link
           /\ calls[c].pc = "store" =>
                 link' = [status |-> "waiting_for_login", session |-> calls[c].session,
                          profile |-> calls[c].profile]
<1>1. /\ calls[c].pc \in {"open", "store"} /\ Done(c) /\ Steady /\ browserScope' = browserScope
      /\ calls[c].pc = "open" => link' = link
      /\ calls[c].pc = "store" =>
            link' = [status |-> "waiting_for_login", session |-> calls[c].session,
                     profile |-> calls[c].profile]
    BY DEF OpenRefused, StoreSession, Steady, skyvernVars
<1>2. calls[c].kind = "start"
    BY <1>1, Where DEF CallFits
<1> QED BY <1>1, <1>2, Leaving

LEMMA MarkDoes ==
    ASSUME PlatformInv, NEW c \in BrowserClients, MarkVerifying(c)
    PROVE  /\ calls[c].kind = "complete" /\ calls[c].pc = "mark"
           /\ Steady /\ browserScope' = browserScope
           /\ link.status = "none" => Leaves(c) /\ link' = link
           /\ link.status # "none" =>
                 /\ Moves(c, "finish") /\ link'.status = "verifying"
                 /\ link'.session = link.session /\ link'.profile = link.profile
<1>1. /\ calls[c].pc = "mark" /\ Update("verifying", 0)
      /\ link.status = "none" => Done(c)
      /\ link.status # "none" => Step(c, "finish")
      /\ UNCHANGED <<browserScope, skyvernVars, mishaps>>
    BY DEF MarkVerifying
<1>2. calls[c].kind = "complete" /\ 0 \in ProfileNames
    BY <1>1, Where, Shelves DEF CallFits, ProfileNames
<1>3. /\ link.status = "none" => link' = link
      /\ link.status # "none" => /\ link'.status = "verifying" /\ link'.session = link.session
                                 /\ link'.profile = link.profile
    BY <1>1, <1>2, Updates
<1> QED BY <1>1, <1>2, <1>3, Leaving, Moving DEF Steady, skyvernVars

LEMMA FinishReusedDoes ==
    ASSUME PlatformInv, NEW c \in BrowserClients, FinishReused(c)
    PROVE  /\ calls[c].kind = "complete" /\ calls[c].pc = "finish" /\ calls[c].profile # 0
           /\ UNCHANGED <<browserScope, link>> /\ Shuts(calls[c].session)
           /\ \E out \in {"connected", "failed"} :
                 /\ Judges(c, out, calls[c].profile)
                 /\ out = "connected" => profiles'[calls[c].profile] = "signed"
<1> DEFINE out == Verified(profiles'[calls[c].profile])
<1>1. /\ calls[c].pc = "finish" /\ calls[c].profile # 0 /\ Closed(calls[c].session)
      /\ Recording(c, out, calls[c].profile) /\ UNCHANGED <<browserScope, link>>
    BY DEF FinishReused
<1>2. calls[c].kind = "complete" /\ calls[c].session \in 1..Len(sessions)
      /\ calls[c].profile \in 0..MaxSessions
    BY <1>1, Where, Shelves DEF CallFits
<1>3. out \in {"connected", "failed"} /\ (out = "connected" => profiles'[calls[c].profile] = "signed")
    BY DEF Verified
<1> HIDE DEF out
<1> QED BY <1>1, <1>2, <1>3, Judging, Shutting

LEMMA FinishNewDoes ==
    ASSUME PlatformInv, NEW c \in BrowserClients, FinishNew(c)
    PROVE  /\ calls[c].kind = "complete" /\ calls[c].pc = "finish" /\ calls[c].profile = 0
           /\ UNCHANGED <<browserScope, link>>
           /\ \E out \in {"connected", "failed"}, state \in {"signed", "empty"} :
                 /\ Makes(calls[c].session, state)
                 /\ \/ Judges(c, out, Len(profiles) + 1)
                    \/ out = "failed" /\ Judges(c, out, 0) /\ BrowserDoes("lost")
                 /\ out = "connected" => state = "signed"
<1> DEFINE s == calls[c].session
           state == MadeFrom(s)
           out == Verified(state)
<1>1. /\ calls[c].pc = "finish" /\ calls[c].profile = 0 /\ UNCHANGED <<browserScope, link>>
      /\ sessions' = [sessions EXCEPT ![s].open = FALSE] /\ profiles' = Append(profiles, state)
      /\ \/ Recording(c, out, Len(profiles) + 1)
         \/ Recording(c, "failed", 0) /\ BrowserDoes("lost")
    BY Mishaps DEF FinishNew
<1>2. calls[c].kind = "complete" /\ s \in 1..Len(sessions)
    BY <1>1, Where, Shelves DEF CallFits
<1>3. state \in {"signed", "empty"} /\ out \in {"connected", "failed"}
      /\ (out = "connected" => state = "signed")
    BY DEF MadeFrom, Verified
<1>4. state \in Profile /\ Len(profiles) + 1 \in 0..MaxSessions /\ 0 \in 0..MaxSessions
    <2>1. c \in Unfinished
        BY <1>1 DEF Unfinished
    <2>2. Cardinality(Unfinished) # 0
        BY <2>1, Shelves, FS_EmptySet
    <2> QED BY <1>3, <2>2, Shelves DEF PlatformInv, RoomInv, Profile
<1> HIDE DEF out, state
<1>5. Makes(s, state)
    BY <1>1, <1>2, <1>4, Making
<1>6. CASE Recording(c, out, Len(profiles) + 1)
    <2>1. Judges(c, out, Len(profiles) + 1)
        BY <1>1, <1>3, <1>4, <1>6, Judging
    <2> QED BY <1>1, <1>2, <1>3, <1>5, <2>1
<1>7. CASE Recording(c, "failed", 0) /\ BrowserDoes("lost")
    <2>1. Judges(c, "failed", 0)
        BY <1>1, <1>4, <1>7, Judging
    <2> QED BY <1>1, <1>2, <1>3, <1>5, <1>7, <2>1
<1> QED BY <1>1, <1>6, <1>7

LEMMA FinishForeignDoes ==
    ASSUME PlatformInv, NEW c \in BrowserClients, FinishForeign(c)
    PROVE  /\ calls[c].kind = "complete" /\ calls[c].pc = "finish" /\ calls[c].profile = 0
           /\ UNCHANGED <<browserScope, link>> /\ BrowserDoes("foreign") /\ calls[c] # NoCall
           /\ Makes(calls[c].session, "signed")
           /\ Others(c) /\ calls'[c].pc = "unmake" /\ calls'[c].kind = "complete"
           /\ calls'[c].profile = Len(profiles) + 1
<1>1. /\ calls[c].pc = "finish" /\ calls[c].profile = 0 /\ UNCHANGED <<browserScope, link>>
      /\ sessions' = [sessions EXCEPT ![calls[c].session].open = FALSE]
      /\ profiles' = Append(profiles, "signed") /\ BrowserDoes("foreign")
      /\ Proceed(c, Unmakes(c))
    BY Mishaps DEF FinishForeign, Unmakes
<1>2. calls[c].kind = "complete" /\ calls[c].session \in 1..Len(sessions) /\ calls[c] # NoCall
      /\ c \in Unfinished /\ "signed" \in Profile
    BY <1>1, Where, Shelves DEF CallFits, Profile, Unfinished
<1>3. /\ Unmakes(c) \in BrowserCall /\ Unmakes(c).pc = "unmake"
      /\ Unmakes(c).kind = "complete" /\ Unmakes(c).profile = Len(profiles) + 1
    BY <1>2, Unmaking
<1>4. calls'[c] = Unmakes(c) /\ Others(c)
    BY <1>1, <1>3, Proceeds DEF Others
<1> QED BY <1>1, <1>2, <1>3, <1>4, Making

LEMMA DeleteForeignDoes ==
    ASSUME PlatformInv, NEW c \in BrowserClients, DeleteForeign(c)
    PROVE  /\ calls[c].kind = "complete" /\ calls[c].pc = "unmake"
           /\ calls[c].profile \in 1..Len(profiles)
           /\ UNCHANGED <<browserScope, link, sessions>> /\ Judges(c, "failed", 0)
           /\ Len(profiles') = Len(profiles)
           /\ \A p \in 1..Len(profiles) : p # calls[c].profile => profiles'[p] = profiles[p]
           /\ profiles'[calls[c].profile] = "deleted" \/ (Steady /\ BrowserDoes("outage"))
<1>1. /\ calls[c].pc = "unmake" /\ UNCHANGED <<browserScope, link, sessions>>
      /\ \/ profiles' = [profiles EXCEPT ![calls[c].profile] = "deleted"]
         \/ Steady /\ BrowserDoes("outage")
      /\ Recording(c, "failed", 0)
    BY Mishaps DEF DeleteForeign, Steady
<1>2. calls[c].kind = "complete" /\ calls[c].profile \in 1..Len(profiles) /\ 0 \in 0..MaxSessions
    BY <1>1, Where, Shelves DEF CallFits
<1>3. Judges(c, "failed", 0)
    BY <1>1, <1>2, Where, Judging
<1>4. CASE profiles' = [profiles EXCEPT ![calls[c].profile] = "deleted"]
    <2>1. "deleted" \in Profile /\ profiles \in Seq(Profile)
        BY DEF Profile, PlatformInv, ShelfInv
    <2>2. Len(profiles') = Len(profiles)
        BY <1>2, <1>4, <2>1, ExceptSeq
    <2> QED BY <1>1, <1>2, <1>3, <1>4, <2>2, Shelves
<1> QED BY <1>1, <1>2, <1>3, <1>4 DEF Steady

LEMMA FinishFailsDoes ==
    ASSUME PlatformInv, NEW c \in BrowserClients, FinishFails(c)
    PROVE  /\ calls[c].kind = "complete" /\ calls[c].pc = "finish" /\ BrowserDoes("outage")
           /\ UNCHANGED <<browserScope, link>>
           /\ Shuts(calls[c].session) \/ Steady
           /\ Judges(c, "failed", 0)
<1>1. /\ calls[c].pc = "finish" /\ BrowserDoes("outage") /\ UNCHANGED <<browserScope, link>>
      /\ Closed(calls[c].session) \/ Steady
      /\ Recording(c, "failed", 0)
    BY Mishaps DEF FinishFails, Steady, skyvernVars
<1>2. calls[c].kind = "complete" /\ calls[c].session \in 1..Len(sessions) /\ 0 \in 0..MaxSessions
    BY <1>1, Where, Shelves DEF CallFits
<1> QED BY <1>1, <1>2, Shutting, Judging

LEMMA RecordDoes ==
    ASSUME PlatformInv, NEW c \in BrowserClients, Record(c)
    PROVE  /\ calls[c].kind = "complete" /\ calls[c].pc = "record" /\ Leaves(c)
           /\ Steady /\ browserScope' = browserScope
           /\ calls[c].out \in {"connected", "failed"}
           /\ calls[c].out = "connected" => calls[c].profile # 0
           /\ link.status = "none" => link' = link
           /\ link.status # "none" =>
                 /\ link'.status = calls[c].out
                 /\ link'.profile = IF calls[c].profile = 0 THEN link.profile ELSE calls[c].profile
<1>1. /\ calls[c].pc = "record" /\ Update(calls[c].out, calls[c].profile) /\ Done(c)
      /\ UNCHANGED <<browserScope, skyvernVars, mishaps>>
    BY DEF Record
<1>2. /\ calls[c].kind = "complete" /\ calls[c].out \in {"connected", "failed"}
      /\ calls[c].out = "connected" => calls[c].profile # 0
      /\ calls[c].profile \in ProfileNames
    BY <1>1, Where DEF CallFits, ProfileNames
<1>3. /\ link.status = "none" => link' = link
      /\ link.status # "none" =>
            /\ link'.status = calls[c].out
            /\ link'.profile = IF calls[c].profile = 0 THEN link.profile ELSE calls[c].profile
    BY <1>1, <1>2, Updates
<1> QED BY <1>1, <1>2, <1>3, Leaving DEF Steady, skyvernVars

LEMMA CloseLastDoes ==
    ASSUME PlatformInv, NEW c \in BrowserClients, CloseLast(c)
    PROVE  /\ calls[c].kind = "disconnect" /\ calls[c].pc = "close"
           /\ UNCHANGED <<browserScope, link>>
           /\ \/ /\ Shuts(calls[c].session)
                 /\ Moves(c, DeleteOrErase(calls[c].profile))
              \/ Leaves(c) /\ Shuts(calls[c].session) /\ BrowserDoes("lost")
              \/ Leaves(c) /\ Steady /\ BrowserDoes("outage")
<1>1. /\ calls[c].kind = "disconnect" /\ calls[c].pc = "close" /\ UNCHANGED <<browserScope, link>>
      /\ \/ Closed(calls[c].session) /\ Step(c, DeleteOrErase(calls[c].profile))
         \/ Closed(calls[c].session) /\ Done(c) /\ BrowserDoes("lost")
         \/ Done(c) /\ Steady /\ BrowserDoes("outage")
    BY Mishaps DEF CloseLast, Steady, skyvernVars
<1>2. calls[c].session \in 1..Len(sessions)
      /\ DeleteOrErase(calls[c].profile) \in {"delete", "erase"}
    BY <1>1, Where, Shelves DEF CallFits, DeleteOrErase
<1> QED BY <1>1, <1>2, Shutting, Moving, Leaving

LEMMA DeleteDoes ==
    ASSUME PlatformInv, NEW c \in BrowserClients, DeleteProfile(c)
    PROVE  /\ calls[c].kind = "disconnect" /\ calls[c].pc = "delete"
           /\ calls[c].profile \in 1..Len(profiles)
           /\ UNCHANGED <<browserScope, link, sessions>>
           /\ \/ /\ Moves(c, "erase") \/ (Leaves(c) /\ BrowserDoes("lost"))
                 /\ Len(profiles') = Len(profiles)
                 /\ profiles'[calls[c].profile] = "deleted"
                 /\ \A p \in 1..Len(profiles) : p # calls[c].profile => profiles'[p] = profiles[p]
              \/ Leaves(c) /\ Steady
<1>1. /\ calls[c].pc = "delete" /\ UNCHANGED <<browserScope, link, sessions>>
      /\ \/ /\ Step(c, "erase") \/ (Done(c) /\ BrowserDoes("lost"))
            /\ profiles' = [profiles EXCEPT ![calls[c].profile] = "deleted"]
         \/ Done(c) /\ Steady
    BY Mishaps DEF DeleteProfile, Steady
<1>2. calls[c].kind = "disconnect" /\ calls[c].profile \in 1..Len(profiles)
    BY <1>1, Where, Shelves DEF CallFits
<1>3. CASE /\ Step(c, "erase") \/ (Done(c) /\ BrowserDoes("lost"))
           /\ profiles' = [profiles EXCEPT ![calls[c].profile] = "deleted"]
    <2>1. "deleted" \in Profile /\ profiles \in Seq(Profile)
        BY DEF Profile, PlatformInv, ShelfInv
    <2>2. Len(profiles') = Len(profiles)
        BY <1>2, <1>3, <2>1, ExceptSeq
    <2>3. Moves(c, "erase") \/ (Leaves(c) /\ BrowserDoes("lost"))
        BY <1>1, <1>3, Moving, Leaving
    <2> QED BY <1>1, <1>2, <1>3, <2>2, <2>3, Shelves
<1>4. CASE Done(c) /\ Steady
    BY <1>1, <1>2, <1>4, Leaving
<1> QED BY <1>1, <1>3, <1>4

LEMMA EraseDoes ==
    ASSUME PlatformInv, NEW c \in BrowserClients, EraseLink(c)
    PROVE  /\ calls[c].kind = "disconnect" /\ calls[c].pc = "erase" /\ Leaves(c)
           /\ Steady /\ browserScope' = browserScope
           /\ link'.status = "none" /\ link'.profile = 0 /\ link'.session = 0
<1>1. /\ calls[c].pc = "erase" /\ Done(c) /\ Steady /\ browserScope' = browserScope
      /\ link'.status = "none" /\ link'.profile = 0 /\ link'.session = 0
    BY DEF EraseLink, Steady, skyvernVars, NoLink
<1>2. calls[c].kind = "disconnect"
    BY <1>1, Where DEF CallFits
<1> QED BY <1>1, <1>2, Leaving

LEMMA WorldDoes ==
    ASSUME PlatformInv, BrowserWorld
    PROVE  /\ UNCHANGED <<browserScope, link>> /\ Len(sessions') = Len(sessions)
           /\ Len(profiles') = Len(profiles)
           /\ \A s \in 1..Len(sessions) : sessions'[s].open = sessions[s].open
           /\ \A p \in 1..Len(profiles) :
                 profiles'[p] = profiles[p] \/ (profiles[p] = "signed" /\ profiles'[p] = "expired")
           /\ \/ calls' = calls
              \/ /\ \A c \in BrowserClients : calls'[c] = NoCall
                 /\ BrowserDoes("crash")
                 /\ \A c \in BrowserClients :
                       BrowserDoes("torn") \/ calls[c].pc \notin {"store", "unmake", "record", "erase"}
<1>1. ASSUME NEW s \in 1..MaxSessions, SignIn(s)
      PROVE  /\ UNCHANGED <<browserScope, link, profiles, calls>> /\ Len(sessions') = Len(sessions)
             /\ \A t \in 1..Len(sessions) : sessions'[t].open = sessions[t].open
    <2> DEFINE x == [sessions[s] EXCEPT !.signed = TRUE]
    <2>1. /\ s \in 1..Len(sessions) /\ sessions' = [sessions EXCEPT ![s] = x]
          /\ UNCHANGED <<browserScope, link, profiles, calls>>
        BY <1>1, Shelves DEF SignIn
    <2>2. x \in Session /\ x.open = sessions[s].open /\ sessions \in Seq(Session)
        BY <2>1, Shelves DEF Session, PlatformInv, ShelfInv
    <2> HIDE DEF x
    <2>3. Len(sessions') = Len(sessions)
        BY <2>1, <2>2, ExceptSeq
    <2> QED BY <2>1, <2>2, <2>3, Shelves
<1>2. ASSUME NEW p \in 1..MaxSessions, SignedOut(p)
      PROVE  /\ UNCHANGED <<browserScope, link, sessions, calls>> /\ Len(profiles') = Len(profiles)
             /\ \A q \in 1..Len(profiles) :
                   profiles'[q] = profiles[q] \/ (profiles[q] = "signed" /\ profiles'[q] = "expired")
    <2>1. /\ p \in 1..Len(profiles) /\ profiles' = [profiles EXCEPT ![p] = "expired"]
          /\ UNCHANGED <<browserScope, link, sessions, calls>> /\ profiles[p] = "signed"
        BY <1>2, Shelves DEF SignedOut
    <2>2. profiles \in Seq(Profile) /\ "expired" \in Profile
        BY DEF Profile, PlatformInv, ShelfInv
    <2>3. Len(profiles') = Len(profiles)
        BY <2>1, <2>2, ExceptSeq
    <2> QED BY <2>1, <2>3, Shelves
<1>3. BrowserCrash =>
         /\ UNCHANGED <<browserScope, link, sessions, profiles>> /\ BrowserDoes("crash")
         /\ \A c \in BrowserClients : calls'[c] = NoCall
         /\ \A c \in BrowserClients :
               BrowserDoes("torn") \/ calls[c].pc \notin {"store", "unmake", "record", "erase"}
    BY Mishaps DEF BrowserCrash, skyvernVars
<1>4. CASE \E n \in 1..MaxSessions : SignIn(n)
    BY <1>1, <1>4
<1>5. CASE \E n \in 1..MaxSessions : SignedOut(n)
    BY <1>2, <1>5
<1>6. CASE BrowserCrash
    BY <1>3, <1>6
<1> QED BY <1>4, <1>5, <1>6 DEF BrowserWorld

-----------------------------------------------------------------------------
(* The invariants of a platform's login, step by step.                     *)

LEMMA StepsStay ==
    ASSUME PlatformInv, NEW c \in BrowserClients, BrowserStep(c)
    PROVE  /\ Others(c) /\ calls[c] # NoCall /\ browserScope' = browserScope
           /\ calls'[c] = NoCall \/ calls'[c].kind = calls[c].kind
<1>1. CASE CloseOld(c) \/ OpenSession(c) \/ OpenRefused(c) \/ StoreSession(c)
    BY <1>1, CloseOldDoes, OpenDoes, StartDoes, Where DEF Moves, Leaves
<1>2. CASE MarkVerifying(c) \/ FinishReused(c) \/ FinishNew(c)
    BY <1>2, MarkDoes, FinishReusedDoes, FinishNewDoes DEF Moves, Leaves, Judges
<1>3. CASE FinishForeign(c) \/ DeleteForeign(c) \/ FinishFails(c) \/ Record(c)
    BY <1>3, FinishForeignDoes, DeleteForeignDoes, FinishFailsDoes, RecordDoes DEF Leaves, Judges
<1>4. CASE CloseLast(c) \/ DeleteProfile(c) \/ EraseLink(c)
    BY <1>4, CloseLastDoes, DeleteDoes, EraseDoes DEF Moves, Leaves
<1> QED BY <1>1, <1>2, <1>3, <1>4 DEF BrowserStep

LEMMA ScopeStands == ASSUME PlatformInv, BrowserNext PROVE browserScope' = browserScope
    BY StepsStay, BeginsDoes, WorldDoes DEF BrowserNext, BrowserRequest

(* The guard of a request: unless the scope says otherwise it is alone, or *)
(* among starts and disconnections.                                        *)
LEMMA AloneKept ==
    ASSUME PlatformInv, CompletesAlone, BrowserNext
    PROVE  CompletesAlone'
<1> SUFFICES ASSUME ~BrowserDoes("complete_too"),
                    NEW c \in BrowserClients, NEW d \in BrowserClients,
                    calls'[c].kind = "complete", d # c
             PROVE  calls'[d] = NoCall
    BY ScopeStands DEF CompletesAlone, BrowserDoes
<1>1. \A x, y \in BrowserClients : calls[x].kind = "complete" /\ y # x => calls[y] = NoCall
    BY DEF CompletesAlone
<1>2. ASSUME NEW e \in BrowserClients, BrowserStep(e) PROVE calls'[d] = NoCall
    BY <1>1, <1>2, StepsStay, Where DEF Others
<1>3. ASSUME NEW e \in BrowserClients, BrowserRequest(e) PROVE calls'[d] = NoCall
    <2>1. /\ Others(e) /\ calls[e] = NoCall
          /\ \A x \in BrowserClients :
                calls[x] = NoCall \/ "complete" \notin {calls'[e].kind, calls[x].kind}
        BY <1>3, BeginsDoes DEF BrowserRequest, MayRequest
    <2> QED BY <1>1, <2>1, Where DEF Others
<1>4. CASE BrowserWorld
    BY <1>1, <1>4, WorldDoes, Where
<1> QED BY <1>2, <1>3, <1>4 DEF BrowserNext

(* A profile to be deleted again was made by its request alone: names are  *)
(* taken over from the row only.                                           *)
LEMMA UnmadeKept ==
    ASSUME PlatformInv, UnmadeInv, BrowserNext
    PROVE  UnmadeInv'
<1> SUFFICES ASSUME NEW c \in BrowserClients, calls'[c].pc = "unmake",
                    NEW d \in BrowserClients
             PROVE  /\ link'.profile # calls'[c].profile
                    /\ d # c => calls'[d].profile # calls'[c].profile
    BY DEF UnmadeInv
<1>1. /\ \A e \in BrowserClients : calls[e].profile \in 0..Len(profiles)
      /\ link.profile \in 0..Len(profiles) /\ NoCall.profile = 0 /\ Len(profiles) \in Nat
    BY Where, Shelves DEF NoCall
<1>2. calls[c].pc = "unmake" =>
         /\ calls[c].profile # 0 /\ link.profile # calls[c].profile
         /\ \A e \in BrowserClients : e # c => calls[e].profile # calls[c].profile
    BY Where DEF UnmadeInv, CallFits
<1>3. ASSUME NEW e \in BrowserClients, BrowserStep(e)
      PROVE  /\ link'.profile # calls'[c].profile
             /\ d # c => calls'[d].profile # calls'[c].profile
    <2>1. CASE FinishForeign(e)
        BY <1>1, <1>2, <2>1, FinishForeignDoes DEF Others
    <2>2. CASE CloseOld(e) \/ OpenSession(e) \/ OpenRefused(e) \/ CloseLast(e) \/ DeleteProfile(e)
        BY <1>1, <1>2, <2>2, CloseOldDoes, OpenDoes, StartDoes, CloseLastDoes, DeleteDoes, Where
           DEF Others, Moves, Leaves, OpenRefused, DeleteOrErase
    <2>3. CASE StoreSession(e) \/ MarkVerifying(e) \/ Record(e) \/ EraseLink(e)
        BY <1>1, <1>2, <2>3, StartDoes, MarkDoes, RecordDoes, EraseDoes, Where
           DEF Others, Moves, Leaves
    <2>4. CASE FinishReused(e) \/ FinishNew(e) \/ DeleteForeign(e) \/ FinishFails(e)
        BY <1>1, <1>2, <2>4, FinishReusedDoes, FinishNewDoes, DeleteForeignDoes, FinishFailsDoes
           DEF Others, Judges
    <2> QED BY <1>3, <2>1, <2>2, <2>3, <2>4 DEF BrowserStep
<1>4. ASSUME NEW e \in BrowserClients, BrowserRequest(e)
      PROVE  /\ link'.profile # calls'[c].profile
             /\ d # c => calls'[d].profile # calls'[c].profile
    BY <1>2, <1>4, BeginsDoes DEF BrowserRequest, Others
<1>5. CASE BrowserWorld
    BY <1>2, <1>5, WorldDoes, Where
<1> QED BY <1>3, <1>4, <1>5 DEF BrowserNext

(* What a platform is connected with works.                                *)
LEMMA WorksKept ==
    ASSUME PlatformInv, CompletesAlone, UnmadeInv, WorksInv, BrowserNext
    PROVE  WorksInv'
<1>0. /\ browserScope' = browserScope
      /\ \A op : BrowserDoes(op)' <=> BrowserDoes(op)
    BY ScopeStands DEF BrowserDoes
<1>1. DisconnectsAsked'
    <2>1. ASSUME NEW c \in BrowserClients, BrowserStep(c) PROVE DisconnectsAsked'
        BY <2>1, <1>0, StepsStay, Where DEF WorksInv, DisconnectsAsked, Others
    <2>2. ASSUME NEW c \in BrowserClients, BrowserRequest(c) PROVE DisconnectsAsked'
        BY <2>2, <1>0, BeginsDoes DEF WorksInv, DisconnectsAsked, Others, BrowserRequest, MayRequest
    <2>3. CASE BrowserWorld
        BY <2>3, <1>0, WorldDoes, Where DEF WorksInv, DisconnectsAsked
    <2> QED BY <2>1, <2>2, <2>3 DEF BrowserNext
(* A profile that works stays, but for a disconnection and for a foreign   *)
(* one that is deleted again.                                              *)
<1>2. ASSUME NEW p \in 1..Len(profiles), Stays(p), profiles'[p] \notin {"signed", "expired"}
      PROVE  \E c \in BrowserClients :
                \/ /\ calls[c].kind = "disconnect"
                   /\ calls'[c].pc = "erase" \/ BrowserDoes("lost")
                \/ calls[c].pc = "unmake" /\ calls[c].profile = p
    <2>1. ASSUME NEW c \in BrowserClients, BrowserStep(c), ~DeleteProfile(c), ~DeleteForeign(c)
          PROVE  profiles'[p] \in {"signed", "expired"}
        BY <1>2, <2>1, CloseOldDoes, OpenDoes, StartDoes, MarkDoes, FinishReusedDoes, FinishNewDoes,
           FinishForeignDoes, FinishFailsDoes, RecordDoes, CloseLastDoes, EraseDoes
           DEF BrowserStep, Stays, Steady, Shuts, Makes
    <2>2. ASSUME NEW c \in BrowserClients, DeleteProfile(c)
          PROVE  /\ calls[c].kind = "disconnect"
                 /\ calls'[c].pc = "erase" \/ BrowserDoes("lost")
        BY <1>2, <2>2, DeleteDoes DEF Stays, Steady, Moves
    <2>3. ASSUME NEW c \in BrowserClients, DeleteForeign(c)
          PROVE  calls[c].pc = "unmake" /\ calls[c].profile = p
        BY <1>2, <2>3, DeleteForeignDoes DEF Stays
    <2>4. ASSUME NEW c \in BrowserClients, BrowserRequest(c)
          PROVE  profiles'[p] \in {"signed", "expired"}
        BY <1>2, <2>4, BeginsDoes DEF BrowserRequest, Stays
    <2>5. CASE BrowserWorld
        BY <1>2, <2>5, WorldDoes DEF Stays
    <2> QED BY <1>2, <2>1, <2>2, <2>3, <2>4, <2>5 DEF BrowserNext
<1>3. \A c \in BrowserClients : calls'[c].pc = "record" /\ calls'[c].out = "connected" =>
         \/ calls'[c] = calls[c]
         \/ profiles'[calls'[c].profile] = "signed"
    <2>1. ASSUME NEW c \in BrowserClients, NEW d \in BrowserClients, BrowserStep(d),
                 calls'[c].pc = "record", calls'[c].out = "connected", calls'[c] # calls[c]
          PROVE  profiles'[calls'[c].profile] = "signed"
        <3>1. c = d /\ calls'[c] # NoCall
            BY <2>1, StepsStay, Where DEF Others
        <3>2. FinishReused(c) \/ FinishNew(c) \/ FinishForeign(c) \/ DeleteForeign(c)
                 \/ FinishFails(c)
            BY <2>1, <3>1, CloseOldDoes, OpenDoes, StartDoes, MarkDoes, RecordDoes, CloseLastDoes,
               DeleteDoes, EraseDoes DEF BrowserStep, Moves, Leaves, DeleteOrErase
        <3>3. CASE FinishReused(c)
            BY <2>1, <3>3, FinishReusedDoes DEF Judges
        <3>4. CASE FinishNew(c)
            BY <2>1, <3>4, FinishNewDoes DEF Judges, Makes
        <3> QED BY <2>1, <3>2, <3>3, <3>4, FinishForeignDoes, DeleteForeignDoes, FinishFailsDoes
                   DEF Judges
    <2>2. ASSUME NEW c \in BrowserClients, NEW d \in BrowserClients, BrowserRequest(d),
                 calls'[c].pc = "record"
          PROVE  calls'[c] = calls[c]
        BY <2>2, BeginsDoes DEF Others, BrowserRequest
    <2>3. CASE BrowserWorld
        BY <2>3, WorldDoes, Where
    <2> QED BY <2>1, <2>2, <2>3 DEF BrowserNext
<1>4. VerdictInv'
    <2> SUFFICES ASSUME ~({"complete_too", "disconnect"} \subseteq browserScope),
                        NEW c \in BrowserClients,
                        calls'[c].pc = "record", calls'[c].out = "connected"
                 PROVE  profiles'[calls'[c].profile] \in {"signed", "expired"}
        BY <1>0 DEF VerdictInv, Stays
    <2>1. CASE profiles'[calls'[c].profile] = "signed"
        BY <2>1 DEF Stays
    <2>2. CASE calls'[c] = calls[c]
        <3>1. /\ Stays(calls[c].profile) /\ calls[c].profile \in 1..Len(profiles)
              /\ calls[c].kind = "complete"
            BY <2>2, Where, Shelves DEF WorksInv, VerdictInv, CallFits
        <3>2. ASSUME NEW d \in BrowserClients, calls[d].kind = "disconnect"
              PROVE  FALSE
            BY <3>1, <3>2, Where DEF WorksInv, DisconnectsAsked, CompletesAlone, BrowserDoes
        <3>3. ASSUME NEW d \in BrowserClients, calls[d].pc = "unmake"
              PROVE  calls[d].profile # calls[c].profile
            BY <2>2, <3>3 DEF UnmadeInv
        <3>4. profiles'[calls[c].profile] \in {"signed", "expired"}
            BY <1>2, <3>1, <3>2, <3>3
        <3> QED BY <2>2, <3>4 DEF Stays
    <2> QED BY <1>3, <2>1, <2>2
(* The row changes to "connected" with a verdict, and who is about to      *)
(* erase the row erases it.                                                *)
<1>5. ASSUME link'.status = "connected"
      PROVE  \/ link' = link
             \/ /\ link'.profile # 0 /\ profiles'[link'.profile] \in {"signed", "expired"}
             \/ {"complete_too", "disconnect"} \subseteq browserScope
    <2>1. ASSUME NEW c \in BrowserClients, Record(c), link' # link
          PROVE  \/ link'.profile # 0 /\ profiles'[link'.profile] \in {"signed", "expired"}
                 \/ {"complete_too", "disconnect"} \subseteq browserScope
        BY <1>5, <2>1, RecordDoes DEF WorksInv, VerdictInv, Stays, Steady
    <2>2. ASSUME NEW c \in BrowserClients, BrowserStep(c), ~Record(c)
          PROVE  link' = link
        BY <1>5, <2>2, CloseOldDoes, OpenDoes, StartDoes, MarkDoes, FinishReusedDoes,
           FinishNewDoes, FinishForeignDoes, DeleteForeignDoes, FinishFailsDoes, CloseLastDoes,
           DeleteDoes, EraseDoes DEF BrowserStep
    <2> QED BY <2>1, <2>2, BeginsDoes, WorldDoes DEF BrowserNext, BrowserRequest
<1>6. ASSUME NEW d \in BrowserClients, calls[d].pc = "erase", ~BrowserDoes("torn"),
             link'.status # "none"
      PROVE  calls'[d].pc = "erase"
    <2>1. ASSUME NEW c \in BrowserClients, BrowserStep(c) PROVE calls'[d].pc = "erase"
        <3>1. ~EraseLink(c)
            BY <1>6, EraseDoes
        <3>2. c # d
            BY <1>6, <2>1, <3>1, CloseOldDoes, OpenDoes, StartDoes, MarkDoes, FinishReusedDoes,
               FinishNewDoes, FinishForeignDoes, DeleteForeignDoes, FinishFailsDoes, RecordDoes,
               CloseLastDoes, DeleteDoes DEF BrowserStep
        <3> QED BY <1>6, <2>1, <3>2, StepsStay DEF Others
    <2>2. ASSUME NEW c \in BrowserClients, BrowserRequest(c) PROVE calls'[d].pc = "erase"
        BY <1>6, <2>2, BeginsDoes, Where DEF Others, BrowserRequest
    <2>3. CASE BrowserWorld
        BY <1>6, <2>3, WorldDoes
    <2> QED BY <2>1, <2>2, <2>3 DEF BrowserNext
<1>7. ConnectedProfileWorks'
    <2> SUFFICES ASSUME ~BrowserDoes("torn"),
                        ~(BrowserDoes("disconnect") /\ BrowserDoes("lost")),
                        ~({"complete_too", "disconnect"} \subseteq browserScope),
                        link'.status = "connected",
                        \A c \in BrowserClients : calls'[c].pc # "erase"
                 PROVE  link'.profile # 0 /\ profiles'[link'.profile] \in {"signed", "expired"}
        BY <1>0 DEF ConnectedProfileWorks, Stays, BrowserDoes
    <2>1. CASE link' = link
        <3>1. \A d \in BrowserClients : calls[d].pc # "erase"
            BY <1>6
        <3>2. link.profile # 0 /\ Stays(link.profile) /\ link.profile \in 0..Len(profiles)
            BY <2>1, <3>1, Where, Shelves DEF WorksInv, ConnectedProfileWorks, Stays, PlatformInv,
                                              ShelfInv, ProfileNames, BrowserDoes
        <3>3. link.profile \in 1..Len(profiles)
            BY <3>2, Shelves
        <3>4. \A d \in BrowserClients : calls[d].kind = "disconnect" => ~BrowserDoes("lost")
            BY DEF WorksInv, DisconnectsAsked
        <3>5. \A d \in BrowserClients : calls[d].pc = "unmake" => calls[d].profile # link.profile
            BY DEF UnmadeInv
        <3>6. profiles'[link.profile] \in {"signed", "expired"}
            BY <1>2, <3>2, <3>3, <3>4, <3>5
        <3> QED BY <2>1, <3>2, <3>6 DEF Stays
    <2> QED BY <1>5, <2>1
<1> QED BY <1>1, <1>4, <1>7 DEF WorksInv

(* Every profile that is not deleted is known by its name.                 *)
Inexact == \/ {"lost", "torn", "complete_too"} \cap browserScope # {}
           \/ {"foreign", "outage"} \subseteq browserScope
Named == \A p \in 1..Len(profiles) : profiles[p] # "deleted" =>
            /\ link.profile = p \/ (link.profile = 0 /\ Brought(p))
            /\ \A c \in BrowserClients :
                  calls[c].kind \in {"start", "disconnect"} => calls[c].profile = p
Completed == \A c \in BrowserClients : calls[c].kind = "complete" =>
            /\ link.status # "none"
            /\ calls[c].pc \notin {"unmake", "record"} => calls[c].profile = link.profile
            /\ calls[c].profile # 0 => link.profile \in {0, calls[c].profile}
            /\ calls[c].pc = "unmake" => BrowserDoes("foreign")
Erased == \A c \in BrowserClients :
            calls[c].pc = "erase" /\ calls[c].profile # 0 => profiles[calls[c].profile] = "deleted"

LEMMA ProfilesParts ==
    ASSUME PlatformInv
    PROVE  ProfileInv <=> Inexact \/ (Named /\ Completed /\ Erased)
    BY Shelves DEF ProfileInv, Inexact, Named, Completed, Erased

LEMMA NamedKept ==
    ASSUME PlatformInv, CompletesAlone, ~Inexact, Named, Completed, Erased, BrowserNext
    PROVE  Named'
<1>0. ~BrowserDoes("lost") /\ ~BrowserDoes("torn") /\ ~BrowserDoes("complete_too")
    BY DEF Inexact, BrowserDoes
<1>1. \A c, d \in BrowserClients : calls[c].kind = "complete" /\ d # c => calls[d] = NoCall
    BY <1>0 DEF CompletesAlone
<1>2. \A c \in BrowserClients : calls[c].profile \in 0..Len(profiles) /\ link.profile \in 0..Len(profiles)
    BY Where
(* The steps that leave the row, the name of a request and what is deleted. *)
<1>3. ASSUME NEW c \in BrowserClients, Others(c), link'.profile = link.profile,
             Len(profiles') = Len(profiles),
             \A p \in 1..Len(profiles) : profiles'[p] # "deleted" => profiles[p] # "deleted",
             calls[c].pc \notin {"unmake", "record"} \/ calls'[c] = calls[c],
             \/ calls'[c] = NoCall
             \/ calls'[c].kind = calls[c].kind /\ calls'[c].profile = calls[c].profile
             \/ calls'[c].kind = "complete"
      PROVE  Named'
    <2> SUFFICES ASSUME NEW p \in 1..Len(profiles), profiles'[p] # "deleted"
                 PROVE  /\ link'.profile = p \/ (link'.profile = 0 /\ Brought(p)')
                        /\ \A d \in BrowserClients :
                              calls'[d].kind \in {"start", "disconnect"} => calls'[d].profile = p
        BY <1>3 DEF Named
    <2>1. /\ link.profile = p \/ (link.profile = 0 /\ Brought(p))
          /\ \A d \in BrowserClients :
                calls[d].kind \in {"start", "disconnect"} => calls[d].profile = p
        BY <1>3 DEF Named
    <2>2. Brought(p) => Brought(p)'
        BY <1>3 DEF Brought, Others
    <2>3. \A d \in BrowserClients :
             calls'[d].kind \in {"start", "disconnect"} => calls'[d].profile = p
        BY <1>3, <2>1, Where DEF Others
    <2> QED BY <1>3, <2>1, <2>2, <2>3
<1>4. ASSUME NEW c \in BrowserClients, CloseOld(c) \/ CloseLast(c) PROVE Named'
    BY <1>3, <1>4, CloseOldDoes, CloseLastDoes DEF Moves, Leaves, Shuts, Steady
<1>5. ASSUME NEW c \in BrowserClients, OpenSession(c) \/ OpenRefused(c) PROVE Named'
    <2>1. CASE OpenSession(c)
        BY <1>0, <1>3, <2>1, OpenDoes
    <2>2. CASE OpenRefused(c)
        <3>1. calls[c].pc = "open"
            BY <2>2 DEF OpenRefused
        <3> QED BY <1>3, <2>2, <3>1, StartDoes DEF Leaves, Steady
    <2> QED BY <1>5, <2>1, <2>2
<1>6. ASSUME NEW c \in BrowserClients, StoreSession(c) PROVE Named'
    <2>1. /\ Leaves(c) /\ Steady /\ calls[c].kind = "start"
          /\ link'.profile = calls[c].profile
        BY <1>6, StartDoes DEF StoreSession
    <2> QED BY <2>1, Where DEF Named, Steady, Leaves, Others
<1>7. ASSUME NEW c \in BrowserClients, MarkVerifying(c) \/ FinishReused(c) \/ FinishFails(c)
      PROVE  Named'
    BY <1>3, <1>7, MarkDoes, FinishReusedDoes, FinishFailsDoes
       DEF Moves, Leaves, Judges, Steady, Shuts
<1>8. ASSUME NEW c \in BrowserClients, FinishNew(c) \/ FinishForeign(c) PROVE Named'
    <2>1. calls[c].kind = "complete" /\ calls[c].pc = "finish" /\ calls[c].profile = 0
          /\ link' = link
        BY <1>8, FinishNewDoes, FinishForeignDoes
    <2>2. link.profile = 0 /\ \A p \in 1..Len(profiles) : ~Brought(p)
        BY <1>1, <2>1, Where DEF Completed, Brought
    <2>3. \A p \in 1..Len(profiles) : profiles[p] = "deleted"
        BY <2>2 DEF Named
    <2>4. /\ Others(c) /\ calls'[c].kind = "complete" /\ Len(profiles') = Len(profiles) + 1
          /\ calls'[c].pc \in {"unmake", "record"} /\ calls'[c].profile = Len(profiles) + 1
          /\ \A p \in 1..Len(profiles) : profiles'[p] = "deleted"
        BY <1>0, <1>8, <2>3, FinishNewDoes, FinishForeignDoes DEF Makes, Judges
    <2>5. \A p \in 1..Len(profiles') : profiles'[p] # "deleted" =>
             p = Len(profiles) + 1 /\ calls'[c].profile = p
        BY <2>4, Shelves
    <2>6. \A d \in BrowserClients : calls'[d].kind \notin {"start", "disconnect"}
        BY <1>1, <2>1, <2>4, Where DEF Others
    <2> QED BY <2>1, <2>2, <2>4, <2>5, <2>6 DEF Named, Brought
<1>9. ASSUME NEW c \in BrowserClients, Record(c) PROVE Named'
    <2>1. /\ calls[c].kind = "complete" /\ Leaves(c) /\ Steady /\ link.status # "none"
          /\ link'.profile = IF calls[c].profile = 0 THEN link.profile ELSE calls[c].profile
          /\ calls[c].profile # 0 => link.profile \in {0, calls[c].profile}
        BY <1>9, RecordDoes DEF Completed
    <2>2. \A d \in BrowserClients : calls'[d] = NoCall
        BY <1>1, <2>1 DEF Leaves, Others
    <2>3. \A p \in 1..Len(profiles) : profiles[p] # "deleted" => link'.profile = p
        BY <1>1, <2>1, Where DEF Named, Brought
    <2> QED BY <2>1, <2>2, <2>3, Where DEF Named, Steady
<1>10. ASSUME NEW c \in BrowserClients, DeleteProfile(c) PROVE Named'
    <2>1. CASE Leaves(c) /\ Steady
        BY <1>3, <1>10, <2>1, DeleteDoes DEF Leaves, Steady
    <2>2. CASE ~(Leaves(c) /\ Steady)
        BY <1>0, <1>3, <1>10, <2>2, DeleteDoes DEF Moves
    <2> QED BY <2>1, <2>2
<1>11. ASSUME NEW c \in BrowserClients, EraseLink(c) PROVE Named'
    <2>1. /\ calls[c].kind = "disconnect" /\ calls[c].pc = "erase" /\ Steady
        BY <1>11, EraseDoes
    <2>2. \A p \in 1..Len(profiles) : profiles[p] = "deleted"
        BY <2>1 DEF Named, Erased
    <2> QED BY <2>1, <2>2 DEF Named, Steady
<1>12. ASSUME NEW c \in BrowserClients, BrowserRequest(c) PROVE Named'
    <2>1. /\ Others(c) /\ UNCHANGED <<link, profiles>> /\ calls'[c].profile = link.profile
          /\ calls[c] = NoCall /\ \A d \in BrowserClients : calls[d].kind # "complete"
        BY <1>0, <1>12, BeginsDoes, Where DEF BrowserRequest, MayRequest
    <2> QED BY <2>1, Where DEF Named, Brought, Others, CallFits
<1>13. CASE BrowserWorld
    <2>1. CASE calls' = calls
        BY <1>13, <2>1, WorldDoes DEF Named, Brought
    <2>2. CASE calls' # calls
        BY <1>0, <1>13, <2>2, WorldDoes, Where DEF Named, Brought
    <2> QED BY <2>1, <2>2
<1>14. ASSUME NEW c \in BrowserClients, DeleteForeign(c) PROVE Named'
    <2>1. /\ calls[c].kind = "complete" /\ calls[c].pc = "unmake" /\ link' = link
          /\ Len(profiles') = Len(profiles) /\ profiles'[calls[c].profile] = "deleted"
          /\ \A p \in 1..Len(profiles) : p # calls[c].profile => profiles'[p] = profiles[p]
        BY <1>14, DeleteForeignDoes DEF Completed, Inexact, BrowserDoes
    <2>2. link.profile \in {0, calls[c].profile}
        BY <2>1, Where DEF Completed, CallFits
    <2>3. \A p \in 1..Len(profiles) : profiles[p] # "deleted" => p = calls[c].profile
        BY <1>1, <2>1, <2>2, Where DEF Named, Brought
    <2>4. \A p \in 1..Len(profiles') : profiles'[p] = "deleted"
        BY <2>1, <2>3
    <2> QED BY <2>4 DEF Named
<1> QED BY <1>4, <1>5, <1>6, <1>7, <1>8, <1>9, <1>10, <1>11, <1>12, <1>13, <1>14
        DEF BrowserNext, BrowserStep

LEMMA ErasedKept ==
    ASSUME PlatformInv, ~Inexact, Erased, BrowserNext
    PROVE  Erased'
<1>0. \A c \in BrowserClients : calls[c].profile \in 0..Len(profiles)
    BY Where
<1>1. \A p \in 1..Len(profiles) : profiles[p] = "deleted" => profiles'[p] = "deleted"
    <2>1. ASSUME NEW c \in BrowserClients, BrowserStep(c), NEW p \in 1..Len(profiles),
                 profiles[p] = "deleted"
          PROVE  profiles'[p] = "deleted"
        <3>1. CASE CloseOld(c) \/ CloseLast(c) \/ FinishReused(c) \/ FinishFails(c)
            BY <2>1, <3>1, CloseOldDoes, CloseLastDoes, FinishReusedDoes, FinishFailsDoes
               DEF Shuts, Steady
        <3>2. CASE OpenSession(c) \/ OpenRefused(c) \/ StoreSession(c) \/ MarkVerifying(c)
                   \/ Record(c) \/ EraseLink(c)
            BY <2>1, <3>2, OpenDoes, StartDoes, MarkDoes, RecordDoes, EraseDoes DEF Steady
        <3>3. CASE FinishNew(c) \/ FinishForeign(c)
            BY <2>1, <3>3, FinishNewDoes, FinishForeignDoes DEF Makes
        <3>4. CASE DeleteProfile(c) \/ DeleteForeign(c)
            BY <2>1, <3>4, DeleteDoes, DeleteForeignDoes DEF Steady
        <3> QED BY <2>1, <3>1, <3>2, <3>3, <3>4 DEF BrowserStep
    <2>2. ASSUME NEW c \in BrowserClients, BrowserRequest(c) PROVE profiles' = profiles
        BY <2>2, BeginsDoes DEF BrowserRequest
    <2> QED BY <2>1, <2>2, WorldDoes DEF BrowserNext
<1>2. ASSUME NEW c \in BrowserClients, calls'[c] = calls[c],
             calls'[c].pc = "erase", calls'[c].profile # 0
      PROVE  profiles'[calls'[c].profile] = "deleted"
    BY <1>0, <1>1, <1>2, Shelves DEF Erased
<1>3. ASSUME NEW c \in BrowserClients, BrowserStep(c),
             calls'[c].pc = "erase", calls'[c].profile # 0
      PROVE  profiles'[calls'[c].profile] = "deleted"
    BY <1>3, CloseOldDoes, OpenDoes, StartDoes, MarkDoes, FinishReusedDoes, FinishNewDoes,
       FinishForeignDoes, DeleteForeignDoes, FinishFailsDoes, RecordDoes, CloseLastDoes,
       DeleteDoes, EraseDoes, Where DEF BrowserStep, Moves, Leaves, Judges, DeleteOrErase
<1>4. ASSUME NEW c \in BrowserClients, BrowserRequest(c) PROVE Erased'
    BY <1>2, <1>4, BeginsDoes DEF BrowserRequest, Others, Erased
<1>5. ASSUME NEW c \in BrowserClients, BrowserStep(c) PROVE Erased'
    BY <1>2, <1>3, <1>5, StepsStay DEF Others, Erased
<1>6. CASE BrowserWorld
    BY <1>2, <1>6, WorldDoes, Where DEF Erased
<1> QED BY <1>4, <1>5, <1>6 DEF BrowserNext

LEMMA CompletedKept ==
    ASSUME PlatformInv, CompletesAlone, ~Inexact, Completed, BrowserNext
    PROVE  Completed'
<1>0. ~BrowserDoes("lost") /\ ~BrowserDoes("torn") /\ ~BrowserDoes("complete_too")
    BY DEF Inexact, BrowserDoes
<1>1. \A c, d \in BrowserClients : calls[c].kind = "complete" /\ d # c => calls[d] = NoCall
    BY <1>0 DEF CompletesAlone
<1>2. ASSUME NEW c \in BrowserClients, BrowserStep(c), calls[c].kind # "complete" PROVE Completed'
    BY <1>1, <1>2, StepsStay, Where DEF Completed, Others, BrowserDoes
<1>3. ASSUME NEW c \in BrowserClients, BrowserStep(c), calls[c].kind = "complete" PROVE Completed'
    <2>1. \A d \in BrowserClients : d # c => calls'[d] = NoCall
        BY <1>1, <1>3, StepsStay DEF Others
    <2>2. calls'[c].kind = "complete" =>
            /\ link'.status # "none"
            /\ calls'[c].pc \notin {"unmake", "record"} => calls'[c].profile = link'.profile
            /\ calls'[c].profile # 0 => link'.profile \in {0, calls'[c].profile}
            /\ calls'[c].pc = "unmake" => BrowserDoes("foreign")
        BY <1>0, <1>3, CloseOldDoes, OpenDoes, StartDoes, MarkDoes, FinishReusedDoes,
           FinishNewDoes, FinishForeignDoes, DeleteForeignDoes, FinishFailsDoes, RecordDoes,
           CloseLastDoes, DeleteDoes, EraseDoes, Where
           DEF BrowserStep, Moves, Leaves, Judges, Completed
    <2>3. browserScope' = browserScope
        BY <1>3, StepsStay
    <2> QED BY <2>1, <2>2, <2>3, Where DEF Completed, BrowserDoes
<1>4. ASSUME NEW c \in BrowserClients, BrowserRequest(c) PROVE Completed'
    BY <1>4, BeginsDoes DEF Completed, Others, BrowserRequest, BrowserDoes
<1>5. CASE BrowserWorld
    BY <1>5, WorldDoes, Where DEF Completed, BrowserDoes
<1> QED BY <1>2, <1>3, <1>4, <1>5 DEF BrowserNext

LEMMA ProfileKept ==
    ASSUME PlatformInv, CompletesAlone, ProfileInv, BrowserNext
    PROVE  ProfileInv'
<1>1. PlatformInv'
    BY PlatformSteps
<1>2. Inexact' <=> Inexact
    BY ScopeStands DEF Inexact
<1>3. ProfileInv' <=> Inexact' \/ (Named' /\ Completed' /\ Erased')
    BY <1>1, ProfilesParts, PTL
<1> QED BY <1>2, <1>3, ProfilesParts, NamedKept, CompletedKept, ErasedKept

(* Every browser that is open can be closed.                               *)
Sole == \A c, d \in BrowserClients : calls[c] = NoCall \/ calls[d] = NoCall \/ c = d
Verifies == \A c \in BrowserClients : calls[c].kind = "complete" => link.status # "none"
Holds(s) == /\ link.session = s /\ link.status = "waiting_for_login"
            /\ \A c \in BrowserClients :
                  calls[c] # NoCall => calls[c].pc \in {"close", "mark"} /\ calls[c].session = s
Carried(s) == \E c \in BrowserClients : calls[c].pc \in {"store", "finish"} /\ calls[c].session = s
Attended == \A s \in 1..Len(sessions) : sessions[s].open => Holds(s) \/ Carried(s)

LEMMA SessionsParts ==
    ASSUME PlatformInv
    PROVE  SessionInv <=> (Unfailing => Sole /\ Verifies /\ Attended)
    BY Shelves DEF SessionInv, Sole, Verifies, Attended, Holds, Carried

LEMMA SoleKept ==
    ASSUME PlatformInv, Unfailing, Sole, Verifies, BrowserNext
    PROVE  Sole' /\ Verifies'
<1>1. ASSUME NEW c \in BrowserClients, BrowserStep(c) PROVE Sole' /\ Verifies'
    <2>1. /\ Others(c) /\ calls[c] # NoCall
          /\ calls'[c] = NoCall \/ calls'[c].kind = calls[c].kind
        BY <1>1, StepsStay
    <2>2. \A d \in BrowserClients : d # c => calls'[d] = NoCall
        BY <2>1 DEF Sole, Others
    <2>3. calls[c].kind = "complete" => link'.status # "none"
        BY <1>1, CloseOldDoes, OpenDoes, StartDoes, MarkDoes, FinishReusedDoes, FinishNewDoes,
           FinishForeignDoes, DeleteForeignDoes, FinishFailsDoes, RecordDoes, CloseLastDoes,
           DeleteDoes, EraseDoes DEF BrowserStep, Verifies
    <2> QED BY <2>1, <2>2, <2>3, Where DEF Sole, Verifies
<1>2. ASSUME NEW c \in BrowserClients, BrowserRequest(c) PROVE Sole' /\ Verifies'
    <2>1. /\ Others(c) /\ link' = link
          /\ calls'[c].kind = "complete" => link.status = "waiting_for_login"
          /\ \A d \in BrowserClients : calls[d] = NoCall
        BY <1>2, BeginsDoes DEF BrowserRequest, MayRequest, Unfailing, BrowserDoes
    <2> QED BY <2>1, Where DEF Sole, Verifies, Others
<1>3. CASE BrowserWorld
    BY <1>3, WorldDoes DEF Unfailing, BrowserDoes, Sole, Verifies
<1> QED BY <1>1, <1>2, <1>3 DEF BrowserNext

LEMMA AttendedKept ==
    ASSUME PlatformInv, Unfailing, Sole, Verifies, Attended, BrowserNext
    PROVE  Attended'
<1>0. ~BrowserDoes("lost") /\ ~BrowserDoes("outage") /\ ~BrowserDoes("crash")
    BY DEF Unfailing, BrowserDoes
(* Who is neither about to close a browser nor about to hand one over is   *)
(* alone, and no browser is open.                                          *)
<1>1. ASSUME NEW c \in BrowserClients, calls[c] # NoCall, NEW s \in 1..Len(sessions),
             sessions[s].open
      PROVE  /\ calls[c].pc \in {"close", "mark", "store", "finish"} /\ calls[c].session = s
             /\ calls[c].pc \in {"close", "mark"} =>
                   link.session = s /\ link.status = "waiting_for_login"
    <2>1. CASE Holds(s)
        BY <1>1, <2>1 DEF Holds
    <2>2. CASE Carried(s)
        BY <1>1, <2>2, Where DEF Carried, Sole
    <2> QED BY <1>1, <2>1, <2>2 DEF Attended
<1>2. ASSUME NEW c \in BrowserClients, calls[c] # NoCall, Shuts(calls[c].session)
      PROVE  Attended'
    BY <1>1, <1>2 DEF Shuts, Attended
<1>3. ASSUME NEW c \in BrowserClients, calls[c] # NoCall, sessions' = sessions,
             calls[c].pc \notin {"close", "mark", "store", "finish"}
      PROVE  Attended'
    BY <1>1, <1>3 DEF Attended
<1>4. ASSUME NEW c \in BrowserClients, CloseOld(c) \/ CloseLast(c) PROVE Attended'
    BY <1>0, <1>2, <1>4, CloseOldDoes, CloseLastDoes DEF Moves, Leaves
<1>5. ASSUME NEW c \in BrowserClients, OpenSession(c) PROVE Attended'
    <2>1. /\ calls[c].pc = "open" /\ Len(sessions') = Len(sessions) + 1
          /\ \A t \in 1..Len(sessions) : sessions'[t] = sessions[t]
          /\ calls'[c].pc = "store" /\ calls'[c].session = Len(sessions) + 1
        BY <1>0, <1>5, OpenDoes
    <2>2. \A t \in 1..Len(sessions) : ~sessions[t].open
        BY <1>1, <2>1, Where
    <2>3. \A t \in 1..Len(sessions') : sessions'[t].open => t = calls'[c].session
        BY <2>1, <2>2, Shelves
    <2> QED BY <2>1, <2>3 DEF Attended, Carried
<1>6. ASSUME NEW c \in BrowserClients, OpenRefused(c) PROVE Attended'
    <2>1. calls[c].pc = "open"
        BY <1>6 DEF OpenRefused
    <2> QED BY <1>3, <1>6, <2>1, StartDoes, Where DEF Steady
<1>7. ASSUME NEW c \in BrowserClients, StoreSession(c) PROVE Attended'
    <2>1. /\ calls[c].pc = "store" /\ Leaves(c) /\ sessions' = sessions
          /\ link'.session = calls[c].session /\ link'.status = "waiting_for_login"
        BY <1>7, StartDoes DEF StoreSession, Steady
    <2>2. \A d \in BrowserClients : calls'[d] = NoCall
        BY <2>1 DEF Sole, Leaves, Others
    <2>3. \A s \in 1..Len(sessions) : sessions[s].open => s = calls[c].session
        BY <1>1, <2>1 DEF Leaves
    <2> QED BY <2>1, <2>2, <2>3 DEF Attended, Holds
<1>8. ASSUME NEW c \in BrowserClients, MarkVerifying(c) PROVE Attended'
    <2>1. /\ calls[c].pc = "mark" /\ Moves(c, "finish") /\ sessions' = sessions
        BY <1>8, MarkDoes DEF Steady, Verifies
    <2>2. \A s \in 1..Len(sessions) : sessions[s].open => s = calls[c].session
        BY <1>1, <2>1 DEF Moves
    <2> QED BY <2>1, <2>2 DEF Attended, Carried, Moves
<1>9. ASSUME NEW c \in BrowserClients, FinishNew(c) \/ FinishForeign(c) PROVE Attended'
    <2>1. /\ calls[c] # NoCall /\ Len(sessions') = Len(sessions)
          /\ \A t \in 1..Len(sessions) :
                sessions'[t].open = IF t = calls[c].session THEN FALSE ELSE sessions[t].open
        BY <1>9, FinishNewDoes, FinishForeignDoes, Where DEF Makes, Judges
    <2> QED BY <1>1, <2>1 DEF Attended
<1>10. ASSUME NEW c \in BrowserClients, FinishReused(c) \/ FinishFails(c) PROVE Attended'
    BY <1>0, <1>2, <1>10, FinishReusedDoes, FinishFailsDoes DEF Judges
<1>11. ASSUME NEW c \in BrowserClients,
              DeleteForeign(c) \/ Record(c) \/ DeleteProfile(c) \/ EraseLink(c)
       PROVE  Attended'
    BY <1>3, <1>11, DeleteForeignDoes, RecordDoes, DeleteDoes, EraseDoes, Where DEF Steady
<1>12. ASSUME NEW c \in BrowserClients, BrowserRequest(c) PROVE Attended'
    <2>1. /\ Others(c) /\ UNCHANGED <<link, sessions>> /\ calls'[c].session = link.session
          /\ link.status = "waiting_for_login" => calls'[c].pc \in {"close", "mark"}
          /\ \A d \in BrowserClients : calls[d] = NoCall
        BY <1>12, BeginsDoes DEF BrowserRequest, MayRequest, Unfailing, BrowserDoes
    <2>2. \A s \in 1..Len(sessions) : sessions[s].open => Holds(s)
        BY <2>1, Where DEF Attended, Carried
    <2>3. \A s \in 1..Len(sessions) : sessions[s].open => Holds(s)'
        BY <2>1, <2>2 DEF Holds, Others
    <2> QED BY <2>1, <2>3 DEF Attended
<1>13. CASE BrowserWorld
    BY <1>0, <1>13, WorldDoes DEF Attended, Holds, Carried
<1> QED BY <1>4, <1>5, <1>6, <1>7, <1>8, <1>9, <1>10, <1>11, <1>12, <1>13
        DEF BrowserNext, BrowserStep

LEMMA SessionKept ==
    ASSUME PlatformInv, SessionInv, BrowserNext
    PROVE  SessionInv'
<1>1. PlatformInv'
    BY PlatformSteps
<1>2. Unfailing' <=> Unfailing
    BY ScopeStands DEF Unfailing
<1>3. SessionInv' <=> (Unfailing' => Sole' /\ Verifies' /\ Attended')
    BY <1>1, SessionsParts, PTL
<1> QED BY <1>2, <1>3, SessionsParts, SoleKept, AttendedKept

(* The six together.                                                       *)
BrowserInv ==
    PlatformInv /\ CompletesAlone /\ UnmadeInv /\ WorksInv /\ ProfileInv /\ SessionInv

LEMMA BrowserSteps == BrowserInv /\ [BrowserNext]_browserVars => BrowserInv'
<1>1. ASSUME BrowserInv, BrowserNext PROVE BrowserInv'
    BY <1>1, PlatformSteps, AloneKept, UnmadeKept, WorksKept, ProfileKept, SessionKept
       DEF BrowserInv
<1>2. ASSUME BrowserInv, UNCHANGED browserVars PROVE BrowserInv'
    <2>1. PlatformInv'
        BY <1>2, PlatformSteps DEF BrowserInv
    <2> QED BY <1>2, <2>1 DEF BrowserInv, browserVars, CompletesAlone, BrowserDoes, WorksInv,
              ConnectedProfileWorks, VerdictInv, Stays, DisconnectsAsked, UnmadeInv, ProfileInv,
              Brought, SessionInv, Unfailing
<1> QED BY <1>1, <1>2

LEMMA BrowserStart == BrowserInit => BrowserInv
<1> SUFFICES ASSUME BrowserInit PROVE BrowserInv
    OBVIOUS
<1>1. PlatformInv
    BY PlatformStart
<1>2. /\ \A c \in BrowserClients : calls[c] = NoCall
      /\ NoCall.kind = "none" /\ NoCall.pc = "idle"
      /\ link.status = "none" /\ DOMAIN profiles = {} /\ DOMAIN sessions = {}
    BY DEF BrowserInit, NoCall, NoLink
<1>3. CompletesAlone /\ UnmadeInv /\ WorksInv
    BY <1>2 DEF CompletesAlone, UnmadeInv, WorksInv, ConnectedProfileWorks, VerdictInv,
                DisconnectsAsked
<1>4. ProfileInv /\ SessionInv
    BY <1>2 DEF ProfileInv, SessionInv
<1> QED BY <1>1, <1>3, <1>4 DEF BrowserInv

(* What the invariants promise of a platform.                              *)
LEMMA PlatformPromises ==
    ASSUME BrowserInv
    PROVE  BrowserTypeOK /\ ConnectedProfileWorks /\ ProfileIsKnown /\ SessionIsKnown
<1>1. BrowserTypeOK /\ ConnectedProfileWorks
    BY PlatformTyped DEF BrowserInv, WorksInv
<1>2. ProfileIsKnown
    BY DEF BrowserInv, ProfileInv, ProfileIsKnown, Brought
<1>3. SessionIsKnown
    BY DEF BrowserInv, SessionInv, Unfailing, SessionIsKnown
<1> QED BY <1>1, <1>2, <1>3

-----------------------------------------------------------------------------
(* The two logins side by side.                                            *)

LEMMA Sides == Next => [LoginNext]_loginVars /\ [BrowserNext]_browserVars
<1>1. ASSUME NEW c \in LoginClients,
             (LoginStep(c) /\ A) \/ (LoginCall(c) /\ A) \/ (LoginFails(c) /\ A)
      PROVE  LoginNext /\ UNCHANGED browserVars
    BY <1>1 DEF LoginNext, A
<1>2. ASSUME LoginWorld, A PROVE LoginNext /\ UNCHANGED browserVars
    BY <1>2 DEF LoginNext, A
<1>3. ASSUME NEW c \in BrowserClients, (BrowserStep(c) /\ B) \/ (BrowserRequest(c) /\ B)
      PROVE  BrowserNext /\ UNCHANGED loginVars
    BY <1>3 DEF BrowserNext, B
<1>4. ASSUME BrowserWorld, B PROVE BrowserNext /\ UNCHANGED loginVars
    BY <1>4 DEF BrowserNext, B
<1> SUFFICES ASSUME Next PROVE [LoginNext]_loginVars /\ [BrowserNext]_browserVars
    OBVIOUS
<1>5. \/ \E c \in LoginClients : (LoginStep(c) /\ A) \/ (LoginCall(c) /\ A) \/ (LoginFails(c) /\ A)
      \/ LoginWorld /\ A
      \/ \E c \in BrowserClients : (BrowserStep(c) /\ B) \/ (BrowserRequest(c) /\ B)
      \/ BrowserWorld /\ B
    BY Zenon DEF Next, LoginStep, LoginCall, LoginFails, LoginWorld, BrowserStep, BrowserRequest,
                 BrowserWorld
<1> QED BY <1>1, <1>2, <1>3, <1>4, <1>5

LoginInv == AgentInv /\ CredentialInv /\ OwnerInv /\ BrowserInv

LEMMA LoginsStart == Init => LoginInv /\ WaitingIsBacked
<1> SUFFICES ASSUME Init PROVE LoginInv /\ WaitingIsBacked
    OBVIOUS
<1>1. LoginInit /\ BrowserInit
    BY DEF Init
<1>2. AgentInv /\ BrowserInv
    BY <1>1, AgentStart, BrowserStart
<1>3. /\ \A c \in LoginClients : reqs[c] = NoRequest
      /\ NoRequest.kind = "none" /\ NoRequest.pc = "idle"
      /\ conn.status = "disconnected" /\ conn.token = "none" /\ session = 0
      /\ procs = <<>> /\ Len(procs) = 0
    BY <1>1 DEF LoginInit, NoRequest
<1>4. CredentialInv
    BY <1>3 DEF CredentialInv, Credible, ToldConnected
<1>5. OwnerInv
    BY <1>3 DEF OwnerInv, Owned, Starts
<1>6. WaitingIsBacked
    BY <1>3 DEF WaitingIsBacked, Waiting
<1> QED BY <1>2, <1>4, <1>5, <1>6 DEF LoginInv

LEMMA LoginsStep == LoginInv /\ [Next]_<<loginVars, browserVars>> => LoginInv'
<1> SUFFICES ASSUME LoginInv, [LoginNext]_loginVars, [BrowserNext]_browserVars PROVE LoginInv'
    BY Sides
<1>1. AgentInv' /\ BrowserInv'
    BY AgentSteps, BrowserSteps DEF LoginInv
<1>2. LoginTypeOK'
    BY <1>1, AgentTyped, PTL
<1>3. CASE LoginNext
    BY <1>1, <1>2, <1>3, CredentialKept, OwnerKept DEF LoginInv
<1>4. CASE UNCHANGED loginVars
    BY <1>1, <1>4 DEF LoginInv, loginVars, CredentialInv, Credible, ToldConnected, OwnerInv, Owned,
                     Running, LoginDoes
<1> QED BY <1>3, <1>4

LEMMA LoginsAlways == Spec => []LoginInv
    BY LoginsStart, LoginsStep, PTL DEF Spec

(* What the two tables, the runner and Skyvern hold keeps its type: the    *)
(* flows, processes, sessions and profiles that anything names exist, and  *)
(* no more are made than were asked for, whatever the requests of          *)
(* routers/connections.py race with.                                       *)
THEOREM LoginsTyped == Spec => []TypesOK
<1>1. LoginInv => TypesOK
    BY AgentTyped, PlatformPromises DEF LoginInv, TypesOK
<1> QED BY <1>1, LoginsAlways, PTL

(* What is offered as connected works, in every interleaving of starts,    *)
(* polls, probes, completions, disconnections, failing calls of the        *)
(* runner, crashes and restarts but those the property exempts (a          *)
(* disconnection beside a poll or beside a completion, a death inside it,  *)
(* a disconnection whose deletion Skyvern answers too late): the CLI of an *)
(* agent holds a credential, and the profile of a platform was signed in   *)
(* and is not deleted.                                                     *)
THEOREM ConnectedAlwaysWorks == Spec => []ConnectedWorks
<1>1. CredentialInv => ConnectedHasLogin
    BY DEF CredentialInv, Credible, ConnectedHasLogin
<1>2. LoginInv => ConnectedWorks
    BY <1>1, PlatformPromises DEF LoginInv, ConnectedWorks
<1> QED BY <1>2, LoginsAlways, PTL

(* Nothing is left behind that no request can end: the runner has the name *)
(* of every login process that lives (_login_sessions), the row that of    *)
(* every profile that is signed in and of every open browser, or a request *)
(* under way has it.  Exempt are, for processes, two starts at once; for   *)
(* profiles, a lost answer, a death inside a request, a completion beside  *)
(* other requests, and the profile of another organization whose deletion  *)
(* fails; for browsers, moreover, every outage, crash and second request.  *)
THEOREM NothingIsOrphaned == Spec => []NothingOrphaned
<1>1. ASSUME LoginInv PROVE NoOrphanLogin
    BY <1>1, Lengths DEF LoginInv, OwnerInv, Owned, Running, NoOrphanLogin, Alive
<1>2. LoginInv => NothingOrphaned
    BY <1>1, PlatformPromises DEF LoginInv, NothingOrphaned
<1> QED BY <1>2, LoginsAlways, PTL

(* A connection that says it waits for an authorization has a login that   *)
(* waits, as long as the API does not die between the two transactions of  *)
(* a disconnection: whoever ends a login also moves the connection on.     *)
Untorn == \A scope \in LoginScopes : "torn" \notin scope.ops
THEOREM WaitingBacked == ASSUME Untorn PROVE Spec => []WaitingIsBacked
<1>1. LoginInv => ~LoginDoes("torn")
    BY DEF Untorn, LoginInv, AgentInv, TableInv, LoginDoes
<1>2. LoginInv /\ WaitingIsBacked /\ [Next]_<<loginVars, browserVars>> => WaitingIsBacked'
    <2> SUFFICES ASSUME LoginInv, WaitingIsBacked, [LoginNext]_loginVars PROVE WaitingIsBacked'
        BY Sides
    <2>1. CASE LoginNext
        BY <1>1, <2>1, WaitingKept DEF LoginInv
    <2>2. CASE UNCHANGED loginVars
        BY <2>2 DEF loginVars, WaitingIsBacked, Open
    <2> QED BY <2>1, <2>2
<1> QED BY <1>2, LoginsStart, LoginsAlways, PTL DEF Spec

=============================================================================
