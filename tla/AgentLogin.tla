----------------------------- MODULE AgentLogin -----------------------------
(***************************************************************************)
(* The web login of one CLI agent: the durable flows of the API, the login *)
(* processes of the CLI runner, the credential the CLI keeps and the       *)
(* connection every other component asks.  A request is a process whose    *)
(* steps are its transactions and its calls of the runner, and the runner  *)
(* takes four steps for one answer: the age of a login, the CLI, whether   *)
(* the process still runs, and the eviction.  What rejects, limits or      *)
(* fails a login is one outcome, "failed".                                 *)
(***************************************************************************)
EXTENDS Integers, Sequences, FiniteSets

CONSTANTS
    LoginClients,   (* requests that may be under way at the same time       *)
    LoginScopes,    (* what a behaviour exercises                            *)
    MaxLogins,      (* bound: login processes and flows started              *)
    MaxLoginFaults  (* bound: crashes, outages and processes that give up    *)

Waiting == "waiting_for_authorization"
Outcomes == {"connected", "failed", "timed_out", "canceled"}
Starts == {"start", "oauth"}              (* with a flow, and the older way  *)
Readers == {"poll", "callback", "cancel"} (* requests about one flow         *)
Probes == {"status", "test"}              (* requests about the provider     *)
LoginRisks == {"late", "slow", "exit", "outage", "restart", "crash",
               "reject", "race", "two_tabs", "overlap", "torn"}

ASSUME LoginAssumption ==
    /\ LoginScopes \subseteq
        [provider: {"anthropic", "openai"},
         ops: SUBSET (Starts \cup Readers \cup Probes \cup {"disconnect", "code", "key", "time"}
                      \cup LoginRisks)]
    /\ {MaxLogins, MaxLoginFaults} \subseteq Nat

VARIABLES
    loginScope,  (* the provider and the operations of this behaviour        *)
    flows,       (* connection_auth_flows, oldest first                      *)
    conn,        (* the row of connections                                   *)
    procs,       (* the login processes started so far                       *)
    session,     (* _login_sessions: the registered process, or 0            *)
    cli,         (* whether the CLI holds a credential                       *)
    reqs,        (* requests under way                                       *)
    loginSpent   (* logins and faults so far                                 *)

loginVars == <<loginScope, flows, conn, procs, session, cli, reqs, loginSpent>>
runnerVars == <<procs, session, cli>>

-----------------------------------------------------------------------------

Flow == [status: {Waiting, "deleted"} \cup Outcomes, proc: 0..MaxLogins, lapsed: BOOLEAN]
Connection == [status: {"disconnected", Waiting} \cup Outcomes,
               token: {"none", "session", "key"}]
Process == [state: {"starting", "waiting", "exited"}, code: BOOLEAN, old: BOOLEAN]
Request == [kind: {"none", "disconnect", "code"} \cup Starts \cup Readers \cup Probes,
            pc: {"idle", "url", "flow", "age", "whoami", "look", "answer", "save",
                 "update", "submit", "stop", "clear", "logout"},
            flow: 0..MaxLogins, proc: 0..MaxLogins,
            out: {"none", "pending", Waiting} \cup Outcomes, evict: BOOLEAN]
NoRequest == [kind |-> "none", pc |-> "idle", flow |-> 0, proc |-> 0,
              out |-> "none", evict |-> FALSE]

LoginDoes(op) == op \in loginScope.ops
LoginFault(op) == /\ LoginDoes(op) /\ loginSpent.faults < MaxLoginFaults
                  /\ loginSpent' = [loginSpent EXCEPT !.faults = @ + 1]

(* What the code does not protect is a risk a behaviour takes or not.      *)
MayCall(c, kind) ==
    /\ LoginDoes(kind) /\ reqs[c] = NoRequest
    /\ \/ LoginDoes("two_tabs") \/ kind \notin Starts
       \/ \A d \in LoginClients : reqs[d].kind \notin Starts
    /\ \/ LoginDoes("overlap")
       \/ \A d \in LoginClients :
             reqs[d].kind # "disconnect" /\ (kind = "disconnect" => reqs[d] = NoRequest)
InTime == LoginDoes("late") \/ ~cli
OutOfTime(p) == procs[p].old \/ \E f \in DOMAIN flows : flows[f].proc = p /\ flows[f].lapsed

Send(c, request) == reqs' = [reqs EXCEPT ![c] = request]
Move(c, pc) == Send(c, [reqs[c] EXCEPT !.pc = pc])
Return(c) == Send(c, NoRequest)
Call(kind, pc) == [NoRequest EXCEPT !.kind = kind, !.pc = pc]

-----------------------------------------------------------------------------

(* The flows of the API.                                                   *)

Open(fs) == {f \in DOMAIN fs : fs[f].status = Waiting}
Overdue(fs) == {f \in Open(fs) : fs[f].lapsed}
Mark(fs, set, status) ==
    [f \in DOMAIN fs |->
        IF f \in set THEN [fs[f] EXCEPT !.status = status, !.lapsed = FALSE] ELSE fs[f]]

(* Every read of a flow first times out the ones that are over.            *)
Expire(fs, cn) ==
    /\ flows' = Mark(fs, Overdue(fs), "timed_out")
    /\ conn' = IF Overdue(fs) = {} THEN cn ELSE [cn EXCEPT !.status = "timed_out"]

(* Seeded fault: the connection is told of a new flow only when it waits.  *)
StateOfWaiting(cn, status) ==
    IF status = Waiting THEN [cn EXCEPT !.status = status] ELSE cn
Superseded(fs) == Mark(fs, Open(fs), "canceled")
Starting(cn, status) == [cn EXCEPT !.status = status]

CreateFlow(c) ==
    /\ reqs[c].pc = "flow"
    /\ LET flow == [status |-> reqs[c].out, proc |-> reqs[c].proc, lapsed |-> FALSE] IN
       Expire(Append(Superseded(flows), flow), Starting(conn, reqs[c].out))
    /\ Return(c)
    /\ UNCHANGED <<loginScope, runnerVars, loginSpent>>

FirstStep(kind) ==
    CASE kind = "poll" -> {Call(kind, "age")}
      [] kind = "cancel" -> {[Call(kind, "stop") EXCEPT !.out = "canceled"]}
      [] kind = "callback" -> {Call(kind, "submit")} \cup
            {r \in {[Call(kind, "stop") EXCEPT !.out = "failed"]} : LoginDoes("reject")}
(* Seeded fault: only a flow whose process is registered is looked after.  *)
Registered(f) == f \in DOMAIN flows /\ flows[f].status # "deleted" /\ flows[f].proc = session
Known(f) == f \in DOMAIN flows /\ flows[f].status # "deleted"
ReadFlow(c, kind, f) ==
    /\ MayCall(c, kind) /\ Known(f)
    /\ kind = "callback" => loginScope.provider = "anthropic"
    /\ Expire(flows, conn)
    /\ \/ f \notin Open(flows') /\ UNCHANGED reqs
       \/ f \in Open(flows') /\ \E step \in FirstStep(kind) :
             Send(c, [step EXCEPT !.flow = f, !.proc = flows[f].proc])
    /\ UNCHANGED <<loginScope, runnerVars, loginSpent>>

UpdateFlow(c) ==
    /\ reqs[c].pc = "update"
    /\ LET f == reqs[c].flow IN
       IF flows[f].status = "deleted" THEN UNCHANGED <<flows, conn>>
       ELSE Expire(Mark(flows, {f}, reqs[c].out), [conn EXCEPT !.status = reqs[c].out])
    /\ Return(c)
    /\ UNCHANGED <<loginScope, runnerVars, loginSpent>>

(* GET /auth-flows/active, which a settings page that opens asks first.    *)
ListActive ==
    /\ LoginDoes("poll") /\ Overdue(flows) # {}
    /\ Expire(flows, conn)
    /\ UNCHANGED <<loginScope, runnerVars, reqs, loginSpent>>

SaveConnection(c) ==
    /\ reqs[c].pc = "save"
    /\ conn' = [status |-> "connected", token |-> "session"]
    /\ IF reqs[c].kind = "poll" THEN Move(c, "update") ELSE Return(c)
    /\ UNCHANGED <<loginScope, flows, runnerVars, loginSpent>>

SaveToken ==
    /\ LoginDoes("key")
    /\ conn' = [status |-> "connected", token |-> "key"]
    /\ UNCHANGED <<loginScope, flows, runnerVars, reqs, loginSpent>>

Disconnect(c) ==
    /\ MayCall(c, "disconnect")
    /\ flows' = Mark(flows, DOMAIN flows, "deleted")
    /\ Send(c, Call("disconnect", "clear"))
    /\ UNCHANGED <<loginScope, conn, runnerVars, loginSpent>>

ClearConnection(c) ==
    /\ reqs[c].pc = "clear"
    /\ conn' = [status |-> "disconnected", token |-> "none"]
    /\ Move(c, "logout")
    /\ UNCHANGED <<loginScope, flows, runnerVars, loginSpent>>

-----------------------------------------------------------------------------

(* The runner.                                                             *)

Gone == [state |-> "exited", code |-> FALSE, old |-> FALSE]
Ended(p) == IF p = 0 THEN procs ELSE [procs EXCEPT ![p] = Gone]
Alive(p) == p # 0 /\ procs[p].state # "exited"

(* Seeded fault: a new login leaves the process of the one before alone.   *)
LeftAlone(p) == procs

(* _cancel_login: whichever process is registered by now.                  *)
CancelLogin == session' = 0 /\ procs' = Ended(session)

(* auth_login ends the registered process and starts its own, which it     *)
(* registers up to 23 seconds later, when it has printed an address.       *)
Evicted(p) == Ended(p)
Spawn(c, kind) ==
    /\ MayCall(c, kind) /\ loginSpent.starts < MaxLogins
    /\ procs' = Append(Evicted(session), [state |-> "starting", code |-> FALSE, old |-> FALSE])
    /\ session' = 0
    /\ Send(c, [Call(kind, "url") EXCEPT !.proc = Len(procs) + 1])
    /\ loginSpent' = [loginSpent EXCEPT !.starts = @ + 1]
    /\ UNCHANGED <<loginScope, flows, conn, cli>>

Started(c, out) ==
    IF reqs[c].kind = "start" THEN Send(c, [reqs[c] EXCEPT !.pc = "flow", !.out = out])
    ELSE Return(c)

Register(c) ==
    /\ reqs[c].pc = "url"
    /\ procs' = [procs EXCEPT ![reqs[c].proc].state = "waiting"]
    /\ session' = reqs[c].proc
    /\ Started(c, Waiting)
    /\ UNCHANGED <<loginScope, flows, conn, cli, loginSpent>>

NoAddress(c) ==
    /\ reqs[c].pc = "url" /\ LoginFault("exit")
    /\ procs' = Ended(reqs[c].proc)
    /\ Started(c, "failed")
    /\ UNCHANGED <<loginScope, flows, conn, session, cli>>

(* No runner, or a runner without the CLI: a flow that has failed.         *)
StartUnavailable(c) ==
    /\ MayCall(c, "start") /\ loginSpent.starts < MaxLogins
    /\ LoginDoes("outage") /\ loginSpent.faults < MaxLoginFaults
    /\ loginSpent' = [starts |-> loginSpent.starts + 1, faults |-> loginSpent.faults + 1]
    /\ Send(c, [Call("start", "flow") EXCEPT !.out = "failed"])
    /\ UNCHANGED <<loginScope, flows, conn, runnerVars>>

Answered(c, out, evict) ==
    Send(c, [reqs[c] EXCEPT !.pc = "answer", !.out = out, !.evict = evict, !.proc = 0])
Ask(c, kind) ==
    /\ MayCall(c, kind)
    /\ Send(c, Call(kind, "age"))
    /\ UNCHANGED <<loginScope, flows, conn, runnerVars, loginSpent>>

(* auth_status reads the registered process and its age, then asks the CLI *)
(* and, when that has no credential, whether the process it read runs.     *)
CheckAge(c) ==
    /\ reqs[c].pc = "age"
    /\ IF session # 0 /\ procs[session].old THEN Answered(c, "timed_out", TRUE)
       ELSE Send(c, [reqs[c] EXCEPT !.pc = "whoami", !.proc = session])
    /\ UNCHANGED <<loginScope, flows, conn, runnerVars, loginSpent>>
Whoami(c) ==
    /\ reqs[c].pc = "whoami"
    /\ IF cli THEN Answered(c, "connected", TRUE) ELSE Move(c, "look")
    /\ UNCHANGED <<loginScope, flows, conn, runnerVars, loginSpent>>
LookAtProcess(c) ==
    /\ reqs[c].pc = "look"
    /\ IF Alive(reqs[c].proc) THEN Answered(c, "pending", FALSE)
       ELSE Answered(c, "failed", reqs[c].proc # 0)
    /\ UNCHANGED <<loginScope, flows, conn, runnerVars, loginSpent>>
(* The CLI takes more than ten seconds to say.                             *)
WhoamiSlow(c) ==
    /\ reqs[c].pc = "whoami" /\ LoginFault("slow")
    /\ Answered(c, IF loginScope.provider = "openai" THEN "timed_out" ELSE "pending", FALSE)
    /\ UNCHANGED <<loginScope, flows, conn, runnerVars>>

Heard(c) ==
    LET out == reqs[c].out IN
    CASE reqs[c].kind = "test" \/ out = "pending" -> Return(c)
      [] out = "connected" /\ reqs[c].kind # "test" -> Move(c, "save")
      [] out \in {"failed", "timed_out"} /\ reqs[c].kind # "test" ->
            IF reqs[c].kind = "poll" THEN Move(c, "update") ELSE Return(c)
Answer(c) ==
    /\ reqs[c].pc = "answer"
    /\ IF reqs[c].evict THEN CancelLogin ELSE UNCHANGED <<procs, session>>
    /\ Heard(c)
    /\ UNCHANGED <<loginScope, flows, conn, cli, loginSpent>>

(* submit-code, of a flow or in the older way, goes to the registered      *)
(* process, which refuses the answer to another one's address.             *)
SubmitCode(c, p) ==
    /\ MayCall(c, "code") /\ loginScope.provider = "anthropic"
    /\ p \in DOMAIN procs /\ procs[p].state # "starting"
    /\ Send(c, [Call("code", "submit") EXCEPT !.proc = p])
    /\ UNCHANGED <<loginScope, flows, conn, runnerVars, loginSpent>>
Submit(c) ==
    /\ reqs[c].pc = "submit"
    /\ IF Alive(session)
       THEN /\ procs' = [procs EXCEPT ![session].code = @ \/ reqs[c].proc = session]
            /\ UNCHANGED session
       ELSE session' = 0 /\ UNCHANGED procs
    /\ Return(c)
    /\ UNCHANGED <<loginScope, flows, conn, cli, loginSpent>>

Stop(c) ==
    /\ reqs[c].pc = "stop"
    /\ CancelLogin
    /\ Move(c, "update")
    /\ UNCHANGED <<loginScope, flows, conn, cli, loginSpent>>

Logout(c) ==
    /\ reqs[c].pc = "logout"
    /\ CancelLogin
    /\ \/ cli' = FALSE /\ UNCHANGED loginSpent
       \/ LoginFault("outage") /\ UNCHANGED cli    (* the command fails or hangs *)
    /\ Return(c)
    /\ UNCHANGED <<loginScope, flows, conn>>

(* RunnerUnavailable: a poll takes it for a failure, a cancellation and a  *)
(* rejection go on, the rest give up.                                      *)
Unreachable(c) ==
    /\ reqs[c].pc \in {"age", "submit", "stop", "logout"} /\ LoginFault("outage")
    /\ CASE reqs[c].pc = "age" /\ reqs[c].kind = "poll" ->
              Send(c, [reqs[c] EXCEPT !.pc = "update", !.out = "failed"])
         [] reqs[c].pc = "stop" -> Move(c, "update")
         [] reqs[c].pc \in {"submit", "logout"} \/ reqs[c].kind \in Probes -> Return(c)
    /\ UNCHANGED <<loginScope, flows, conn, runnerVars>>

-----------------------------------------------------------------------------

(* The user at the provider's page, the CLI, time and crashes.             *)

Offered(p) == procs[p].state = "waiting"
              /\ \/ \E f \in DOMAIN flows : flows[f].proc = p
                 \/ LoginDoes("oauth")
Authorize(p) ==
    /\ loginScope.provider = "openai" /\ p \in DOMAIN procs /\ Offered(p) /\ ~procs[p].code
    /\ procs' = [procs EXCEPT ![p].code = TRUE]
    /\ UNCHANGED <<loginScope, flows, conn, session, cli, reqs, loginSpent>>
(* "race": it takes it up while the runner is between its two looks.       *)
LookedAt(p) == \E c \in LoginClients : reqs[c].pc = "look" /\ reqs[c].proc = p
LogIn(p) ==
    /\ p \in DOMAIN procs /\ procs[p].state = "waiting" /\ procs[p].code
    /\ LoginDoes("race") \/ ~LookedAt(p)
    /\ LoginDoes("late") \/ ~OutOfTime(p)
    /\ cli' = TRUE
    /\ \E state \in {"waiting", "exited"} :
          procs' = [procs EXCEPT ![p].state = state, ![p].code = FALSE]
    /\ UNCHANGED <<loginScope, flows, conn, session, reqs, loginSpent>>
GiveUp(p) ==
    /\ p \in DOMAIN procs /\ Offered(p) /\ LoginFault("exit")
    /\ procs' = [procs EXCEPT ![p].state = "exited", ![p].code = FALSE]
    /\ UNCHANGED <<loginScope, flows, conn, session, cli, reqs>>

(* LOGIN_TIMEOUT runs from the registration, AGENT_AUTH_TIMEOUT_SECONDS,   *)
(* as long, from the creation of the flow a moment later.                  *)
Age(p) ==
    /\ LoginDoes("time") /\ InTime /\ p = session /\ p # 0 /\ ~procs[p].old
    /\ procs' = [procs EXCEPT ![p].old = TRUE]
    /\ UNCHANGED <<loginScope, flows, conn, session, cli, reqs, loginSpent>>
Lapse(f) ==
    /\ LoginDoes("time") /\ InTime /\ f \in Open(flows) /\ ~flows[f].lapsed
    /\ procs[flows[f].proc].old \/ flows[f].proc # session
    /\ flows' = [flows EXCEPT ![f].lapsed = TRUE]
    /\ UNCHANGED <<loginScope, conn, runnerVars, reqs, loginSpent>>

(* The container of the runner takes every process with it; its volume     *)
(* keeps the credential.  Whoever waits for an answer gets none.           *)
AtTheRunner == {"url", "whoami", "look", "answer"}
RunnerRestarts ==
    /\ LoginFault("restart")
    /\ procs' = [p \in DOMAIN procs |-> Gone]
    /\ session' = 0
    /\ reqs' = [c \in LoginClients |->
                  IF reqs[c].pc \in AtTheRunner THEN NoRequest ELSE reqs[c]]
    /\ UNCHANGED <<loginScope, flows, conn, cli>>

(* The API dies; the runner finishes what it was asked.                    *)
Detached(request) ==
    CASE request.pc = "url" -> [request EXCEPT !.kind = "oauth"]
      [] request.pc \in AtTheRunner \ {"url"} -> [request EXCEPT !.kind = "test"]
      [] request.pc \notin AtTheRunner -> NoRequest
ApiRestarts ==
    /\ LoginFault("crash")
    /\ LoginDoes("torn") \/ \A c \in LoginClients : reqs[c].pc # "clear"
    /\ reqs' = [c \in LoginClients |-> Detached(reqs[c])]
    /\ Expire(flows, conn)
    /\ UNCHANGED <<loginScope, runnerVars>>

-----------------------------------------------------------------------------

LoginInit ==
    /\ loginScope \in LoginScopes
    /\ flows = <<>> /\ procs = <<>> /\ session = 0 /\ cli = FALSE
    /\ conn = [status |-> "disconnected", token |-> "none"]
    /\ reqs = [c \in LoginClients |-> NoRequest]
    /\ loginSpent = [starts |-> 0, faults |-> 0]

LoginStep(c) ==
    \/ Register(c) \/ CreateFlow(c) \/ CheckAge(c) \/ Whoami(c) \/ LookAtProcess(c)
    \/ Answer(c) \/ SaveConnection(c) \/ UpdateFlow(c) \/ Submit(c) \/ Stop(c)
    \/ ClearConnection(c) \/ Logout(c)
LoginCall(c) ==
    \/ \E kind \in Starts : Spawn(c, kind)
    \/ \E kind \in Readers, f \in 1..MaxLogins : ReadFlow(c, kind, f)
    \/ \E kind \in Probes : Ask(c, kind)
    \/ \E p \in 1..MaxLogins : SubmitCode(c, p)
    \/ Disconnect(c)
LoginFails(c) == StartUnavailable(c) \/ NoAddress(c) \/ WhoamiSlow(c) \/ Unreachable(c)
LoginWorld ==
    \/ \E p \in 1..MaxLogins : Authorize(p) \/ LogIn(p) \/ GiveUp(p) \/ Age(p) \/ Lapse(p)
    \/ ListActive \/ SaveToken \/ RunnerRestarts \/ ApiRestarts
LoginNext ==
    \/ \E c \in LoginClients : LoginStep(c) \/ LoginCall(c) \/ LoginFails(c)
    \/ LoginWorld

LoginSpec == LoginInit /\ [][LoginNext]_loginVars

(* No request stops between two steps, a page that shows a login asks for  *)
(* it every two seconds and is answered again and again, the CLI takes up  *)
(* an authorization, and time passes.                                      *)
LoginFairness ==
    /\ \A c \in LoginClients : WF_loginVars(LoginStep(c))
    /\ \A f \in 1..MaxLogins :
          /\ SF_loginVars(\E c \in LoginClients : ReadFlow(c, "poll", f))
          /\ WF_loginVars(LogIn(f)) /\ WF_loginVars(Age(f)) /\ WF_loginVars(Lapse(f))

-----------------------------------------------------------------------------

LoginTypeOK ==
    /\ loginScope \in LoginScopes
    /\ Len(flows) <= MaxLogins /\ \A f \in DOMAIN flows : flows[f] \in Flow
    /\ Len(procs) <= MaxLogins /\ \A p \in DOMAIN procs : procs[p] \in Process
    /\ conn \in Connection /\ session \in 0..Len(procs) /\ cli \in BOOLEAN
    /\ reqs \in [LoginClients -> Request]
    /\ loginSpent \in [starts: 0..MaxLogins, faults: 0..MaxLoginFaults]

(* A connection that says it waits for an authorization has a login that   *)
(* waits, so that something ends the waiting.  Two tables, five writers.   *)
WaitingIsBacked ==
    conn.status = Waiting =>
        Open(flows) # {} \/ \E c \in LoginClients : reqs[c].pc = "clear"

(* An agent that is offered as connected by its web session can work: the  *)
(* CLI holds a credential.  A disconnection that overlaps a poll breaks    *)
(* it: the poll saves the connection after the logout.                     *)
ConnectedHasLogin ==
    LoginDoes("overlap") \/ (conn = [status |-> "connected", token |-> "session"] => cli)

(* Whoever starts, cancels, polls, logs out or crashes, a login process    *)
(* that is alive is the registered one or about to be; another one would   *)
(* be out of reach for ever.  Two starts at a time leave one.              *)
NoOrphanLogin ==
    \/ LoginDoes("two_tabs")
    \/ \A p \in DOMAIN procs : Alive(p) =>
          p = session \/ \E c \in LoginClients : reqs[c].pc = "url" /\ reqs[c].proc = p

(* A login that waits ends, whatever becomes of its process, its runner    *)
(* and its requests.                                                       *)
FlowEnds ==
    {"poll", "time"} \subseteq loginScope.ops =>
        \A f \in 1..MaxLogins : f \in Open(flows) ~> f \notin Open(flows)

(* Once the CLI is logged in, the login that waits ends as connected,      *)
(* unless it is canceled, replaced or disconnected, when nothing fails and *)
(* no poll is between its two looks while the CLI takes the authorization  *)
(* up: such a poll records a failure ("race").                             *)
Granted(f) ==
    f \in DOMAIN flows /\ flows[f].status \in {"connected", "canceled", "deleted"}
AuthorizedConnects ==
    "poll" \in loginScope.ops /\ loginScope.ops \cap (LoginRisks \cup {"oauth"}) = {} =>
        \A f \in 1..MaxLogins : f \in Open(flows) /\ cli ~> Granted(f)
=============================================================================
