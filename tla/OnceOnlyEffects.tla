-------------------------- MODULE OnceOnlyEffects --------------------------
(***************************************************************************)
(* What the effect table of the job queue promises to the handlers,        *)
(* without jobs, leases, attempts or workers (docs/background-workers.md,  *)
(* "Idempotency and effects").  An operation is called only while its key  *)
(* is free.  A call takes the key.  The key becomes free again only if the *)
(* operation is known to have failed and is of a kind that may be          *)
(* repeated; it is recorded once the operation has returned.  A key taken  *)
(* by a call of unknown outcome stays taken.                               *)
(***************************************************************************)
EXTENDS Naturals

CONSTANTS
    Keys,           (* one key per job and effect                           *)
    RepeatableKeys  (* keys whose failed operation may be called again      *)

VARIABLES
    phase,          (* phase[k]: "free", "taken" or "recorded"              *)
    calls,          (* calls[k]: how often the operation was started        *)
    returns         (* returns[k]: how often it came back with a result     *)

vars == <<phase, calls, returns>>

Init ==
    /\ phase = [k \in Keys |-> "free"]
    /\ calls = [k \in Keys |-> 0]
    /\ returns = [k \in Keys |-> 0]

Call(k) ==
    /\ phase[k] = "free"
    /\ phase' = [phase EXCEPT ![k] = "taken"]
    /\ calls' = [calls EXCEPT ![k] = @ + 1]
    /\ UNCHANGED returns

Return(k) ==
    /\ phase[k] = "taken"
    /\ returns[k] = 0
    /\ returns' = [returns EXCEPT ![k] = 1]
    /\ UNCHANGED <<phase, calls>>

Release(k) ==
    /\ k \in RepeatableKeys
    /\ phase[k] = "taken"
    /\ returns[k] = 0
    /\ phase' = [phase EXCEPT ![k] = "free"]
    /\ UNCHANGED <<calls, returns>>

Record(k) ==
    /\ phase[k] = "taken"
    /\ returns[k] = 1
    /\ phase' = [phase EXCEPT ![k] = "recorded"]
    /\ UNCHANGED <<calls, returns>>

Next == \E k \in Keys : Call(k) \/ Return(k) \/ Release(k) \/ Record(k)

Spec == Init /\ [][Next]_vars
=============================================================================
