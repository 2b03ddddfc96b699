--------------------------- MODULE AudioLifecycle ---------------------------
(***************************************************************************)
(* What the service promises the owner of an audio, with no outbox, queue, *)
(* worker, retry or table in it: UploadGate, and behind it a transcoder    *)
(* that stores the two artifacts of an audio it was asked for and reports  *)
(* an outcome.  An outcome can be reported again, and a later one replaces *)
(* an earlier one, but none is ever taken back to undecided, and "ready"   *)
(* is never said before everything a player needs is there.                *)
(***************************************************************************)
EXTENDS UploadGate

VARIABLES
    stored,      \* both artifacts of the audio are in the bucket
    outcome      \* "none", "ready" or "failed"

lifeVars == <<gateVars, stored, outcome>>

LifeInit ==
    /\ GateInit
    /\ stored = [a \in Audio |-> FALSE]
    /\ outcome = [a \in Audio |-> "none"]

Store(a) ==
    /\ requests[a] > 0
    /\ ~stored[a]
    /\ stored' = [stored EXCEPT ![a] = TRUE]
    /\ UNCHANGED <<gateVars, outcome>>

Settle(a, result) ==
    /\ requests[a] > 0
    /\ result = "ready" => stored[a]
    /\ outcome' = [outcome EXCEPT ![a] = result]
    /\ UNCHANGED <<gateVars, stored>>

LifeNext ==
    \/ GateNext /\ UNCHANGED <<stored, outcome>>
    \/ \E a \in Audio : Store(a) \/ \E result \in {"ready", "failed"} : Settle(a, result)

LifeSpec == LifeInit /\ [][LifeNext]_lifeVars
=============================================================================
