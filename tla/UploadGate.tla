----------------------------- MODULE UploadGate -----------------------------
(***************************************************************************)
(* What the intake promises, with no queue, call, version or row in it.    *)
(* An upload is confirmed (the API saw the object) and judged (a scan      *)
(* verdict arrived); the two happen in either order, each at most once,    *)
(* and the transcode is requested by whichever comes second, exactly when  *)
(* the verdict is clear.  docs/audio-service-architecture.md:305-307 asks  *)
(* for this shape: two separate flags, and the request only once both hold.*)
(***************************************************************************)
EXTENDS Naturals

CONSTANT Audio

VARIABLES
    confirmed,   \* the API saw the uploaded object
    verdict,     \* "none", "clear" or "rejected"
    requests     \* how many transcodes were requested

gateVars == <<confirmed, verdict, requests>>

GateInit ==
    /\ confirmed = [a \in Audio |-> FALSE]
    /\ verdict = [a \in Audio |-> "none"]
    /\ requests = [a \in Audio |-> 0]

Request(a) == requests' = [requests EXCEPT ![a] = @ + 1]

Confirm(a) ==
    /\ ~confirmed[a]
    /\ confirmed' = [confirmed EXCEPT ![a] = TRUE]
    /\ UNCHANGED verdict
    /\ IF verdict[a] = "clear" THEN Request(a) ELSE UNCHANGED requests

\* The confirmed object is not the one the verdict was about.
ConfirmAnother(a) ==
    /\ ~confirmed[a]
    /\ verdict[a] = "clear"
    /\ confirmed' = [confirmed EXCEPT ![a] = TRUE]
    /\ verdict' = [verdict EXCEPT ![a] = "rejected"]
    /\ UNCHANGED requests

Judge(a, v) ==
    /\ verdict[a] = "none"
    /\ verdict' = [verdict EXCEPT ![a] = v]
    /\ UNCHANGED confirmed
    /\ IF v = "clear" /\ confirmed[a] THEN Request(a) ELSE UNCHANGED requests

GateNext ==
    \E a \in Audio : \/ Confirm(a)
                     \/ ConfirmAnother(a)
                     \/ \E v \in {"clear", "rejected"} : Judge(a, v)

GateSpec == GateInit /\ [][GateNext]_gateVars
=============================================================================
