---------------------------- MODULE AudioPipeline ----------------------------
(***************************************************************************)
(* The whole way of an audio, from CreateUpload to READY: the intake and   *)
(* the transcode pipeline over one database.  The two meet in the rows of  *)
(* AudioStore and in the scan tag of the source object, which CompleteUpload *)
(* writes and the worker reads again before it touches the source          *)
(* (Processor._verify_source), and nowhere else.                           *)
(***************************************************************************)
EXTENDS AudioIntake, TranscodePipeline

pipeVars == <<storeVars, intakeOnlyVars, pipelineOnlyVars>>

Init ==
    /\ IntakeInit
    /\ batches = [p \in Publisher |-> IdleBatch]
    /\ requests = [n \in Message |-> UnsentRequest]
    /\ workers = [w \in Worker |-> IdleWorker]
    /\ results = {}
    /\ artifacts = [j \in Id |-> {}]
    /\ faults = 0

\* The tag of the exact version the message names.
SourceIsClean(w) ==
    LET event == requests[workers[w].message].event
    IN  tags[event.audio][event.version] = "NO_THREATS_FOUND"

VerifyTaggedSource(w) ==
    /\ workers[w].step = "verify"
    /\ VerifySource(w, SourceIsClean(w))

\* Everything from the outbox on.
TranscodeNext ==
    \/ \E p \in Publisher : PublisherStep(p) \/ AbortBatch(p)
    \/ \E w \in Worker, n \in Message : Receive(w, n)
    \/ \E w \in Worker : VerifyTaggedSource(w) \/ WorkerStep(w) \/ WorkerFault(w)
    \/ \E n \in Message : VisibilityExpires(n) \/ HeartbeatLost(n)
    \/ \E r \in results : ConsumeResult(r)

Next ==
    \/ IntakeNext /\ UNCHANGED pipelineOnlyVars
    \/ TranscodeNext /\ UNCHANGED intakeOnlyVars

Spec == Init /\ [][Next]_pipeVars

\* The consumers and the publisher of audio-events and the workers are loops, and the
\* timeout of SQS runs by itself.  No step that fails is fair, and nothing obliges a
\* client to call.
Fairness ==
    /\ \A a \in Audio, v \in Version :
         WF_pipeVars(ConsumeScanResult(AdapterMessage(a, v)) /\ UNCHANGED pipelineOnlyVars)
    /\ \A p \in Publisher : WF_pipeVars(PublisherStep(p) /\ UNCHANGED intakeOnlyVars)
    /\ \A n \in Message :
         /\ WF_pipeVars((\E w \in Worker : Receive(w, n)) /\ UNCHANGED intakeOnlyVars)
         /\ WF_pipeVars(VisibilityExpires(n) /\ UNCHANGED intakeOnlyVars)
    /\ \A w \in Worker :
         WF_pipeVars((VerifyTaggedSource(w) \/ WorkerStep(w)) /\ UNCHANGED intakeOnlyVars)
    /\ WF_pipeVars((\E r \in results : ConsumeResult(r)) /\ UNCHANGED intakeOnlyVars)

FairSpec == Spec /\ Fairness

-----------------------------------------------------------------------------
(* Properties                                                              *)

\* What can be played was vetted from end to end: a READY audio is verified, its
\* pinned version had the declared size and type, carries the clean tag and has
\* the clean verdict in its row, although the two halves share no lock.
ReadyWasVetted ==
    \A a \in Audio : audios[a].status = "READY" =>
        /\ audios[a].verified
        /\ audios[a].version \in Conforming
        /\ audios[a].scan = "NO_THREATS_FOUND"
        /\ tags[a][audios[a].version] = "NO_THREATS_FOUND"

\* The audio and its job tell the same story as soon as there is a job: the three
\* transactions that write one of the two statuses never leave them apart.
JobAgrees ==
    \A a \in Audio : jobs[a].id # NoId =>
        audios[a].status = AudioStatusFor[jobs[a].status]

\* "위협·검사 실패 파일이 재생 가능한 상태로 전환되지 않는다"
\* (docs/audio-service-architecture.md:910): no step takes a quarantined or
\* scan-failed audio to READY.
RejectedIsNeverPlayable ==
    [][\A a \in Audio : audios[a].status \in {"QUARANTINED", "SCAN_FAILED"} =>
            audios'[a].status # "READY"]_pipeVars

\* The whole path implements the abstract life of an audio: what the owner sees of it
\* is one confirmation, one verdict, one request, artifacts and an outcome, in an order
\* that no crash, retry, duplicate or re-upload disturbs.  It needs completions that
\* follow one another, the adapter as the only scanner, and a worker that allows as many
\* attempts as audio-events does.
Stored(a) == jobs[a].id # NoId /\ artifacts[jobs[a].id] = Artifact

Outcome(a) ==
    CASE audios[a].status = "READY" -> "ready"
      [] audios[a].status = "TRANSCODE_FAILED" -> "failed"
      [] audios[a].status \notin {"READY", "TRANSCODE_FAILED"} -> "none"

Life == INSTANCE AudioLifecycle WITH
    confirmed <- [a \in Audio |-> audios[a].verified],
    verdict <- [a \in Audio |-> GateVerdict(a)],
    requests <- [a \in Audio |-> Cardinality({e \in outbox : e.audio = a})],
    stored <- [a \in Audio |-> Stored(a)],
    outcome <- [a \in Audio |-> Outcome(a)]

ImplementsLifecycle == Life!LifeSpec

\* A completed upload reaches an answer the client stops polling at, when there are
\* finitely many faults.  A request that is QUEUED is settled with it: retryable
\* failures cannot postpone it for ever, because the attempts are counted by the queue
\* and the last one is reported.
UploadSettles ==
    \A a \in Audio :
        audios[a].verified ~>
            audios[a].status \in {"READY", "TRANSCODE_FAILED", "QUARANTINED", "SCAN_FAILED"}
=============================================================================
