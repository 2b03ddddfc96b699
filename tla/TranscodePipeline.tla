-------------------------- MODULE TranscodePipeline --------------------------
(***************************************************************************)
(* From the outbox to the result of a transcode: the outbox publisher and  *)
(* the result consumer of audio-events (sqsevents/runner.go), the          *)
(* transcode queue, the workers (services/worker/src/audio_worker/main.py  *)
(* and processor.py) with their visibility heartbeat, and the              *)
(* transcode-result queue, over the database of AudioStore.                *)
(*                                                                         *)
(* A message of the transcode queue is visible, or hidden while someone    *)
(* holds a receipt for it, or deleted.  Its receive count, which the       *)
(* worker takes for the attempt number, belongs to the message: an event   *)
(* that is sent twice is two messages with a count each.  Results are a    *)
(* set, because a result is determined by its fields and may be delivered  *)
(* in any order and more than once.                                        *)
(*                                                                         *)
(* Faults are drawn from FaultKinds and there are at most MaxFaults of     *)
(* them in a behaviour:                                                    *)
(*   "crash"      a worker dies, or loses SQS, between two steps           *)
(*   "internal"   an exception that is not a WorkerError (main.py:145)     *)
(*   "heartbeat"  a message becomes visible although its holder is busy    *)
(*   "publisher"  the publisher dies, or loses SQS, between two steps      *)
(***************************************************************************)
EXTENDS AudioStore

CONSTANTS
    Publisher,
    Worker,
    Message,                 \* bound: the messages the transcode queue ever holds
    NoMessage,
    WorkerMaximumAttempts,   \* the worker's TRANSCODE_MAXIMUM_ATTEMPTS
    MaxReceives,             \* bound: receives of one message
    BatchLimit,              \* events one publishBatch reads (20)
    FaultKinds,
    MaxFaults                \* bound: faults in one behaviour

ASSUME PipelineAssumption ==
    /\ NoMessage \notin Message
    /\ WorkerMaximumAttempts \in Nat \ {0}
    /\ MaxReceives \in Nat \ {0}
    /\ BatchLimit \in Nat \ {0}
    /\ FaultKinds \subseteq {"crash", "internal", "heartbeat", "publisher"}
    /\ MaxFaults \in Nat

VARIABLES
    batches,     \* per publisher, the rest of its batch and the event just sent
    requests,    \* the transcode queue
    workers,     \* per worker, the attempt it is in
    results,     \* the transcode-result queue
    artifacts,   \* per job id, the objects in the artifact bucket
    faults

pipelineOnlyVars == <<batches, requests, workers, results, artifacts, faults>>
pipelineVars == <<storeVars, pipelineOnlyVars>>

NoEvent == [id |-> NoId, audio |-> NoAudio, version |-> NoVersion]

Artifact == {"playback", "waveform"}

IdleBatch == [todo |-> {}, sent |-> NoEvent]
Batch == [todo: SUBSET OutboxEvent, sent: OutboxEvent \cup {NoEvent}]

UnsentRequest == [state |-> "unsent", event |-> NoEvent, receives |-> 0]
Request ==
    {UnsentRequest}
    \cup [state: {"visible", "hidden", "deleted"}, event: OutboxEvent, receives: Nat]

ResultStatus == {"SUCCEEDED", "FAILED"}
Result == [job: Id, audio: Audio, status: ResultStatus, attempt: Nat \ {0},
           retryable: BOOLEAN]
ResultEventIds == Id \X ResultStatus \X (Nat \ {0})

\* An attempt on a message; "outcome" is what it is about to report.
IdleWorker == [step |-> "idle", message |-> NoMessage, attempt |-> 0,
               outcome |-> "SUCCEEDED", retryable |-> FALSE]
Attempt ==
    {IdleWorker}
    \cup [step: {"verify", "transcode", "waveform", "report", "delete"},
          message: Message, attempt: Nat \ {0},
          outcome: ResultStatus, retryable: BOOLEAN]

Fault(kind) ==
    /\ kind \in FaultKinds
    /\ faults < MaxFaults
    /\ faults' = faults + 1

\* The database as the intake leaves it: every audio has been requested once.
PipelineInit ==
    /\ \E job \in [Audio -> Id] :
         /\ \A a, b \in Audio : job[a] = job[b] => a = b
         /\ audios = [a \in Audio |-> [status |-> "QUEUED", verified |-> TRUE, version |-> 1,
                                       scan |-> "NO_THREATS_FOUND", artifacts |-> NoId]]
         /\ jobs = [a \in Audio |-> [AbsentJob EXCEPT !.id = job[a]]]
         /\ outbox = {[id |-> job[a], audio |-> a, version |-> 1] : a \in Audio}
    /\ published = {}
    /\ processed = {}
    /\ batches = [p \in Publisher |-> IdleBatch]
    /\ requests = [n \in Message |-> UnsentRequest]
    /\ workers = [w \in Worker |-> IdleWorker]
    /\ results = {}
    /\ artifacts = [j \in Id |-> {}]
    /\ faults = 0

-----------------------------------------------------------------------------
(* PublishOutbox: a batch every second                                     *)

ListBatch(p) ==
    /\ batches[p] = IdleBatch
    /\ \E todo \in SUBSET PendingOutbox :
         /\ todo # {}
         /\ Cardinality(todo) <= BatchLimit
         /\ Cardinality(todo) = BatchLimit \/ todo = PendingOutbox
         /\ batches' = [batches EXCEPT ![p].todo = todo]
    /\ UNCHANGED <<storeVars, requests, workers, results, artifacts, faults>>

\* Mutant: an error of SendMessage is ignored.
SendNextUnchecked(p) ==
    /\ batches[p].sent = NoEvent
    /\ \E e \in batches[p].todo : batches' = [batches EXCEPT ![p].sent = e]
    /\ UNCHANGED <<storeVars, requests, workers, results, artifacts, faults>>

\* A message nobody has sent; SQS makes each one new, so it does not matter which.
NextMessage == CHOOSE n \in Message : requests[n] = UnsentRequest

SendNext(p) ==
    /\ batches[p].sent = NoEvent
    /\ \E e \in batches[p].todo, n \in Message :
         /\ requests[n] = UnsentRequest
         /\ n = NextMessage
         /\ requests' = [requests EXCEPT ![n] =
                           [state |-> "visible", event |-> e, receives |-> 0]]
         /\ batches' = [batches EXCEPT ![p].sent = e]
    /\ UNCHANGED <<storeVars, workers, results, artifacts, faults>>

\* MarkOutboxPublished; an event another publisher marked first is an error,
\* and any error gives the rest of the batch up until the next tick.
MarkSent(p) ==
    LET e == batches[p].sent
    IN  /\ e # NoEvent
        /\ \/ /\ MarkOutboxPublished(e)
              /\ batches' = [batches EXCEPT ![p] =
                               [todo |-> batches[p].todo \ {e}, sent |-> NoEvent]]
           \/ /\ e.id \in published
              /\ batches' = [batches EXCEPT ![p] = IdleBatch]
              /\ UNCHANGED storeVars
        /\ UNCHANGED <<requests, workers, results, artifacts, faults>>

AbortBatch(p) ==
    /\ batches[p] # IdleBatch
    /\ batches' = [batches EXCEPT ![p] = IdleBatch]
    /\ Fault("publisher")
    /\ UNCHANGED <<storeVars, requests, workers, results, artifacts>>

-----------------------------------------------------------------------------
(* The transcode queue and the worker: Worker._handle                      *)

\* Mutant: the receive count before this receive is taken for the attempt.
ReceiveUncounted(w, n) ==
    /\ workers[w].step = "idle"
    /\ requests[n].state = "visible"
    /\ requests[n].receives < MaxReceives
    /\ requests' = [requests EXCEPT ![n].state = "hidden", ![n].receives = @ + 1]
    /\ workers' = [workers EXCEPT ![w] =
                     [IdleWorker EXCEPT !.step = "verify", !.message = n,
                                        !.attempt = requests[n].receives]]
    /\ UNCHANGED <<storeVars, batches, results, artifacts, faults>>

Receive(w, n) ==
    /\ workers[w].step = "idle"
    /\ requests[n].state = "visible"
    /\ requests[n].receives < MaxReceives
    /\ requests' = [requests EXCEPT ![n].state = "hidden", ![n].receives = @ + 1]
    /\ workers' = [workers EXCEPT ![w] =
                     [IdleWorker EXCEPT !.step = "verify", !.message = n,
                                        !.attempt = requests[n].receives + 1]]
    /\ UNCHANGED <<storeVars, batches, results, artifacts, faults>>

Holds(w, n) == workers[w].message = n /\ workers[w].attempt = requests[n].receives

\* The visibility timeout runs out and nobody extends it any more.
VisibilityExpires(n) ==
    /\ requests[n].state = "hidden"
    /\ \A w \in Worker : ~Holds(w, n)
    /\ requests' = [requests EXCEPT ![n].state = "visible"]
    /\ UNCHANGED <<storeVars, batches, workers, results, artifacts, faults>>

\* VisibilityHeartbeat does not reach SQS in time; its holder works on.
HeartbeatLost(n) ==
    /\ requests[n].state = "hidden"
    /\ \E w \in Worker : Holds(w, n)
    /\ requests' = [requests EXCEPT ![n].state = "visible"]
    /\ Fault("heartbeat")
    /\ UNCHANGED <<storeVars, batches, workers, results, artifacts>>

\* Mutant: a failure that will be retried deletes the message all the same.
WorkerErrorAcknowledged(w, retryable) ==
    workers' = [workers EXCEPT ![w] =
        IF retryable /\ workers[w].attempt < WorkerMaximumAttempts
          THEN [@ EXCEPT !.step = "delete"]
          ELSE [@ EXCEPT !.step = "report", !.outcome = "FAILED", !.retryable = retryable]]

\* Mutant: the last attempt is not reported.
WorkerErrorUnreported(w, retryable) ==
    workers' = [workers EXCEPT ![w] =
        IF retryable
          THEN IdleWorker
          ELSE [@ EXCEPT !.step = "report", !.outcome = "FAILED", !.retryable = retryable]]

\* except WorkerError: the last attempt and every failure that no retry can mend
\* are reported, the others are left to the visibility timeout.
WorkerError(w, retryable) ==
    workers' = [workers EXCEPT ![w] =
        IF retryable /\ workers[w].attempt < WorkerMaximumAttempts
          THEN IdleWorker
          ELSE [@ EXCEPT !.step = "report", !.outcome = "FAILED", !.retryable = retryable]]

\* _verify_source: the tag of the exact source version, or no answer from S3.
VerifySource(w, clean) ==
    /\ workers[w].step = "verify"
    /\ \/ /\ clean
          /\ workers' = [workers EXCEPT ![w].step = "transcode"]
       \/ /\ ~clean
          /\ WorkerError(w, FALSE)
       \/ WorkerError(w, TRUE)
    /\ UNCHANGED <<storeVars, batches, requests, results, artifacts, faults>>

\* Mutant: the success is reported before the second upload.
TranscodeReportingEarly(w) ==
    LET job == requests[workers[w].message].event.id
    IN  /\ workers[w].step = "transcode"
        /\ artifacts' = [artifacts EXCEPT ![job] = @ \cup {"playback"}]
        /\ workers' = [workers EXCEPT ![w].step = "report"]
        /\ UNCHANGED <<storeVars, batches, requests, results, faults>>

\* Download, checksum, FFmpeg and the first of the two uploads.
Transcode(w) ==
    LET job == requests[workers[w].message].event.id
    IN  /\ workers[w].step = "transcode"
        /\ \/ /\ artifacts' = [artifacts EXCEPT ![job] = @ \cup {"playback"}]
              /\ workers' = [workers EXCEPT ![w].step = "waveform"]
           \/ /\ \E retryable \in BOOLEAN : WorkerError(w, retryable)
              /\ UNCHANGED artifacts
        /\ UNCHANGED <<storeVars, batches, requests, results, faults>>

UploadWaveform(w) ==
    LET job == requests[workers[w].message].event.id
    IN  /\ workers[w].step = "waveform"
        /\ \/ /\ artifacts' = [artifacts EXCEPT ![job] = @ \cup {"waveform"}]
              /\ workers' = [workers EXCEPT ![w].step = "report"]
           \/ /\ WorkerError(w, TRUE)
              /\ UNCHANGED artifacts
        /\ UNCHANGED <<storeVars, batches, requests, results, faults>>

ResultOf(w) ==
    LET event == requests[workers[w].message].event
    IN  [job |-> event.id, audio |-> event.audio, status |-> workers[w].outcome,
         attempt |-> workers[w].attempt, retryable |-> workers[w].retryable]

\* _publish comes before _delete; a retryable failure is never deleted.
Report(w) ==
    /\ workers[w].step = "report"
    /\ results' = results \cup {ResultOf(w)}
    /\ workers' = [workers EXCEPT ![w] =
                     IF workers[w].retryable THEN IdleWorker ELSE [@ EXCEPT !.step = "delete"]]
    /\ UNCHANGED <<storeVars, batches, requests, artifacts, faults>>

\* SQS does not promise to delete on a receipt older than the last receive.
Delete(w) ==
    LET n == workers[w].message
    IN  /\ workers[w].step = "delete"
        /\ workers' = [workers EXCEPT ![w] = IdleWorker]
        /\ \/ requests' = [requests EXCEPT ![n].state = "deleted"]
           \/ /\ ~Holds(w, n)
              /\ UNCHANGED requests
        /\ UNCHANGED <<storeVars, batches, results, artifacts, faults>>

\* except Exception: nothing is published and nothing deleted, whatever the
\* attempt number.  A failed _delete of a success ends here too.
InternalError(w) ==
    /\ workers[w].step \in {"verify", "transcode", "waveform", "report", "delete"}
    /\ workers' = [workers EXCEPT ![w] = IdleWorker]
    /\ Fault("internal")
    /\ UNCHANGED <<storeVars, batches, requests, results, artifacts>>

CrashWorker(w) ==
    /\ workers[w].step # "idle"
    /\ workers' = [workers EXCEPT ![w] = IdleWorker]
    /\ Fault("crash")
    /\ UNCHANGED <<storeVars, batches, requests, results, artifacts>>

-----------------------------------------------------------------------------
(* ConsumeTranscodeResults                                                 *)

\* A result whose job is unknown is an error: it stays on the queue.
ConsumeResult(r) ==
    /\ r \in results
    /\ ProcessTranscodeResult(r)
    /\ \/ UNCHANGED results
       \/ /\ JobKnown(r) \/ ResultEventId(r) \in processed
          /\ results' = results \ {r}
    /\ UNCHANGED <<batches, requests, workers, artifacts, faults>>

-----------------------------------------------------------------------------
PublisherStep(p) == ListBatch(p) \/ SendNext(p) \/ MarkSent(p)

\* What a worker does after the source has been verified.
WorkerStep(w) == Transcode(w) \/ UploadWaveform(w) \/ Report(w) \/ Delete(w)

WorkerFault(w) == InternalError(w) \/ CrashWorker(w)

PipelineNext ==
    \/ \E p \in Publisher : PublisherStep(p) \/ AbortBatch(p)
    \/ \E w \in Worker, n \in Message : Receive(w, n)
    \/ \E w \in Worker, clean \in BOOLEAN : VerifySource(w, clean)
    \/ \E w \in Worker : WorkerStep(w) \/ WorkerFault(w)
    \/ \E n \in Message : VisibilityExpires(n) \/ HeartbeatLost(n)
    \/ \E r \in results : ConsumeResult(r)

PipelineSpec == PipelineInit /\ [][PipelineNext]_pipelineVars

-----------------------------------------------------------------------------
(* Properties                                                              *)

\* Every variable has its type.
PipelineTypeOK ==
    /\ StoreTypeOK
    /\ processed \subseteq ResultEventIds
    /\ batches \in [Publisher -> Batch]
    /\ requests \in [Message -> Request]
    /\ workers \in [Worker -> Attempt]
    /\ results \subseteq Result
    /\ artifacts \in [Id -> SUBSET Artifact]
    /\ faults \in 0..MaxFaults

\* An audio that is READY names artifacts that are in the bucket, both of them,
\* although two workers may be at the same job and an attempt may die between
\* the two uploads (Processor.process uploads both before it reports).
ReadyIsPlayable ==
    \A a \in Audio : audios[a].status = "READY" =>
        /\ audios[a].artifacts = jobs[a].id
        /\ artifacts[jobs[a].id] = Artifact

\* What can still move an audio out of QUEUED: its event waits for the publisher,
\* or a message of it may be received again, or a result of it, not applied yet,
\* is on the result queue.
InFlight(a) ==
    \/ \E e \in PendingOutbox : e.audio = a
    \/ \E n \in Message : requests[n].state \in {"visible", "hidden"} /\ requests[n].event.audio = a
    \/ \E r \in results : JobKnown(r) /\ r.audio = a /\ ResultEventId(r) \notin processed

\* No order of publisher crash, worker crash, redelivery and duplicate loses a
\* transcode request: an audio in QUEUED is always in flight.  It needs the
\* worker to allow at least as many attempts as audio-events does, which are two
\* settings; otherwise a retryable failure can arrive after the success, put the
\* audio back to QUEUED and find no message left (events.go:127, main.py:132).
RequestAccounted ==
    \A a \in Audio : audios[a].status = "QUEUED" => InFlight(a)

\* A row changes only by a result that was not applied before, whatever SQS
\* redelivers and in whatever order (registerProcessedEvent in the transaction).
AppliedOnce ==
    [][audios' # audios \/ jobs' # jobs => processed' # processed]_pipelineVars

\* attempt_count is the highest attempt of any result applied to the job, in
\* whatever order they came (GREATEST in ProcessTranscodeResult).  The table of
\* processed events holds the scan consumer's events as well.
AttemptsRecorded ==
    \A a \in Audio :
        LET applied == processed \cap ResultEventIds
            seen == {id[3] : id \in {i \in applied : i[1] = jobs[a].id}}
        IN  /\ \A k \in seen : k <= jobs[a].attempts
            /\ jobs[a].attempts \in seen \cup {0}

\* "READY --> DELETED" is the one way out of READY in the state diagram
\* (docs/audio-service-architecture.md:429), and reordered messages are a normal
\* situation there (line 547): an audio that can be played stays that way.
ReadyIsFinal ==
    [][\A a \in Audio : audios[a].status = "READY" => audios'[a].status = "READY"]_pipelineVars

=============================================================================
