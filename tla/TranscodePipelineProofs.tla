----------------------- MODULE TranscodePipelineProofs -----------------------
(***************************************************************************)
(* Theorems about TranscodePipeline, for every set of audios, publishers,  *)
(* workers and messages, any batch limit and any faults.                   *)
(***************************************************************************)
EXTENDS TranscodePipeline, TLAPS

-----------------------------------------------------------------------------
(* Type correctness                                                        *)

\* Whoever is in an attempt works on a message that was sent.
HeldIsSent ==
    \A w \in Worker : workers[w].step # "idle" => requests[workers[w].message].state # "unsent"

\* PipelineTypeOK without the event ids.  The lemmas ask for no more, so that they hold
\* as well where the intake registers its own events in the same table.
PipelineShape ==
    /\ StoreTypeOK
    /\ batches \in [Publisher -> Batch]
    /\ requests \in [Message -> Request]
    /\ workers \in [Worker -> Attempt]
    /\ results \subseteq Result
    /\ artifacts \in [Id -> SUBSET Artifact]
    /\ faults \in 0..MaxFaults

PipelineTypeInv == PipelineShape /\ HeldIsSent

SentRequest == [state: {"visible", "hidden", "deleted"}, event: OutboxEvent, receives: Nat]
Busy == [step: {"verify", "transcode", "waveform", "report", "delete"},
         message: Message, attempt: Nat \ {0}, outcome: ResultStatus, retryable: BOOLEAN]

\* What a worker that is not idle has in its hands.
LEMMA BusyWorker ==
    ASSUME PipelineTypeInv, NEW w \in Worker, workers[w].step # "idle"
    PROVE  /\ workers[w] \in Busy
           /\ requests[workers[w].message] \in SentRequest
  <1>1. workers[w] \in Busy
    BY DEF PipelineTypeInv, PipelineShape, Attempt, IdleWorker, Busy
  <1>2. workers[w].message \in Message
    BY <1>1 DEF Busy
  <1>3. requests[workers[w].message].state # "unsent"
    BY DEF PipelineTypeInv, HeldIsSent
  <1> QED
    BY <1>1, <1>2, <1>3 DEF PipelineTypeInv, PipelineShape, Request, UnsentRequest, SentRequest

\* The failure of an attempt gives the message up or goes to the report.
LEMMA WorkerErrorOutcome ==
    ASSUME PipelineTypeInv, NEW w \in Worker, workers[w].step # "idle",
           NEW retryable \in BOOLEAN, WorkerError(w, retryable)
    PROVE  /\ workers' \in [Worker -> Attempt]
           /\ \A v \in Worker : v # w => workers'[v] = workers[v]
           /\ \/ workers'[w] = IdleWorker
              \/ /\ workers'[w] = [workers[w] EXCEPT !.step = "report", !.outcome = "FAILED",
                                                     !.retryable = retryable]
                 /\ ~retryable \/ workers[w].attempt >= WorkerMaximumAttempts
  <1> DEFINE given == [workers[w] EXCEPT !.step = "report", !.outcome = "FAILED",
                                         !.retryable = retryable]
  <1>1. workers[w] \in Busy
    BY BusyWorker
  <1>2. given \in Attempt /\ IdleWorker \in Attempt
    BY <1>1 DEF Busy, Attempt, ResultStatus
  <1>3. workers \in [Worker -> Attempt]
    BY DEF PipelineTypeInv, PipelineShape
  <1>4. workers[w].attempt \in Nat /\ WorkerMaximumAttempts \in Nat
    BY <1>1, PipelineAssumption DEF Busy
  <1>5. CASE retryable /\ workers[w].attempt < WorkerMaximumAttempts
    BY <1>2, <1>3, <1>5 DEF WorkerError
  <1>6. CASE ~(retryable /\ workers[w].attempt < WorkerMaximumAttempts)
    <2>1. workers' = [workers EXCEPT ![w] = given]
      BY <1>6 DEF WorkerError
    <2>2. ~retryable \/ workers[w].attempt >= WorkerMaximumAttempts
      BY <1>4, <1>6
    <2> QED
      BY <1>2, <1>3, <2>1, <2>2
  <1> QED
    BY <1>5, <1>6

\* The same, field by field.
LEMMA WorkerErrorFields ==
    ASSUME PipelineTypeInv, NEW w \in Worker, workers[w].step # "idle",
           NEW retryable \in BOOLEAN, WorkerError(w, retryable), workers'[w].step # "idle"
    PROVE  /\ workers'[w].step = "report"
           /\ workers'[w].outcome = "FAILED"
           /\ workers'[w].retryable = retryable
           /\ workers'[w].message = workers[w].message
           /\ workers'[w].attempt = workers[w].attempt
           /\ ~retryable \/ workers[w].attempt >= WorkerMaximumAttempts
  <1>1. workers[w] \in Busy
    BY BusyWorker
  <1>2. workers'[w] # IdleWorker
    BY DEF IdleWorker
  <1>3. /\ workers'[w] = [workers[w] EXCEPT !.step = "report", !.outcome = "FAILED",
                                            !.retryable = retryable]
        /\ ~retryable \/ workers[w].attempt >= WorkerMaximumAttempts
    BY <1>2, WorkerErrorOutcome
  <1> QED
    BY <1>1, <1>3 DEF Busy

\* The transaction of a result keeps the types.
LEMMA ProcessTranscodeResultType ==
    ASSUME StoreTypeOK, NEW r \in Result, ProcessTranscodeResult(r)
    PROVE  StoreTypeOK'
  <1>1. r.job \in Id /\ r.audio \in Audio /\ r.status \in ResultStatus
        /\ r.attempt \in Nat \ {0} /\ r.retryable \in BOOLEAN
    BY DEF Result
  <1>2. CASE UNCHANGED storeVars
    BY <1>2 DEF storeVars, StoreTypeOK
  <1>3. ASSUME NEW attempts \in Nat, ApplyResult(r, attempts)
        PROVE  StoreTypeOK'
    <2>1. JobStatusAfter(r) \in JobStatus
      BY <1>1 DEF JobStatusAfter, JobStatus, ResultStatus
    <2>2. AudioStatusFor[JobStatusAfter(r)] \in AudioStatus
      BY <2>1 DEF AudioStatusFor, JobStatus, AudioStatus
    <2>3. jobs[r.audio] \in JobRow /\ audios[r.audio] \in AudioRow
      BY <1>1 DEF StoreTypeOK
    <2>4. [jobs[r.audio] EXCEPT !.status = JobStatusAfter(r), !.attempts = attempts] \in JobRow
      BY <2>1, <2>3, <1>3 DEF JobRow
    <2>5. \A keys \in Id \cup {NoId} :
            [audios[r.audio] EXCEPT !.status = AudioStatusFor[JobStatusAfter(r)],
                                    !.artifacts = keys] \in AudioRow
      BY <2>2, <2>3 DEF AudioRow
    <2>6. jobs' \in [Audio -> JobRow]
      BY <1>1, <1>3, <2>4 DEF ApplyResult, StoreTypeOK
    <2>7. audios' \in [Audio -> AudioRow]
      <3>1. audios[r.audio].artifacts \in Id \cup {NoId}
        BY <2>3 DEF AudioRow
      <3>2. CASE JobStatusAfter(r) = "SUCCEEDED"
        BY <1>1, <1>3, <2>5, <3>2 DEF ApplyResult, StoreTypeOK
      <3>3. CASE JobStatusAfter(r) # "SUCCEEDED"
        BY <1>1, <1>3, <2>5, <3>1, <3>3 DEF ApplyResult, StoreTypeOK
      <3> QED
        BY <3>2, <3>3
    <2> QED
      BY <1>3, <2>6, <2>7 DEF ApplyResult, StoreTypeOK
  <1>4. jobs[r.audio].attempts \in Nat
    BY <1>1 DEF StoreTypeOK, JobRow
  <1>5. (IF r.attempt > jobs[r.audio].attempts THEN r.attempt ELSE jobs[r.audio].attempts) \in Nat
    BY <1>1, <1>4
  <1> QED
    BY <1>2, <1>3, <1>5 DEF ProcessTranscodeResult

LEMMA PipelineTypeInit == PipelineInit => PipelineTypeInv
  <1> SUFFICES ASSUME PipelineInit PROVE PipelineTypeInv
    OBVIOUS
  <1> USE StoreAssumption, PipelineAssumption
  <1>1. PICK job \in [Audio -> Id] :
          /\ audios = [a \in Audio |-> [status |-> "QUEUED", verified |-> TRUE, version |-> 1,
                                        scan |-> "NO_THREATS_FOUND", artifacts |-> NoId]]
          /\ jobs = [a \in Audio |-> [AbsentJob EXCEPT !.id = job[a]]]
          /\ outbox = {[id |-> job[a], audio |-> a, version |-> 1] : a \in Audio}
    BY DEF PipelineInit
  <1>2. 1 \in Version
    BY DEF Version
  <1>3. audios \in [Audio -> AudioRow]
    BY <1>1, <1>2 DEF AudioRow, AudioStatus, ScanStatus
  <1>4. jobs \in [Audio -> JobRow]
    BY <1>1 DEF JobRow, AbsentJob, JobStatus
  <1>5. outbox \subseteq OutboxEvent
    BY <1>1, <1>2 DEF OutboxEvent
  <1>6. StoreTypeOK
    BY <1>3, <1>4, <1>5 DEF PipelineInit, StoreTypeOK
  <1>7. /\ batches \in [Publisher -> Batch]
        /\ requests \in [Message -> Request]
        /\ workers \in [Worker -> Attempt]
    BY DEF PipelineInit, Batch, IdleBatch, Request, Attempt
  <1>8. results \subseteq Result /\ artifacts \in [Id -> SUBSET Artifact]
        /\ faults \in 0..MaxFaults
    BY DEF PipelineInit
  <1>9. HeldIsSent
    BY DEF PipelineInit, HeldIsSent, IdleWorker
  <1> QED
    BY <1>6, <1>7, <1>8, <1>9 DEF PipelineTypeInv, PipelineShape

\* The publisher's steps.
LEMMA PublisherType ==
    ASSUME PipelineTypeInv, NEW p \in Publisher, PublisherStep(p) \/ AbortBatch(p)
    PROVE  PipelineTypeInv'
  <1> USE DEF PipelineTypeInv, PipelineShape
  <1>1. batches[p] \in Batch
    OBVIOUS
  <1>2. CASE ListBatch(p)
    <2>1. PendingOutbox \subseteq OutboxEvent
      BY DEF PendingOutbox, StoreTypeOK
    <2>2. batches' \in [Publisher -> Batch]
      BY <1>1, <1>2, <2>1 DEF ListBatch, Batch
    <2> QED
      BY <1>2, <2>2 DEF ListBatch, storeVars, StoreTypeOK, HeldIsSent
  <1>3. CASE SendNext(p)
    <2>1. PICK e \in batches[p].todo, n \in Message :
            /\ requests[n] = UnsentRequest
            /\ requests' = [requests EXCEPT ![n] = [state |-> "visible", event |-> e, receives |-> 0]]
            /\ batches' = [batches EXCEPT ![p].sent = e]
      BY <1>3 DEF SendNext
    <2>2. e \in OutboxEvent
      BY <1>1 DEF Batch
    <2>3. batches' \in [Publisher -> Batch]
      BY <1>1, <2>1, <2>2 DEF Batch
    <2>4. requests' \in [Message -> Request]
      BY <2>1, <2>2 DEF Request
    <2>5. HeldIsSent'
      BY <1>3, <2>1 DEF SendNext, HeldIsSent, Attempt, IdleWorker
    <2> QED
      BY <1>3, <2>3, <2>4, <2>5 DEF SendNext, storeVars, StoreTypeOK
  <1>4. CASE MarkSent(p)
    <2> DEFINE e == batches[p].sent
    <2>1. e \in OutboxEvent
      BY <1>1, <1>4 DEF MarkSent, Batch
    <2>2. batches' \in [Publisher -> Batch]
      BY <1>1, <1>4 DEF MarkSent, Batch, IdleBatch
    <2>3. StoreTypeOK'
      BY <1>4, <2>1 DEF MarkSent, MarkOutboxPublished, OutboxEvent, storeVars, StoreTypeOK
    <2> QED
      BY <1>4, <2>2, <2>3 DEF MarkSent, HeldIsSent
  <1>5. CASE AbortBatch(p)
    <2>1. batches' \in [Publisher -> Batch]
      BY <1>5 DEF AbortBatch, Batch, IdleBatch
    <2>2. faults' \in 0..MaxFaults
      BY <1>5, PipelineAssumption DEF AbortBatch, Fault
    <2> QED
      BY <1>5, <2>1, <2>2 DEF AbortBatch, storeVars, StoreTypeOK, HeldIsSent
  <1> QED
    BY <1>2, <1>3, <1>4, <1>5 DEF PublisherStep

\* The queue's own steps.
LEMMA QueueType ==
    ASSUME PipelineTypeInv, NEW n \in Message, VisibilityExpires(n) \/ HeartbeatLost(n)
    PROVE  PipelineTypeInv'
  <1> USE DEF PipelineTypeInv, PipelineShape
  <1>1. requests[n].state = "hidden" /\ requests' = [requests EXCEPT ![n].state = "visible"]
    BY DEF VisibilityExpires, HeartbeatLost
  <1>2. requests[n] \in SentRequest
    BY <1>1 DEF Request, UnsentRequest, SentRequest
  <1>3. requests' \in [Message -> Request]
    BY <1>1, <1>2 DEF SentRequest, Request
  <1>4. \A m \in Message : requests[m].state # "unsent" => requests'[m].state # "unsent"
    BY <1>1
  <1>5. UNCHANGED workers
    BY DEF VisibilityExpires, HeartbeatLost
  <1>6. HeldIsSent'
    BY <1>4, <1>5 DEF HeldIsSent, Attempt, IdleWorker
  <1>7. faults' \in 0..MaxFaults
    BY PipelineAssumption DEF VisibilityExpires, HeartbeatLost, Fault
  <1> QED
    BY <1>3, <1>6, <1>7 DEF VisibilityExpires, HeartbeatLost, storeVars, StoreTypeOK

LEMMA ReceiveType ==
    ASSUME PipelineTypeInv, NEW w \in Worker, NEW n \in Message, Receive(w, n)
    PROVE  PipelineTypeInv'
  <1> USE DEF PipelineTypeInv, PipelineShape
  <1>1. requests[n] \in SentRequest
    BY DEF Receive, Request, UnsentRequest, SentRequest
  <1>2. requests' \in [Message -> Request]
    BY <1>1 DEF Receive, SentRequest, Request
  <1>3. requests[n].receives + 1 \in Nat \ {0}
    BY <1>1 DEF SentRequest
  <1>4. workers' \in [Worker -> Attempt]
    BY <1>3 DEF Receive, Attempt, IdleWorker, ResultStatus
  <1>5. \A m \in Message : requests[m].state # "unsent" => requests'[m].state # "unsent"
    BY DEF Receive
  <1>6. HeldIsSent'
    <2> SUFFICES ASSUME NEW v \in Worker, workers'[v].step # "idle"
                 PROVE  requests'[workers'[v].message].state # "unsent"
      BY DEF HeldIsSent
    <2>1. CASE v = w
      BY <1>1, <1>5, <2>1 DEF Receive, SentRequest, IdleWorker
    <2>2. CASE v # w
      <3>1. workers'[v] = workers[v]
        BY <2>2 DEF Receive
      <3>2. workers[v].message \in Message
        BY <3>1, BusyWorker DEF Busy
      <3> QED
        BY <1>5, <3>1, <3>2 DEF HeldIsSent
    <2> QED
      BY <2>1, <2>2
  <1> QED
    BY <1>2, <1>4, <1>6 DEF Receive, storeVars, StoreTypeOK

\* A worker's other steps keep every message sent, and give it up or keep it.
LEMMA AttemptType ==
    ASSUME PipelineTypeInv, NEW w \in Worker,
           workers[w].step # "idle",
           workers' \in [Worker -> Attempt],
           \A v \in Worker : v # w => workers'[v] = workers[v],
           workers'[w].step = "idle" \/ workers'[w].message = workers[w].message,
           \A m \in Message : requests[m].state # "unsent" => requests'[m].state # "unsent"
    PROVE  HeldIsSent'
  <1> SUFFICES ASSUME NEW v \in Worker, workers'[v].step # "idle"
               PROVE  requests'[workers'[v].message].state # "unsent"
    BY DEF HeldIsSent
  <1>1. workers[v].step # "idle" /\ workers'[v].message = workers[v].message
    OBVIOUS
  <1>2. workers[v].message \in Message
    BY <1>1, BusyWorker DEF Busy
  <1> QED
    BY <1>1, <1>2 DEF PipelineTypeInv, HeldIsSent

LEMMA WorkerType ==
    ASSUME PipelineTypeInv, NEW w \in Worker,
           (\E clean \in BOOLEAN : VerifySource(w, clean)) \/ WorkerStep(w) \/ WorkerFault(w)
    PROVE  PipelineTypeInv'
  <1> DEFINE n == workers[w].message
             job == requests[n].event.id
  <1>1. workers[w].step # "idle"
    BY DEF VerifySource, WorkerStep, Transcode, UploadWaveform, Report, Delete,
           WorkerFault, InternalError, CrashWorker
  <1>2. workers[w] \in Busy /\ requests[n] \in SentRequest
    BY <1>1, BusyWorker
  <1>3. n \in Message /\ job \in Id
    BY <1>2 DEF Busy, SentRequest, OutboxEvent
  <1>4. \A step \in {"verify", "transcode", "waveform", "report", "delete"} :
          [workers[w] EXCEPT !.step = step] \in Attempt
    BY <1>2 DEF Busy, Attempt
  <1>5. IdleWorker \in Attempt /\ IdleWorker.step = "idle"
    BY DEF Attempt, IdleWorker
  <1>6. workers \in [Worker -> Attempt] /\ requests \in [Message -> Request]
        /\ artifacts \in [Id -> SUBSET Artifact] /\ results \subseteq Result
    BY DEF PipelineTypeInv, PipelineShape
  <1> DEFINE KeepsAttempts ==
               /\ workers' \in [Worker -> Attempt]
               /\ \A v \in Worker : v # w => workers'[v] = workers[v]
               /\ workers'[w].step = "idle" \/ workers'[w].message = n
             KeepsRest ==
               /\ UNCHANGED <<storeVars, batches>>
               /\ requests' \in [Message -> Request]
               /\ \A m \in Message : requests[m].state # "unsent" => requests'[m].state # "unsent"
               /\ artifacts' \in [Id -> SUBSET Artifact]
               /\ results' \subseteq Result
               /\ faults' \in 0..MaxFaults
  <1>7. faults \in 0..MaxFaults
    BY DEF PipelineTypeInv, PipelineShape
  <1>8. ASSUME NEW retryable \in BOOLEAN, WorkerError(w, retryable)
        PROVE  KeepsAttempts
    <2>1. /\ workers' \in [Worker -> Attempt]
          /\ \A v \in Worker : v # w => workers'[v] = workers[v]
      BY <1>1, <1>8, WorkerErrorOutcome
    <2>2. \/ workers'[w] = IdleWorker
          \/ workers'[w] = [workers[w] EXCEPT !.step = "report", !.outcome = "FAILED",
                                              !.retryable = retryable]
      BY <1>1, <1>8, WorkerErrorOutcome
    <2>3. workers'[w].step = "idle" \/ workers'[w].message = n
      BY <1>2, <1>5, <2>2 DEF Busy
    <2> QED
      BY <2>1, <2>3
  <1>9. ASSUME workers' = [workers EXCEPT ![w] = IdleWorker]
        PROVE  KeepsAttempts
    BY <1>5, <1>6, <1>9
  <1>10. ASSUME NEW step \in {"verify", "transcode", "waveform", "report", "delete"},
                workers' = [workers EXCEPT ![w].step = step]
         PROVE  KeepsAttempts
    <2>1. workers' = [workers EXCEPT ![w] = [workers[w] EXCEPT !.step = step]]
      BY <1>10
    <2> QED
      BY <1>4, <1>6, <2>1
  <1>11. ASSUME NEW clean \in BOOLEAN, VerifySource(w, clean)
         PROVE  KeepsAttempts /\ KeepsRest
    <2>1. KeepsAttempts
      BY <1>8, <1>10, <1>11 DEF VerifySource
    <2> QED
      BY <1>6, <1>7, <1>11, <2>1 DEF VerifySource
  <1>12. ASSUME Transcode(w)
         PROVE  KeepsAttempts /\ KeepsRest
    <2>1. KeepsAttempts
      BY <1>8, <1>10, <1>12 DEF Transcode
    <2>2. artifacts' \in [Id -> SUBSET Artifact]
      <3>1. artifacts[job] \cup {"playback"} \in SUBSET Artifact
        BY <1>3, <1>6 DEF Artifact
      <3>2. CASE artifacts' = [artifacts EXCEPT ![job] = artifacts[job] \cup {"playback"}]
        BY <1>3, <1>6, <3>1, <3>2
      <3>3. CASE UNCHANGED artifacts
        BY <1>6, <3>3
      <3> QED
        BY <1>12, <3>2, <3>3 DEF Transcode
    <2>3. KeepsRest
      BY <1>6, <1>7, <1>12, <2>2 DEF Transcode
    <2> QED
      BY <2>1, <2>3
  <1>13. ASSUME UploadWaveform(w)
         PROVE  KeepsAttempts /\ KeepsRest
    <2>1. KeepsAttempts
      BY <1>8, <1>10, <1>13 DEF UploadWaveform
    <2>2. artifacts' \in [Id -> SUBSET Artifact]
      <3>1. artifacts[job] \cup {"waveform"} \in SUBSET Artifact
        BY <1>3, <1>6 DEF Artifact
      <3>2. CASE artifacts' = [artifacts EXCEPT ![job] = artifacts[job] \cup {"waveform"}]
        BY <1>3, <1>6, <3>1, <3>2
      <3>3. CASE UNCHANGED artifacts
        BY <1>6, <3>3
      <3> QED
        BY <1>13, <3>2, <3>3 DEF UploadWaveform
    <2>3. KeepsRest
      BY <1>6, <1>7, <1>13, <2>2 DEF UploadWaveform
    <2> QED
      BY <2>1, <2>3
  <1>14. ASSUME Report(w)
         PROVE  KeepsAttempts /\ KeepsRest
    <2>1. KeepsAttempts
      <3>1. CASE workers[w].retryable
        BY <1>9, <1>14, <3>1 DEF Report
      <3>2. CASE ~workers[w].retryable
        BY <1>10, <1>14, <3>2 DEF Report
      <3> QED
        BY <3>1, <3>2
    <2>2. ResultOf(w) \in Result
      BY <1>2 DEF ResultOf, Result, Busy, SentRequest, OutboxEvent
    <2>3. KeepsRest
      BY <1>6, <1>7, <1>14, <2>2 DEF Report
    <2> QED
      BY <2>1, <2>3
  <1>15. ASSUME Delete(w)
         PROVE  KeepsAttempts /\ KeepsRest
    <2>1. KeepsAttempts
      BY <1>9, <1>15 DEF Delete
    <2>2. [requests[n] EXCEPT !.state = "deleted"] \in Request
      BY <1>2 DEF SentRequest, Request
    <2>3. /\ requests' \in [Message -> Request]
          /\ \A m \in Message : requests[m].state # "unsent" => requests'[m].state # "unsent"
      <3>1. CASE requests' = [requests EXCEPT ![n].state = "deleted"]
        <4>1. requests' = [requests EXCEPT ![n] = [requests[n] EXCEPT !.state = "deleted"]]
          BY <3>1
        <4>2. requests[n].state # "unsent" /\ requests'[n].state # "unsent"
          BY <1>2, <1>3, <1>6, <4>1 DEF SentRequest
        <4> QED
          BY <1>3, <1>6, <2>2, <4>1, <4>2
      <3>2. CASE UNCHANGED requests
        BY <1>6, <3>2
      <3> QED
        BY <1>15, <3>1, <3>2 DEF Delete
    <2>4. KeepsRest
      BY <1>6, <1>7, <1>15, <2>3 DEF Delete
    <2> QED
      BY <2>1, <2>4
  <1>16. ASSUME WorkerFault(w)
         PROVE  KeepsAttempts /\ KeepsRest
    <2>1. workers' = [workers EXCEPT ![w] = IdleWorker]
      BY <1>16 DEF WorkerFault, InternalError, CrashWorker
    <2>2. faults' \in 0..MaxFaults
      BY <1>7, <1>16, PipelineAssumption DEF WorkerFault, InternalError, CrashWorker, Fault
    <2>3. KeepsRest
      BY <1>6, <1>16, <2>2 DEF WorkerFault, InternalError, CrashWorker
    <2> QED
      BY <1>9, <2>1, <2>3
  <1>17. KeepsAttempts /\ KeepsRest
    BY <1>11, <1>12, <1>13, <1>14, <1>15, <1>16 DEF WorkerStep
  <1>18. HeldIsSent'
    BY <1>1, <1>17, AttemptType
  <1> QED
    BY <1>17, <1>18 DEF PipelineTypeInv, PipelineShape, storeVars, StoreTypeOK

LEMMA ConsumeResultType ==
    ASSUME PipelineTypeInv, NEW r \in results, ConsumeResult(r)
    PROVE  PipelineTypeInv'
  <1>1. r \in Result
    BY DEF PipelineTypeInv, PipelineShape
  <1>2. StoreTypeOK'
    BY <1>1, ProcessTranscodeResultType DEF ConsumeResult, PipelineTypeInv, PipelineShape
  <1>3. results' \subseteq Result
    BY DEF ConsumeResult, PipelineTypeInv, PipelineShape
  <1> QED
    BY <1>2, <1>3 DEF ConsumeResult, PipelineTypeInv, PipelineShape, HeldIsSent

LEMMA PipelineTypeNext ==
    ASSUME PipelineTypeInv, [PipelineNext]_pipelineVars
    PROVE  PipelineTypeInv'
  <1>1. CASE UNCHANGED pipelineVars
    BY <1>1 DEF pipelineVars, pipelineOnlyVars, storeVars, PipelineTypeInv, PipelineShape,
                StoreTypeOK, HeldIsSent
  <1>2. CASE PipelineNext
    BY <1>2, PublisherType, QueueType, ReceiveType, WorkerType, ConsumeResultType
       DEF PipelineNext
  <1> QED
    BY <1>1, <1>2

-----------------------------------------------------------------------------
(* What every step leaves alone                                            *)

EventOf(w) == requests[workers[w].message].event

\* A sent message keeps its event and is never unsent again, objects are never
\* removed from the bucket, and a job keeps its id.
LEMMA StepKeeps ==
    ASSUME PipelineTypeInv, PipelineNext
    PROVE  /\ \A m \in Message : requests[m].state # "unsent" =>
                 requests'[m].state # "unsent" /\ requests'[m].event = requests[m].event
           /\ \A j \in Id : artifacts[j] \subseteq artifacts'[j]
           /\ \A a \in Audio : jobs'[a].id = jobs[a].id
           /\ UNCHANGED outbox
  <1> DEFINE Goal == /\ \A m \in Message : requests[m].state # "unsent" =>
                          requests'[m].state # "unsent" /\ requests'[m].event = requests[m].event
                     /\ \A j \in Id : artifacts[j] \subseteq artifacts'[j]
                     /\ \A a \in Audio : jobs'[a].id = jobs[a].id
                     /\ UNCHANGED outbox
  <1> USE DEF PipelineTypeInv, PipelineShape, StoreTypeOK
  <1>1. ASSUME NEW p \in Publisher, PublisherStep(p) \/ AbortBatch(p)
        PROVE  Goal
    <2>1. CASE SendNext(p)
      BY <2>1 DEF SendNext, storeVars, UnsentRequest
    <2>2. CASE ListBatch(p) \/ MarkSent(p) \/ AbortBatch(p)
      BY <2>2 DEF ListBatch, MarkSent, MarkOutboxPublished, AbortBatch, storeVars
    <2> QED
      BY <1>1, <2>1, <2>2 DEF PublisherStep
  <1>2. ASSUME NEW m \in Message, NEW request \in [state: {"visible", "hidden", "deleted"},
                                                   event: {requests[m].event}, receives: Nat],
               requests' = [requests EXCEPT ![m] = request],
               UNCHANGED <<storeVars, artifacts>>
        PROVE  Goal
    BY <1>2 DEF storeVars
  <1>3. ASSUME NEW w \in Worker, NEW m \in Message, Receive(w, m)
        PROVE  Goal
    <2>1. requests[m] \in SentRequest
      BY <1>3 DEF Receive, Request, UnsentRequest, SentRequest
    <2>2. requests' = [requests EXCEPT ![m] = [requests[m] EXCEPT !.state = "hidden",
                                                                  !.receives = @ + 1]]
      BY <1>3 DEF Receive
    <2> QED
      BY <1>2, <1>3, <2>1, <2>2 DEF Receive, SentRequest
  <1>4. ASSUME NEW m \in Message, VisibilityExpires(m) \/ HeartbeatLost(m)
        PROVE  Goal
    <2>1. requests[m] \in SentRequest
      BY <1>4 DEF VisibilityExpires, HeartbeatLost, Request, UnsentRequest, SentRequest
    <2>2. requests' = [requests EXCEPT ![m] = [requests[m] EXCEPT !.state = "visible"]]
      BY <1>4 DEF VisibilityExpires, HeartbeatLost
    <2> QED
      BY <1>2, <1>4, <2>1, <2>2 DEF VisibilityExpires, HeartbeatLost, SentRequest
  <1>5. ASSUME NEW w \in Worker, Transcode(w) \/ UploadWaveform(w)
        PROVE  Goal
    BY <1>5 DEF Transcode, UploadWaveform, storeVars
  <1>6. ASSUME NEW w \in Worker, Delete(w)
        PROVE  Goal
    <2>1. requests[workers[w].message] \in SentRequest /\ workers[w].message \in Message
      BY <1>6, BusyWorker DEF Delete, Busy
    <2>2. CASE requests' = [requests EXCEPT ![workers[w].message].state = "deleted"]
      <3>1. requests' = [requests EXCEPT ![workers[w].message] =
                           [requests[workers[w].message] EXCEPT !.state = "deleted"]]
        BY <2>2
      <3> QED
        BY <1>2, <1>6, <2>1, <3>1 DEF Delete, SentRequest
    <2>3. CASE UNCHANGED requests
      BY <1>6, <2>3 DEF Delete, storeVars
    <2> QED
      BY <1>6, <2>2, <2>3 DEF Delete
  <1>7. ASSUME NEW w \in Worker,
               (\E clean \in BOOLEAN : VerifySource(w, clean)) \/ Report(w) \/ WorkerFault(w)
        PROVE  Goal
    BY <1>7 DEF VerifySource, Report, WorkerFault, InternalError, CrashWorker, storeVars
  <1>8. ASSUME NEW r \in results, ConsumeResult(r)
        PROVE  Goal
    <2>1. r \in Result
      OBVIOUS
    <2>2. r.audio \in Audio
      BY <2>1 DEF Result
    <2>3. ASSUME NEW attempts, ApplyResult(r, attempts)
          PROVE  \A a \in Audio : jobs'[a].id = jobs[a].id
      BY <2>2, <2>3 DEF ApplyResult, JobRow
    <2>4. (\A a \in Audio : jobs'[a].id = jobs[a].id) /\ UNCHANGED outbox
      BY <1>8, <2>3 DEF ConsumeResult, ProcessTranscodeResult, ApplyResult, storeVars
    <2> QED
      BY <1>8, <2>4 DEF ConsumeResult
  <1>9. QED
    BY <1>1, <1>3, <1>4, <1>5, <1>6, <1>7, <1>8 DEF PipelineNext, WorkerStep

\* The ways an attempt may go on.
GoesOn(w) ==
    LET job == EventOf(w).id
    IN  \/ workers[w].step = "verify" /\ workers' = [workers EXCEPT ![w].step = "transcode"]
        \/ /\ workers[w].step = "transcode"
           /\ workers' = [workers EXCEPT ![w].step = "waveform"]
           /\ "playback" \in artifacts'[job]
        \/ /\ workers[w].step = "waveform"
           /\ workers' = [workers EXCEPT ![w].step = "report"]
           /\ "waveform" \in artifacts'[job]
        \/ /\ workers[w].step \in {"verify", "transcode", "waveform"}
           /\ \E retryable \in BOOLEAN : WorkerError(w, retryable)
        \/ /\ workers[w].step = "report"
           /\ workers' = [workers EXCEPT ![w] =
                            IF workers[w].retryable THEN IdleWorker ELSE [@ EXCEPT !.step = "delete"]]
           /\ ResultOf(w) \in results'
        \/ workers' = [workers EXCEPT ![w] = IdleWorker]

\* Every step of the system starts an attempt, takes one on, or leaves them alone.
LEMMA StepOfWorker ==
    ASSUME PipelineTypeInv, PipelineNext
    PROVE  \/ UNCHANGED workers
           \/ \E w \in Worker, m \in Message : Receive(w, m)
           \/ \E w \in Worker : workers[w].step # "idle" /\ GoesOn(w)
  <1>1. ASSUME NEW w \in Worker, \E clean \in BOOLEAN : VerifySource(w, clean)
        PROVE  workers[w].step # "idle" /\ GoesOn(w)
    BY <1>1 DEF VerifySource, GoesOn
  <1>2. ASSUME NEW w \in Worker, workers[w].step # "idle"
        PROVE  EventOf(w).id \in Id /\ artifacts \in [Id -> SUBSET Artifact]
    BY <1>2, BusyWorker DEF EventOf, SentRequest, OutboxEvent, PipelineTypeInv, PipelineShape
  <1>3. ASSUME NEW w \in Worker, Transcode(w)
        PROVE  workers[w].step # "idle" /\ GoesOn(w)
    BY <1>2, <1>3 DEF Transcode, GoesOn, EventOf
  <1>4. ASSUME NEW w \in Worker, UploadWaveform(w)
        PROVE  workers[w].step # "idle" /\ GoesOn(w)
    BY <1>2, <1>4 DEF UploadWaveform, GoesOn, EventOf
  <1>5. ASSUME NEW w \in Worker, Report(w)
        PROVE  workers[w].step # "idle" /\ GoesOn(w)
    BY <1>5 DEF Report, GoesOn
  <1>6. ASSUME NEW w \in Worker, Delete(w) \/ WorkerFault(w)
        PROVE  workers[w].step # "idle" /\ GoesOn(w)
    BY <1>6 DEF Delete, WorkerFault, InternalError, CrashWorker, GoesOn
  <1>7. ASSUME NEW p \in Publisher, PublisherStep(p) \/ AbortBatch(p)
        PROVE  UNCHANGED workers
    BY <1>7 DEF PublisherStep, ListBatch, SendNext, MarkSent, AbortBatch
  <1>8. ASSUME NEW m \in Message, VisibilityExpires(m) \/ HeartbeatLost(m)
        PROVE  UNCHANGED workers
    BY <1>8 DEF VisibilityExpires, HeartbeatLost
  <1>9. ASSUME NEW r \in results, ConsumeResult(r)
        PROVE  UNCHANGED workers
    BY <1>9 DEF ConsumeResult
  <1>10. QED
    BY <1>1, <1>3, <1>4, <1>5, <1>6, <1>7, <1>8, <1>9 DEF PipelineNext, WorkerStep

\* Who a step leaves in an attempt was in it before, at the same message with the
\* same number, or has just received.
LEMMA AttemptAfter ==
    ASSUME PipelineTypeInv, PipelineNext, NEW w \in Worker, workers'[w].step # "idle"
    PROVE  \/ workers'[w] = workers[w]
           \/ workers'[w].step = "verify" /\ workers'[w].retryable = FALSE
           \/ /\ workers[w].step # "idle"
              /\ workers'[w].message = workers[w].message
              /\ workers'[w].attempt = workers[w].attempt
              /\ GoesOn(w)
  <1>1. CASE UNCHANGED workers
    BY <1>1
  <1>2. ASSUME NEW v \in Worker, NEW m \in Message, Receive(v, m), v = w
        PROVE  workers'[w].step = "verify" /\ workers'[w].retryable = FALSE
    BY <1>2 DEF Receive, IdleWorker, PipelineTypeInv, PipelineShape
  <1>3. ASSUME NEW v \in Worker, NEW m \in Message, Receive(v, m), v # w
        PROVE  workers'[w] = workers[w]
    BY <1>3 DEF Receive, PipelineTypeInv, PipelineShape
  <1>4. ASSUME NEW v \in Worker, workers[v].step # "idle", GoesOn(v), v # w
        PROVE  workers'[w] = workers[w]
    <2>1. ASSUME NEW retryable \in BOOLEAN, WorkerError(v, retryable)
          PROVE  workers'[w] = workers[w]
      BY <1>4, <2>1, WorkerErrorOutcome
    <2> QED
      BY <1>4, <2>1 DEF GoesOn, PipelineTypeInv, PipelineShape
  <1>5. ASSUME workers[w].step # "idle", GoesOn(w)
        PROVE  workers'[w].message = workers[w].message /\ workers'[w].attempt = workers[w].attempt
    <2>1. workers[w] \in Busy
      BY <1>5, BusyWorker
    <2>2. ASSUME NEW retryable \in BOOLEAN, WorkerError(w, retryable)
          PROVE  workers'[w].message = workers[w].message /\ workers'[w].attempt = workers[w].attempt
      BY <1>5, <2>2, WorkerErrorFields
    <2>3. ASSUME NEW step, workers' = [workers EXCEPT ![w].step = step]
          PROVE  workers'[w].message = workers[w].message /\ workers'[w].attempt = workers[w].attempt
      BY <2>1, <2>3 DEF Busy, PipelineTypeInv, PipelineShape
    <2>4. workers' # [workers EXCEPT ![w] = IdleWorker]
      BY DEF IdleWorker, PipelineTypeInv, PipelineShape
    <2>5. CASE workers[w].step = "report"
      BY <1>5, <2>3, <2>4, <2>5 DEF GoesOn
    <2>6. CASE workers[w].step # "report"
      BY <1>5, <2>2, <2>3, <2>4, <2>6 DEF GoesOn
    <2> QED
      BY <2>5, <2>6
  <1> QED
    BY <1>1, <1>2, <1>3, <1>4, <1>5, StepOfWorker

\* The rows change only when a result that was not applied before is applied.
LEMMA ResultApplied ==
    ASSUME PipelineTypeInv, PipelineNext
    PROVE  \/ UNCHANGED <<audios, jobs, processed>>
           \/ \E r \in results, attempts \in Nat :
                /\ JobKnown(r)
                /\ ResultEventId(r) \notin processed
                /\ processed' = processed \cup {ResultEventId(r)}
                /\ attempts = IF r.attempt > jobs[r.audio].attempts
                                THEN r.attempt ELSE jobs[r.audio].attempts
                /\ ApplyResult(r, attempts)
  <1> DEFINE Goal ==
        \/ UNCHANGED <<audios, jobs, processed>>
        \/ \E r \in results, attempts \in Nat :
             /\ JobKnown(r)
             /\ ResultEventId(r) \notin processed
             /\ processed' = processed \cup {ResultEventId(r)}
             /\ attempts = IF r.attempt > jobs[r.audio].attempts
                             THEN r.attempt ELSE jobs[r.audio].attempts
             /\ ApplyResult(r, attempts)
  <1>1. ASSUME NEW p \in Publisher, PublisherStep(p) \/ AbortBatch(p)
        PROVE  Goal
    BY <1>1 DEF PublisherStep, ListBatch, SendNext, MarkSent, MarkOutboxPublished, AbortBatch, storeVars
  <1>2. ASSUME NEW w \in Worker,
               \/ \E n \in Message : Receive(w, n)
               \/ \E clean \in BOOLEAN : VerifySource(w, clean)
               \/ WorkerStep(w) \/ WorkerFault(w)
        PROVE  Goal
    BY <1>2 DEF Receive, VerifySource, WorkerStep, Transcode, UploadWaveform, Report, Delete,
       WorkerFault, InternalError, CrashWorker, storeVars
  <1>3. ASSUME NEW n \in Message, VisibilityExpires(n) \/ HeartbeatLost(n)
        PROVE  Goal
    BY <1>3 DEF VisibilityExpires, HeartbeatLost, storeVars
  <1>4. ASSUME NEW r \in results, ConsumeResult(r)
        PROVE  Goal
    <2>1. r.attempt \in Nat /\ r.audio \in Audio
      BY DEF PipelineTypeInv, PipelineShape, Result
    <2>2. jobs[r.audio].attempts \in Nat
      BY <2>1 DEF PipelineTypeInv, PipelineShape, StoreTypeOK, JobRow
    <2>3. (IF r.attempt > jobs[r.audio].attempts THEN r.attempt ELSE jobs[r.audio].attempts) \in Nat
      BY <2>1, <2>2
    <2> QED
      BY <1>4, <2>3 DEF ConsumeResult, ProcessTranscodeResult, storeVars
  <1> QED
    BY <1>1, <1>2, <1>3, <1>4 DEF PipelineNext

\* The event ids the result consumer has registered; the table holds others too.
Applied == processed \cap ResultEventIds

LEMMA ResultRegistered ==
    ASSUME PipelineTypeInv, NEW r \in results
    PROVE  /\ ResultEventId(r) \in ResultEventIds
           /\ processed' = processed \cup {ResultEventId(r)} =>
                Applied' = Applied \cup {ResultEventId(r)}
  <1>1. ResultEventId(r) \in ResultEventIds
    BY DEF PipelineTypeInv, PipelineShape, Result, ResultEventId, ResultEventIds
  <1> QED
    BY <1>1 DEF Applied

LEMMA PipelineEventIds ==
    ASSUME PipelineTypeInv, processed \subseteq ResultEventIds, [PipelineNext]_pipelineVars
    PROVE  processed' \subseteq ResultEventIds
  <1>1. \A r \in results : ResultEventId(r) \in ResultEventIds
    BY DEF PipelineTypeInv, PipelineShape, Result, ResultEventId, ResultEventIds
  <1>2. CASE UNCHANGED pipelineVars
    BY <1>2 DEF pipelineVars, storeVars
  <1>3. CASE PipelineNext
    BY <1>1, <1>3, ResultApplied
  <1> QED
    BY <1>2, <1>3

\* Every reachable state of the pipeline is well typed: attempts have a number and
\* a message, results come from the event of a message that was sent.
THEOREM PipelineTypeCorrect == PipelineSpec => []PipelineTypeOK
  <1> DEFINE Ids == processed \subseteq ResultEventIds
  <1>1. PipelineInit => Ids
    BY DEF PipelineInit
  <1>2. PipelineTypeInv /\ Ids /\ [PipelineNext]_pipelineVars => Ids'
    BY PipelineEventIds
  <1>3. PipelineTypeInv /\ Ids => PipelineTypeOK
    BY DEF PipelineTypeInv, PipelineShape, PipelineTypeOK
  <1> HIDE DEF Ids
  <1> QED
    BY <1>1, <1>2, <1>3, PipelineTypeInit, PipelineTypeNext, PTL DEF PipelineSpec

-----------------------------------------------------------------------------
(* READY is playable                                                       *)

\* The first of the two objects is there once an attempt is at the second, and
\* both are there as soon as a success may be reported, was reported or was
\* applied.
FirstUploaded ==
    \A w \in Worker : workers[w].step = "waveform" => "playback" \in artifacts[EventOf(w).id]
SuccessUploaded ==
    \A w \in Worker :
        workers[w].step \in {"report", "delete"} /\ workers[w].outcome = "SUCCEEDED" =>
            artifacts[EventOf(w).id] = Artifact
ReadyHasDrawn == \A a \in Audio : audios[a].status = "READY" => jobs[a].id \in Id
ResultsUploaded ==
    \A r \in results : r.status = "SUCCEEDED" => artifacts[r.job] = Artifact

UploadInv ==
    /\ PipelineTypeInv
    /\ ReadyHasDrawn
    /\ FirstUploaded
    /\ SuccessUploaded
    /\ ResultsUploaded
    /\ ReadyIsPlayable

LEMMA UploadInvInit == PipelineInit => UploadInv
  <1> SUFFICES ASSUME PipelineInit PROVE UploadInv
    OBVIOUS
  <1>1. \A w \in Worker : workers[w].step = "idle"
    BY DEF PipelineInit, IdleWorker
  <1>2. \A a \in Audio : audios[a].status = "QUEUED"
    BY DEF PipelineInit
  <1>3. results = {}
    BY DEF PipelineInit
  <1> QED
    BY <1>1, <1>2, <1>3, PipelineTypeInit
       DEF UploadInv, ReadyHasDrawn, FirstUploaded, SuccessUploaded, ResultsUploaded, ReadyIsPlayable

LEMMA UploadInvNext ==
    ASSUME UploadInv, [PipelineNext]_pipelineVars
    PROVE  UploadInv'
  <1>1. CASE UNCHANGED pipelineVars
    <2>1. PipelineTypeInv'
      BY <1>1, PipelineTypeNext DEF UploadInv
    <2> QED
      BY <1>1, <2>1 DEF pipelineVars, pipelineOnlyVars, storeVars, UploadInv, ReadyHasDrawn,
         FirstUploaded, SuccessUploaded, ResultsUploaded, ReadyIsPlayable, EventOf
  <1>2. CASE PipelineNext
    <2>1. PipelineTypeInv /\ PipelineTypeInv'
      BY <1>2, PipelineTypeNext DEF UploadInv
    <2>2. \A j \in Id : artifacts[j] \subseteq artifacts'[j] /\ artifacts'[j] \subseteq Artifact
      BY <1>2, <2>1, StepKeeps DEF PipelineTypeInv, PipelineShape
    <2>3. ASSUME NEW w \in Worker, workers[w].step # "idle"
          PROVE  /\ EventOf(w).id \in Id
                 /\ workers'[w].message = workers[w].message => EventOf(w)' = EventOf(w)
      <3>1. workers[w] \in Busy /\ requests[workers[w].message] \in SentRequest
        BY <2>1, <2>3, BusyWorker
      <3> QED
        BY <1>2, <2>1, <3>1, StepKeeps DEF EventOf, Busy, SentRequest, OutboxEvent
    <2>4. FirstUploaded'
      <3> SUFFICES ASSUME NEW w \in Worker, workers'[w].step = "waveform"
                   PROVE  "playback" \in artifacts'[EventOf(w)'.id]
        BY DEF FirstUploaded, EventOf
      <3>1. CASE workers'[w] = workers[w]
        BY <2>2, <2>3, <3>1 DEF UploadInv, FirstUploaded
      <3>2. CASE /\ workers[w].step # "idle"
                 /\ workers'[w].message = workers[w].message
                 /\ GoesOn(w)
        <4>1. EventOf(w)' = EventOf(w)
          BY <2>3, <3>2
        <4>2. ASSUME NEW retryable \in BOOLEAN, WorkerError(w, retryable)
              PROVE  FALSE
          BY <2>1, <3>2, <4>2, WorkerErrorFields
        <4>3. ASSUME NEW step, workers' = [workers EXCEPT ![w].step = step]
              PROVE  step = "waveform"
          BY <2>1, <3>2, <4>3, BusyWorker DEF Busy, PipelineTypeInv, PipelineShape
        <4>4. workers' # [workers EXCEPT ![w] = IdleWorker]
          BY <2>1 DEF IdleWorker, PipelineTypeInv, PipelineShape
        <4>5. "playback" \in artifacts'[EventOf(w).id]
          BY <3>2, <4>2, <4>3, <4>4 DEF GoesOn
        <4> QED
          BY <4>1, <4>5
      <3> QED
        BY <1>2, <2>1, <3>1, <3>2, AttemptAfter
    <2>5. SuccessUploaded'
      <3> SUFFICES ASSUME NEW w \in Worker, workers'[w].step \in {"report", "delete"},
                          workers'[w].outcome = "SUCCEEDED"
                   PROVE  artifacts'[EventOf(w)'.id] = Artifact
        BY DEF SuccessUploaded, EventOf
      <3>1. CASE workers'[w] = workers[w]
        <4>1. EventOf(w)' = EventOf(w) /\ EventOf(w).id \in Id
          BY <2>3, <3>1
        <4>2. artifacts[EventOf(w).id] = Artifact
          BY <3>1 DEF UploadInv, SuccessUploaded
        <4> QED
          BY <2>2, <4>1, <4>2
      <3>2. CASE /\ workers[w].step # "idle"
                 /\ workers'[w].message = workers[w].message
                 /\ GoesOn(w)
        <4>1. EventOf(w)' = EventOf(w) /\ EventOf(w).id \in Id
          BY <2>3, <3>2
        <4>2. ASSUME NEW retryable \in BOOLEAN, WorkerError(w, retryable)
              PROVE  FALSE
          BY <2>1, <3>2, <4>2, WorkerErrorFields
        <4>3. ASSUME NEW step, workers' = [workers EXCEPT ![w].step = step]
              PROVE  step \in {"report", "delete"} /\ workers[w].outcome = "SUCCEEDED"
          BY <2>1, <3>2, <4>3, BusyWorker DEF Busy, PipelineTypeInv, PipelineShape
        <4>4. workers' # [workers EXCEPT ![w] = IdleWorker]
          BY <2>1 DEF IdleWorker, PipelineTypeInv, PipelineShape
        <4>5. CASE workers[w].step = "waveform"
          <5>1. "waveform" \in artifacts'[EventOf(w).id]
            BY <3>2, <4>2, <4>4, <4>5 DEF GoesOn
          <5>2. "playback" \in artifacts'[EventOf(w).id]
            BY <2>2, <4>1, <4>5 DEF UploadInv, FirstUploaded
          <5> QED
            BY <2>2, <4>1, <5>1, <5>2 DEF Artifact
        <4>6. CASE workers[w].step = "report"
          <5>1. workers' = [workers EXCEPT ![w].step = "delete"]
            BY <3>2, <4>4, <4>6 DEF GoesOn
          <5>2. artifacts[EventOf(w).id] = Artifact
            BY <4>3, <4>6, <5>1 DEF UploadInv, SuccessUploaded
          <5> QED
            BY <2>2, <4>1, <5>2
        <4>7. workers[w].step \in {"waveform", "report"}
          BY <3>2, <4>2, <4>3, <4>4 DEF GoesOn
        <4> QED
          BY <4>5, <4>6, <4>7
      <3> QED
        BY <1>2, <2>1, <3>1, <3>2, AttemptAfter
    <2>6. \A r \in results' : r \in results \/ \E w \in Worker : Report(w) /\ r = ResultOf(w)
      BY <1>2 DEF PipelineNext, PublisherStep, ListBatch, SendNext, MarkSent, AbortBatch,
         Receive, VerifySource, WorkerStep, Transcode, UploadWaveform, Report, Delete,
         WorkerFault, InternalError, CrashWorker, VisibilityExpires, HeartbeatLost, ConsumeResult
    <2>7. ResultsUploaded'
      <3> SUFFICES ASSUME NEW r \in results', r.status = "SUCCEEDED"
                   PROVE  artifacts'[r.job] = Artifact
        BY DEF ResultsUploaded
      <3>1. CASE r \in results
        <4>1. r.job \in Id
          BY <2>1, <3>1 DEF PipelineTypeInv, PipelineShape, Result
        <4> QED
          BY <2>2, <3>1, <4>1 DEF UploadInv, ResultsUploaded
      <3>2. ASSUME NEW w \in Worker, Report(w), r = ResultOf(w)
            PROVE  artifacts'[r.job] = Artifact
        <4>1. workers[w].step = "report" /\ workers[w].outcome = "SUCCEEDED"
          BY <3>2 DEF Report, ResultOf
        <4>2. r.job = EventOf(w).id /\ EventOf(w).id \in Id
          BY <2>3, <3>2, <4>1 DEF ResultOf, EventOf
        <4> QED
          <5>1. artifacts[EventOf(w).id] = Artifact
            BY <4>1 DEF UploadInv, SuccessUploaded
          <5> QED
            BY <2>2, <4>2, <5>1
      <3> QED
        BY <2>6, <3>1, <3>2
    <2>8. ReadyIsPlayable' /\ ReadyHasDrawn'
      <3> SUFFICES ASSUME NEW a \in Audio, audios'[a].status = "READY"
                   PROVE  /\ jobs'[a].id \in Id
                          /\ audios'[a].artifacts = jobs'[a].id
                          /\ artifacts'[jobs'[a].id] = Artifact
        BY DEF ReadyIsPlayable, ReadyHasDrawn
      <3>1. jobs'[a].id = jobs[a].id
        BY <1>2, <2>1, StepKeeps
      <3>2. CASE audios'[a] = audios[a]
        <4>1. audios[a].artifacts = jobs[a].id /\ artifacts[jobs[a].id] = Artifact
          BY <3>2 DEF UploadInv, ReadyIsPlayable
        <4>2. jobs[a].id \in Id
          BY <3>2 DEF UploadInv, ReadyHasDrawn
        <4> QED
          BY <2>2, <3>1, <3>2, <4>1, <4>2
      <3>3. ASSUME NEW r \in results, NEW attempts, JobKnown(r), r.audio = a, ApplyResult(r, attempts)
            PROVE  /\ jobs'[a].id \in Id
                   /\ audios'[a].artifacts = jobs'[a].id
                   /\ artifacts'[jobs'[a].id] = Artifact
        <4>1. r \in Result /\ audios[a] \in AudioRow /\ audios \in [Audio -> AudioRow]
          BY <2>1 DEF PipelineTypeInv, PipelineShape, StoreTypeOK
        <4>2. r.status \in ResultStatus /\ r.job \in Id
          BY <4>1 DEF Result
        <4>3. audios'[a] = [audios[a] EXCEPT
                 !.status = AudioStatusFor[JobStatusAfter(r)],
                 !.artifacts = IF JobStatusAfter(r) = "SUCCEEDED" THEN r.job ELSE audios[a].artifacts]
          BY <3>3, <4>1 DEF ApplyResult
        <4>4. AudioStatusFor[JobStatusAfter(r)] = "READY"
          BY <4>1, <4>3 DEF AudioRow
        <4>5. JobStatusAfter(r) = "SUCCEEDED" /\ r.status = "SUCCEEDED"
          BY <4>2, <4>4 DEF AudioStatusFor, JobStatusAfter, ResultStatus
        <4>6. audios'[a].artifacts = r.job
          BY <4>1, <4>3, <4>5 DEF AudioRow
        <4>7. r.job = jobs'[a].id
          BY <3>1, <3>3 DEF JobKnown
        <4>8. artifacts[r.job] = Artifact
          BY <4>5 DEF UploadInv, ResultsUploaded
        <4> QED
          BY <2>2, <4>2, <4>6, <4>7, <4>8
      <3>4. \/ audios'[a] = audios[a]
            \/ \E r \in results, attempts \in Nat :
                 JobKnown(r) /\ r.audio = a /\ ApplyResult(r, attempts)
        BY <1>2, <2>1, ResultApplied DEF ApplyResult, PipelineTypeInv, PipelineShape, StoreTypeOK
      <3> QED
        BY <3>2, <3>3, <3>4
    <2> QED
      BY <2>1, <2>4, <2>5, <2>7, <2>8 DEF UploadInv
  <1> QED
    BY <1>1, <1>2

\* An audio that is READY names the artifacts of its own job, and both of them
\* are in the bucket, whatever number of workers is at the job, whatever attempt
\* died between the two uploads and in whatever order the results arrive.
THEOREM ReadyArtifacts == PipelineSpec => []ReadyIsPlayable
  <1>1. PipelineSpec => []UploadInv
    BY UploadInvInit, UploadInvNext, PTL DEF PipelineSpec
  <1>2. UploadInv => ReadyIsPlayable
    BY DEF UploadInv
  <1> QED
    BY <1>1, <1>2, PTL

-----------------------------------------------------------------------------
(* No request is lost                                                      *)

\* The worker allows at least as many attempts as audio-events does.
LimitsAgree == WorkerMaximumAttempts >= MaximumAttempts

\* An audio with a job has one event, with the id of the job, and no two jobs have one id.
JobsUnique == \A a, b \in Audio : jobs[a].id # NoId /\ jobs[a].id = jobs[b].id => a = b
EventOfJob ==
    \A e \in outbox : /\ e.id = jobs[e.audio].id
                      /\ \A f \in outbox : f.audio = e.audio => f = e
JobsRequested ==
    \A a \in Audio : audios[a].status = "QUEUED" \/ jobs[a].id # NoId =>
        \E e \in outbox : e.audio = a

\* An event is on the queue before it is marked; what publishers and messages
\* carry are events of the outbox.
Sent(e) == \E n \in Message : requests[n].state # "unsent" /\ requests[n].event = e
BatchesFromOutbox ==
    \A p \in Publisher :
        /\ batches[p].todo \subseteq outbox
        /\ batches[p].sent # NoEvent => batches[p].sent \in outbox /\ Sent(batches[p].sent)
MessagesFromOutbox ==
    \A n \in Message : requests[n].state # "unsent" => requests[n].event \in outbox
PublishedIsSent == \A e \in outbox : e.id \in published => Sent(e)

\* A failure that counts as retryable is reported by the last attempt only, and
\* its message is not deleted.
RetryableIsLast ==
    \A w \in Worker : workers[w].retryable =>
        workers[w].step = "report" /\ workers[w].attempt >= WorkerMaximumAttempts
ResultsAreLast ==
    \A r \in results : /\ JobKnown(r)
                       /\ r.retryable => r.attempt >= WorkerMaximumAttempts

\* A message is deleted only behind a result of its job.
Reported(job) ==
    \/ \E r \in results : r.job = job
    \/ \E i \in Applied : i[1] = job
DeletesAfterReport ==
    \A w \in Worker : workers[w].step = "delete" => Reported(EventOf(w).id)
DeletedIsReported ==
    \A n \in Message : requests[n].state = "deleted" => Reported(requests[n].event.id)
AppliedIsSettled ==
    \A a \in Audio : (\E i \in Applied : i[1] = jobs[a].id) => audios[a].status # "QUEUED"

AccountInv ==
    /\ PipelineTypeInv
    /\ JobsUnique /\ EventOfJob /\ JobsRequested
    /\ BatchesFromOutbox /\ MessagesFromOutbox /\ PublishedIsSent
    /\ RetryableIsLast /\ ResultsAreLast
    /\ DeletesAfterReport /\ DeletedIsReported /\ AppliedIsSettled

LEMMA AccountInvInit == PipelineInit => AccountInv
  <1> SUFFICES ASSUME PipelineInit PROVE AccountInv
    OBVIOUS
  <1>1. PICK job \in [Audio -> Id] :
          /\ \A a, b \in Audio : job[a] = job[b] => a = b
          /\ jobs = [a \in Audio |-> [AbsentJob EXCEPT !.id = job[a]]]
          /\ outbox = {[id |-> job[a], audio |-> a, version |-> 1] : a \in Audio}
    BY DEF PipelineInit
  <1>2. \A a \in Audio : jobs[a].id = job[a]
    BY <1>1 DEF AbsentJob
  <1>3. JobsUnique /\ EventOfJob /\ JobsRequested
    <2> DEFINE event(a) == [id |-> job[a], audio |-> a, version |-> 1]
    <2>1. outbox = {event(a) : a \in Audio}
      BY <1>1
    <2>2. \A a \in Audio : event(a).id = jobs[a].id /\ event(a).audio = a
      BY <1>2
    <2> HIDE DEF event
    <2>3. EventOfJob
      BY <2>1, <2>2 DEF EventOfJob
    <2>4. JobsRequested
      BY <2>1, <2>2 DEF JobsRequested
    <2>5. JobsUnique
      BY <1>1, <1>2 DEF JobsUnique
    <2> QED
      BY <2>3, <2>4, <2>5
  <1>4. BatchesFromOutbox /\ MessagesFromOutbox /\ PublishedIsSent
    BY DEF PipelineInit, BatchesFromOutbox, MessagesFromOutbox, PublishedIsSent, IdleBatch,
           UnsentRequest
  <1>5. RetryableIsLast /\ ResultsAreLast /\ DeletesAfterReport
    BY DEF PipelineInit, RetryableIsLast, ResultsAreLast, DeletesAfterReport, IdleWorker
  <1>6. DeletedIsReported /\ AppliedIsSettled
    BY DEF PipelineInit, DeletedIsReported, AppliedIsSettled, Applied, UnsentRequest
  <1> QED
    BY <1>3, <1>4, <1>5, <1>6, PipelineTypeInit DEF AccountInv

\* A result is deleted from its queue only when its event id is registered.
LEMMA ReportedStays ==
    ASSUME AccountInv, PipelineNext, NEW job, Reported(job)
    PROVE  Reported(job)'
  <1>1. PipelineTypeInv
    BY DEF AccountInv
  <1>2. processed \subseteq processed'
    BY <1>1, ResultApplied
  <1>3. ASSUME NEW r \in results, r \notin results'
        PROVE  ResultEventId(r) \in Applied'
    <2>1. ConsumeResult(r)
      BY <1>3 DEF PipelineNext, PublisherStep, ListBatch, SendNext, MarkSent, AbortBatch,
         Receive, VerifySource, WorkerStep, Transcode, UploadWaveform, Report, Delete,
         WorkerFault, InternalError, CrashWorker, VisibilityExpires, HeartbeatLost, ConsumeResult
    <2>2. JobKnown(r)
      BY DEF AccountInv, ResultsAreLast
    <2>3. ResultEventId(r) \in processed'
      BY <1>2, <2>1, <2>2 DEF ConsumeResult, ProcessTranscodeResult
    <2> QED
      BY <1>1, <2>3, ResultRegistered DEF Applied
  <1>4. CASE \E i \in Applied : i[1] = job
    BY <1>2, <1>4 DEF Reported, Applied
  <1>5. ASSUME NEW r \in results, r.job = job
        PROVE  Reported(job)'
    <2>1. CASE r \in results'
      BY <1>5, <2>1 DEF Reported
    <2>2. CASE r \notin results'
      <3>1. ResultEventId(r) \in Applied' /\ ResultEventId(r)[1] = job
        BY <1>3, <1>5, <2>2 DEF ResultEventId
      <3> QED
        BY <3>1 DEF Reported
    <2> QED
      BY <2>1, <2>2
  <1> QED
    BY <1>4, <1>5 DEF Reported

\* The publishers, and what they put on the queue.
LEMMA PublishingNext ==
    ASSUME AccountInv, PipelineNext
    PROVE  /\ BatchesFromOutbox'
           /\ MessagesFromOutbox'
           /\ PublishedIsSent'
  <1>1. PipelineTypeInv
    BY DEF AccountInv
  <1>2. /\ UNCHANGED outbox
        /\ \A m \in Message : requests[m].state # "unsent" =>
             requests'[m].state # "unsent" /\ requests'[m].event = requests[m].event
    BY <1>1, StepKeeps
  <1>3. ASSUME NEW e, Sent(e)
        PROVE  Sent(e)'
    BY <1>2, <1>3 DEF Sent
  <1>4. ASSUME NEW p \in Publisher, SendNext(p)
        PROVE  \E e \in batches[p].todo, n \in Message :
                 /\ e \in outbox /\ Sent(e)'
                 /\ batches' = [batches EXCEPT ![p].sent = e]
                 /\ requests' = [requests EXCEPT ![n] =
                                   [state |-> "visible", event |-> e, receives |-> 0]]
    <2>1. PICK e \in batches[p].todo, n \in Message :
            /\ batches' = [batches EXCEPT ![p].sent = e]
            /\ requests' = [requests EXCEPT ![n] =
                              [state |-> "visible", event |-> e, receives |-> 0]]
      BY <1>4 DEF SendNext
    <2>2. e \in outbox
      BY DEF AccountInv, BatchesFromOutbox
    <2>3. requests'[n].state # "unsent" /\ requests'[n].event = e
      BY <1>1, <2>1 DEF PipelineTypeInv, PipelineShape
    <2>4. Sent(e)'
      BY <2>3 DEF Sent
    <2> QED
      BY <2>1, <2>2, <2>4
  <1>5. ASSUME NEW p \in Publisher
        PROVE  /\ batches'[p].todo \subseteq outbox
               /\ batches'[p].sent # NoEvent =>
                    \E e \in outbox : e = batches'[p].sent /\ Sent(e)'
    <2>1. /\ batches[p].todo \subseteq outbox
          /\ batches[p].sent # NoEvent => batches[p].sent \in outbox /\ Sent(batches[p].sent)
      BY DEF AccountInv, BatchesFromOutbox
    <2>2. CASE batches'[p] = batches[p]
      BY <1>3, <2>1, <2>2
    <2>3. batches \in [Publisher -> Batch] /\ PendingOutbox \subseteq outbox
      BY <1>1 DEF PipelineTypeInv, PipelineShape, PendingOutbox
    <2>4. CASE ListBatch(p)
      <3>1. PICK todo \in SUBSET PendingOutbox : batches' = [batches EXCEPT ![p].todo = todo]
        BY <2>4 DEF ListBatch
      <3>2. batches'[p] = [batches[p] EXCEPT !.todo = todo]
        BY <2>3, <3>1
      <3>3. batches'[p].todo = todo /\ batches'[p].sent = batches[p].sent
        BY <2>3, <3>2 DEF Batch
      <3> QED
        BY <1>3, <2>1, <2>3, <3>1, <3>3
    <2>5. CASE SendNext(p)
      <3>1. PICK e \in outbox : Sent(e)' /\ batches' = [batches EXCEPT ![p].sent = e]
        BY <1>4, <2>5
      <3>2. batches'[p] = [batches[p] EXCEPT !.sent = e]
        BY <2>3, <3>1
      <3>3. batches'[p].todo = batches[p].todo /\ batches'[p].sent = e
        BY <2>3, <3>2 DEF Batch
      <3> QED
        BY <2>1, <3>1, <3>3
    <2>6. CASE MarkSent(p)
      <3>1. \/ batches' = [batches EXCEPT ![p] =
                             [todo |-> batches[p].todo \ {batches[p].sent}, sent |-> NoEvent]]
            \/ batches' = [batches EXCEPT ![p] = IdleBatch]
        BY <2>6 DEF MarkSent
      <3>2. batches'[p].todo \subseteq batches[p].todo /\ batches'[p].sent = NoEvent
        BY <2>3, <3>1 DEF IdleBatch
      <3> QED
        BY <2>1, <3>2
    <2>7. CASE AbortBatch(p)
      BY <2>3, <2>7 DEF AbortBatch, IdleBatch
    <2>8. ASSUME NEW q \in Publisher, q # p, PublisherStep(q) \/ AbortBatch(q)
          PROVE  batches'[p] = batches[p]
      BY <2>3, <2>8 DEF PublisherStep, ListBatch, SendNext, MarkSent, AbortBatch
    <2>9. \/ \E q \in Publisher : PublisherStep(q) \/ AbortBatch(q)
          \/ UNCHANGED batches
      BY DEF PipelineNext, Receive, VerifySource, WorkerStep, Transcode, UploadWaveform, Report,
         Delete, WorkerFault, InternalError, CrashWorker, VisibilityExpires, HeartbeatLost,
         ConsumeResult
    <2> QED
      BY <2>2, <2>4, <2>5, <2>6, <2>7, <2>8, <2>9 DEF PublisherStep
  <1>6. BatchesFromOutbox'
    BY <1>2, <1>5 DEF BatchesFromOutbox, Sent
  <1>7. ASSUME NEW n \in Message, requests'[n].state # "unsent"
        PROVE  requests'[n].event \in outbox
    <2>1. CASE requests[n].state # "unsent"
      BY <1>2, <2>1 DEF AccountInv, MessagesFromOutbox
    <2>2. CASE requests'[n] = requests[n]
      BY <1>7, <2>1, <2>2
    <2>3. ASSUME NEW p \in Publisher, SendNext(p)
          PROVE  requests'[n].event \in outbox
      <3>1. PICK e \in outbox, m \in Message :
              requests' = [requests EXCEPT ![m] =
                             [state |-> "visible", event |-> e, receives |-> 0]]
        BY <1>4, <2>3
      <3> QED
        BY <1>1, <2>2, <3>1 DEF PipelineTypeInv, PipelineShape
    <2>4. ASSUME requests[n].state = "unsent", requests'[n] # requests[n]
          PROVE  \E p \in Publisher : SendNext(p)
      <3>1. \A w \in Worker : workers[w].step # "idle" => workers[w].message # n
        BY <1>1, <2>4 DEF PipelineTypeInv, HeldIsSent
      <3> QED
        BY <1>1, <2>4, <3>1 DEF PipelineTypeInv, PipelineShape, PipelineNext, PublisherStep, ListBatch,
           MarkSent, AbortBatch, Receive, VerifySource, WorkerStep, Transcode, UploadWaveform,
           Report, Delete, WorkerFault, InternalError, CrashWorker, VisibilityExpires,
           HeartbeatLost, ConsumeResult
    <2> QED
      BY <2>1, <2>2, <2>3, <2>4
  <1>8. MessagesFromOutbox'
    BY <1>2, <1>7 DEF MessagesFromOutbox
  <1>9. ASSUME NEW e \in outbox, e.id \in published'
        PROVE  Sent(e)'
    <2>1. CASE e.id \in published
      BY <1>3, <2>1 DEF AccountInv, PublishedIsSent
    <2>2. ASSUME NEW p \in Publisher, MarkSent(p), e.id \notin published
          PROVE  Sent(e)
      <3> DEFINE f == batches[p].sent
      <3>1. f # NoEvent /\ e.id = f.id
        BY <1>9, <2>2 DEF MarkSent, MarkOutboxPublished, storeVars
      <3>2. f \in outbox /\ Sent(f)
        BY <3>1 DEF AccountInv, BatchesFromOutbox
      <3>3. e.audio \in Audio /\ f.audio \in Audio
        BY <1>1, <3>2 DEF PipelineTypeInv, PipelineShape, StoreTypeOK, OutboxEvent
      <3>4. e.audio = f.audio
        <4>1. e.id # NoId
          BY <1>1, StoreAssumption DEF PipelineTypeInv, PipelineShape, StoreTypeOK, OutboxEvent
        <4> QED
          BY <3>1, <3>2, <3>3, <4>1 DEF AccountInv, EventOfJob, JobsUnique
      <3>5. e = f
        BY <3>2, <3>4 DEF AccountInv, EventOfJob
      <3> QED
        BY <3>2, <3>5
    <2>3. published' = published \/ \E p \in Publisher : MarkSent(p)
      BY DEF PipelineNext, PublisherStep, ListBatch, SendNext, AbortBatch, Receive, VerifySource,
         WorkerStep, Transcode, UploadWaveform, Report, Delete, WorkerFault, InternalError,
         CrashWorker, VisibilityExpires, HeartbeatLost, ConsumeResult, ProcessTranscodeResult,
         ApplyResult, storeVars
    <2> QED
      BY <1>3, <1>9, <2>1, <2>2, <2>3
  <1>10. PublishedIsSent'
    BY <1>2, <1>9 DEF PublishedIsSent
  <1> QED
    BY <1>6, <1>8, <1>10

\* Only the last attempt counts its failure as retryable.
LEMMA RetryableNext ==
    ASSUME AccountInv, PipelineNext
    PROVE  RetryableIsLast'
  <1> SUFFICES ASSUME NEW w \in Worker, workers'[w].retryable
               PROVE  workers'[w].step = "report" /\ workers'[w].attempt >= WorkerMaximumAttempts
    BY DEF RetryableIsLast
  <1>1. PipelineTypeInv /\ PipelineTypeInv' /\ RetryableIsLast
    BY PipelineTypeNext DEF AccountInv
  <1>2. workers'[w].step # "idle"
    BY <1>1 DEF PipelineTypeInv, PipelineShape, Attempt, IdleWorker
  <1>3. CASE workers'[w] = workers[w]
    BY <1>1, <1>3 DEF RetryableIsLast
  <1>4. CASE workers[w].step # "idle" /\ workers'[w].attempt = workers[w].attempt /\ GoesOn(w)
    <2>1. ASSUME NEW retryable \in BOOLEAN, WorkerError(w, retryable)
          PROVE  workers'[w].step = "report" /\ workers'[w].attempt >= WorkerMaximumAttempts
      BY <1>1, <1>2, <1>4, <2>1, WorkerErrorFields
    <2>2. workers' # [workers EXCEPT ![w] = IdleWorker]
      BY <1>1, <1>2 DEF IdleWorker, PipelineTypeInv, PipelineShape
    <2>3. ASSUME NEW step, workers' = [workers EXCEPT ![w].step = step]
          PROVE  workers[w].retryable
      BY <1>1, <1>4, <2>3, BusyWorker DEF Busy, PipelineTypeInv, PipelineShape
    <2>4. workers[w].retryable => workers[w].step = "report"
      BY <1>1 DEF RetryableIsLast
    <2>5. CASE workers[w].step = "report"
      BY <1>4, <2>2, <2>3, <2>5 DEF GoesOn
    <2>6. CASE workers[w].step # "report"
      BY <1>4, <2>1, <2>2, <2>3, <2>4, <2>6 DEF GoesOn
    <2> QED
      BY <2>5, <2>6
  <1> QED
    BY <1>1, <1>2, <1>3, <1>4, AttemptAfter

\* What a worker in an attempt holds is the event of a job.
LEMMA HeldEvent ==
    ASSUME AccountInv, PipelineNext, NEW w \in Worker, workers[w].step # "idle"
    PROVE  /\ EventOf(w) \in outbox
           /\ EventOf(w).audio \in Audio
           /\ EventOf(w).id = jobs[EventOf(w).audio].id
           /\ workers'[w].message = workers[w].message => EventOf(w)' = EventOf(w)
  <1>1. PipelineTypeInv
    BY DEF AccountInv
  <1>2. workers[w] \in Busy /\ requests[workers[w].message] \in SentRequest
    BY <1>1, BusyWorker
  <1>3. workers[w].message \in Message /\ requests[workers[w].message].state # "unsent"
    BY <1>2 DEF Busy, SentRequest
  <1>4. EventOf(w) \in outbox
    BY <1>3 DEF AccountInv, MessagesFromOutbox, EventOf
  <1>5. EventOf(w).audio \in Audio
    BY <1>1, <1>4 DEF PipelineTypeInv, PipelineShape, StoreTypeOK, OutboxEvent
  <1> QED
    BY <1>1, <1>3, <1>4, <1>5, StepKeeps DEF AccountInv, EventOfJob, EventOf

LEMMA ResultsNext ==
    ASSUME AccountInv, PipelineNext
    PROVE  ResultsAreLast'
  <1>1. PipelineTypeInv
    BY DEF AccountInv
  <1>2. \A a \in Audio : jobs'[a].id = jobs[a].id
    BY <1>1, StepKeeps
  <1>3. ASSUME NEW r \in results
        PROVE  JobKnown(r)' /\ (r.retryable => r.attempt >= WorkerMaximumAttempts)
    <2>1. r.audio \in Audio
      BY <1>1 DEF PipelineTypeInv, PipelineShape, Result
    <2> QED
      BY <1>2, <2>1 DEF AccountInv, ResultsAreLast, JobKnown
  <1>4. ASSUME NEW r, NEW w \in Worker, Report(w), r = ResultOf(w)
        PROVE  JobKnown(r)' /\ (r.retryable => r.attempt >= WorkerMaximumAttempts)
    <2>1. workers[w].step # "idle"
      BY <1>4 DEF Report
    <2>2. EventOf(w).audio \in Audio /\ EventOf(w).id = jobs[EventOf(w).audio].id
      BY <2>1, HeldEvent
    <2>3. workers[w].retryable => workers[w].attempt >= WorkerMaximumAttempts
      BY DEF AccountInv, RetryableIsLast
    <2>4. /\ r.job = EventOf(w).id /\ r.audio = EventOf(w).audio
          /\ r.attempt = workers[w].attempt /\ r.retryable = workers[w].retryable
      BY <1>4 DEF ResultOf, EventOf
    <2>5. jobs'[r.audio].id = r.job
      BY <1>2, <2>2, <2>4
    <2> QED
      BY <2>3, <2>4, <2>5 DEF JobKnown
  <1>5. ASSUME NEW r \in results', r \notin results
        PROVE  \E w \in Worker : Report(w) /\ r = ResultOf(w)
    BY <1>5 DEF PipelineNext, PublisherStep, ListBatch, SendNext, MarkSent, AbortBatch, Receive,
       VerifySource, WorkerStep, Transcode, UploadWaveform, Report, Delete, WorkerFault,
       InternalError, CrashWorker, VisibilityExpires, HeartbeatLost, ConsumeResult
  <1> SUFFICES ASSUME NEW r \in results'
               PROVE  JobKnown(r)' /\ (r.retryable => r.attempt >= WorkerMaximumAttempts)
    BY DEF ResultsAreLast
  <1>6. CASE r \in results
    BY <1>3, <1>6
  <1>7. CASE r \notin results
    BY <1>4, <1>5, <1>7
  <1> QED
    BY <1>6, <1>7

\* A message goes only behind a result.
LEMMA DeletesNext ==
    ASSUME AccountInv, PipelineNext
    PROVE  DeletesAfterReport' /\ DeletedIsReported'
  <1>1. PipelineTypeInv
    BY DEF AccountInv
  <1>2. ASSUME NEW w \in Worker, workers'[w].step = "delete"
        PROVE  Reported(EventOf(w).id)'
    <2>1. CASE workers'[w] = workers[w]
      <3>1. workers[w].step = "delete"
        BY <1>2, <2>1
      <3>2. Reported(EventOf(w).id) /\ EventOf(w)' = EventOf(w)
        BY <2>1, <3>1, HeldEvent DEF AccountInv, DeletesAfterReport
      <3>3. Reported(EventOf(w).id) => \E job : job = EventOf(w).id /\ Reported(job)'
        BY ReportedStays
      <3> QED
        BY <3>2, <3>3 DEF Reported
    <2>2. CASE /\ workers[w].step # "idle"
               /\ workers'[w].message = workers[w].message
               /\ GoesOn(w)
      <3>1. ASSUME NEW retryable \in BOOLEAN, WorkerError(w, retryable)
            PROVE  FALSE
        BY <1>1, <1>2, <2>2, <3>1, WorkerErrorFields
      <3>2. workers' # [workers EXCEPT ![w] = IdleWorker]
        BY <1>1, <1>2 DEF IdleWorker, PipelineTypeInv, PipelineShape
      <3>3. ASSUME NEW step, workers' = [workers EXCEPT ![w].step = step]
            PROVE  step = "delete"
        BY <1>1, <1>2, <2>2, <3>3, BusyWorker DEF Busy, PipelineTypeInv, PipelineShape
      <3>4. ResultOf(w) \in results'
        BY <2>2, <3>1, <3>2, <3>3 DEF GoesOn
      <3>5. ResultOf(w).job = EventOf(w).id /\ EventOf(w)' = EventOf(w)
        BY <2>2, HeldEvent DEF ResultOf, EventOf
      <3> QED
        BY <3>4, <3>5 DEF Reported
    <2> QED
      BY <1>1, <1>2, <2>1, <2>2, AttemptAfter
  <1>3. ASSUME NEW n \in Message, requests'[n].state = "deleted"
        PROVE  Reported(requests[n].event.id)' /\ requests'[n].event = requests[n].event
    <2>1. CASE requests[n].state = "deleted"
      <3>1. Reported(requests[n].event.id)
        BY <2>1 DEF AccountInv, DeletedIsReported
      <3>2. requests'[n].event = requests[n].event
        BY <1>1, <2>1, StepKeeps
      <3>3. \E job : job = requests[n].event.id /\ Reported(job)'
        BY <3>1, ReportedStays
      <3> QED
        BY <3>2, <3>3 DEF Reported
    <2>2. CASE requests[n].state # "deleted"
      <3>1. PICK w \in Worker : Delete(w) /\ workers[w].message = n
        <4>1. requests \in [Message -> Request]
          BY <1>1 DEF PipelineTypeInv, PipelineShape
        <4>2. ASSUME NEW p \in Publisher, PublisherStep(p) \/ AbortBatch(p)
              PROVE  FALSE
          BY <1>3, <2>2, <4>1, <4>2 DEF PublisherStep, ListBatch, SendNext, MarkSent, AbortBatch
        <4>3. ASSUME NEW w \in Worker, NEW m \in Message, Receive(w, m)
              PROVE  FALSE
          BY <1>3, <2>2, <4>1, <4>3 DEF Receive
        <4>4. ASSUME NEW m \in Message, VisibilityExpires(m) \/ HeartbeatLost(m)
              PROVE  FALSE
          <5>1. /\ requests[m].state = "hidden"
                /\ requests' = [requests EXCEPT ![m].state = "visible"]
            BY <4>4 DEF VisibilityExpires, HeartbeatLost
          <5>2. requests[m] \in SentRequest
            BY <4>1, <5>1 DEF Request, UnsentRequest, SentRequest
          <5>3. requests'[m].state = "visible"
            BY <4>1, <5>1, <5>2 DEF SentRequest
          <5> QED
            BY <1>3, <2>2, <4>1, <5>1, <5>3
        <4>5. ASSUME NEW w \in Worker, Delete(w)
              PROVE  workers[w].message = n
          BY <1>3, <2>2, <4>1, <4>5 DEF Delete
        <4>6. ASSUME NEW w \in Worker,
                     (\E clean \in BOOLEAN : VerifySource(w, clean)) \/ WorkerStep(w) \/ WorkerFault(w)
              PROVE  Delete(w)
          <5>1. CASE WorkerStep(w) \/ \E clean \in BOOLEAN : VerifySource(w, clean)
            BY <1>3, <2>2, <5>1 DEF VerifySource, WorkerStep, Transcode, UploadWaveform, Report
          <5>2. CASE WorkerFault(w)
            BY <1>3, <2>2, <5>2 DEF WorkerFault, InternalError, CrashWorker
          <5> QED
            BY <4>6, <5>1, <5>2
        <4>7. ASSUME NEW r \in results, ConsumeResult(r)
              PROVE  FALSE
          BY <1>3, <2>2, <4>7 DEF ConsumeResult
        <4> QED
          BY <4>2, <4>3, <4>4, <4>5, <4>6, <4>7 DEF PipelineNext
      <3>2. workers[w].step = "delete"
        BY <3>1 DEF Delete
      <3>3. Reported(EventOf(w).id) /\ EventOf(w) = requests[n].event
        BY <3>1, <3>2 DEF AccountInv, DeletesAfterReport, EventOf
      <3>4. requests[n].state # "unsent"
        BY <1>1, <3>1, <3>2 DEF PipelineTypeInv, HeldIsSent
      <3>5. requests'[n].event = requests[n].event
        BY <1>1, <3>4, StepKeeps
      <3>6. \E job : job = requests[n].event.id /\ Reported(job)'
        BY <3>3, ReportedStays
      <3> QED
        BY <3>5, <3>6 DEF Reported
    <2> QED
      BY <2>1, <2>2
  <1>4. DeletesAfterReport'
    BY <1>2 DEF DeletesAfterReport
  <1>5. DeletedIsReported'
    BY <1>3 DEF DeletedIsReported, Reported
  <1> QED
    BY <1>4, <1>5

\* No result that can still arrive puts a job back to QUEUED.
LEMMA SettledNext ==
    ASSUME LimitsAgree, AccountInv, PipelineNext
    PROVE  AppliedIsSettled'
  <1>1. PipelineTypeInv
    BY DEF AccountInv
  <1>2. \A a \in Audio : jobs'[a].id = jobs[a].id
    BY <1>1, StepKeeps
  <1>3. CASE UNCHANGED <<audios, jobs, processed>>
    BY <1>3 DEF AccountInv, AppliedIsSettled, Applied
  <1>4. ASSUME NEW r \in results, NEW attempts \in Nat, JobKnown(r),
               processed' = processed \cup {ResultEventId(r)}, ApplyResult(r, attempts)
        PROVE  AppliedIsSettled'
    <2>1. r \in Result /\ audios \in [Audio -> AudioRow]
      BY <1>1 DEF PipelineTypeInv, PipelineShape, StoreTypeOK
    <2>2. r.audio \in Audio /\ r.attempt \in Nat /\ r.status \in ResultStatus /\ r.job \in Id
      BY <2>1 DEF Result
    <2>3. r.retryable => r.attempt >= WorkerMaximumAttempts
      BY DEF AccountInv, ResultsAreLast
    <2>4. ~(r.retryable /\ r.attempt < MaximumAttempts)
      BY <2>2, <2>3, StoreAssumption, PipelineAssumption DEF LimitsAgree
    <2>5. JobStatusAfter(r) \in {"SUCCEEDED", "FAILED"}
      BY <2>2, <2>4 DEF JobStatusAfter, ResultStatus
    <2>6. audios'[r.audio].status # "QUEUED"
      <3>1. audios[r.audio] \in AudioRow
        BY <2>1, <2>2
      <3>2. audios'[r.audio].status = AudioStatusFor[JobStatusAfter(r)]
        BY <1>4, <2>1, <2>2, <3>1 DEF ApplyResult, AudioRow
      <3> QED
        BY <2>5, <3>2 DEF AudioStatusFor
    <2>7. ASSUME NEW a \in Audio, NEW i \in Applied', i[1] = jobs'[a].id
          PROVE  audios'[a].status # "QUEUED"
      <3>1. CASE a = r.audio
        BY <2>6, <3>1
      <3>2. CASE a # r.audio
        <4>1. audios'[a] = audios[a]
          BY <1>4, <2>1, <2>2, <3>2 DEF ApplyResult
        <4>2. i # ResultEventId(r)
          BY <1>2, <1>4, <2>2, <2>7, <3>2, StoreAssumption
             DEF ResultEventId, JobKnown, AccountInv, JobsUnique
        <4>3. i \in Applied
          BY <1>1, <1>4, <2>7, <4>2, ResultRegistered
        <4> QED
          BY <1>2, <2>7, <4>1, <4>3 DEF AccountInv, AppliedIsSettled
      <3> QED
        BY <3>1, <3>2
    <2> QED
      BY <2>7 DEF AppliedIsSettled
  <1> QED
    BY <1>1, <1>3, <1>4, ResultApplied

\* Only a result of a known job puts an audio into QUEUED again.
LEMMA QueuedHasJob ==
    ASSUME PipelineTypeInv, PipelineNext, NEW a \in Audio
    PROVE  audios'[a].status = audios[a].status \/ jobs[a].id # NoId
  <1>1. ASSUME NEW r \in results, NEW attempts, JobKnown(r), ApplyResult(r, attempts)
        PROVE  audios'[a].status = audios[a].status \/ jobs[a].id # NoId
    <2>1. r.audio \in Audio /\ r.job \in Id
      BY DEF PipelineTypeInv, PipelineShape, Result
    <2>2. CASE a = r.audio
      BY <1>1, <2>1, <2>2, StoreAssumption DEF JobKnown
    <2>3. CASE a # r.audio
      BY <1>1, <2>1, <2>3 DEF ApplyResult, PipelineTypeInv, PipelineShape, StoreTypeOK
    <2> QED
      BY <2>2, <2>3
  <1> QED
    BY <1>1, ResultApplied

LEMMA AccountInvNext ==
    ASSUME LimitsAgree, AccountInv, [PipelineNext]_pipelineVars
    PROVE  AccountInv'
  <1>1. CASE UNCHANGED pipelineVars
    <2>1. PipelineTypeInv'
      BY <1>1, PipelineTypeNext DEF AccountInv
    <2> QED
      BY <1>1, <2>1 DEF pipelineVars, pipelineOnlyVars, storeVars, AccountInv, JobsUnique,
         EventOfJob, JobsRequested, Sent, BatchesFromOutbox, MessagesFromOutbox,
         PublishedIsSent, RetryableIsLast, ResultsAreLast, Reported, DeletesAfterReport,
         DeletedIsReported, AppliedIsSettled, Applied, JobKnown, EventOf
  <1>2. CASE PipelineNext
    <2>1. PipelineTypeInv /\ PipelineTypeInv'
      BY <1>2, PipelineTypeNext DEF AccountInv
    <2>2. (\A a \in Audio : jobs'[a].id = jobs[a].id) /\ UNCHANGED outbox
      BY <1>2, <2>1, StepKeeps
    <2>3. \A e \in outbox : e.audio \in Audio
      BY <2>1 DEF PipelineTypeInv, PipelineShape, StoreTypeOK, OutboxEvent
    <2>4. JobsUnique' /\ EventOfJob'
      BY <2>2, <2>3 DEF AccountInv, JobsUnique, EventOfJob
    <2>8. JobsRequested'
      BY <1>2, <2>1, <2>2, QueuedHasJob DEF AccountInv, JobsRequested
    <2>5. BatchesFromOutbox' /\ MessagesFromOutbox' /\ PublishedIsSent'
      BY <1>2, PublishingNext
    <2>6. RetryableIsLast' /\ ResultsAreLast'
      BY <1>2, RetryableNext, ResultsNext
    <2>7. DeletesAfterReport' /\ DeletedIsReported' /\ AppliedIsSettled'
      BY <1>2, DeletesNext, SettledNext
    <2> QED
      BY <2>1, <2>4, <2>5, <2>6, <2>7, <2>8 DEF AccountInv
  <1> QED
    BY <1>1, <1>2

\* An audio whose event was published and whose messages are gone has a result on
\* its way that was not applied yet.
LEMMA AccountInvAccounts == AccountInv => RequestAccounted
  <1> SUFFICES ASSUME AccountInv, NEW a \in Audio, audios[a].status = "QUEUED"
               PROVE  InFlight(a)
    BY DEF RequestAccounted
  <1>1. PICK e \in outbox : e.audio = a
    BY DEF AccountInv, JobsRequested
  <1>2. e.id = jobs[a].id
    BY <1>1 DEF AccountInv, EventOfJob
  <1>3. \A i \in Applied : i[1] # jobs[a].id
    BY DEF AccountInv, AppliedIsSettled
  <1>4. CASE e.id \notin published
    BY <1>1, <1>4 DEF InFlight, PendingOutbox
  <1>5. CASE e.id \in published
    <2>1. PICK n \in Message : requests[n].state # "unsent" /\ requests[n].event = e
      BY <1>5 DEF AccountInv, PublishedIsSent, Sent
    <2>2. requests[n].state \in {"visible", "hidden", "deleted"}
      BY <2>1 DEF AccountInv, PipelineTypeInv, PipelineShape, Request, UnsentRequest
    <2>3. CASE requests[n].state = "deleted"
      <3>1. PICK r \in results : r.job = jobs[a].id
        BY <1>2, <1>3, <2>1, <2>3 DEF AccountInv, DeletedIsReported, Reported
      <3>2. JobKnown(r) /\ r.audio \in Audio
        BY DEF AccountInv, ResultsAreLast, PipelineTypeInv, PipelineShape, Result
      <3>3. r.audio = a
        <4>1. jobs[a].id # NoId
          BY <1>1, <1>2, StoreAssumption DEF AccountInv, PipelineTypeInv, PipelineShape, StoreTypeOK,
             OutboxEvent
        <4> QED
          BY <3>1, <3>2, <4>1 DEF AccountInv, JobsUnique, JobKnown
      <3>4. ResultEventId(r) \notin processed
        <4>1. ResultEventId(r) \notin Applied
          BY <1>3, <3>1 DEF ResultEventId
        <4> QED
          BY <4>1, ResultRegistered DEF AccountInv, Applied
      <3> QED
        BY <3>2, <3>3, <3>4 DEF InFlight
    <2> QED
      BY <1>1, <2>1, <2>2, <2>3 DEF InFlight
  <1> QED
    BY <1>4, <1>5

\* However many publishers and workers there are, and whichever of them dies
\* when, an audio that is QUEUED is still in flight, provided the worker allows at
\* least as many attempts as audio-events does.
THEOREM RequestsAccounted ==
    ASSUME LimitsAgree
    PROVE  PipelineSpec => []RequestAccounted
  <1>1. AccountInv /\ [PipelineNext]_pipelineVars => AccountInv'
    BY AccountInvNext
  <1>2. PipelineSpec => []AccountInv
    BY <1>1, AccountInvInit, PTL DEF PipelineSpec
  <1> QED
    BY <1>2, AccountInvAccounts, PTL

-----------------------------------------------------------------------------
(* A result is applied once                                                *)

\* No redelivery of a result changes a row: a step that does registers an event
\* id that was not registered.
THEOREM ResultsAppliedOnce == PipelineSpec => AppliedOnce
  <1>1. ASSUME PipelineTypeInv, [PipelineNext]_pipelineVars
        PROVE  [audios' # audios \/ jobs' # jobs => processed' # processed]_pipelineVars
    BY <1>1, ResultApplied
  <1>2. PipelineSpec => []PipelineTypeInv
    BY PipelineTypeInit, PipelineTypeNext, PTL DEF PipelineSpec
  <1> QED
    BY <1>1, <1>2, PTL DEF PipelineSpec, AppliedOnce

-----------------------------------------------------------------------------
(* attempt_count                                                           *)

Seen(a) == {id[3] : id \in {i \in Applied : i[1] = jobs[a].id}}
AttemptsInv == PipelineTypeInv /\ JobsUnique /\ AttemptsRecorded

LEMMA AttemptsInvNext ==
    ASSUME AttemptsInv, [PipelineNext]_pipelineVars
    PROVE  AttemptsInv'
  <1>1. CASE UNCHANGED pipelineVars
    <2>1. PipelineTypeInv'
      BY <1>1, PipelineTypeNext DEF AttemptsInv
    <2> QED
      BY <1>1, <2>1 DEF pipelineVars, storeVars, AttemptsInv, JobsUnique, AttemptsRecorded
  <1>2. CASE PipelineNext
    <2>1. PipelineTypeInv /\ PipelineTypeInv'
      BY <1>2, PipelineTypeNext DEF AttemptsInv
    <2>2. \A a \in Audio : jobs'[a].id = jobs[a].id
      BY <1>2, <2>1, StepKeeps
    <2>3. JobsUnique'
      BY <2>2 DEF AttemptsInv, JobsUnique
    <2>4. ASSUME UNCHANGED <<audios, jobs, processed>>
          PROVE  AttemptsRecorded'
      <3>1. \A a \in Audio : Seen(a)' = Seen(a)
        BY <2>4 DEF Seen, Applied
      <3>2. \A a \in Audio : /\ \A k \in Seen(a) : k <= jobs[a].attempts
                             /\ jobs[a].attempts \in Seen(a) \cup {0}
        BY DEF AttemptsInv, AttemptsRecorded, Seen, Applied
      <3> SUFFICES ASSUME NEW a \in Audio
                   PROVE  /\ \A k \in Seen(a)' : k <= jobs'[a].attempts
                          /\ jobs'[a].attempts \in Seen(a)' \cup {0}
        BY DEF AttemptsRecorded, Seen, Applied
      <3> QED
        BY <2>4, <3>1, <3>2
    <2>5. ASSUME NEW r \in results, NEW attempts \in Nat, JobKnown(r),
                 processed' = processed \cup {ResultEventId(r)},
                 attempts = IF r.attempt > jobs[r.audio].attempts
                              THEN r.attempt ELSE jobs[r.audio].attempts,
                 ApplyResult(r, attempts)
          PROVE  AttemptsRecorded'
      <3>1. r.audio \in Audio /\ r.job \in Id /\ r.attempt \in Nat /\ jobs \in [Audio -> JobRow]
        BY <2>1 DEF PipelineTypeInv, PipelineShape, StoreTypeOK, Result
      <3>2. ResultEventId(r)[1] = r.job /\ ResultEventId(r)[3] = r.attempt
        BY DEF ResultEventId
      <3> SUFFICES ASSUME NEW a \in Audio
                   PROVE  /\ \A k \in Seen(a)' : k <= jobs'[a].attempts
                          /\ jobs'[a].attempts \in Seen(a)' \cup {0}
        BY DEF AttemptsRecorded, Seen, Applied
      <3>3. /\ \A k \in Seen(a) : k <= jobs[a].attempts
            /\ jobs[a].attempts \in Seen(a) \cup {0}
        BY DEF AttemptsInv, AttemptsRecorded, Seen, Applied
      <3>4. jobs[a].attempts \in Nat
        BY <3>1 DEF JobRow
      <3>5. Seen(a) \subseteq Nat
        BY DEF Applied, ResultEventIds, Seen
      <3>6. CASE a = r.audio
        <4>1. Seen(a)' = Seen(a) \cup {r.attempt}
          BY <2>1, <2>2, <2>5, <3>2, <3>6, ResultRegistered DEF Seen, JobKnown
        <4>2. jobs'[a].attempts = attempts
          BY <2>5, <3>1, <3>6 DEF ApplyResult, JobRow
        <4>3. attempts \in {r.attempt, jobs[a].attempts}
              /\ attempts >= r.attempt /\ attempts >= jobs[a].attempts
          BY <2>5, <3>1, <3>4, <3>6
        <4>4. \A k \in Seen(a)' : k <= attempts
          BY <3>1, <3>3, <3>4, <3>5, <4>1, <4>3
        <4>5. attempts \in Seen(a)' \cup {0}
          BY <3>3, <4>1, <4>3
        <4> QED
          BY <4>2, <4>4, <4>5
      <3>7. CASE a # r.audio
        <4>1. r.job # jobs[a].id
          BY <2>5, <3>1, <3>7, StoreAssumption DEF JobKnown, AttemptsInv, JobsUnique
        <4>2. Seen(a)' = Seen(a)
          BY <2>1, <2>2, <2>5, <3>2, <4>1, ResultRegistered DEF Seen
        <4>3. jobs'[a] = jobs[a]
          BY <2>5, <3>1, <3>7 DEF ApplyResult
        <4> QED
          BY <3>3, <4>2, <4>3
      <3> QED
        BY <3>6, <3>7
    <2>6. AttemptsRecorded'
      <3>1. \/ UNCHANGED <<audios, jobs, processed>>
            \/ \E r \in results, attempts \in Nat :
                 /\ JobKnown(r)
                 /\ ResultEventId(r) \notin processed
                 /\ processed' = processed \cup {ResultEventId(r)}
                 /\ attempts = IF r.attempt > jobs[r.audio].attempts
                                 THEN r.attempt ELSE jobs[r.audio].attempts
                 /\ ApplyResult(r, attempts)
        BY <1>2, <2>1, ResultApplied
      <3>2. CASE UNCHANGED <<audios, jobs, processed>>
        BY <2>4, <3>2
      <3>3. CASE ~UNCHANGED <<audios, jobs, processed>>
        <4>1. PICK r \in results, attempts \in Nat :
                /\ JobKnown(r)
                /\ processed' = processed \cup {ResultEventId(r)}
                /\ attempts = IF r.attempt > jobs[r.audio].attempts
                                THEN r.attempt ELSE jobs[r.audio].attempts
                /\ ApplyResult(r, attempts)
          BY <3>1, <3>3
        <4> QED
          BY <2>5, <4>1
      <3> QED
        BY <3>2, <3>3
    <2> QED
      BY <2>1, <2>3, <2>6 DEF AttemptsInv
  <1> QED
    BY <1>1, <1>2

\* attempt_count is the highest attempt of the results applied so far, in whatever
\* order they came.
THEOREM AttemptCount == PipelineSpec => []AttemptsRecorded
  <1>1. ASSUME PipelineInit PROVE AttemptsInv
    <2>1. JobsUnique
      BY <1>1, AccountInvInit DEF AccountInv
    <2>2. \A a \in Audio : jobs[a].attempts = 0
      BY <1>1 DEF PipelineInit, AbsentJob
    <2>3. processed = {}
      BY <1>1 DEF PipelineInit
    <2> QED
      <3>1. \A a \in Audio : Seen(a) = {}
        BY <2>3 DEF Seen, Applied
      <3>2. AttemptsRecorded
        BY <2>2, <3>1 DEF AttemptsRecorded, Seen, Applied
      <3> QED
        BY <1>1, <2>1, <3>2, PipelineTypeInit DEF AttemptsInv
  <1>2. PipelineSpec => []AttemptsInv
    BY <1>1, AttemptsInvNext, PTL DEF PipelineSpec
  <1>3. AttemptsInv => AttemptsRecorded
    BY DEF AttemptsInv
  <1> QED
    BY <1>2, <1>3, PTL
=============================================================================
