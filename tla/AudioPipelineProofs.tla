-------------------------- MODULE AudioPipelineProofs --------------------------
(***************************************************************************)
(* Proofs about AudioPipeline: the invariants of the intake and those of   *)
(* the pipeline survive the steps of the other half, and together they say *)
(* what READY means.  The adapter is the only scanner throughout.          *)
(***************************************************************************)
EXTENDS Sequences, AudioPipeline, AudioIntakeProofs, TranscodePipelineProofs

\* A verdict other than PENDING comes from the one event of the adapter.
OneVerdict ==
    /\ \A m \in scanQueue : m.id = AdapterEventId(m.audio)
    /\ \A a \in Audio : audios[a].scan # "PENDING" => AdapterEventId(a) \in processed

\* A job stands for an audio that passed both gates and has been requested.
JobsVetted ==
    \A a \in Audio : jobs[a].id # NoId =>
        /\ audios[a].verified
        /\ audios[a].version # NoVersion
        /\ audios[a].scan = "NO_THREATS_FOUND"
        /\ \E e \in outbox : e.audio = a

ReadyHasJob == \A a \in Audio : audios[a].status = "READY" => jobs[a].id # NoId

PipeInv ==
    /\ IntakeInv
    /\ SourceInv
    /\ PipelineTypeInv
    /\ OneVerdict
    /\ JobsVetted
    /\ ReadyHasJob

-----------------------------------------------------------------------------
(* What the steps of the two halves do to the rows                         *)

Decision == {"CLEAN", "SCANNING", "QUARANTINED", "SCAN_FAILED"}

\* A transaction of the intake writes one row and draws a job for it at most.
LEMMA CommitRowJobs ==
    ASSUME StoreTypeOK, NEW a \in Audio, NEW row, NEW status, CommitRow(a, row, status)
    PROVE  /\ \A b \in Audio : b # a => jobs'[b] = jobs[b]
           /\ jobs[a].id # NoId => jobs'[a] = jobs[a]
           /\ jobs'[a].id # NoId => jobs[a].id # NoId \/ status = "CLEAN"
           /\ jobs[a].id = NoId => jobs'[a] = jobs[a] \/ jobs'[a].status = "QUEUED"
           /\ outbox \subseteq outbox'
           /\ status = "CLEAN" => \E e \in outbox' : e.audio = a
<1>1. CASE status = "CLEAN"
  <2>1. PICK id \in FreshId : EnqueueInitialTranscode(a, row, id)
    BY <1>1 DEF CommitRow
  <2>2. PICK new : new = [id |-> id, audio |-> a, version |-> row.version]
    OBVIOUS
  <2>3. new.audio = a /\ outbox' = outbox \cup {new}
    BY <2>1, <2>2 DEF EnqueueInitialTranscode
  <2>4. jobs' = IF jobs[a].id = NoId THEN [jobs EXCEPT ![a] = [AbsentJob EXCEPT !.id = id]]
                                     ELSE jobs
    BY <2>1 DEF EnqueueInitialTranscode
  <2> QED BY <1>1, <2>3, <2>4 DEF StoreTypeOK, AbsentJob
<1>2. CASE status # "CLEAN"
  BY <1>2 DEF CommitRow
<1> QED BY <1>1, <1>2

\* FinishComplete, seen from the row.
Marks(a, row, status) ==
    /\ CommitRow(a, row, status)
    /\ row.verified
    /\ row.scan = audios[a].scan
    /\ status = "CLEAN" => row.scan = "NO_THREATS_FOUND"
    /\ UNCHANGED processed
    /\ \E c \in Caller : calls[c].step # "idle" /\ calls[c].audio = a

\* The first delivery of a scan result, seen from the row.
Judges(a, row, status) ==
    /\ CommitRow(a, row, status)
    /\ row.verified = audios[a].verified
    /\ status = "CLEAN" => row.verified /\ row.scan = "NO_THREATS_FOUND"
    /\ \E m \in scanQueue : /\ m.audio = a
                            /\ m.id \notin processed
                            /\ processed' = processed \cup {m.id}

LEMMA IntakeRowStep ==
    ASSUME IntakeInv, IntakeNext
    PROVE  \/ UNCHANGED storeVars
           \/ \E a \in Audio : CreateUpload(a)
           \/ \E a \in Audio, row \in AudioRow, status \in Decision :
                row.version \in Version /\ (Marks(a, row, status) \/ Judges(a, row, status))
<1>0. IntakeShape /\ StoreTypeOK
  BY DEF IntakeInv, IntakeShape
<1>1. ASSUME NEW c \in Caller, FinishComplete(c)
      PROVE  \E a \in Audio, row \in AudioRow, status \in Decision :
               row.version \in Version /\ Marks(a, row, status)
  <2> DEFINE a == calls[c].audio
             v == calls[c].version
             row == [audios[a] EXCEPT !.verified = TRUE, !.version = Pin(audios[a], v)]
             status == StatusOnceVerified(audios[a], v)
  <2>1. a \in Audio /\ v \in Version
    BY <1>0, <1>1 DEF IntakeShape, FinishComplete, Call, IdleCall
  <2>2. audios[a] \in AudioRow
    BY <1>0, <2>1 DEF StoreTypeOK
  <2>3. /\ row \in AudioRow /\ row.version \in Version /\ row.verified
        /\ row.scan = audios[a].scan
    BY <2>1, <2>2, PinType DEF AudioRow
  <2>4. status \in Decision /\ (status = "CLEAN" => audios[a].scan = "NO_THREATS_FOUND")
    BY <2>2 DEF StatusOnceVerified, AudioRow, ScanStatus, Decision
  <2>5. CommitRow(a, row, status) /\ UNCHANGED processed /\ calls[c].step # "idle"
    BY <1>1 DEF FinishComplete, MarkUploadVerified
  <2> HIDE DEF row, status
  <2>6. Marks(a, row, status)
    BY <2>3, <2>4, <2>5 DEF Marks
  <2> QED BY <2>1, <2>3, <2>4, <2>6
<1>2. ASSUME NEW m \in scanQueue, ConsumeScanResult(m), ~UNCHANGED storeVars
      PROVE  \E a \in Audio, row \in AudioRow, status \in Decision :
               row.version \in Version /\ Judges(a, row, status)
  <2> DEFINE a == m.audio
             verdict == EffectiveVerdict(audios[a], m)
             row == [audios[a] EXCEPT !.version = Pin(audios[a], m.version), !.scan = verdict]
             status == StatusOnceScanned(audios[a], verdict)
  <2>1. a \in Audio /\ m.version \in Version /\ m.status \in ScanStatus
    BY <1>0 DEF IntakeShape, ScanMessage
  <2>2. audios[a] \in AudioRow
    BY <1>0, <2>1 DEF StoreTypeOK
  <2>3. verdict \in ScanStatus
    BY <2>1 DEF EffectiveVerdict, ScanStatus
  <2>4. /\ row \in AudioRow /\ row.version \in Version
        /\ row.verified = audios[a].verified
        /\ row.scan = verdict
    BY <2>1, <2>2, <2>3, PinType DEF AudioRow
  <2>5. /\ status \in Decision
        /\ status = "CLEAN" => audios[a].verified /\ verdict = "NO_THREATS_FOUND"
    BY DEF StatusOnceScanned, Decision
  <2>6. /\ CommitRow(a, row, status)
        /\ m.id \notin processed
        /\ processed' = processed \cup {m.id}
    BY <1>2 DEF ConsumeScanResult, ProcessScanResult
  <2> HIDE DEF row, status, verdict
  <2>7. Judges(a, row, status)
    BY <2>4, <2>5, <2>6 DEF Judges
  <2> QED BY <2>1, <2>4, <2>5, <2>7
<1>3. ASSUME NEW c \in Caller, CompleteStep(c)
      PROVE  FinishComplete(c) \/ UNCHANGED storeVars
  BY <1>3 DEF CompleteStep, BeginComplete, HeadSource, TagSource, SendScanResult, AbortComplete
<1>4. ASSUME NEW a \in Audio, PutSource(a)
      PROVE  UNCHANGED storeVars
  BY <1>4 DEF PutSource
<1>5. ASSUME NEW a \in Audio, NEW v \in Version, NEW verdict \in ScannerVerdicts,
             ScanExternally(a, v, verdict)
      PROVE  UNCHANGED storeVars
  BY <1>5 DEF ScanExternally
<1> QED BY <1>1, <1>2, <1>3, <1>4, <1>5 DEF IntakeNext

\* A result, seen from the rows of its audio.
Applies(a, status) ==
    /\ jobs[a].id # NoId
    /\ audios'[a].status = AudioStatusFor[status]
    /\ jobs'[a].status = status

LEMMA TranscodeIsPipeline == TranscodeNext => PipelineNext
<1>1. ASSUME NEW w \in Worker, VerifyTaggedSource(w)
      PROVE  \E clean \in BOOLEAN : VerifySource(w, clean)
  <2>1. SourceIsClean(w) \in BOOLEAN
    BY DEF SourceIsClean
  <2> QED BY <1>1, <2>1 DEF VerifyTaggedSource
<1> QED BY <1>1 DEF TranscodeNext, PipelineNext

LEMMA TranscodeRowStep ==
    ASSUME PipelineTypeInv, TranscodeNext
    PROVE  /\ UNCHANGED outbox
           /\ \A b \in Audio : /\ jobs'[b].id = jobs[b].id
                               /\ audios'[b].verified = audios[b].verified
                               /\ audios'[b].version = audios[b].version
                               /\ audios'[b].scan = audios[b].scan
           /\ processed \subseteq processed'
           /\ \A b \in Audio : AdapterEventId(b) \in processed' => AdapterEventId(b) \in processed
           /\ \A b \in Audio :
                \/ audios'[b].status = audios[b].status /\ jobs'[b].status = jobs[b].status
                \/ \E status \in JobStatus : Applies(b, status)
<1>0. PipelineNext
  BY TranscodeIsPipeline
<1>1. UNCHANGED outbox /\ \A b \in Audio : jobs'[b].id = jobs[b].id
  BY <1>0, StepKeeps
<1>2. CASE UNCHANGED <<audios, jobs, processed>>
  BY <1>1, <1>2
<1>3. ASSUME NEW r \in results, NEW attempts \in Nat,
             JobKnown(r), processed' = processed \cup {ResultEventId(r)},
             ApplyResult(r, attempts)
      PROVE  /\ \A b \in Audio : /\ audios'[b].verified = audios[b].verified
                                 /\ audios'[b].version = audios[b].version
                                 /\ audios'[b].scan = audios[b].scan
             /\ \A b \in Audio : AdapterEventId(b) \in processed' => AdapterEventId(b) \in processed
             /\ \A b \in Audio :
                  \/ audios'[b].status = audios[b].status /\ jobs'[b].status = jobs[b].status
                  \/ \E status \in JobStatus : Applies(b, status)
  <2> DEFINE a == r.audio
             status == JobStatusAfter(r)
  <2>1. r \in Result /\ a \in Audio /\ r.job \in Id
    BY DEF PipelineTypeInv, PipelineShape, Result
  <2>2. status \in JobStatus
    BY <2>1 DEF JobStatusAfter, JobStatus, Result, ResultStatus
  <2>3. jobs[a].id # NoId
    BY <1>3, <2>1, StoreAssumption DEF JobKnown
  <2>4. audios \in [Audio -> AudioRow] /\ jobs \in [Audio -> JobRow]
    BY DEF PipelineTypeInv, PipelineShape, StoreTypeOK
  <2> HIDE DEF status
  <2>5. PICK keys : audios' = [audios EXCEPT ![a].status = AudioStatusFor[status],
                                             ![a].artifacts = keys]
    <3>1. CASE status = "SUCCEEDED"
      BY <1>3, <3>1 DEF ApplyResult, status
    <3>2. CASE status # "SUCCEEDED"
      <4>1. audios' = [audios EXCEPT ![a].status = AudioStatusFor[status],
                                     ![a].artifacts = audios[a].artifacts]
        BY <1>3, <2>1, <2>4, <3>2 DEF ApplyResult, status, AudioRow
      <4> QED BY <4>1
    <3> QED BY <3>1, <3>2
  <2>6. /\ \A b \in Audio : b # a => audios'[b] = audios[b]
        /\ audios'[a].status = AudioStatusFor[status]
        /\ audios'[a].verified = audios[a].verified
        /\ audios'[a].version = audios[a].version
        /\ audios'[a].scan = audios[a].scan
    BY <2>1, <2>4, <2>5 DEF AudioRow
  <2>7. /\ \A b \in Audio : b # a => jobs'[b] = jobs[b]
        /\ jobs'[a].status = status
    BY <1>3, <2>1, <2>4 DEF ApplyResult, JobRow, status
  <2>8. \A b \in Audio : ResultEventId(r) # AdapterEventId(b)
    <3>1. \A b \in Audio : Len(AdapterEventId(b)) = 2
      BY DEF AdapterEventId
    <3>2. Len(ResultEventId(r)) = 3
      BY DEF ResultEventId
    <3> QED BY <3>1, <3>2
  <2>9. Applies(a, status)
    BY <2>3, <2>6, <2>7 DEF Applies
  <2> QED BY <1>3, <2>2, <2>6, <2>7, <2>8, <2>9
<1>4. processed \subseteq processed'
  BY <1>0, ResultApplied
<1> QED BY <1>0, <1>1, <1>2, <1>3, <1>4, ResultApplied

-----------------------------------------------------------------------------
(* The invariant, for any number of callers                                *)

LEMMA PipeInvInit == Init => PipeInv
<1> SUFFICES ASSUME Init
             PROVE  PipeInv
  OBVIOUS
<1>1. IntakeInv /\ SourceInv
  BY IntakeInvInit, SourceInvInit DEF Init
<1>2. PipelineTypeInv
  <2>1. StoreTypeOK
    BY <1>1 DEF IntakeInv, IntakeShape
  <2>2. /\ batches \in [Publisher -> Batch]
        /\ requests \in [Message -> Request]
        /\ workers \in [Worker -> Attempt]
    BY DEF Init, Batch, IdleBatch, Request, Attempt
  <2>3. results \subseteq Result /\ artifacts \in [Id -> SUBSET Artifact] /\ faults \in 0..MaxFaults
    BY PipelineAssumption DEF Init
  <2>4. HeldIsSent
    BY DEF Init, HeldIsSent, IdleWorker
  <2> QED BY <2>1, <2>2, <2>3, <2>4 DEF PipelineTypeInv, PipelineShape
<1>3. OneVerdict /\ JobsVetted /\ ReadyHasJob
  BY DEF Init, IntakeInit, StoreInit, AbsentAudio, AbsentJob, OneVerdict, JobsVetted, ReadyHasJob
<1> QED BY <1>1, <1>2, <1>3 DEF PipeInv

LEMMA IntakeKeepsPipeInv ==
    ASSUME ScannerVerdicts = {}, PipeInv, IntakeNext, UNCHANGED pipelineOnlyVars
    PROVE  PipeInv'
<1>0. IntakeInv /\ SourceInv /\ StoreTypeOK
  BY DEF PipeInv, IntakeInv, IntakeShape
<1>1. IntakeInv'
  BY <1>0, IntakeInvNext
<1>2. IntakeShape' /\ StoreTypeOK'
  BY <1>1 DEF IntakeInv, IntakeShape
<1>3. SourceInv'
  BY <1>0, <1>2, SourceInvNext
<1>4. PipelineTypeInv'
  BY <1>2 DEF PipeInv, PipelineTypeInv, PipelineShape, HeldIsSent, pipelineOnlyVars
<1>5. (\A m \in scanQueue : m.id = AdapterEventId(m.audio))'
  <2>1. ASSUME NEW c \in Caller, SendScanResult(c)
        PROVE  \A m \in scanQueue' : m.id = AdapterEventId(m.audio)
    BY <2>1 DEF SendScanResult, AdapterMessage, PipeInv, OneVerdict
  <2>2. ASSUME NEW c \in Caller, CompleteStep(c), ~SendScanResult(c)
        PROVE  UNCHANGED scanQueue
    BY <2>2 DEF CompleteStep, BeginComplete, HeadSource, TagSource, FinishComplete, AbortComplete
  <2>3. ASSUME NEW a \in Audio, CreateUpload(a) \/ PutSource(a)
        PROVE  UNCHANGED scanQueue
    BY <2>3 DEF CreateUpload, PutSource, intakeOnlyVars
  <2>4. ASSUME NEW m \in scanQueue, ConsumeScanResult(m)
        PROVE  scanQueue' \subseteq scanQueue
    BY <2>4 DEF ConsumeScanResult
  <2> QED BY <2>1, <2>2, <2>3, <2>4 DEF IntakeNext, PipeInv, OneVerdict
<1>6. CASE UNCHANGED storeVars
  BY <1>1, <1>3, <1>4, <1>5, <1>6 DEF PipeInv, OneVerdict, JobsVetted, ReadyHasJob, storeVars
<1>7. ASSUME NEW a \in Audio, CreateUpload(a)
      PROVE  PipeInv'
  <2>1. /\ audios' = [audios EXCEPT ![a].status = "UPLOAD_PENDING"]
        /\ UNCHANGED <<jobs, outbox, processed>>
    BY <1>7 DEF CreateUpload, InsertAudio
  <2>2. \A b \in Audio : /\ audios'[b].verified = audios[b].verified
                         /\ audios'[b].version = audios[b].version
                         /\ audios'[b].scan = audios[b].scan
                         /\ audios'[b].status \in {audios[b].status, "UPLOAD_PENDING"}
    BY <1>0, <2>1 DEF StoreTypeOK, AudioRow
  <2> QED BY <1>1, <1>3, <1>4, <1>5, <2>1, <2>2 DEF PipeInv, OneVerdict, JobsVetted, ReadyHasJob
<1>8. ASSUME NEW a \in Audio, NEW row \in AudioRow, NEW status \in Decision,
             row.version \in Version, Marks(a, row, status) \/ Judges(a, row, status)
      PROVE  PipeInv'
  <2>1. CommitRow(a, row, status)
    BY <1>8 DEF Marks, Judges
  <2>2. /\ audios'[a] = [row EXCEPT !.status = IF status = "CLEAN" THEN "QUEUED" ELSE status]
        /\ \A b \in Audio : b # a => audios'[b] = audios[b]
    BY <1>0, <2>1, CommitRowColumns
  <2>3. /\ audios'[a].verified = row.verified
        /\ audios'[a].version = row.version
        /\ audios'[a].scan = row.scan
        /\ audios'[a].status # "READY"
    BY <2>2 DEF AudioRow, Decision
  <2>4. row.version # NoVersion
    BY <1>8 DEF Version, NoVersion
  <2>5. /\ \A b \in Audio : b # a => jobs'[b] = jobs[b]
        /\ jobs'[a].id # NoId => jobs[a].id # NoId \/ status = "CLEAN"
        /\ outbox \subseteq outbox'
        /\ status = "CLEAN" => \E e \in outbox' : e.audio = a
    BY <1>0, <2>1, CommitRowJobs
  <2>6. \A b \in Audio : b # a /\ jobs'[b].id # NoId =>
          /\ audios'[b].verified
          /\ audios'[b].version # NoVersion
          /\ audios'[b].scan = "NO_THREATS_FOUND"
          /\ \E e \in outbox' : e.audio = b
    BY <2>2, <2>5 DEF PipeInv, JobsVetted
  <2>7. CASE Marks(a, row, status)
    <3>1. /\ row.verified /\ row.scan = audios[a].scan
          /\ status = "CLEAN" => row.scan = "NO_THREATS_FOUND"
          /\ UNCHANGED processed
      BY <2>7 DEF Marks
    <3>2. OneVerdict'
      BY <1>5, <2>2, <2>3, <3>1 DEF PipeInv, OneVerdict
    <3>3. JobsVetted'
      <4>1. jobs'[a].id # NoId =>
              /\ row.scan = "NO_THREATS_FOUND"
              /\ \E e \in outbox' : e.audio = a
        BY <2>5, <3>1 DEF PipeInv, JobsVetted
      <4> QED BY <2>3, <2>4, <2>6, <3>1, <4>1 DEF JobsVetted
    <3>4. ReadyHasJob'
      BY <2>2, <2>3, <2>5 DEF PipeInv, ReadyHasJob
    <3> QED BY <1>1, <1>3, <1>4, <3>2, <3>3, <3>4 DEF PipeInv
  <2>8. CASE Judges(a, row, status)
    <3>1. PICK m \in scanQueue : /\ m.audio = a
                                 /\ m.id \notin processed
                                 /\ processed' = processed \cup {m.id}
      BY <2>8 DEF Judges
    <3>2. m.id = AdapterEventId(a)
      BY <3>1 DEF PipeInv, OneVerdict
    <3>3. jobs[a].id = NoId
      BY <3>1, <3>2 DEF PipeInv, OneVerdict, JobsVetted
    <3>4. status = "CLEAN" => row.verified /\ row.scan = "NO_THREATS_FOUND"
      BY <2>8 DEF Judges
    <3>5. OneVerdict'
      BY <1>5, <2>2, <3>1, <3>2 DEF PipeInv, OneVerdict
    <3>6. JobsVetted'
      <4>1. jobs'[a].id # NoId =>
              /\ row.verified
              /\ row.scan = "NO_THREATS_FOUND"
              /\ \E e \in outbox' : e.audio = a
        BY <2>5, <3>3, <3>4
      <4> QED BY <2>3, <2>4, <2>6, <4>1 DEF JobsVetted
    <3>7. ReadyHasJob'
      BY <2>2, <2>3, <2>5 DEF PipeInv, ReadyHasJob
    <3> QED BY <1>1, <1>3, <1>4, <3>5, <3>6, <3>7 DEF PipeInv
  <2> QED BY <1>8, <2>7, <2>8
<1> QED BY <1>0, <1>6, <1>7, <1>8, IntakeRowStep

LEMMA TranscodeKeepsPipeInv ==
    ASSUME PipeInv, TranscodeNext, UNCHANGED intakeOnlyVars
    PROVE  PipeInv'
<1>0. IntakeInv /\ SourceInv /\ PipelineTypeInv
  BY DEF PipeInv
<1>1. PipelineTypeInv'
  BY <1>0, TranscodeIsPipeline, PipelineTypeNext
<1>2. UNCHANGED <<latest, tags, scanQueue, calls>>
  BY DEF intakeOnlyVars
<1>3. IntakeShape'
  BY <1>0, <1>1, <1>2 DEF IntakeInv, IntakeShape, PipelineTypeInv, PipelineShape
<1>4. /\ UNCHANGED outbox
      /\ \A b \in Audio : /\ jobs'[b].id = jobs[b].id
                          /\ audios'[b].verified = audios[b].verified
                          /\ audios'[b].version = audios[b].version
                          /\ audios'[b].scan = audios[b].scan
      /\ processed \subseteq processed'
      /\ \A b \in Audio : AdapterEventId(b) \in processed' => AdapterEventId(b) \in processed
  BY <1>0, TranscodeRowStep
<1>5. \A b \in Audio : \/ audios'[b].status = audios[b].status
                       \/ /\ jobs[b].id # NoId
                          /\ audios'[b].status \in {"READY", "TRANSCODE_FAILED", "QUEUED"}
  BY <1>0, TranscodeRowStep DEF Applies, AudioStatusFor, JobStatus
<1>6. RequestsAreGated'
  <2>1. \A e \in outbox : e.audio \in Audio
    BY <1>0 DEF PipelineTypeInv, PipelineShape, StoreTypeOK, OutboxEvent
  <2> QED BY <1>0, <1>4, <1>5, <2>1 DEF IntakeInv, RequestsAreGated, PipeInv, JobsVetted
<1>7. \A b \in Audio : ScanReported(b) => ScanReported(b)'
  BY <1>2, <1>4 DEF ScanReported
<1>8. CallInv'
  <2>1. \A c \in Caller : calls[c].step = "mark" => calls[c].audio \in Audio
    BY <1>0 DEF IntakeInv, IntakeShape, Call, IdleCall
  <2> QED BY <1>0, <1>2, <1>7, <2>1 DEF IntakeInv, CallInv
<1>9. ScanInv'
  BY <1>0, <1>4, <1>5, <1>7 DEF IntakeInv, ScanInv
<1>10. QueueInv' /\ SourceInv'
  BY <1>0, <1>2, <1>4 DEF IntakeInv, QueueInv, SourceInv, SourceOK
<1>11. OneVerdict' /\ JobsVetted' /\ ReadyHasJob'
  BY <1>2, <1>4, <1>5 DEF PipeInv, OneVerdict, JobsVetted, ReadyHasJob
<1> QED BY <1>1, <1>3, <1>6, <1>8, <1>9, <1>10, <1>11 DEF PipeInv, IntakeInv

LEMMA PipeInvNext ==
    ASSUME ScannerVerdicts = {}, PipeInv, [Next]_pipeVars
    PROVE  PipeInv'
<1>1. CASE UNCHANGED pipeVars
  BY <1>1 DEF pipeVars, storeVars, intakeOnlyVars, pipelineOnlyVars, PipeInv, IntakeInv, IntakeShape,
     StoreTypeOK, RequestsAreGated, QueueInv, CallInv, ScanInv, ScanReported, SourceInv, SourceOK,
     PipelineTypeInv, PipelineShape, HeldIsSent, OneVerdict, JobsVetted, ReadyHasJob
<1> QED BY <1>1, IntakeKeepsPipeInv, TranscodeKeepsPipeInv DEF Next

\* What can be played was compared, tagged and judged clean under its pinned version,
\* with any number of overlapping completions, publishers, workers and faults, although
\* intake and pipeline share no lock.
THEOREM ReadyVetted ==
    ASSUME ScannerVerdicts = {}
    PROVE  Spec => []ReadyWasVetted
<1>1. PipeInv /\ [Next]_pipeVars => PipeInv'
  BY PipeInvNext
<1>2. PipeInv => ReadyWasVetted
  BY DEF PipeInv, ReadyHasJob, JobsVetted, SourceInv, SourceOK, ReadyWasVetted
<1> QED BY <1>1, <1>2, PipeInvInit, PTL DEF Spec

-----------------------------------------------------------------------------
(* One completion at a time                                                *)

PipeSerialInv == PipeInv /\ SerialInv /\ RequestMatchesJob /\ JobAgrees

\* Without a second call in flight the intake leaves an audio with a job alone.
LEMMA IntakeKeepsJobAgrees ==
    ASSUME PipeSerialInv, IntakeNext
    PROVE  JobAgrees'
<1>0. IntakeInv /\ StoreTypeOK
  BY DEF PipeSerialInv, PipeInv, IntakeInv, IntakeShape
<1>1. CASE UNCHANGED storeVars
  BY <1>1 DEF storeVars, PipeSerialInv, JobAgrees
<1>2. ASSUME NEW a \in Audio, CreateUpload(a)
      PROVE  JobAgrees'
  <2>1. /\ audios[a].status = "ABSENT"
        /\ audios' = [audios EXCEPT ![a].status = "UPLOAD_PENDING"]
        /\ UNCHANGED jobs
    BY <1>2 DEF CreateUpload, InsertAudio, Exists
  <2>2. jobs[a].id = NoId
    <3>1. jobs[a].status \in JobStatus
      BY <1>0 DEF StoreTypeOK, JobRow
    <3>2. AudioStatusFor[jobs[a].status] # "ABSENT"
      BY <3>1 DEF AudioStatusFor, JobStatus
    <3> QED BY <2>1, <3>2 DEF PipeSerialInv, JobAgrees
  <2>3. \A b \in Audio : b # a => audios'[b] = audios[b]
    BY <1>0, <2>1 DEF StoreTypeOK
  <2>4. \A b \in Audio : jobs'[b].id # NoId =>
          audios'[b].status = AudioStatusFor[jobs'[b].status]
    BY <2>1, <2>2, <2>3 DEF PipeSerialInv, JobAgrees
  <2> QED BY <2>4 DEF JobAgrees
<1>3. ASSUME NEW a \in Audio, NEW row \in AudioRow, NEW status \in Decision,
             Marks(a, row, status) \/ Judges(a, row, status)
      PROVE  JobAgrees'
  <2>1. CommitRow(a, row, status)
    BY <1>3 DEF Marks, Judges
  <2>2. jobs[a].id = NoId
    <3>1. CASE Marks(a, row, status)
      BY <3>1 DEF Marks, PipeSerialInv, SerialInv, PipeInv, JobsVetted
    <3>2. CASE Judges(a, row, status)
      BY <3>2 DEF Judges, PipeSerialInv, SerialInv
    <3> QED BY <1>3, <3>1, <3>2
  <2>3. /\ audios'[a] = [row EXCEPT !.status = IF status = "CLEAN" THEN "QUEUED" ELSE status]
        /\ \A b \in Audio : b # a => audios'[b] = audios[b]
    BY <1>0, <2>1, CommitRowColumns
  <2>4. /\ \A b \in Audio : b # a => jobs'[b] = jobs[b]
        /\ jobs'[a].id # NoId => status = "CLEAN" /\ jobs'[a].status = "QUEUED"
    BY <1>0, <2>1, <2>2, CommitRowJobs
  <2>5. status = "CLEAN" => audios'[a].status = "QUEUED"
    BY <2>3 DEF AudioRow
  <2>6. AudioStatusFor["QUEUED"] = "QUEUED"
    BY DEF AudioStatusFor
  <2>7. \A b \in Audio : jobs'[b].id # NoId =>
          audios'[b].status = AudioStatusFor[jobs'[b].status]
    <3> SUFFICES ASSUME NEW b \in Audio, jobs'[b].id # NoId
                 PROVE  audios'[b].status = AudioStatusFor[jobs'[b].status]
      OBVIOUS
    <3>1. CASE b = a
      BY <2>4, <2>5, <2>6, <3>1
    <3>2. CASE b # a
      BY <2>3, <2>4, <3>2 DEF PipeSerialInv, JobAgrees
    <3> QED BY <3>1, <3>2
  <2> QED BY <2>7 DEF JobAgrees
<1> QED BY <1>0, <1>1, <1>2, <1>3, IntakeRowStep

LEMMA TranscodeKeepsSerial ==
    ASSUME PipeSerialInv, TranscodeNext, UNCHANGED intakeOnlyVars
    PROVE  SerialInv' /\ RequestMatchesJob' /\ JobAgrees'
<1>0. PipelineTypeInv /\ IntakeShape /\ SerialInv /\ RequestMatchesJob /\ JobAgrees
  BY DEF PipeSerialInv, PipeInv, IntakeInv
<1>1. UNCHANGED <<scanQueue, calls>>
  BY DEF intakeOnlyVars
<1>2. /\ UNCHANGED outbox
      /\ \A b \in Audio : /\ jobs'[b].id = jobs[b].id
                          /\ audios'[b].verified = audios[b].verified
                          /\ audios'[b].scan = audios[b].scan
      /\ processed \subseteq processed'
      /\ \A b \in Audio :
           \/ audios'[b].status = audios[b].status /\ jobs'[b].status = jobs[b].status
           \/ \E status \in JobStatus : Applies(b, status)
  BY <1>0, TranscodeRowStep
<1>3. /\ \A c \in Caller : calls[c].step # "idle" => calls[c].audio \in Audio
      /\ \A e \in outbox : e.audio \in Audio
  BY <1>0 DEF IntakeShape, Call, IdleCall, StoreTypeOK, OutboxEvent
<1>4. SerialInv'
  BY <1>0, <1>1, <1>2, <1>3 DEF SerialInv
<1>5. RequestMatchesJob'
  BY <1>0, <1>2, <1>3 DEF RequestMatchesJob
<1>6. JobAgrees'
  BY <1>0, <1>2 DEF JobAgrees, Applies
<1> QED BY <1>4, <1>5, <1>6

LEMMA PipeSerialInvNext ==
    ASSUME ScannerVerdicts = {}, \A c, d \in Caller : c = d, PipeSerialInv, [Next]_pipeVars
    PROVE  PipeSerialInv'
<1>0. PipeInv /\ PipeInv' /\ SerialInv /\ RequestMatchesJob /\ JobAgrees
  BY PipeInvNext DEF PipeSerialInv
<1>1. CASE IntakeNext
  <2>1. SerialInv' /\ RequestMatchesJob'
    BY <1>0, <1>1, SerialInvNext DEF PipeInv
  <2> QED BY <1>0, <1>1, <2>1, IntakeKeepsJobAgrees DEF PipeSerialInv
<1>2. CASE TranscodeNext /\ UNCHANGED intakeOnlyVars
  BY <1>0, <1>2, TranscodeKeepsSerial DEF PipeSerialInv
<1>3. CASE UNCHANGED pipeVars
  BY <1>0, <1>3 DEF pipeVars, storeVars, intakeOnlyVars, PipeSerialInv, SerialInv,
     RequestMatchesJob, JobAgrees
<1> QED BY <1>1, <1>2, <1>3 DEF Next

LEMMA PipeSerialInvInit == Init => PipeSerialInv
BY PipeInvInit DEF Init, IntakeInit, StoreInit, AbsentAudio, AbsentJob, IdleCall, PipeSerialInv,
   SerialInv, RequestMatchesJob, JobAgrees

LEMMA PipeSerialInvAlways ==
    ASSUME ScannerVerdicts = {}, \A c, d \in Caller : c = d
    PROVE  Spec => []PipeSerialInv
<1>1. PipeSerialInv /\ [Next]_pipeVars => PipeSerialInv'
  BY PipeSerialInvNext
<1> QED BY <1>1, PipeSerialInvInit, PTL DEF Spec

\* With one completion at a time the rows of an audio and of its job never disagree, in
\* whatever order results arrive.  (EndToEndLateVerification needs two.)
THEOREM StoriesAgree ==
    ASSUME ScannerVerdicts = {}, \A c, d \in Caller : c = d
    PROVE  Spec => []JobAgrees
<1>1. PipeSerialInv => JobAgrees
  BY DEF PipeSerialInv
<1> QED BY <1>1, PipeSerialInvAlways, PTL

\* ... and an audio that was rejected has no job whose result could make it READY
\* (docs/audio-service-architecture.md:910).
THEOREM RejectedNeverPlayable ==
    ASSUME ScannerVerdicts = {}, \A c, d \in Caller : c = d
    PROVE  Spec => RejectedIsNeverPlayable
<1>1. PipeSerialInv /\ [Next]_pipeVars =>
        [\A a \in Audio : audios[a].status \in {"QUARANTINED", "SCAN_FAILED"} =>
            audios'[a].status # "READY"]_pipeVars
  <2> SUFFICES ASSUME PipeSerialInv, Next, NEW a \in Audio,
                      audios[a].status \in {"QUARANTINED", "SCAN_FAILED"}
               PROVE  audios'[a].status # "READY"
    OBVIOUS
  <2>0. IntakeInv /\ StoreTypeOK /\ PipelineTypeInv
    BY DEF PipeSerialInv, PipeInv, IntakeInv, IntakeShape
  <2>1. CASE IntakeNext
    <3>1. CASE UNCHANGED storeVars
      BY <3>1 DEF storeVars
    <3>2. ASSUME NEW b \in Audio, CreateUpload(b)
          PROVE  audios'[a].status # "READY"
      <4>1. audios' = [audios EXCEPT ![b].status = "UPLOAD_PENDING"]
        BY <3>2 DEF CreateUpload, InsertAudio
      <4> QED BY <2>0, <4>1 DEF StoreTypeOK, AudioRow
    <3>3. ASSUME NEW b \in Audio, NEW row \in AudioRow, NEW status \in Decision,
                 Marks(b, row, status) \/ Judges(b, row, status)
          PROVE  audios'[a].status # "READY"
      <4>1. CommitRow(b, row, status)
        BY <3>3 DEF Marks, Judges
      <4>2. /\ audios'[b] = [row EXCEPT !.status = IF status = "CLEAN" THEN "QUEUED" ELSE status]
            /\ \A d \in Audio : d # b => audios'[d] = audios[d]
        BY <2>0, <4>1, CommitRowColumns
      <4>3. audios'[b].status # "READY"
        BY <4>2 DEF AudioRow, Decision
      <4> QED BY <4>2, <4>3
    <3> QED BY <2>0, <2>1, <3>1, <3>2, <3>3, IntakeRowStep
  <2>2. CASE TranscodeNext
    <3>1. jobs[a].id = NoId
      <4>1. jobs[a].status \in JobStatus
        BY <2>0 DEF StoreTypeOK, JobRow
      <4>2. AudioStatusFor[jobs[a].status] \notin {"QUARANTINED", "SCAN_FAILED"}
        BY <4>1 DEF AudioStatusFor, JobStatus
      <4> QED BY <4>2 DEF PipeSerialInv, JobAgrees
    <3> QED BY <2>0, <2>2, <3>1, TranscodeRowStep DEF Applies
  <2> QED BY <2>1, <2>2 DEF Next
<1> QED BY <1>1, PipeSerialInvAlways, PTL DEF Spec, RejectedIsNeverPlayable

-----------------------------------------------------------------------------
(* What the pipeline promises survives the intake, for any number of callers *)

\* A result is registered for a job that was drawn.
AppliedIsDrawn == \A i \in Applied : \E a \in Audio : jobs[a].id = i[1]

PathInv == PipeInv /\ UploadInv /\ AttemptsInv /\ AppliedIsDrawn

\* A transaction of the intake draws a fresh id for a job that was not there.
LEMMA CommitRowDraws ==
    ASSUME StoreTypeOK, NEW a \in Audio, NEW row, NEW status, CommitRow(a, row, status)
    PROVE  /\ UNCHANGED published
           /\ \/ jobs'[a] = jobs[a]
              \/ /\ jobs[a].id = NoId
                 /\ jobs'[a].id \in FreshId
                 /\ jobs'[a].attempts = 0
<1>1. CASE status = "CLEAN"
  <2>1. PICK id \in FreshId : EnqueueInitialTranscode(a, row, id)
    BY <1>1 DEF CommitRow
  <2>2. jobs' = IF jobs[a].id = NoId THEN [jobs EXCEPT ![a] = [AbsentJob EXCEPT !.id = id]]
                                     ELSE jobs
    BY <2>1 DEF EnqueueInitialTranscode
  <2> QED BY <2>2 DEF StoreTypeOK, AbsentJob, CommitRow
<1>2. CASE status # "CLEAN"
  BY <1>2 DEF CommitRow
<1> QED BY <1>1, <1>2

\* The two consumers share a table and no event id.
LEMMA ScanIdIsNoResultId == \A a \in Audio : AdapterEventId(a) \notin ResultEventIds
<1>1. \A a \in Audio : Len(AdapterEventId(a)) = 2
  BY DEF AdapterEventId
<1>2. \A i \in ResultEventIds : Len(i) = 3
  BY DEF ResultEventIds
<1> QED BY <1>1, <1>2

\* A step of the intake, as the pipeline sees it.
LEMMA IntakeStoreStep ==
    ASSUME PipeInv, IntakeNext
    PROVE  /\ Applied' = Applied
           /\ UNCHANGED published
           /\ outbox \subseteq outbox'
           /\ \/ UNCHANGED <<audios, jobs>>
              \/ \E a \in Audio :
                   /\ \A b \in Audio : b # a => audios'[b] = audios[b] /\ jobs'[b] = jobs[b]
                   /\ audios'[a].status # "READY"
                   /\ \/ jobs'[a] = jobs[a]
                      \/ /\ jobs[a].id = NoId
                         /\ jobs'[a].id \in FreshId
                         /\ jobs'[a].attempts = 0
<1>0. IntakeInv /\ StoreTypeOK
  BY DEF PipeInv, IntakeInv, IntakeShape
<1>1. CASE UNCHANGED storeVars
  BY <1>1 DEF storeVars, Applied
<1>2. ASSUME NEW a \in Audio, CreateUpload(a)
      PROVE  /\ Applied' = Applied
             /\ UNCHANGED <<published, outbox, jobs>>
             /\ \A b \in Audio : b # a => audios'[b] = audios[b]
             /\ audios'[a].status # "READY"
  <2>1. /\ audios' = [audios EXCEPT ![a].status = "UPLOAD_PENDING"]
        /\ UNCHANGED <<jobs, outbox, published, processed>>
    BY <1>2 DEF CreateUpload, InsertAudio
  <2> QED BY <1>0, <2>1 DEF StoreTypeOK, AudioRow, Applied
<1>3. ASSUME NEW a \in Audio, NEW row \in AudioRow, NEW status \in Decision,
             Marks(a, row, status) \/ Judges(a, row, status)
      PROVE  /\ Applied' = Applied
             /\ UNCHANGED published
             /\ outbox \subseteq outbox'
             /\ \A b \in Audio : b # a => audios'[b] = audios[b] /\ jobs'[b] = jobs[b]
             /\ audios'[a].status # "READY"
             /\ \/ jobs'[a] = jobs[a]
                \/ jobs[a].id = NoId /\ jobs'[a].id \in FreshId /\ jobs'[a].attempts = 0
  <2>1. CommitRow(a, row, status)
    BY <1>3 DEF Marks, Judges
  <2>2. /\ audios'[a] = [row EXCEPT !.status = IF status = "CLEAN" THEN "QUEUED" ELSE status]
        /\ \A b \in Audio : b # a => audios'[b] = audios[b]
    BY <1>0, <2>1, CommitRowColumns
  <2>3. audios'[a].status # "READY"
    BY <2>2 DEF AudioRow, Decision
  <2>4. Applied' = Applied
    <3>1. CASE Marks(a, row, status)
      BY <3>1 DEF Marks, Applied
    <3>2. CASE Judges(a, row, status)
      <4>1. PICK m \in scanQueue : m.audio = a /\ processed' = processed \cup {m.id}
        BY <3>2 DEF Judges
      <4>2. m.id = AdapterEventId(a)
        BY <4>1 DEF PipeInv, OneVerdict
      <4> QED BY <4>1, <4>2, ScanIdIsNoResultId DEF Applied
    <3> QED BY <1>3, <3>1, <3>2
  <2> QED BY <1>0, <2>1, <2>2, <2>3, <2>4, CommitRowJobs, CommitRowDraws
<1> QED BY <1>0, <1>1, <1>2, <1>3, IntakeRowStep

LEMMA IntakeKeepsPathInv ==
    ASSUME ScannerVerdicts = {}, PathInv, IntakeNext, UNCHANGED pipelineOnlyVars
    PROVE  PathInv'
<1>0. PipeInv /\ PipeInv' /\ PipelineTypeInv'
  BY IntakeKeepsPipeInv DEF PathInv, PipeInv
<1>1. /\ Applied' = Applied
      /\ UNCHANGED <<batches, requests, workers, results, artifacts, faults>>
  BY <1>0, IntakeStoreStep DEF pipelineOnlyVars
<1>2. ASSUME NEW b \in Audio, jobs[b].id # NoId
      PROVE  jobs'[b] = jobs[b]
  BY <1>0, <1>2, IntakeStoreStep
<1>3. ASSUME NEW b \in Audio, audios'[b].status = "READY"
      PROVE  audios'[b] = audios[b] /\ jobs'[b] = jobs[b]
  <2>1. audios'[b] = audios[b]
    BY <1>0, <1>3, IntakeStoreStep
  <2>2. jobs[b].id \in Id
    BY <1>3, <2>1 DEF PathInv, UploadInv, ReadyHasDrawn
  <2> QED BY <1>2, <2>1, <2>2, StoreAssumption
<1>4. ASSUME NEW b \in Audio
      PROVE  \/ jobs'[b] = jobs[b]
             \/ /\ jobs[b].id = NoId
                /\ jobs'[b].id \in FreshId
                /\ jobs'[b].attempts = 0
                /\ \A d \in Audio : d # b => jobs'[d] = jobs[d]
  BY <1>0, IntakeStoreStep
<1>5. UploadInv'
  BY <1>0, <1>1, <1>3 DEF PathInv, UploadInv, ReadyHasDrawn, FirstUploaded, SuccessUploaded,
     ResultsUploaded, ReadyIsPlayable, EventOf
<1>6. \A b, d \in Audio : jobs[b].id # jobs'[d].id \/ jobs'[d].id \notin FreshId
  BY DEF FreshId
<1>7. JobsUnique'
  <2> SUFFICES ASSUME NEW b \in Audio, NEW d \in Audio, b # d,
                      jobs'[b].id # NoId, jobs'[b].id = jobs'[d].id
               PROVE  FALSE
    BY DEF JobsUnique
  <2>1. CASE jobs'[b] = jobs[b] /\ jobs'[d] = jobs[d]
    BY <2>1 DEF PathInv, AttemptsInv, JobsUnique
  <2>2. CASE jobs'[b] # jobs[b]
    BY <1>4, <1>6, <2>2
  <2>3. CASE jobs'[d] # jobs[d]
    BY <1>4, <1>6, <2>3
  <2> QED BY <2>1, <2>2, <2>3
<1>8. \A i \in Applied : i[1] \in Id
  BY DEF Applied, ResultEventIds
<1>9. AppliedIsDrawn'
  <2> SUFFICES ASSUME NEW i \in Applied
               PROVE  \E a \in Audio : jobs'[a].id = i[1]
    BY <1>1 DEF AppliedIsDrawn
  <2>1. PICK a \in Audio : jobs[a].id = i[1]
    BY DEF PathInv, AppliedIsDrawn
  <2> QED BY <1>2, <1>8, <2>1, StoreAssumption
<1>10. AttemptsRecorded'
  <2> SUFFICES ASSUME NEW b \in Audio
               PROVE  /\ \A k \in Seen(b)' : k <= jobs'[b].attempts
                      /\ jobs'[b].attempts \in Seen(b)' \cup {0}
    BY DEF AttemptsRecorded, Seen, Applied
  <2>1. CASE jobs'[b] = jobs[b]
    <3>1. Seen(b)' = Seen(b)
      BY <1>1, <2>1 DEF Seen
    <3>2. /\ \A k \in Seen(b) : k <= jobs[b].attempts
          /\ jobs[b].attempts \in Seen(b) \cup {0}
      BY DEF PathInv, AttemptsInv, AttemptsRecorded, Seen, Applied
    <3> QED BY <2>1, <3>1, <3>2
  <2>2. CASE jobs'[b].id \in FreshId /\ jobs'[b].attempts = 0
    <3>1. \A i \in Applied : i[1] # jobs'[b].id
      BY <1>6, <2>2 DEF PathInv, AppliedIsDrawn
    <3>2. Seen(b)' = {}
      BY <1>1, <3>1 DEF Seen
    <3> QED BY <2>2, <3>2
  <2> QED BY <1>4, <2>1, <2>2
<1>11. AttemptsInv'
  BY <1>0, <1>7, <1>10 DEF AttemptsInv
<1> QED BY <1>0, <1>5, <1>9, <1>11 DEF PathInv

LEMMA TranscodeKeepsDrawn ==
    ASSUME PipelineTypeInv, AppliedIsDrawn, PipelineNext
    PROVE  AppliedIsDrawn'
<1>1. \A a \in Audio : jobs'[a].id = jobs[a].id
  BY StepKeeps
<1>2. CASE UNCHANGED processed
  BY <1>1, <1>2 DEF AppliedIsDrawn, Applied
<1>3. ASSUME NEW r \in results, JobKnown(r), processed' = processed \cup {ResultEventId(r)}
      PROVE  AppliedIsDrawn'
  <2>1. Applied' = Applied \cup {ResultEventId(r)}
    BY <1>3, ResultRegistered
  <2>2. r.audio \in Audio /\ jobs[r.audio].id = ResultEventId(r)[1]
    BY <1>3 DEF PipelineTypeInv, PipelineShape, Result, JobKnown, ResultEventId
  <2> QED BY <1>1, <2>1, <2>2 DEF AppliedIsDrawn
<1> QED BY <1>2, <1>3, ResultApplied

LEMMA PathInvNext ==
    ASSUME ScannerVerdicts = {}, PathInv, [Next]_pipeVars
    PROVE  PathInv'
<1>0. PipeInv' /\ PipelineTypeInv /\ PipeInv
  BY PipeInvNext DEF PathInv, PipeInv
<1>1. CASE IntakeNext /\ UNCHANGED pipelineOnlyVars
  BY <1>1, IntakeKeepsPathInv
<1>2. CASE TranscodeNext
  <2>1. PipelineNext
    BY <1>2, TranscodeIsPipeline
  <2> QED BY <1>0, <2>1, UploadInvNext, AttemptsInvNext, TranscodeKeepsDrawn DEF PathInv
<1>3. CASE UNCHANGED pipeVars
  <2>1. UNCHANGED pipelineVars
    BY <1>3 DEF pipeVars, pipelineVars
  <2>2. AppliedIsDrawn'
    BY <2>1 DEF PathInv, AppliedIsDrawn, Applied, pipelineVars, storeVars
  <2> QED BY <1>0, <2>1, <2>2, UploadInvNext, AttemptsInvNext DEF PathInv
<1> QED BY <1>1, <1>2, <1>3 DEF Next

LEMMA PathInvInit == Init => PathInv
<1> SUFFICES ASSUME Init
             PROVE  PathInv
  OBVIOUS
<1>1. PipeInv /\ PipelineTypeInv
  BY PipeInvInit DEF PipeInv
<1>2. /\ \A w \in Worker : workers[w].step = "idle"
      /\ results = {}
      /\ Applied = {}
      /\ \A a \in Audio : /\ audios[a].status = "ABSENT"
                          /\ jobs[a].id = NoId
                          /\ jobs[a].attempts = 0
  BY DEF Init, IntakeInit, StoreInit, IdleWorker, AbsentAudio, AbsentJob, Applied
<1>3. UploadInv
  BY <1>1, <1>2 DEF UploadInv, ReadyHasDrawn, FirstUploaded, SuccessUploaded, ResultsUploaded,
     ReadyIsPlayable
<1>4. AttemptsRecorded
  <2>1. \A a \in Audio : Seen(a) = {}
    BY <1>2 DEF Seen
  <2> QED BY <1>2, <2>1 DEF AttemptsRecorded, Seen, Applied
<1>5. JobsUnique /\ AppliedIsDrawn
  BY <1>2 DEF JobsUnique, AppliedIsDrawn
<1> QED BY <1>1, <1>3, <1>4, <1>5 DEF PathInv, AttemptsInv

LEMMA PathInvAlways ==
    ASSUME ScannerVerdicts = {}
    PROVE  Spec => []PathInv
<1>1. PathInv /\ [Next]_pipeVars => PathInv'
  BY PathInvNext
<1> QED BY <1>1, PathInvInit, PTL DEF Spec

\* What a listener is sent to plays: on the whole path too, with any number of
\* overlapping completions, an audio that is READY names the artifacts of its own job
\* and both are in the bucket.
THEOREM PathReadyArtifacts ==
    ASSUME ScannerVerdicts = {}
    PROVE  Spec => []ReadyIsPlayable
<1>1. PathInv => ReadyIsPlayable
  BY DEF PathInv, UploadInv
<1> QED BY <1>1, PathInvAlways, PTL

\* attempt_count stays the highest attempt applied while the scan consumer writes its
\* own events to the same table and jobs are drawn.
THEOREM PathAttemptCount ==
    ASSUME ScannerVerdicts = {}
    PROVE  Spec => []AttemptsRecorded
<1>1. PathInv => AttemptsRecorded
  BY DEF PathInv, AttemptsInv
<1> QED BY <1>1, PathInvAlways, PTL

\* The gates of the intake hold on the whole path: results that come back do not make
\* room for a request that was not verified, not clean, not tagged or not compared.
THEOREM PathRequestsVetted ==
    ASSUME ScannerVerdicts = {}
    PROVE  Spec => [](RequestsAreGated /\ NoLostScan /\ RequestedSourceConforms
                        /\ RequestedSourceIsTagged)
<1>1. PathInv => RequestsAreGated /\ NoLostScan /\ RequestedSourceConforms
                   /\ RequestedSourceIsTagged
  BY IntakeInvImpliesNoLostScan, SourceInvRequests DEF PathInv, PipeInv, IntakeInv
<1> QED BY <1>1, PathInvAlways, PTL

\* No half of the system exchanges a source version that is pinned, or takes a request
\* or an event id back.
THEOREM PathVersionPinned ==
    ASSUME ScannerVerdicts = {}
    PROVE  Spec => PinnedForGood
<1>1. PathInv /\ [Next]_pipeVars => [Pinned]_intakeVars
  <2> SUFFICES ASSUME PathInv, Next
               PROVE  Pinned \/ UNCHANGED intakeVars
    BY DEF pipeVars, intakeVars
  <2>1. IntakeShape /\ PipelineTypeInv
    BY DEF PathInv, PipeInv, IntakeInv
  <2>2. CASE IntakeNext
    BY <2>1, <2>2, IntakePins
  <2>3. CASE TranscodeNext
    BY <2>1, <2>3, TranscodeRowStep DEF Pinned
  <2> QED BY <2>2, <2>3 DEF Next
<1> QED BY <1>1, PathInvAlways, PTL DEF Spec, PinnedForGood, Pinned

-----------------------------------------------------------------------------
(* No request is lost on the whole path, one completion at a time          *)

PublishedIsRequested == \A id \in published : \E e \in outbox : e.id = id

PathAccountInv ==
    PathInv /\ PipeSerialInv /\ AccountInv /\ PublishedIsRequested

\* The event a completion adds to the outbox has not been published, by its id.
LEMMA IntakeRequestsFresh ==
    ASSUME StoreTypeOK, IntakeInv, IntakeNext, NEW e \in outbox', e \notin outbox
    PROVE  e.id \in FreshId
<1>1. ASSUME NEW a \in Audio, NEW row \in AudioRow, NEW status, CommitRow(a, row, status)
      PROVE  e.id \in FreshId
  BY <1>1 DEF CommitRow, EnqueueInitialTranscode
<1>2. ~UNCHANGED storeVars
  BY DEF storeVars
<1>3. \A a \in Audio : ~CreateUpload(a)
  BY DEF CreateUpload, InsertAudio
<1> QED BY <1>1, <1>2, <1>3, IntakeRowStep DEF Marks, Judges

LEMMA IntakeKeepsAccounts ==
    ASSUME ScannerVerdicts = {}, PathAccountInv, PathInv', PipeSerialInv', IntakeNext,
           UNCHANGED pipelineOnlyVars
    PROVE  AccountInv' /\ PublishedIsRequested'
<1>0. /\ PipeInv /\ PipeInv' /\ AccountInv /\ PublishedIsRequested
      /\ IntakeInv /\ StoreTypeOK
  BY DEF PathAccountInv, PathInv, PipeInv, IntakeInv, IntakeShape
<1>1. /\ Applied' = Applied
      /\ UNCHANGED <<published, batches, requests, workers, results, artifacts, faults>>
      /\ outbox \subseteq outbox'
  BY <1>0, IntakeStoreStep DEF pipelineOnlyVars
<1>2. ASSUME NEW b \in Audio, jobs[b].id # NoId
      PROVE  jobs'[b] = jobs[b]
  BY <1>0, <1>2, IntakeStoreStep
<1>3. PipelineTypeInv' /\ JobsUnique'
  BY DEF PathInv, AttemptsInv
<1>4. EventOfJob'
  BY DEF PipeSerialInv, RequestMatchesJob, EventOfJob
<1>5. JobsRequested'
  BY <1>0 DEF PipeInv, IntakeInv, JobsVetted, RequestsAreGated, JobsRequested
<1>6. BatchesFromOutbox' /\ MessagesFromOutbox'
  BY <1>0, <1>1 DEF AccountInv, BatchesFromOutbox, MessagesFromOutbox, Sent
<1>7. PublishedIsRequested'
  BY <1>0, <1>1 DEF PublishedIsRequested
<1>8. PublishedIsSent'
  <2> SUFFICES ASSUME NEW e \in outbox', e.id \in published
               PROVE  Sent(e)
    BY <1>1 DEF PublishedIsSent, Sent
  <2>1. CASE e \in outbox
    BY <1>0, <2>1 DEF AccountInv, PublishedIsSent
  <2>2. CASE e \notin outbox
    BY <1>0, <2>2, IntakeRequestsFresh DEF PublishedIsRequested, FreshId
  <2> QED BY <2>1, <2>2
<1>9. RetryableIsLast'
  BY <1>0, <1>1 DEF AccountInv, RetryableIsLast
<1>10. ResultsAreLast'
  <2> SUFFICES ASSUME NEW r \in results
               PROVE  jobs'[r.audio].id = r.job /\ (r.retryable => r.attempt >= WorkerMaximumAttempts)
    BY <1>1 DEF ResultsAreLast, JobKnown
  <2>1. r.audio \in Audio /\ r.job \in Id
    BY <1>0 DEF AccountInv, PipelineTypeInv, PipelineShape, Result
  <2> QED BY <1>0, <1>2, <2>1, StoreAssumption DEF AccountInv, ResultsAreLast, JobKnown
<1>11. DeletesAfterReport' /\ DeletedIsReported'
  BY <1>0, <1>1 DEF AccountInv, DeletesAfterReport, DeletedIsReported, Reported, EventOf
<1>12. AppliedIsSettled'
  <2> SUFFICES ASSUME NEW a \in Audio, NEW i \in Applied, i[1] = jobs'[a].id
               PROVE  audios'[a].status # "QUEUED"
    BY <1>1 DEF AppliedIsSettled
  <2>1. i[1] \in Id /\ i[1] # NoId
    BY StoreAssumption DEF Applied, ResultEventIds
  <2>2. PICK b \in Audio : jobs[b].id = i[1]
    BY DEF PathAccountInv, PathInv, AppliedIsDrawn
  <2>3. jobs'[b] = jobs[b]
    BY <1>2, <2>1, <2>2
  <2>4. a = b
    BY <1>3, <2>1, <2>2, <2>3 DEF JobsUnique
  <2>5. audios[a].status # "QUEUED"
    BY <1>0, <2>2, <2>4 DEF AccountInv, AppliedIsSettled
  <2>6. /\ audios[a].status = AudioStatusFor[jobs[a].status]
        /\ audios'[a].status = AudioStatusFor[jobs'[a].status]
    BY <2>1, <2>2, <2>3, <2>4 DEF PathAccountInv, PipeSerialInv, JobAgrees
  <2> QED BY <2>3, <2>4, <2>5, <2>6
<1> QED
  BY <1>3, <1>4, <1>5, <1>6, <1>7, <1>8, <1>9, <1>10, <1>11, <1>12 DEF AccountInv

LEMMA TranscodeKeepsPublished ==
    ASSUME AccountInv, PublishedIsRequested, PipelineNext
    PROVE  PublishedIsRequested'
<1>1. UNCHANGED outbox
  BY StepKeeps DEF AccountInv
<1>2. ASSUME NEW p \in Publisher, MarkSent(p)
      PROVE  PublishedIsRequested'
  <2>1. batches[p].sent \in outbox
    BY <1>2 DEF MarkSent, AccountInv, BatchesFromOutbox
  <2> QED
    BY <1>1, <1>2, <2>1 DEF MarkSent, MarkOutboxPublished, PublishedIsRequested, storeVars
<1>3. published' = published \/ \E p \in Publisher : MarkSent(p)
  BY DEF PipelineNext, PublisherStep, ListBatch, SendNext, AbortBatch, Receive, VerifySource,
     WorkerStep, Transcode, UploadWaveform, Report, Delete, WorkerFault, InternalError,
     CrashWorker, VisibilityExpires, HeartbeatLost, ConsumeResult, ProcessTranscodeResult,
     ApplyResult, storeVars
<1> QED BY <1>1, <1>2, <1>3 DEF PublishedIsRequested

LEMMA PathAccountInvNext ==
    ASSUME OneCall, LimitsAgree, PathAccountInv, [Next]_pipeVars
    PROVE  PathAccountInv'
<1>0. PathInv' /\ PipeSerialInv'
  BY PathInvNext, PipeSerialInvNext DEF PathAccountInv, OneCall
<1>1. CASE IntakeNext /\ UNCHANGED pipelineOnlyVars
  BY <1>0, <1>1, IntakeKeepsAccounts DEF PathAccountInv, OneCall
<1>2. CASE TranscodeNext
  <2>1. PipelineNext
    BY <1>2, TranscodeIsPipeline
  <2> QED BY <1>0, <2>1, AccountInvNext, TranscodeKeepsPublished DEF PathAccountInv
<1>3. CASE UNCHANGED pipeVars
  <2>1. UNCHANGED pipelineVars
    BY <1>3 DEF pipeVars, pipelineVars
  <2>2. PublishedIsRequested'
    BY <2>1 DEF PathAccountInv, PublishedIsRequested, pipelineVars, storeVars
  <2> QED BY <1>0, <2>1, <2>2, AccountInvNext DEF PathAccountInv
<1> QED BY <1>1, <1>2, <1>3 DEF Next

LEMMA PathAccountInvInit == Init => PathAccountInv
<1> SUFFICES ASSUME Init
             PROVE  PathAccountInv
  OBVIOUS
<1>1. PathInv /\ PipeSerialInv /\ PipelineTypeInv /\ JobsUnique
  BY PathInvInit, PipeSerialInvInit DEF PathInv, PipeInv, AttemptsInv
<1>2. /\ \A w \in Worker : workers[w] = IdleWorker
      /\ \A n \in Message : requests[n] = UnsentRequest
      /\ \A p \in Publisher : batches[p] = IdleBatch
      /\ results = {} /\ Applied = {} /\ outbox = {} /\ published = {}
      /\ \A a \in Audio : audios[a].status = "ABSENT" /\ jobs[a].id = NoId
  BY DEF Init, IntakeInit, StoreInit, AbsentAudio, AbsentJob, Applied
<1>3. EventOfJob /\ JobsRequested /\ PublishedIsRequested
  BY <1>2 DEF EventOfJob, JobsRequested, PublishedIsRequested
<1>4. BatchesFromOutbox /\ MessagesFromOutbox /\ PublishedIsSent
  BY <1>2 DEF BatchesFromOutbox, MessagesFromOutbox, PublishedIsSent, IdleBatch, UnsentRequest
<1>5. RetryableIsLast /\ ResultsAreLast /\ DeletesAfterReport
  BY <1>2 DEF RetryableIsLast, ResultsAreLast, DeletesAfterReport, IdleWorker
<1>6. DeletedIsReported /\ AppliedIsSettled
  BY <1>2 DEF DeletedIsReported, AppliedIsSettled, UnsentRequest
<1> QED BY <1>1, <1>3, <1>4, <1>5, <1>6 DEF PathAccountInv, AccountInv

LEMMA PathAccountInvAlways ==
    ASSUME OneCall, LimitsAgree
    PROVE  Spec => []PathAccountInv
<1>1. PathAccountInv /\ [Next]_pipeVars => PathAccountInv'
  BY PathAccountInvNext
<1> QED BY <1>1, PathAccountInvInit, PTL DEF Spec

\* From the upload on, with one completion at a time, an audio that is QUEUED is in
\* flight: neither the intake's outbox insert, nor a publisher, a worker or a consumer
\* that dies between two of its steps, loses the request.
THEOREM PathAccounted ==
    ASSUME OneCall, LimitsAgree
    PROVE  Spec => []RequestAccounted
<1>1. PathAccountInv => RequestAccounted
  BY AccountInvAccounts DEF PathAccountInv
<1> QED BY <1>1, PathAccountInvAlways, PTL

\* One request per audio, with the id of its job, whatever the results do to the rows.
THEOREM PathSerialRequests ==
    ASSUME OneCall
    PROVE  Spec => []RequestMatchesJob
<1>1. PipeSerialInv => RequestMatchesJob
  BY DEF PipeSerialInv
<1>2. Spec => []PipeSerialInv
  BY PipeSerialInvAlways DEF OneCall
<1> QED BY <1>1, <1>2, PTL

-----------------------------------------------------------------------------
(* The whole path implements UploadGate                                    *)

PathGateInv == PipeSerialInv /\ RowInv

\* A result changes the status of an audio that was let through, and not to a rejection.
LEMMA TranscodeKeepsGate ==
    ASSUME PathGateInv, TranscodeNext
    PROVE  RowInv' /\ UNCHANGED Gate!gateVars
<1>0. PipelineTypeInv /\ StoreTypeOK /\ RowInv /\ JobsVetted /\ JobAgrees
  BY DEF PathGateInv, PipeSerialInv, PipeInv, IntakeInv, IntakeShape
<1>1. /\ UNCHANGED outbox
      /\ \A b \in Audio : /\ audios'[b].verified = audios[b].verified
                          /\ audios'[b].version = audios[b].version
                          /\ audios'[b].scan = audios[b].scan
                          /\ \/ audios'[b].status = audios[b].status
                             \/ \E status \in JobStatus : Applies(b, status)
  BY <1>0, TranscodeRowStep
<1>2. ASSUME NEW b \in Audio, NEW status \in JobStatus, Applies(b, status)
      PROVE  /\ ~Rejected(b) /\ ~Rejected(b)'
             /\ audios[b].verified /\ audios[b].scan = "NO_THREATS_FOUND"
  <2>1. jobs[b].id # NoId /\ audios'[b].status = AudioStatusFor[status]
    BY <1>2 DEF Applies
  <2>2. jobs[b].status \in JobStatus /\ audios[b].status = AudioStatusFor[jobs[b].status]
    BY <1>0, <2>1 DEF StoreTypeOK, JobRow, JobAgrees
  <2>3. \A s \in JobStatus : AudioStatusFor[s] \in {"READY", "TRANSCODE_FAILED", "QUEUED"}
    BY DEF AudioStatusFor, JobStatus
  <2> QED BY <1>0, <2>1, <2>2, <2>3 DEF Rejected, JobsVetted
<1>3. ASSUME NEW b \in Audio
      PROVE  Rejected(b)' <=> Rejected(b)
  BY <1>1, <1>2 DEF Rejected
<1>4. \A b \in Audio : GateVerdict(b)' = GateVerdict(b)
  BY <1>1, <1>3 DEF GateVerdict, Rejected
<1>5. RowInv'
  <2> SUFFICES ASSUME NEW b \in Audio
               PROVE  /\ audios'[b].status \in {"READY", "TRANSCODE_FAILED"} => audios'[b].verified
                      /\ audios'[b].scan = "PENDING" =>
                           ~Rejected(b)' /\ (audios'[b].verified \/ audios'[b].version = NoVersion)
                      /\ audios'[b].scan = "NO_THREATS_FOUND" /\ ~audios'[b].verified => ~Rejected(b)'
                      /\ audios'[b].scan \notin {"PENDING", "NO_THREATS_FOUND"} => Rejected(b)'
    BY DEF RowInv
  <2> QED BY <1>0, <1>1, <1>2, <1>3 DEF RowInv
<1> QED BY <1>1, <1>4, <1>5 DEF Gate!gateVars

LEMMA PathGateInvNext ==
    ASSUME OneCall, PathGateInv, [Next]_pipeVars
    PROVE  PathGateInv' /\ [Gate!GateNext]_Gate!gateVars
<1>0. PipeSerialInv'
  BY PipeSerialInvNext DEF PathGateInv, OneCall
<1>1. GateInv
  BY DEF PathGateInv, PipeSerialInv, PipeInv, GateInv
<1>2. CASE IntakeNext
  BY <1>0, <1>1, <1>2, GateInvNext DEF PathGateInv, GateInv
<1>3. CASE TranscodeNext
  BY <1>0, <1>3, TranscodeKeepsGate DEF PathGateInv
<1>4. CASE UNCHANGED pipeVars
  <2>1. UNCHANGED intakeVars
    BY <1>4 DEF pipeVars, intakeVars
  <2> QED BY <1>0, <1>1, <2>1, GateInvNext DEF PathGateInv, GateInv
<1> QED BY <1>2, <1>3, <1>4 DEF Next

\* Composed with the pipeline the intake still is the gate: every step of a publisher,
\* a worker or the result consumer is a stuttering step of it.
THEOREM PathImplementsGate ==
    ASSUME OneCall
    PROVE  Spec => ImplementsGate
<1>1. Init => PathGateInv /\ Gate!GateInit
  BY PipeSerialInvInit, GateInvInit DEF Init, PathGateInv, GateInv
<1>2. PathGateInv /\ [Next]_pipeVars => PathGateInv' /\ [Gate!GateNext]_Gate!gateVars
  BY PathGateInvNext
<1> QED BY <1>1, <1>2, PTL DEF Spec, ImplementsGate, Gate!GateSpec

-----------------------------------------------------------------------------
(* The whole path implements AudioLifecycle                                *)

\* Objects lie only under the ids of jobs, and only an audio with a job has an outcome.
ArtifactsAreDrawn == \A j \in Id : artifacts[j] # {} => \E a \in Audio : jobs[a].id = j

SettledHasJob ==
    \A a \in Audio : audios[a].status \in {"READY", "TRANSCODE_FAILED"} => jobs[a].id # NoId

LifeInv == PathAccountInv /\ PathGateInv /\ ArtifactsAreDrawn /\ SettledHasJob

\* The abstract requests of an audio that has a job.
LEMMA JobIsRequested ==
    ASSUME LifeInv, NEW a \in Audio, jobs[a].id # NoId
    PROVE  Requested(a) = 1
<1>1. PICK e \in outbox : e.audio = a
  BY DEF LifeInv, PathAccountInv, AccountInv, JobsRequested
<1>2. {f \in outbox : f.audio = a} = {e}
  BY <1>1 DEF LifeInv, PathAccountInv, AccountInv, EventOfJob
<1> QED BY <1>2, FS_Singleton DEF Requested

\* Only a worker writes to the bucket, under the id of its event.
LEMMA ArtifactStep ==
    ASSUME PipelineTypeInv, PipelineNext
    PROVE  \/ UNCHANGED artifacts
           \/ /\ UNCHANGED <<audios, jobs>>
              /\ \E w \in Worker :
                   /\ workers[w].step # "idle"
                   /\ \A j \in Id : j # EventOf(w).id => artifacts'[j] = artifacts[j]
<1>1. ASSUME NEW w \in Worker, Transcode(w) \/ UploadWaveform(w)
      PROVE  \/ UNCHANGED artifacts
             \/ /\ UNCHANGED <<audios, jobs>>
                /\ workers[w].step # "idle"
                /\ \A j \in Id : j # EventOf(w).id => artifacts'[j] = artifacts[j]
  BY <1>1 DEF Transcode, UploadWaveform, EventOf, storeVars, PipelineTypeInv, PipelineShape
<1>2. \/ UNCHANGED artifacts
      \/ \E w \in Worker : Transcode(w) \/ UploadWaveform(w)
  BY DEF PipelineNext, PublisherStep, ListBatch, SendNext, MarkSent, AbortBatch, Receive,
     VerifySource, WorkerStep, Report, Delete, WorkerFault, InternalError, CrashWorker,
     VisibilityExpires, HeartbeatLost, ConsumeResult
<1> QED BY <1>1, <1>2

\* A result that is applied settles its audio, and as READY only with both artifacts.
LEMMA ResultSettles ==
    ASSUME LimitsAgree, LifeInv, PipelineNext
    PROVE  \/ UNCHANGED <<audios, jobs>>
           \/ \E a \in Audio :
                /\ jobs[a].id # NoId
                /\ \A b \in Audio : b # a => audios'[b] = audios[b] /\ jobs'[b] = jobs[b]
                /\ audios'[a].status \in {"READY", "TRANSCODE_FAILED"}
                /\ audios'[a].status = "READY" => artifacts[jobs[a].id] = Artifact
<1>0. PipelineTypeInv /\ ResultsAreLast /\ ResultsUploaded
  BY DEF LifeInv, PathAccountInv, AccountInv, PathInv, UploadInv
<1>1. ASSUME NEW r \in results, NEW attempts \in Nat, JobKnown(r), ApplyResult(r, attempts)
      PROVE  \E a \in Audio :
                /\ jobs[a].id # NoId
                /\ \A b \in Audio : b # a => audios'[b] = audios[b] /\ jobs'[b] = jobs[b]
                /\ audios'[a].status \in {"READY", "TRANSCODE_FAILED"}
                /\ audios'[a].status = "READY" => artifacts[jobs[a].id] = Artifact
  <2>1. /\ r.audio \in Audio /\ r.job \in Id /\ r.attempt \in Nat
        /\ r.status \in ResultStatus
        /\ audios \in [Audio -> AudioRow] /\ jobs \in [Audio -> JobRow]
    BY <1>0 DEF PipelineTypeInv, PipelineShape, StoreTypeOK, Result
  <2>2. r.retryable => r.attempt >= WorkerMaximumAttempts
    BY <1>0 DEF ResultsAreLast
  <2>3. ~(r.retryable /\ r.attempt < MaximumAttempts)
    BY <2>1, <2>2, StoreAssumption, PipelineAssumption DEF LimitsAgree
  <2>4. JobStatusAfter(r) = r.status
    BY <2>1, <2>3 DEF JobStatusAfter, ResultStatus
  <2>5. audios'[r.audio].status = AudioStatusFor[r.status]
    BY <1>1, <2>1, <2>4 DEF ApplyResult, AudioRow
  <2>6. \A b \in Audio : b # r.audio => audios'[b] = audios[b] /\ jobs'[b] = jobs[b]
    BY <1>1, <2>1 DEF ApplyResult
  <2>7. CASE r.status = "SUCCEEDED"
    <3>1. artifacts[r.job] = Artifact /\ audios'[r.audio].status = "READY"
      BY <1>0, <2>5, <2>7 DEF ResultsUploaded, AudioStatusFor
    <3> QED BY <1>1, <2>1, <2>6, <3>1, StoreAssumption DEF JobKnown
  <2>8. CASE r.status = "FAILED"
    <3>1. audios'[r.audio].status = "TRANSCODE_FAILED"
      BY <2>5, <2>8 DEF AudioStatusFor
    <3> QED BY <1>1, <2>1, <2>6, <3>1, StoreAssumption DEF JobKnown
  <2> QED BY <2>1, <2>7, <2>8 DEF ResultStatus
<1> QED BY <1>0, <1>1, ResultApplied

\* The bucket holds nothing under an id that no job has.
LEMMA ArtifactsAreDrawnNext ==
    ASSUME LifeInv, PipelineNext
    PROVE  ArtifactsAreDrawn'
<1>0. PipelineTypeInv /\ AccountInv /\ ArtifactsAreDrawn
  BY DEF LifeInv, PathAccountInv, AccountInv
<1>1. \A a \in Audio : jobs'[a].id = jobs[a].id
  BY <1>0, StepKeeps
<1>2. CASE UNCHANGED artifacts
  BY <1>0, <1>1, <1>2 DEF ArtifactsAreDrawn
<1>3. ASSUME NEW w \in Worker, workers[w].step # "idle",
             \A j \in Id : j # EventOf(w).id => artifacts'[j] = artifacts[j]
      PROVE  ArtifactsAreDrawn'
  <2>1. EventOf(w).audio \in Audio /\ EventOf(w).id = jobs[EventOf(w).audio].id
    BY <1>0, <1>3, HeldEvent
  <2> QED BY <1>0, <1>1, <1>3, <2>1 DEF ArtifactsAreDrawn
<1> QED BY <1>0, <1>2, <1>3, ArtifactStep

\* A step of the pipeline stores, settles, or does not show.
LEMMA TranscodeLives ==
    ASSUME LimitsAgree, LifeInv, TranscodeNext
    PROVE  /\ ArtifactsAreDrawn' /\ SettledHasJob'
           /\ [Life!LifeNext]_Life!lifeVars
<1>0. /\ PipelineNext /\ PipelineTypeInv /\ AccountInv /\ SettledHasJob
      /\ jobs \in [Audio -> JobRow] /\ artifacts \in [Id -> SUBSET Artifact]
  BY TranscodeIsPipeline DEF LifeInv, PathAccountInv, AccountInv, PipelineTypeInv, PipelineShape,
     StoreTypeOK
<1>1. /\ \A a \in Audio : jobs'[a].id = jobs[a].id
      /\ \A j \in Id : artifacts[j] \subseteq artifacts'[j]
      /\ artifacts' \in [Id -> SUBSET Artifact]
  BY <1>0, StepKeeps, PipelineTypeNext DEF PipelineTypeInv, PipelineShape
<1>2. UNCHANGED Gate!gateVars
  BY TranscodeKeepsGate DEF LifeInv
<1>3. ArtifactsAreDrawn'
  BY <1>0, ArtifactsAreDrawnNext
<1>4. CASE UNCHANGED <<audios, jobs>>
  <2>1. SettledHasJob' /\ \A a \in Audio : Outcome(a)' = Outcome(a)
    BY <1>0, <1>4 DEF SettledHasJob, Outcome
  <2>2. CASE UNCHANGED artifacts
    <3>1. \A a \in Audio : Stored(a)' = Stored(a)
      BY <1>4, <2>2 DEF Stored
    <3> QED BY <1>2, <1>3, <2>1, <3>1 DEF Life!lifeVars, Life!gateVars, Gate!gateVars
  <2>3. ASSUME NEW w \in Worker, workers[w].step # "idle",
               \A j \in Id : j # EventOf(w).id => artifacts'[j] = artifacts[j]
        PROVE  [Life!LifeNext]_Life!lifeVars
    <3>1. PICK a \in Audio : jobs[a].id = EventOf(w).id /\ jobs[a].id \in Id
      <4>1. EventOf(w).audio \in Audio /\ EventOf(w).id = jobs[EventOf(w).audio].id
        BY <1>0, <2>3, HeldEvent
      <4>2. EventOf(w) \in outbox
        BY <1>0, <2>3, HeldEvent
      <4>3. EventOf(w).id \in Id
        BY <1>0, <4>2 DEF PipelineTypeInv, PipelineShape, StoreTypeOK, OutboxEvent
      <4> QED BY <4>1, <4>3
    <3>2. \A b \in Audio : b # a => Stored(b)' = Stored(b)
      <4> SUFFICES ASSUME NEW b \in Audio, b # a, jobs[b].id # NoId
                   PROVE  artifacts'[jobs[b].id] = artifacts[jobs[b].id]
        BY <1>4 DEF Stored
      <4>1. jobs[b].id \in Id
        BY <1>0 DEF JobRow
      <4>2. jobs[b].id # jobs[a].id
        BY <1>0 DEF AccountInv, JobsUnique
      <4> QED BY <2>3, <3>1, <4>1, <4>2
    <3>3. Stored(a) => Stored(a)'
      BY <1>1, <1>4, <3>1 DEF Stored
    <3>4. CASE Stored(a)' = Stored(a)
      <4>1. \A b \in Audio : Stored(b)' = Stored(b)
        BY <3>2, <3>4
      <4> QED BY <1>2, <2>1, <4>1 DEF Life!lifeVars, Life!gateVars, Gate!gateVars
    <3>5. CASE ~Stored(a) /\ Stored(a)'
      <4>1. Requested(a) = 1
        BY <3>1, JobIsRequested, StoreAssumption
      <4>2. [b \in Audio |-> Stored(b)'] = [[b \in Audio |-> Stored(b)] EXCEPT ![a] = TRUE]
        BY <3>2, <3>5
      <4>3. Life!Store(a)
        BY <1>2, <2>1, <3>5, <4>1, <4>2
           DEF Life!Store, Requested, Life!gateVars, Gate!gateVars
      <4> QED BY <4>3 DEF Life!LifeNext
    <3>6. Stored(a) \in BOOLEAN /\ Stored(a)' \in BOOLEAN
      BY DEF Stored
    <3> QED BY <3>3, <3>4, <3>5, <3>6
  <2> QED BY <1>0, <1>3, <2>1, <2>2, <2>3, ArtifactStep
<1>5. ASSUME NEW a \in Audio,
             /\ jobs[a].id # NoId
             /\ \A b \in Audio : b # a => audios'[b] = audios[b] /\ jobs'[b] = jobs[b]
             /\ audios'[a].status \in {"READY", "TRANSCODE_FAILED"}
             /\ audios'[a].status = "READY" => artifacts[jobs[a].id] = Artifact,
             UNCHANGED artifacts
      PROVE  SettledHasJob' /\ Life!LifeNext
  <2>1. SettledHasJob'
    BY <1>0, <1>1, <1>5 DEF SettledHasJob
  <2>2. \A b \in Audio : Stored(b)' = Stored(b)
    BY <1>1, <1>5 DEF Stored
  <2>3. \A b \in Audio : b # a => Outcome(b)' = Outcome(b)
    BY <1>5 DEF Outcome
  <2>4. PICK result \in {"ready", "failed"} :
          Outcome(a)' = result /\ (result = "ready" => Stored(a))
    BY <1>5 DEF Outcome, Stored
  <2>5. [b \in Audio |-> Outcome(b)'] = [[b \in Audio |-> Outcome(b)] EXCEPT ![a] = result]
    BY <2>3, <2>4
  <2>6. Requested(a) = 1
    BY <1>5, JobIsRequested
  <2>7. Life!Settle(a, result)
    BY <1>2, <2>2, <2>4, <2>5, <2>6
       DEF Life!Settle, Requested, Life!gateVars, Gate!gateVars
  <2> QED BY <2>1, <2>7 DEF Life!LifeNext
<1> QED BY <1>0, <1>3, <1>4, <1>5, ArtifactStep, ResultSettles

\* The intake never writes an outcome.
LEMMA IntakeKeepsUnsettled ==
    ASSUME PipeInv, IntakeNext, NEW b \in Audio, audios'[b].status # audios[b].status
    PROVE  audios'[b].status \notin {"READY", "TRANSCODE_FAILED"}
<1>0. IntakeInv /\ StoreTypeOK
  BY DEF PipeInv, IntakeInv, IntakeShape
<1>1. CASE UNCHANGED storeVars
  BY <1>1 DEF storeVars
<1>2. ASSUME NEW a \in Audio, CreateUpload(a)
      PROVE  audios'[b].status \in {audios[b].status, "UPLOAD_PENDING"}
  BY <1>0, <1>2 DEF CreateUpload, InsertAudio, StoreTypeOK, AudioRow
<1>3. ASSUME NEW a \in Audio, NEW row \in AudioRow, NEW status \in Decision,
             Marks(a, row, status) \/ Judges(a, row, status)
      PROVE  audios'[b].status \notin {"READY", "TRANSCODE_FAILED"}
  <2>1. CommitRow(a, row, status)
    BY <1>3 DEF Marks, Judges
  <2>2. /\ audios'[a] = [row EXCEPT !.status = IF status = "CLEAN" THEN "QUEUED" ELSE status]
        /\ \A d \in Audio : d # a => audios'[d] = audios[d]
    BY <1>0, <2>1, CommitRowColumns
  <2> QED BY <2>2 DEF AudioRow, Decision
<1> QED BY <1>0, <1>1, <1>2, <1>3, IntakeRowStep

\* A step of the intake leaves what is stored and settled alone.
LEMMA IntakeLives ==
    ASSUME OneCall, LifeInv, IntakeNext, UNCHANGED pipelineOnlyVars
    PROVE  /\ ArtifactsAreDrawn' /\ SettledHasJob'
           /\ [Life!LifeNext]_Life!lifeVars
<1>0. /\ PipeInv /\ ArtifactsAreDrawn /\ SettledHasJob /\ JobAgrees
      /\ PipeSerialInv' /\ PipeInv'
      /\ artifacts' = artifacts
      /\ jobs \in [Audio -> JobRow] /\ jobs' \in [Audio -> JobRow]
  <2>1. [Next]_pipeVars
    BY DEF Next
  <2>2. PipeSerialInv'
    BY <2>1, PipeSerialInvNext DEF OneCall, LifeInv, PathAccountInv
  <2> QED BY <2>2 DEF LifeInv, PathAccountInv, PathInv, PipeSerialInv, PipeInv, PipelineTypeInv,
             PipelineShape, StoreTypeOK, pipelineOnlyVars
<1>1. ASSUME NEW b \in Audio
      PROVE  \/ jobs'[b] = jobs[b]
             \/ jobs[b].id = NoId /\ jobs'[b].id \in FreshId
  BY <1>0, IntakeStoreStep
<1>2. ArtifactsAreDrawn'
  <2> SUFFICES ASSUME NEW j \in Id, artifacts[j] # {}
               PROVE  \E a \in Audio : jobs'[a].id = j
    BY <1>0 DEF ArtifactsAreDrawn
  <2>1. PICK a \in Audio : jobs[a].id = j
    BY <1>0 DEF ArtifactsAreDrawn
  <2> QED BY <1>1, <2>1, StoreAssumption
<1>3. ASSUME NEW b \in Audio
      PROVE  Stored(b)' = Stored(b)
  <2>1. CASE jobs'[b] = jobs[b]
    BY <1>0, <2>1 DEF Stored
  <2>2. CASE jobs[b].id = NoId /\ jobs'[b].id \in FreshId
    <3>1. artifacts[jobs'[b].id] = {}
      BY <1>0, <2>2 DEF ArtifactsAreDrawn, FreshId
    <3> QED BY <1>0, <2>2, <3>1 DEF Stored, Artifact
  <2> QED BY <1>1, <2>1, <2>2
<1>4. ASSUME NEW b \in Audio
      PROVE  \/ audios'[b].status = audios[b].status
             \/ /\ audios[b].status \notin {"READY", "TRANSCODE_FAILED"}
                /\ audios'[b].status \notin {"READY", "TRANSCODE_FAILED"}
  <2>1. CASE jobs[b].id # NoId
    <3>1. jobs'[b] = jobs[b]
      BY <1>1, <2>1
    <3> QED BY <1>0, <2>1, <3>1 DEF PipeSerialInv, JobAgrees
  <2>2. CASE jobs[b].id = NoId
    <3>1. audios[b].status \notin {"READY", "TRANSCODE_FAILED"}
      BY <1>0, <2>2 DEF SettledHasJob
    <3>2. audios'[b].status # audios[b].status => audios'[b].status \notin {"READY", "TRANSCODE_FAILED"}
      BY <1>0, IntakeKeepsUnsettled
    <3> QED BY <3>1, <3>2
  <2> QED BY <2>1, <2>2
<1>5. \A b \in Audio : Outcome(b)' = Outcome(b)
  BY <1>4 DEF Outcome
<1>6. SettledHasJob'
  BY <1>0, <1>1, <1>4, StoreAssumption DEF SettledHasJob, FreshId
<1>7. [Gate!GateNext]_Gate!gateVars
  <2>1. [Next]_pipeVars
    BY DEF Next
  <2> QED BY <2>1, PathGateInvNext DEF LifeInv
<1>8. [Life!LifeNext]_Life!lifeVars
  <2>1. CASE UNCHANGED Gate!gateVars
    BY <1>3, <1>5, <2>1 DEF Life!lifeVars, Life!gateVars, Gate!gateVars
  <2>2. CASE Gate!GateNext
    <3>1. Life!GateNext
      BY <2>2 DEF Gate!GateNext, Gate!Confirm, Gate!ConfirmAnother, Gate!Judge, Gate!Request,
         Life!GateNext, Life!Confirm, Life!ConfirmAnother, Life!Judge, Life!Request
    <3> QED BY <1>3, <1>5, <3>1 DEF Life!LifeNext
  <2> QED BY <1>7, <2>1, <2>2
<1> QED BY <1>2, <1>6, <1>8

LEMMA LifeInvNext ==
    ASSUME OneCall, LimitsAgree, LifeInv, [Next]_pipeVars
    PROVE  LifeInv' /\ [Life!LifeNext]_Life!lifeVars
<1>0. PathAccountInv' /\ PathGateInv'
  BY PathAccountInvNext, PathGateInvNext DEF LifeInv
<1>1. CASE IntakeNext /\ UNCHANGED pipelineOnlyVars
  BY <1>0, <1>1, IntakeLives DEF LifeInv
<1>2. CASE TranscodeNext
  BY <1>0, <1>2, TranscodeLives DEF LifeInv
<1>3. CASE UNCHANGED pipeVars
  <2>1. UNCHANGED <<audios, jobs, outbox, artifacts>>
    BY <1>3 DEF pipeVars, storeVars, pipelineOnlyVars
  <2>2. ArtifactsAreDrawn' /\ SettledHasJob'
    BY <2>1 DEF LifeInv, ArtifactsAreDrawn, SettledHasJob
  <2>3. UNCHANGED Life!lifeVars
    BY <2>1 DEF Life!lifeVars, Life!gateVars, GateVerdict, Stored, Outcome
  <2> QED BY <1>0, <2>2, <2>3 DEF LifeInv
<1> QED BY <1>1, <1>2, <1>3 DEF Next

LEMMA LifeInvInit ==
    ASSUME Init
    PROVE  LifeInv /\ Life!LifeInit
<1>1. PathAccountInv /\ PathGateInv /\ Gate!GateInit
  BY PathAccountInvInit, PipeSerialInvInit, GateInvInit DEF Init, PathGateInv, GateInv
<1>2. /\ \A a \in Audio : audios[a].status = "ABSENT" /\ jobs[a].id = NoId
      /\ \A j \in Id : artifacts[j] = {}
  BY DEF Init, IntakeInit, StoreInit, AbsentAudio, AbsentJob
<1>3. ArtifactsAreDrawn /\ SettledHasJob
  BY <1>2 DEF ArtifactsAreDrawn, SettledHasJob
<1>4. \A a \in Audio : Stored(a) = FALSE /\ Outcome(a) = "none"
  BY <1>2 DEF Stored, Outcome
<1>5. Life!GateInit
  BY <1>1 DEF Gate!GateInit, Life!GateInit
<1> QED BY <1>1, <1>3, <1>4, <1>5 DEF LifeInv, Life!LifeInit

\* The service keeps what AudioLifecycle promises: seen from outside, the outbox, the
\* two queues, the workers and their retries come down to artifacts that appear once
\* and outcomes that follow a request, and READY to a statement about both gates and
\* the bucket.
THEOREM PathImplementsLifecycle ==
    ASSUME OneCall, LimitsAgree
    PROVE  Spec => ImplementsLifecycle
<1>1. Init => LifeInv /\ Life!LifeInit
  BY LifeInvInit
<1>2. LifeInv /\ [Next]_pipeVars => LifeInv' /\ [Life!LifeNext]_Life!lifeVars
  BY LifeInvNext
<1> QED BY <1>1, <1>2, PTL DEF Spec, ImplementsLifecycle, Life!LifeSpec

================================================================================
