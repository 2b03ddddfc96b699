-------------------------- MODULE AudioIntakeProofs --------------------------
(***************************************************************************)
(* Theorems about AudioIntake, for every set of audios, callers, versions  *)
(* and ids.                                                                *)
(***************************************************************************)
EXTENDS AudioIntake, FiniteSetTheorems, TLAPS

-----------------------------------------------------------------------------
(* Type correctness                                                        *)

\* IntakeTypeOK without the event ids.  The lemmas ask for no more, so that they hold
\* as well where the pipeline registers its own events in the same table.
IntakeShape ==
    /\ StoreTypeOK
    /\ latest \in [Audio -> Version \cup {NoVersion}]
    /\ tags \in [Audio -> [Version -> ScanStatus]]
    /\ scanQueue \subseteq ScanMessage
    /\ calls \in [Caller -> Call]

\* The rows the two enqueueing transactions write are rows.
LEMMA PinType ==
    ASSUME NEW row \in AudioRow, NEW v \in Version
    PROVE  Pin(row, v) \in Version
  BY DEF Pin, AudioRow

\* CommitRow keeps the type of the store, whatever row and status it is given.
LEMMA CommitRowType ==
    ASSUME StoreTypeOK,
           NEW a \in Audio, NEW row \in AudioRow,
           row.version \in Version,
           NEW status \in AudioStatus \cup {"CLEAN"},
           CommitRow(a, row, status)
    PROVE  StoreTypeOK'
  <1>1. CASE status = "CLEAN"
    <2>1. PICK id \in FreshId : EnqueueInitialTranscode(a, row, id)
      BY <1>1 DEF CommitRow
    <2>2. id \in Id
      BY <2>1 DEF FreshId
    <2>3. audios' \in [Audio -> AudioRow]
      BY <2>1, SMT DEF EnqueueInitialTranscode, StoreTypeOK, AudioRow, AudioStatus
    <2>4. jobs' \in [Audio -> JobRow]
      BY <2>1, <2>2, SMT DEF EnqueueInitialTranscode, StoreTypeOK, JobRow, AbsentJob, JobStatus
    <2>5. outbox' \subseteq OutboxEvent
      BY <2>1, <2>2 DEF EnqueueInitialTranscode, StoreTypeOK, OutboxEvent
    <2>6. QED
      BY <2>3, <2>4, <2>5 DEF CommitRow, StoreTypeOK
  <1>2. CASE status # "CLEAN"
    <2>1. [row EXCEPT !.status = status] \in AudioRow
      BY <1>2 DEF AudioRow
    <2>2. QED
      BY <1>2, <2>1 DEF CommitRow, StoreTypeOK
  <1>3. QED
    BY <1>1, <1>2

\* What CommitRow leaves in the table: the columns of the row it was given, with
\* QUEUED in the place of CLEAN, and every other row as it was.
LEMMA CommitRowColumns ==
    ASSUME StoreTypeOK, NEW a \in Audio, NEW row \in AudioRow, NEW status,
           CommitRow(a, row, status)
    PROVE  /\ audios'[a] = [row EXCEPT !.status = IF status = "CLEAN" THEN "QUEUED" ELSE status]
           /\ \A b \in Audio : b # a => audios'[b] = audios[b]
  <1>1. CASE status = "CLEAN"
    BY <1>1 DEF CommitRow, EnqueueInitialTranscode, StoreTypeOK
  <1>2. CASE status # "CLEAN"
    BY <1>2 DEF CommitRow, StoreTypeOK
  <1> QED
    BY <1>1, <1>2

LEMMA MarkUploadVerifiedType ==
    ASSUME StoreTypeOK, NEW a \in Audio, NEW v \in Version, MarkUploadVerified(a, v)
    PROVE  StoreTypeOK'
  <1> DEFINE row == [audios[a] EXCEPT !.verified = TRUE, !.version = Pin(audios[a], v)]
  <1>1. audios[a] \in AudioRow
    BY DEF StoreTypeOK
  <1>2. Pin(audios[a], v) \in Version
    BY <1>1, PinType
  <1>3. row \in AudioRow /\ row.version \in Version
    BY <1>1, <1>2 DEF AudioRow
  <1>4. StatusOnceVerified(audios[a], v) \in AudioStatus \cup {"CLEAN"}
    BY <1>1 DEF StatusOnceVerified, AudioRow, ScanStatus, AudioStatus
  <1>5. CommitRow(a, row, StatusOnceVerified(audios[a], v))
    BY DEF MarkUploadVerified
  <1> QED
    BY <1>3, <1>4, <1>5, CommitRowType

LEMMA ProcessScanResultType ==
    ASSUME StoreTypeOK, NEW m \in ScanMessage, ProcessScanResult(m)
    PROVE  StoreTypeOK' /\ processed' \subseteq processed \cup {m.id}
  <1> DEFINE verdict == EffectiveVerdict(audios[m.audio], m)
             row == [audios[m.audio] EXCEPT !.version = Pin(audios[m.audio], m.version),
                                            !.scan = verdict]
  <1>1. m.audio \in Audio /\ m.version \in Version /\ m.id \in ScanEventId
        /\ m.status \in ScanStatus
    BY DEF ScanMessage
  <1>2. audios[m.audio] \in AudioRow
    BY <1>1 DEF StoreTypeOK
  <1>3. Pin(audios[m.audio], m.version) \in Version
    BY <1>1, <1>2, PinType
  <1>4. verdict \in ScanStatus
    BY <1>1 DEF EffectiveVerdict, ScanStatus
  <1>5. row \in AudioRow /\ row.version \in Version
    BY <1>2, <1>3, <1>4 DEF AudioRow
  <1>6. StatusOnceScanned(audios[m.audio], verdict) \in AudioStatus \cup {"CLEAN"}
    BY DEF StatusOnceScanned, AudioStatus
  <1>7. CASE m.id \in processed /\ UNCHANGED storeVars
    BY <1>7 DEF storeVars, StoreTypeOK
  <1>8. CASE /\ processed' = processed \cup {m.id}
             /\ CommitRow(m.audio, row, StatusOnceScanned(audios[m.audio], verdict))
    BY <1>1, <1>5, <1>6, <1>8, CommitRowType
  <1> QED
    BY <1>7, <1>8 DEF ProcessScanResult

LEMMA IntakeTypeInit == IntakeInit => IntakeShape
  BY StoreAssumption DEF IntakeInit, StoreInit, IntakeShape, StoreTypeOK, AbsentAudio, AbsentJob,
     AudioRow, JobRow, AudioStatus, JobStatus, ScanStatus, IdleCall, Call, NoVersion

LEMMA IntakeTypeNext ==
    ASSUME IntakeShape, [IntakeNext]_intakeVars
    PROVE  IntakeShape'
  <1> USE DEF IntakeShape
  <1>1. ASSUME NEW a \in Audio, CreateUpload(a)
        PROVE  IntakeShape'
    BY <1>1 DEF CreateUpload, InsertAudio, StoreTypeOK, AudioRow, AudioStatus, intakeOnlyVars
  <1>2. ASSUME NEW a \in Audio, PutSource(a)
        PROVE  IntakeShape'
    BY <1>2, StoreAssumption DEF PutSource, StoreTypeOK, storeVars, Version, NoVersion
  <1>3. ASSUME NEW c \in Caller, NEW a \in Audio, BeginComplete(c, a)
        PROVE  IntakeShape'
    BY <1>3 DEF BeginComplete, StoreTypeOK, storeVars, Call, AudioRow, NoVersion
  <1>4. ASSUME NEW c \in Caller, HeadSource(c)
        PROVE  IntakeShape'
    <2> DEFINE v == latest[calls[c].audio]
    <2>1. calls[c] \in [step: {"head"}, audio: Audio, seen: Version \cup {NoVersion},
                        version: {NoVersion}]
      BY <1>4 DEF HeadSource, Call, IdleCall
    <2>2. CASE ObjectMatches(calls[c], v)
      <3>1. v \in Version
        BY <2>1, <2>2 DEF ObjectMatches
      <3>2. [calls[c] EXCEPT !.step = "tag", !.version = v] \in Call
        BY <2>1, <3>1 DEF Call
      <3> QED
        BY <1>4, <2>2, <3>2 DEF HeadSource, StoreTypeOK, storeVars
    <2>3. CASE ~ObjectMatches(calls[c], v)
      BY <1>4, <2>3 DEF HeadSource, StoreTypeOK, storeVars, Call
    <2> QED
      BY <2>2, <2>3
  <1>5. ASSUME NEW c \in Caller, TagSource(c)
        PROVE  IntakeShape'
    <2>1. calls[c] \in [step: {"tag", "send", "mark"}, audio: Audio,
                        seen: Version \cup {NoVersion}, version: Version]
      BY <1>5 DEF TagSource, Call, IdleCall
    <2>2. /\ calls[c].audio \in Audio
          /\ calls[c].version \in Version
          /\ [calls[c] EXCEPT !.step = "send"] \in Call
      BY <2>1 DEF Call
    <2> QED
      BY <1>5, <2>2 DEF TagSource, StoreTypeOK, storeVars, ScanStatus
  <1>6. ASSUME NEW c \in Caller, SendScanResult(c)
        PROVE  IntakeShape'
    <2>1. calls[c] \in [step: {"tag", "send", "mark"}, audio: Audio,
                        seen: Version \cup {NoVersion}, version: Version]
      BY <1>6 DEF SendScanResult, Call, IdleCall
    <2>2. /\ calls[c].audio \in Audio
          /\ calls[c].version \in Version
          /\ [calls[c] EXCEPT !.step = "mark"] \in Call
      BY <2>1 DEF Call
    <2> QED
      BY <1>6, <2>2 DEF SendScanResult, StoreTypeOK, storeVars, AdapterMessage, ScanMessage, ScanEventId, AdapterEventId, ScanStatus, NoVersion
  <1>7. ASSUME NEW c \in Caller, FinishComplete(c)
        PROVE  IntakeShape'
    <2>1. calls[c].audio \in Audio /\ calls[c].version \in Version
      BY <1>7 DEF FinishComplete, Call, IdleCall
    <2>2. MarkUploadVerified(calls[c].audio, calls[c].version)
      BY <1>7 DEF FinishComplete
    <2>3. StoreTypeOK'
      BY <2>1, <2>2, MarkUploadVerifiedType
    <2>4. processed' = processed
      BY <2>2 DEF MarkUploadVerified
    <2> QED
      BY <1>7, <2>3, <2>4 DEF FinishComplete, Call
  <1>8. ASSUME NEW c \in Caller, AbortComplete(c)
        PROVE  IntakeShape'
    BY <1>8 DEF AbortComplete, StoreTypeOK, storeVars, Call, IdleCall
  <1>9. ASSUME NEW m \in scanQueue, ConsumeScanResult(m)
        PROVE  IntakeShape'
    BY <1>9, ProcessScanResultType DEF ConsumeScanResult
  <1>10. ASSUME NEW a \in Audio, NEW v \in Version, NEW verdict \in ScannerVerdicts,
                ScanExternally(a, v, verdict)
         PROVE  IntakeShape'
    BY <1>10, IntakeAssumption DEF ScanExternally, StoreTypeOK, storeVars, ScanMessage,
       ScanEventId, ScannerEventId, ScanStatus
  <1>11. CASE UNCHANGED intakeVars
    BY <1>11 DEF intakeVars, intakeOnlyVars, storeVars, StoreTypeOK
  <1> QED
    BY <1>1, <1>2, <1>3, <1>4, <1>5, <1>6, <1>7, <1>8, <1>9, <1>10, <1>11
       DEF IntakeNext, CompleteStep

LEMMA IntakeEventIds ==
    ASSUME IntakeShape, processed \subseteq ScanEventId, [IntakeNext]_intakeVars
    PROVE  processed' \subseteq ScanEventId
  <1>1. ASSUME NEW m \in scanQueue, ConsumeScanResult(m)
        PROVE  processed' \subseteq ScanEventId
    BY <1>1, ProcessScanResultType DEF ConsumeScanResult, IntakeShape, ScanMessage
  <1>2. ASSUME NEW c \in Caller, CompleteStep(c)
        PROVE  UNCHANGED processed
    BY <1>2 DEF CompleteStep, BeginComplete, HeadSource, TagSource, SendScanResult,
       FinishComplete, MarkUploadVerified, AbortComplete, storeVars
  <1>3. ASSUME NEW a \in Audio, CreateUpload(a) \/ PutSource(a)
        PROVE  UNCHANGED processed
    BY <1>3 DEF CreateUpload, InsertAudio, PutSource, storeVars
  <1>4. ASSUME NEW a \in Audio, NEW v \in Version, NEW verdict \in ScannerVerdicts,
               ScanExternally(a, v, verdict)
        PROVE  UNCHANGED processed
    BY <1>4 DEF ScanExternally, storeVars
  <1>5. CASE UNCHANGED intakeVars
    BY <1>5 DEF intakeVars, storeVars
  <1> QED
    BY <1>1, <1>2, <1>3, <1>4, <1>5 DEF IntakeNext

LEMMA IntakeShapeAlways == IntakeSpec => []IntakeShape
  BY IntakeTypeInit, IntakeTypeNext, PTL DEF IntakeSpec

\* Every reachable state of the intake is well typed.
THEOREM IntakeTypeCorrect == IntakeSpec => []IntakeTypeOK
  <1> DEFINE Ids == processed \subseteq ScanEventId
  <1>1. IntakeInit => Ids
    BY DEF IntakeInit, StoreInit
  <1>2. IntakeShape /\ Ids /\ [IntakeNext]_intakeVars => Ids'
    BY IntakeEventIds
  <1>3. IntakeShape /\ Ids => IntakeTypeOK
    BY DEF IntakeShape, IntakeTypeOK
  <1> HIDE DEF Ids
  <1> QED
    BY <1>1, <1>2, <1>3, IntakeShapeAlways, PTL DEF IntakeSpec

-----------------------------------------------------------------------------
(* The gate and the scan result, for any callers and any scanner           *)

\* The adapter's event for a is either processed or still on the queue.
ScanReported(a) ==
    \/ AdapterEventId(a) \in processed
    \/ \E m \in scanQueue : m.audio = a /\ m.id = AdapterEventId(a)

\* A message names its audio in its event id as well, so an event id cannot be
\* used up by a result for another audio.
QueueInv == \A m \in scanQueue : m.id[1] = m.audio

\* A call that is about to mark has sent its scan result.
CallInv == \A c \in Caller : calls[c].step = "mark" => ScanReported(calls[c].audio)

\* What a row says about the scan agrees with what happened to the message.
ScanInv ==
    \A a \in Audio :
        /\ AdapterEventId(a) \in processed => audios[a].scan # "PENDING"
        /\ audios[a].verified => ScanReported(a)
        /\ audios[a].verified /\ audios[a].status = "SCANNING" =>
              audios[a].scan = "PENDING"

IntakeInv == IntakeShape /\ RequestsAreGated /\ QueueInv /\ CallInv /\ ScanInv

LEMMA IntakeInvImpliesNoLostScan == IntakeInv => NoLostScan
  <1> SUFFICES ASSUME IntakeInv, NEW a \in Audio,
                      audios[a].verified, audios[a].status = "SCANNING"
               PROVE  \E m \in scanQueue : m.audio = a /\ m.id \notin processed
    BY DEF NoLostScan
  <1>1. AdapterEventId(a) \notin processed /\ ScanReported(a)
    BY DEF IntakeInv, ScanInv
  <1> QED
    BY <1>1 DEF ScanReported

\* A transaction that ends in CommitRow keeps both gates shut, provided that the
\* row it writes is verified, clean and pinned whenever its status is CLEAN, and
\* that it takes nothing back from a row that has requests already.
LEMMA CommitRowGated ==
    ASSUME StoreTypeOK, RequestsAreGated,
           NEW a \in Audio, NEW row \in AudioRow, row.version \in Version,
           NEW status \in (AudioStatus \ {"QUEUED"}) \cup {"CLEAN"},
           CommitRow(a, row, status),
           audios[a].verified => row.verified,
           audios[a].version # NoVersion => row.version = audios[a].version,
           status = "CLEAN" => row.verified /\ row.scan = "NO_THREATS_FOUND",
           StoreAssumption
    PROVE  RequestsAreGated'
  <1>1. \A e \in outbox : e.audio \in Audio /\ e.version \in Version
    BY DEF StoreTypeOK, OutboxEvent
  <1>2. \A e \in outbox : e.audio = a => row.verified /\ row.version = e.version
                                        /\ jobs[a].id # NoId
    BY <1>1, StoreAssumption DEF RequestsAreGated, Version, NoVersion
  <1>3. CASE status = "CLEAN"
    <2>1. PICK id \in FreshId : EnqueueInitialTranscode(a, row, id)
      BY <1>3 DEF CommitRow
    <2>2. id \in Id /\ id # NoId
      BY <2>1, StoreAssumption DEF FreshId
    <2> DEFINE new == [id |-> id, audio |-> a, version |-> row.version]
    <2>3. /\ audios'[a].verified
          /\ audios'[a].scan = "NO_THREATS_FOUND"
          /\ audios'[a].version = row.version
      BY <1>3, <2>1 DEF EnqueueInitialTranscode, StoreTypeOK, AudioRow
    <2>4. \A b \in Audio : b # a => audios'[b] = audios[b]
      BY <2>1 DEF EnqueueInitialTranscode, StoreTypeOK
    <2>5. \A b \in Audio : jobs[b].id # NoId \/ b = a => jobs'[b].id # NoId
      BY <2>1, <2>2 DEF EnqueueInitialTranscode, StoreTypeOK, AbsentJob
    <2>6. outbox' = outbox \cup {new}
      BY <2>1 DEF EnqueueInitialTranscode
    <2>7. ASSUME NEW e \in outbox'
          PROVE  /\ audios'[e.audio].verified
                 /\ audios'[e.audio].version = e.version
                 /\ jobs'[e.audio].id # NoId
      <3>1. CASE e = new
        BY <3>1, <2>3, <2>5
      <3>2. CASE e \in outbox /\ e.audio = a
        BY <3>2, <2>3, <2>5, <1>2
      <3>3. CASE e \in outbox /\ e.audio # a
        BY <3>3, <2>4, <2>5, <1>1 DEF RequestsAreGated
      <3> QED
        BY <2>6, <3>1, <3>2, <3>3
    <2>8. ASSUME NEW b \in Audio, audios'[b].status = "QUEUED"
          PROVE  /\ audios'[b].verified
                 /\ audios'[b].scan = "NO_THREATS_FOUND"
                 /\ \E e \in outbox' : e.audio = b
      <3>1. CASE b = a
        <4>1. new \in outbox' /\ new.audio = b
          BY <3>1, <2>6
        <4> QED
          BY <3>1, <4>1, <2>3
      <3>2. CASE b # a
        BY <3>2, <2>4, <2>6, <2>8 DEF RequestsAreGated
      <3> QED
        BY <3>1, <3>2
    <2> QED
      BY <2>7, <2>8 DEF RequestsAreGated
  <1>4. CASE status # "CLEAN"
    <2>1. /\ outbox' = outbox
          /\ jobs' = jobs
          /\ audios' = [audios EXCEPT ![a] = [row EXCEPT !.status = status]]
      BY <1>4 DEF CommitRow
    <2>2. /\ audios'[a].verified = row.verified
          /\ audios'[a].version = row.version
          /\ audios'[a].status # "QUEUED"
      BY <2>1 DEF StoreTypeOK, AudioRow
    <2>3. \A b \in Audio : b # a => audios'[b] = audios[b]
      BY <2>1 DEF StoreTypeOK
    <2>4. ASSUME NEW e \in outbox'
          PROVE  /\ audios'[e.audio].verified
                 /\ audios'[e.audio].version = e.version
                 /\ jobs'[e.audio].id # NoId
      BY <2>1, <2>2, <2>3, <1>1, <1>2 DEF RequestsAreGated
    <2>5. ASSUME NEW b \in Audio, audios'[b].status = "QUEUED"
          PROVE  /\ audios'[b].verified
                 /\ audios'[b].scan = "NO_THREATS_FOUND"
                 /\ \E e \in outbox' : e.audio = b
      BY <2>1, <2>2, <2>3, <2>5 DEF RequestsAreGated
    <2> QED
      BY <2>4, <2>5 DEF RequestsAreGated
  <1> QED
    BY <1>3, <1>4

LEMMA IntakeInvInit == IntakeInit => IntakeInv
  BY IntakeTypeInit DEF IntakeInit, StoreInit, IntakeInv, RequestsAreGated, QueueInv,
     CallInv, ScanInv, IdleCall, AbsentAudio

LEMMA FinishCompleteInv ==
    ASSUME IntakeInv, IntakeShape', NEW c \in Caller, FinishComplete(c)
    PROVE  IntakeInv'
  <1> DEFINE a == calls[c].audio
             v == calls[c].version
             row == [audios[a] EXCEPT !.verified = TRUE, !.version = Pin(audios[a], v)]
             status == StatusOnceVerified(audios[a], v)
  <1> USE DEF IntakeInv
  <1>1. a \in Audio /\ v \in Version /\ ScanReported(a)
    BY DEF IntakeShape, FinishComplete, Call, IdleCall, CallInv
  <1>2. audios[a] \in AudioRow
    BY <1>1 DEF IntakeShape, StoreTypeOK
  <1>3. Pin(audios[a], v) \in Version
    BY <1>1, <1>2, PinType
  <1>4. row \in AudioRow /\ row.version \in Version /\ row.verified
        /\ row.scan = audios[a].scan
    BY <1>2, <1>3 DEF AudioRow
  <1>5. CommitRow(a, row, status) /\ processed' = processed /\ scanQueue' = scanQueue
    BY DEF FinishComplete, MarkUploadVerified
  <1>6. /\ status \in (AudioStatus \ {"QUEUED"}) \cup {"CLEAN"}
        /\ status = "CLEAN" => audios[a].scan = "NO_THREATS_FOUND"
        /\ status = "SCANNING" => audios[a].scan = "PENDING"
    BY <1>2 DEF StatusOnceVerified, AudioRow, ScanStatus, AudioStatus
  <1>7. audios[a].version # NoVersion => row.version = audios[a].version
    BY <1>2 DEF Pin, AudioRow
  <1>8. RequestsAreGated'
    <2> HIDE DEF row, status
    <2> QED
      BY <1>1, <1>4, <1>5, <1>6, <1>7, CommitRowGated, StoreAssumption DEF IntakeShape
  <1>9. /\ audios'[a] = [row EXCEPT !.status = IF status = "CLEAN" THEN "QUEUED" ELSE status]
        /\ \A b \in Audio : b # a => audios'[b] = audios[b]
    <2> HIDE DEF row, status
    <2> QED
      BY <1>1, <1>4, <1>5, CommitRowColumns DEF IntakeShape
  <1>10. \A b \in Audio : ScanReported(b)' <=> ScanReported(b)
    BY <1>5 DEF ScanReported
  <1>11. ScanInv'
    <2> SUFFICES ASSUME NEW b \in Audio
                 PROVE  /\ AdapterEventId(b) \in processed' => audios'[b].scan # "PENDING"
                        /\ audios'[b].verified => ScanReported(b)'
                        /\ audios'[b].verified /\ audios'[b].status = "SCANNING" =>
                              audios'[b].scan = "PENDING"
      BY DEF ScanInv
    <2>1. CASE b = a
      <3>1. audios'[a].scan = audios[a].scan
        BY <1>4, <1>9 DEF AudioRow
      <3>2. audios'[a].status = "SCANNING" => status = "SCANNING"
        BY <1>4, <1>9 DEF AudioRow
      <3> QED
        BY <2>1, <3>1, <3>2, <1>1, <1>5, <1>6, <1>10 DEF ScanInv
    <2>2. CASE b # a
      BY <2>2, <1>5, <1>9, <1>10 DEF ScanInv
    <2> QED
      BY <2>1, <2>2
  <1>12. CallInv'
    BY <1>10 DEF CallInv, FinishComplete, IdleCall, IntakeShape, Call
  <1>13. QueueInv'
    BY <1>5 DEF QueueInv
  <1> QED
    BY <1>8, <1>11, <1>12, <1>13

LEMMA ConsumeScanResultInv ==
    ASSUME IntakeInv, IntakeShape', NEW m \in scanQueue, ConsumeScanResult(m)
    PROVE  IntakeInv'
  <1> DEFINE a == m.audio
             verdict == EffectiveVerdict(audios[a], m)
             row == [audios[a] EXCEPT !.version = Pin(audios[a], m.version), !.scan = verdict]
             status == StatusOnceScanned(audios[a], verdict)
  <1> USE DEF IntakeInv
  <1>1. /\ m \in ScanMessage
        /\ a \in Audio /\ m.version \in Version /\ m.id[1] = a
        /\ m.status \in ScanStatus \ {"PENDING"}
    BY DEF IntakeShape, ScanMessage, QueueInv
  <1>2. /\ scanQueue' \subseteq scanQueue
        /\ scanQueue \ {m} \subseteq scanQueue'
        /\ calls' = calls
        /\ ProcessScanResult(m)
    BY DEF ConsumeScanResult
  <1>3. m.id \in processed' /\ processed' \subseteq processed \cup {m.id}
        /\ processed \subseteq processed'
    BY <1>2 DEF ProcessScanResult, storeVars
  <1>4. QueueInv'
    BY <1>2 DEF QueueInv
  <1>5. \A b \in Audio : ScanReported(b) => ScanReported(b)'
    <2> SUFFICES ASSUME NEW b \in Audio, ScanReported(b),
                        NEW n \in scanQueue, n.audio = b, n.id = AdapterEventId(b)
                 PROVE  ScanReported(b)'
      BY <1>3 DEF ScanReported
    <2>1. CASE n = m
      BY <2>1, <1>3 DEF ScanReported
    <2>2. CASE n # m
      BY <2>2, <1>2 DEF ScanReported
    <2> QED
      BY <2>1, <2>2
  <1>6. CallInv'
    <2>1. \A c \in Caller : calls[c].step = "mark" => calls[c].audio \in Audio
      BY DEF IntakeShape, Call, IdleCall
    <2> QED
      BY <2>1, <1>2, <1>5 DEF CallInv
  <1>7. CASE m.id \in processed /\ UNCHANGED storeVars
    BY <1>4, <1>5, <1>6, <1>7 DEF storeVars, RequestsAreGated, ScanInv
  <1>8. CASE /\ m.id \notin processed
             /\ processed' = processed \cup {m.id}
             /\ CommitRow(a, row, status)
    <2>1. audios[a] \in AudioRow
      BY <1>1 DEF IntakeShape, StoreTypeOK
    <2>2. Pin(audios[a], m.version) \in Version
      BY <1>1, <2>1, PinType
    <2>3. verdict \in ScanStatus \ {"PENDING"}
      BY <1>1 DEF EffectiveVerdict, ScanStatus
    <2>4. /\ row \in AudioRow /\ row.version \in Version
          /\ row.verified = audios[a].verified
          /\ row.scan = verdict
      BY <2>1, <2>2, <2>3 DEF AudioRow
    <2>5. /\ status \in (AudioStatus \ {"QUEUED"}) \cup {"CLEAN"}
          /\ status = "CLEAN" => audios[a].verified /\ verdict = "NO_THREATS_FOUND"
          /\ status = "SCANNING" => ~audios[a].verified
      BY <2>1, <2>3 DEF StatusOnceScanned, AudioStatus, ScanStatus, AudioRow
    <2>6. audios[a].version # NoVersion => row.version = audios[a].version
      BY <2>1 DEF Pin, AudioRow
    <2>7. RequestsAreGated'
      <3> HIDE DEF row, status, verdict
      <3> QED
        BY <1>1, <1>8, <2>4, <2>5, <2>6, CommitRowGated, StoreAssumption DEF IntakeShape
    <2>8. /\ audios'[a] = [row EXCEPT !.status = IF status = "CLEAN" THEN "QUEUED" ELSE status]
          /\ \A b \in Audio : b # a => audios'[b] = audios[b]
      <3> HIDE DEF row, status, verdict
      <3> QED
        BY <1>1, <1>8, <2>4, CommitRowColumns DEF IntakeShape
    <2>9. ScanInv'
      <3> SUFFICES ASSUME NEW b \in Audio
                   PROVE  /\ AdapterEventId(b) \in processed' => audios'[b].scan # "PENDING"
                          /\ audios'[b].verified => ScanReported(b)'
                          /\ audios'[b].verified /\ audios'[b].status = "SCANNING" =>
                                audios'[b].scan = "PENDING"
        BY DEF ScanInv
      <3>1. CASE b = a
        <4>1. /\ audios'[a].scan = verdict
              /\ audios'[a].verified = audios[a].verified
              /\ audios'[a].status = "SCANNING" => status = "SCANNING"
          BY <2>4, <2>8 DEF AudioRow
        <4> QED
          BY <3>1, <4>1, <2>3, <2>5, <1>1, <1>5 DEF ScanInv
      <3>2. CASE b # a
        <4>1. AdapterEventId(b) # m.id
          BY <3>2, <1>1 DEF AdapterEventId
        <4> QED
          BY <3>2, <4>1, <1>3, <1>5, <2>8 DEF ScanInv
      <3> QED
        BY <3>1, <3>2
    <2> QED
      BY <1>4, <1>6, <2>7, <2>9
  <1> QED
    BY <1>2, <1>7, <1>8 DEF ProcessScanResult

LEMMA IntakeInvNext ==
    ASSUME IntakeInv, [IntakeNext]_intakeVars
    PROVE  IntakeInv'
  <1>1. IntakeShape'
    BY IntakeTypeNext DEF IntakeInv
  <1> USE DEF IntakeInv, RequestsAreGated, QueueInv, CallInv, ScanInv, ScanReported
  <1>2. ASSUME NEW a \in Audio, CreateUpload(a)
        PROVE  IntakeInv'
    BY <1>1, <1>2 DEF CreateUpload, InsertAudio, intakeOnlyVars, IntakeShape, StoreTypeOK, AudioRow
  <1>3. ASSUME NEW a \in Audio, PutSource(a)
        PROVE  IntakeInv'
    BY <1>1, <1>3 DEF PutSource, storeVars
  <1>4. ASSUME NEW c \in Caller, NEW a \in Audio, BeginComplete(c, a)
        PROVE  IntakeInv'
    BY <1>1, <1>4 DEF BeginComplete, storeVars, IntakeShape
  <1>5. ASSUME NEW c \in Caller, HeadSource(c)
        PROVE  IntakeInv'
    BY <1>1, <1>5 DEF HeadSource, storeVars, IntakeShape, IdleCall, Call
  <1>6. ASSUME NEW c \in Caller, TagSource(c)
        PROVE  IntakeInv'
    BY <1>1, <1>6 DEF TagSource, storeVars, IntakeShape, Call, IdleCall
  <1>7. ASSUME NEW c \in Caller, SendScanResult(c)
        PROVE  IntakeInv'
    <2> DEFINE m == AdapterMessage(calls[c].audio, calls[c].version)
    <2>1. m.audio = calls[c].audio /\ m.id = AdapterEventId(calls[c].audio) /\ m.id[1] = m.audio
      BY DEF AdapterMessage, AdapterEventId
    <2>2. scanQueue' = scanQueue \cup {m} /\ UNCHANGED storeVars
      BY <1>7 DEF SendScanResult
    <2> HIDE DEF m
    <2>3. QueueInv' /\ RequestsAreGated'
      BY <2>1, <2>2 DEF storeVars
    <2>4. \A b : ScanReported(b) \/ b = calls[c].audio => ScanReported(b)'
      BY <2>1, <2>2 DEF storeVars
    <2>5. \A d \in Caller : calls'[d].audio = calls[d].audio
                           /\ (d # c => calls'[d] = calls[d])
      BY <1>7 DEF SendScanResult, IntakeShape, Call, IdleCall
    <2>6. CallInv'
      <3> HIDE DEF ScanReported
      <3> QED
        BY <2>4, <2>5, <2>2
    <2>7. ScanInv'
      <3> HIDE DEF ScanReported
      <3> QED
        BY <2>2, <2>4 DEF storeVars
    <2> QED
      BY <1>1, <2>3, <2>6, <2>7
  <1>8. ASSUME NEW c \in Caller, AbortComplete(c)
        PROVE  IntakeInv'
    BY <1>1, <1>8 DEF AbortComplete, storeVars, IntakeShape, IdleCall
  <1>9. ASSUME NEW a \in Audio, NEW v \in Version, NEW verdict \in ScannerVerdicts,
               ScanExternally(a, v, verdict)
        PROVE  IntakeInv'
    BY <1>1, <1>9 DEF ScanExternally, storeVars, ScannerEventId
  <1>10. CASE UNCHANGED intakeVars
    BY <1>1, <1>10 DEF intakeVars, intakeOnlyVars, storeVars
  <1> QED
    BY <1>1, <1>2, <1>3, <1>4, <1>5, <1>6, <1>7, <1>8, <1>9, <1>10,
       FinishCompleteInv, ConsumeScanResultInv
       DEF IntakeNext, CompleteStep

\* A transcode is requested only behind both gates, whatever the callers, the
\* scanner and the queue do.
THEOREM GatedRequests == IntakeSpec => []RequestsAreGated
  <1>1. IntakeInv => RequestsAreGated
    BY DEF IntakeInv
  <1> QED
    BY <1>1, IntakeInvInit, IntakeInvNext, PTL DEF IntakeSpec

\* A completed upload that waits for its scan result has one to wait for.
THEOREM ScanResultNotLost == IntakeSpec => []NoLostScan
  BY IntakeInvInit, IntakeInvNext, IntakeInvImpliesNoLostScan, PTL DEF IntakeSpec

-----------------------------------------------------------------------------
(* The deployment the repository ships: the adapter is the only scanner.   *)

\* Everything downstream of HEAD speaks of a version that was compared with the
\* record, and everything downstream of the tag of a version that carries it.
SourceOK(a, v) == v \in Conforming /\ tags[a][v] = "NO_THREATS_FOUND"

SourceInv ==
    /\ \A c \in Caller :
         /\ calls[c].step = "tag" => calls[c].version \in Conforming
         /\ calls[c].step \in {"send", "mark"} => SourceOK(calls[c].audio, calls[c].version)
    /\ \A m \in scanQueue : SourceOK(m.audio, m.version)
    /\ \A a \in Audio : audios[a].version # NoVersion => SourceOK(a, audios[a].version)

LEMMA SourceInvNext ==
    ASSUME ScannerVerdicts = {}, IntakeInv, IntakeShape', SourceInv, [IntakeNext]_intakeVars
    PROVE  SourceInv'
  <1> USE DEF SourceInv, SourceOK
  <1>0. IntakeShape
    BY DEF IntakeInv
  <1>1. ASSUME NEW a \in Audio, CreateUpload(a)
        PROVE  SourceInv'
    BY <1>0, <1>1 DEF CreateUpload, InsertAudio, intakeOnlyVars, IntakeShape, StoreTypeOK, AudioRow
  <1>2. ASSUME NEW a \in Audio, PutSource(a)
        PROVE  SourceInv'
    BY <1>2 DEF PutSource, storeVars
  <1>3. ASSUME NEW c \in Caller, NEW a \in Audio, BeginComplete(c, a)
        PROVE  SourceInv'
    BY <1>0, <1>3 DEF BeginComplete, storeVars, IntakeShape
  <1>4. ASSUME NEW c \in Caller, HeadSource(c)
        PROVE  SourceInv'
    <2>1. /\ calls'[c].step = "tag" => calls'[c].version \in Conforming
          /\ calls'[c].step \notin {"send", "mark"}
      BY <1>0, <1>4 DEF HeadSource, IntakeShape, ObjectMatches, IdleCall, Call
    <2>2. \A d \in Caller : d # c => calls'[d] = calls[d]
      BY <1>0, <1>4 DEF HeadSource, IntakeShape
    <2> QED
      BY <1>4, <2>1, <2>2 DEF HeadSource, storeVars
  <1>5. ASSUME NEW c \in Caller, TagSource(c)
        PROVE  SourceInv'
    <2> DEFINE b == calls[c].audio
               v == calls[c].version
    <2>1. /\ b \in Audio /\ v \in Version /\ v \in Conforming
          /\ calls'[c].audio = b /\ calls'[c].version = v /\ calls'[c].step = "send"
          /\ \A d \in Caller : d # c => calls'[d] = calls[d]
      BY <1>0, <1>5 DEF TagSource, IntakeShape, Call, IdleCall
    <2>2. /\ tags'[b][v] = "NO_THREATS_FOUND"
          /\ \A a \in Audio, w \in Version :
               tags[a][w] = "NO_THREATS_FOUND" => tags'[a][w] = "NO_THREATS_FOUND"
      BY <1>0, <1>5, <2>1 DEF TagSource, IntakeShape
    <2>3. \A a \in Audio, w \in Version : SourceOK(a, w) => SourceOK(a, w)'
      BY <2>2
    <2>4. /\ \A d \in Caller : calls[d].step \in {"send", "mark"} =>
                calls[d].audio \in Audio /\ calls[d].version \in Version
          /\ \A m \in scanQueue : m.audio \in Audio /\ m.version \in Version
          /\ \A a \in Audio : audios[a].version # NoVersion => audios[a].version \in Version
      BY <1>0 DEF IntakeShape, StoreTypeOK, AudioRow, ScanMessage, Call, IdleCall
    <2> QED
      BY <1>5, <2>1, <2>2, <2>3, <2>4 DEF TagSource, storeVars
  <1>6. ASSUME NEW c \in Caller, SendScanResult(c)
        PROVE  SourceInv'
    <2> DEFINE m == AdapterMessage(calls[c].audio, calls[c].version)
    <2>1. m.audio = calls[c].audio /\ m.version = calls[c].version
      BY DEF AdapterMessage
    <2>2. /\ scanQueue' = scanQueue \cup {m}
          /\ calls[c].step = "send"
          /\ UNCHANGED <<storeVars, tags>>
      BY <1>6 DEF SendScanResult
    <2>3. /\ calls'[c].step = "mark"
          /\ \A d \in Caller : /\ calls'[d].audio = calls[d].audio
                               /\ calls'[d].version = calls[d].version
                               /\ d # c => calls'[d] = calls[d]
      BY <1>0, <1>6 DEF SendScanResult, IntakeShape, Call, IdleCall
    <2> HIDE DEF m
    <2> QED
      BY <2>1, <2>2, <2>3 DEF storeVars
  <1>7. ASSUME NEW c \in Caller, FinishComplete(c)
        PROVE  SourceInv'
    <2> DEFINE b == calls[c].audio
               v == calls[c].version
               row == [audios[b] EXCEPT !.verified = TRUE, !.version = Pin(audios[b], v)]
               status == StatusOnceVerified(audios[b], v)
    <2>1. /\ b \in Audio /\ v \in Version /\ SourceOK(b, v)
          /\ \A d \in Caller : d # c => calls'[d] = calls[d]
          /\ calls'[c].step = "idle"
      BY <1>0, <1>7 DEF FinishComplete, IntakeShape, Call, IdleCall
    <2>2. audios[b] \in AudioRow
      BY <1>0, <2>1 DEF IntakeShape, StoreTypeOK
    <2>3. Pin(audios[b], v) \in Version
      BY <2>1, <2>2, PinType
    <2>4. row \in AudioRow /\ row.version = Pin(audios[b], v)
      BY <2>2, <2>3 DEF AudioRow
    <2>5. CommitRow(b, row, status) /\ tags' = tags /\ scanQueue' = scanQueue
      BY <1>7 DEF FinishComplete, MarkUploadVerified
    <2>6. /\ audios'[b] = [row EXCEPT !.status = IF status = "CLEAN" THEN "QUEUED" ELSE status]
          /\ \A d \in Audio : d # b => audios'[d] = audios[d]
      <3> HIDE DEF row, status
      <3> QED
        BY <1>0, <2>1, <2>4, <2>5, CommitRowColumns DEF IntakeShape
    <2>7. audios'[b].version = Pin(audios[b], v)
      <3> HIDE DEF row, status
      <3> QED
        BY <2>4, <2>6 DEF AudioRow
    <2>8. SourceOK(b, Pin(audios[b], v))
      BY <2>1 DEF Pin
    <2> HIDE DEF row, status
    <2>9. ASSUME NEW a \in Audio, audios'[a].version # NoVersion
          PROVE  SourceOK(a, audios[a].version)'
      <3>1. CASE a = b
        BY <3>1, <2>5, <2>7, <2>8
      <3>2. CASE a # b
        BY <3>2, <2>5, <2>6, <2>9
      <3> QED
        BY <3>1, <3>2
    <2>10. \A d \in Caller :
            /\ calls'[d].step = "tag" => calls'[d].version \in Conforming
            /\ calls'[d].step \in {"send", "mark"} =>
                  SourceOK(calls[d].audio, calls[d].version)'
      BY <2>1, <2>5
    <2> QED
      BY <2>5, <2>9, <2>10
  <1>8. ASSUME NEW c \in Caller, AbortComplete(c)
        PROVE  SourceInv'
    BY <1>0, <1>8 DEF AbortComplete, storeVars, IntakeShape, IdleCall
  <1>9. ASSUME NEW m \in scanQueue, ConsumeScanResult(m)
        PROVE  SourceInv'
    <2> DEFINE b == m.audio
               verdict == EffectiveVerdict(audios[b], m)
               row == [audios[b] EXCEPT !.version = Pin(audios[b], m.version), !.scan = verdict]
               status == StatusOnceScanned(audios[b], verdict)
    <2>1. /\ b \in Audio /\ m.version \in Version /\ SourceOK(b, m.version)
          /\ m.status \in ScanStatus
      BY <1>0 DEF IntakeShape, ScanMessage
    <2>2. /\ tags' = tags /\ calls' = calls /\ scanQueue' \subseteq scanQueue
          /\ ProcessScanResult(m)
      BY <1>9 DEF ConsumeScanResult
    <2>3. CASE UNCHANGED storeVars
      BY <2>2, <2>3 DEF storeVars
    <2>4. CASE CommitRow(b, row, status)
      <3>1. audios[b] \in AudioRow
        BY <1>0, <2>1 DEF IntakeShape, StoreTypeOK
      <3>2. Pin(audios[b], m.version) \in Version
        BY <2>1, <3>1, PinType
      <3>3. verdict \in ScanStatus
        BY <2>1 DEF EffectiveVerdict, ScanStatus
      <3>4. row \in AudioRow /\ row.version = Pin(audios[b], m.version)
        BY <3>1, <3>2, <3>3 DEF AudioRow
      <3>5. /\ audios'[b] = [row EXCEPT !.status = IF status = "CLEAN" THEN "QUEUED" ELSE status]
            /\ \A d \in Audio : d # b => audios'[d] = audios[d]
        <4> HIDE DEF row, status, verdict
        <4> QED
          BY <1>0, <2>1, <2>4, <3>4, CommitRowColumns DEF IntakeShape
      <3>6. audios'[b].version = Pin(audios[b], m.version)
        <4> HIDE DEF row, status, verdict
        <4> QED
          BY <3>4, <3>5 DEF AudioRow
      <3>7. SourceOK(b, Pin(audios[b], m.version))
        BY <2>1 DEF Pin
      <3> HIDE DEF row, status, verdict
      <3> QED
        BY <2>1, <2>2, <3>5, <3>6, <3>7
    <2> QED
      BY <2>2, <2>3, <2>4 DEF ProcessScanResult
  <1>10. CASE UNCHANGED intakeVars
    BY <1>10 DEF intakeVars, intakeOnlyVars, storeVars
  <1> QED
    BY <1>1, <1>2, <1>3, <1>4, <1>5, <1>6, <1>7, <1>8, <1>9, <1>10
       DEF IntakeNext, CompleteStep

LEMMA SourceInvRequests == IntakeInv /\ SourceInv => RequestedSourceConforms /\ RequestedSourceIsTagged
  <1> SUFFICES ASSUME IntakeInv, SourceInv, NEW e \in outbox
               PROVE  e.version \in Conforming /\ tags[e.audio][e.version] = "NO_THREATS_FOUND"
    BY DEF RequestedSourceConforms, RequestedSourceIsTagged
  <1>1. e.audio \in Audio /\ e.version \in Version /\ audios[e.audio].version = e.version
    BY DEF IntakeInv, IntakeShape, StoreTypeOK, OutboxEvent, RequestsAreGated
  <1>2. e.version # NoVersion
    BY <1>1, StoreAssumption DEF Version, NoVersion
  <1> QED
    BY <1>1, <1>2 DEF SourceInv, SourceOK

LEMMA SourceInvInit == IntakeInit => SourceInv
  BY DEF IntakeInit, StoreInit, SourceInv, IdleCall, AbsentAudio

LEMMA SourceInvAlways ==
    ASSUME ScannerVerdicts = {}
    PROVE  IntakeSpec => [](IntakeInv /\ SourceInv)
  <1>1. IntakeInv /\ SourceInv /\ [IntakeNext]_intakeVars => SourceInv'
    BY SourceInvNext, IntakeInvNext DEF IntakeInv
  <1> QED
    BY <1>1, SourceInvInit, IntakeInvInit, IntakeInvNext, PTL DEF IntakeSpec

\* Where the adapter is the only scanner, the transcoder is only ever given a version
\* that CompleteUpload compared with the record, whoever uploads what in between.
THEOREM RequestedConform ==
    ASSUME ScannerVerdicts = {}
    PROVE  IntakeSpec => []RequestedSourceConforms
  BY SourceInvAlways, SourceInvRequests, PTL

\* ... and one that carries the clean tag by then: the worker does not refuse it.
THEOREM RequestedTagged ==
    ASSUME ScannerVerdicts = {}
    PROVE  IntakeSpec => []RequestedSourceIsTagged
  BY SourceInvAlways, SourceInvRequests, PTL

-----------------------------------------------------------------------------
(* One call at a time: one request per audio, carrying the id of its job.  *)

\* While a call is in flight nobody else verifies its upload, a scan status other
\* than PENDING comes from the adapter's one event, and requests and jobs exist
\* only after that event and for each other.
SerialInv ==
    /\ \A m \in scanQueue : m.id = AdapterEventId(m.audio)
    /\ \A a \in Audio : audios[a].scan # "PENDING" => AdapterEventId(a) \in processed
    /\ \A c \in Caller : calls[c].step # "idle" => ~audios[calls[c].audio].verified
    /\ \A e \in outbox : AdapterEventId(e.audio) \in processed
    /\ \A a \in Audio : jobs[a].id # NoId => \E e \in outbox : e.audio = a

\* A transaction on an audio without a request gives it at most one, with its job.
LEMMA CommitRowOnce ==
    ASSUME StoreTypeOK, RequestMatchesJob, NEW a \in Audio, NEW row, NEW status,
           CommitRow(a, row, status),
           jobs[a].id = NoId,
           \A e \in outbox : e.audio # a
    PROVE  /\ RequestMatchesJob'
           /\ \A e \in outbox' : e \in outbox \/ (e.audio = a /\ status = "CLEAN")
           /\ outbox \subseteq outbox'
           /\ \A b \in Audio : jobs'[b].id # NoId =>
                 jobs[b].id # NoId \/ \E e \in outbox' : e.audio = b
  <1>1. CASE status = "CLEAN"
    <2>1. PICK id \in FreshId : EnqueueInitialTranscode(a, row, id)
      BY <1>1 DEF CommitRow
    <2> DEFINE new == [id |-> id, audio |-> a, version |-> row.version]
    <2>2. outbox' = outbox \cup {new} /\ new.audio = a /\ new.id = id
      BY <2>1 DEF EnqueueInitialTranscode
    <2>3. jobs'[a].id = id /\ \A b \in Audio : b # a => jobs'[b] = jobs[b]
      BY <2>1 DEF EnqueueInitialTranscode, StoreTypeOK, AbsentJob
    <2>4. \A e \in outbox : e.audio \in Audio
      BY DEF StoreTypeOK, OutboxEvent
    <2> HIDE DEF new
    <2>5. RequestMatchesJob'
      BY <2>2, <2>3, <2>4 DEF RequestMatchesJob
    <2> QED
      BY <1>1, <2>2, <2>3, <2>5
  <1>2. CASE status # "CLEAN"
    BY <1>2 DEF CommitRow, RequestMatchesJob
  <1> QED
    BY <1>1, <1>2

LEMMA SerialInvNext ==
    ASSUME ScannerVerdicts = {}, \A c, d \in Caller : c = d,
           IntakeInv, IntakeInv', SerialInv, RequestMatchesJob, [IntakeNext]_intakeVars
    PROVE  SerialInv' /\ RequestMatchesJob'
  <1> USE DEF SerialInv
  <1>0. IntakeShape /\ RequestsAreGated
    BY DEF IntakeInv
  <1>1. ASSUME NEW a \in Audio, CreateUpload(a)
        PROVE  SerialInv' /\ RequestMatchesJob'
    <2>1. /\ UNCHANGED <<jobs, outbox, processed, scanQueue, calls>>
          /\ \A b \in Audio : /\ audios'[b].scan = audios[b].scan
                              /\ audios'[b].verified = audios[b].verified
      BY <1>0, <1>1 DEF CreateUpload, InsertAudio, intakeOnlyVars, IntakeShape, StoreTypeOK, AudioRow
    <2>2. \A c \in Caller : calls[c].step # "idle" => calls[c].audio \in Audio
      BY <1>0 DEF IntakeShape, Call, IdleCall
    <2> QED
      BY <2>1, <2>2 DEF RequestMatchesJob
  <1>2. ASSUME NEW a \in Audio, PutSource(a)
        PROVE  SerialInv' /\ RequestMatchesJob'
    BY <1>2 DEF PutSource, storeVars, RequestMatchesJob
  <1>3. ASSUME NEW c \in Caller, NEW a \in Audio, BeginComplete(c, a)
        PROVE  SerialInv' /\ RequestMatchesJob'
    BY <1>0, <1>3 DEF BeginComplete, storeVars, IntakeShape, RequestMatchesJob
  <1>4. ASSUME NEW c \in Caller,
               HeadSource(c) \/ TagSource(c) \/ AbortComplete(c)
        PROVE  SerialInv' /\ RequestMatchesJob'
    <2>1. UNCHANGED <<storeVars, scanQueue>>
      BY <1>4 DEF HeadSource, TagSource, AbortComplete
    <2>2. \A d \in Caller : calls'[d].step # "idle" =>
            calls[d].step # "idle" /\ calls'[d].audio = calls[d].audio
      <3>1. CASE HeadSource(c)
        BY <1>0, <3>1 DEF HeadSource, IntakeShape, Call, IdleCall
      <3>2. CASE TagSource(c)
        BY <1>0, <3>2 DEF TagSource, IntakeShape, Call, IdleCall
      <3>3. CASE AbortComplete(c)
        BY <1>0, <3>3 DEF AbortComplete, IntakeShape, IdleCall
      <3> QED
        BY <1>4, <3>1, <3>2, <3>3
    <2> QED
      BY <2>1, <2>2 DEF storeVars, RequestMatchesJob
  <1>5. ASSUME NEW c \in Caller, SendScanResult(c)
        PROVE  SerialInv' /\ RequestMatchesJob'
    <2>1. /\ UNCHANGED storeVars
          /\ scanQueue' = scanQueue \cup {AdapterMessage(calls[c].audio, calls[c].version)}
          /\ \A d \in Caller : calls'[d].step # "idle" =>
                calls[d].step # "idle" /\ calls'[d].audio = calls[d].audio
      BY <1>0, <1>5 DEF SendScanResult, IntakeShape, Call, IdleCall
    <2>2. \A m \in scanQueue' : m.id = AdapterEventId(m.audio)
      BY <2>1 DEF AdapterMessage
    <2> QED
      BY <2>1, <2>2 DEF storeVars, RequestMatchesJob
  <1>6. ASSUME NEW c \in Caller, FinishComplete(c)
        PROVE  SerialInv' /\ RequestMatchesJob'
    <2> DEFINE b == calls[c].audio
               v == calls[c].version
               row == [audios[b] EXCEPT !.verified = TRUE, !.version = Pin(audios[b], v)]
               status == StatusOnceVerified(audios[b], v)
    <2>1. /\ b \in Audio /\ v \in Version /\ ~audios[b].verified
          /\ \A d \in Caller : calls'[d].step = "idle"
      BY <1>0, <1>6 DEF FinishComplete, IntakeShape, Call, IdleCall
    <2>2. CommitRow(b, row, status) /\ UNCHANGED <<processed, scanQueue>>
      BY <1>6 DEF FinishComplete, MarkUploadVerified
    <2>3. /\ audios[b] \in AudioRow
          /\ \A e \in outbox : e.audio # b
          /\ jobs[b].id = NoId
      BY <1>0, <2>1 DEF RequestsAreGated, IntakeShape, StoreTypeOK
    <2>4. row \in AudioRow /\ row.scan = audios[b].scan
      BY <2>1, <2>3, PinType DEF AudioRow
    <2>5. status = "CLEAN" => audios[b].scan = "NO_THREATS_FOUND"
      BY <2>3 DEF StatusOnceVerified, AudioRow, ScanStatus
    <2> HIDE DEF row, status
    <2>6. /\ audios'[b].scan = audios[b].scan
          /\ \A d \in Audio : d # b => audios'[d] = audios[d]
      <3>1. /\ audios'[b] = [row EXCEPT !.status = IF status = "CLEAN" THEN "QUEUED" ELSE status]
            /\ \A d \in Audio : d # b => audios'[d] = audios[d]
        BY <1>0, <2>1, <2>2, <2>4, CommitRowColumns DEF IntakeShape
      <3> QED
        BY <2>4, <3>1 DEF AudioRow
    <2>7. /\ RequestMatchesJob'
          /\ \A e \in outbox' : e \in outbox \/ (e.audio = b /\ status = "CLEAN")
          /\ outbox \subseteq outbox'
          /\ \A d \in Audio : jobs'[d].id # NoId =>
                jobs[d].id # NoId \/ \E e \in outbox' : e.audio = d
      BY <1>0, <2>1, <2>2, <2>3, CommitRowOnce DEF IntakeShape
    <2>8. \A a \in Audio : audios'[a].scan # "PENDING" => AdapterEventId(a) \in processed'
      BY <2>2, <2>6
    <2>9. \A e \in outbox' : AdapterEventId(e.audio) \in processed'
      BY <2>1, <2>2, <2>5, <2>7
    <2>10. \A a \in Audio : jobs'[a].id # NoId => \E e \in outbox' : e.audio = a
      BY <2>7
    <2> QED
      BY <2>1, <2>2, <2>7, <2>8, <2>9, <2>10
  <1>7. ASSUME NEW m \in scanQueue, ConsumeScanResult(m)
        PROVE  SerialInv' /\ RequestMatchesJob'
    <2> DEFINE b == m.audio
               verdict == EffectiveVerdict(audios[b], m)
               row == [audios[b] EXCEPT !.version = Pin(audios[b], m.version), !.scan = verdict]
               status == StatusOnceScanned(audios[b], verdict)
    <2>1. /\ b \in Audio /\ m.version \in Version /\ m.status \in ScanStatus
          /\ m.id = AdapterEventId(b)
      BY <1>0 DEF IntakeShape, ScanMessage
    <2>2. calls' = calls /\ scanQueue' \subseteq scanQueue /\ ProcessScanResult(m)
      BY <1>7 DEF ConsumeScanResult
    <2>3. CASE UNCHANGED storeVars
      BY <2>2, <2>3 DEF storeVars, RequestMatchesJob
    <2>4. CASE /\ m.id \notin processed
               /\ processed' = processed \cup {m.id}
               /\ CommitRow(b, row, status)
      <3>1. /\ audios[b] \in AudioRow
            /\ \A e \in outbox : e.audio # b
            /\ jobs[b].id = NoId
        BY <1>0, <2>1, <2>4 DEF IntakeShape, StoreTypeOK
      <3>2. verdict \in ScanStatus
        BY <2>1 DEF EffectiveVerdict, ScanStatus
      <3>3. row \in AudioRow /\ row.verified = audios[b].verified
        BY <2>1, <3>1, <3>2, PinType DEF AudioRow
      <3> HIDE DEF row, status, verdict
      <3>4. /\ audios'[b].verified = audios[b].verified
            /\ \A d \in Audio : d # b => audios'[d] = audios[d]
        <4>1. /\ audios'[b] = [row EXCEPT !.status = IF status = "CLEAN" THEN "QUEUED" ELSE status]
              /\ \A d \in Audio : d # b => audios'[d] = audios[d]
          BY <1>0, <2>1, <2>4, <3>3, CommitRowColumns DEF IntakeShape
        <4> QED
          BY <3>3, <4>1 DEF AudioRow
      <3>5. /\ RequestMatchesJob'
            /\ \A e \in outbox' : e \in outbox \/ (e.audio = b /\ status = "CLEAN")
            /\ outbox \subseteq outbox'
            /\ \A d \in Audio : jobs'[d].id # NoId =>
                  jobs[d].id # NoId \/ \E e \in outbox' : e.audio = d
        BY <1>0, <2>1, <2>4, <3>1, CommitRowOnce DEF IntakeShape
      <3>6. \A a \in Audio : audios'[a].scan # "PENDING" => AdapterEventId(a) \in processed'
        BY <2>1, <2>4, <3>4
      <3>7. \A c \in Caller : calls'[c].step # "idle" => ~audios'[calls'[c].audio].verified
        <4>1. \A c \in Caller : calls[c].step # "idle" => calls[c].audio \in Audio
          BY <1>0 DEF IntakeShape, Call, IdleCall
        <4>2. \A d \in Audio : audios'[d].verified = audios[d].verified
          BY <3>4
        <4> QED
          BY <4>1, <4>2, <2>2
      <3>8. \A e \in outbox' : AdapterEventId(e.audio) \in processed'
        BY <2>1, <2>4, <3>5
      <3>9. \A a \in Audio : jobs'[a].id # NoId => \E e \in outbox' : e.audio = a
        BY <3>5
      <3> QED
        BY <2>2, <3>5, <3>6, <3>7, <3>8, <3>9
    <2> QED
      BY <2>2, <2>3, <2>4 DEF ProcessScanResult
  <1>8. CASE UNCHANGED intakeVars
    BY <1>8 DEF intakeVars, intakeOnlyVars, storeVars, RequestMatchesJob
  <1> QED
    BY <1>1, <1>2, <1>3, <1>4, <1>5, <1>6, <1>7, <1>8 DEF IntakeNext, CompleteStep

\* With one call at a time and the adapter as the only scanner, an audio gets at
\* most one transcode request and that request names its job.  (Run
\* IntakeDoubleComplete shows that two overlapping calls are enough to break it.)
THEOREM SerialRequests ==
    ASSUME ScannerVerdicts = {}, \A c, d \in Caller : c = d
    PROVE  IntakeSpec => []RequestMatchesJob
  <1>1. IntakeInit => SerialInv /\ RequestMatchesJob
    BY DEF IntakeInit, StoreInit, SerialInv, RequestMatchesJob, IdleCall, AbsentAudio, AbsentJob
  <1>2. IntakeInv /\ IntakeInv' /\ SerialInv /\ RequestMatchesJob /\ [IntakeNext]_intakeVars
          => SerialInv' /\ RequestMatchesJob'
    BY SerialInvNext
  <1>3. IntakeInv /\ [IntakeNext]_intakeVars => IntakeInv'
    BY IntakeInvNext
  <1> QED
    BY <1>1, <1>2, <1>3, IntakeInvInit, PTL DEF IntakeSpec

-----------------------------------------------------------------------------
(* The pinned version                                                      *)

Pinned ==
    /\ \A a \in Audio : audios[a].version # NoVersion => audios'[a].version = audios[a].version
    /\ outbox \subseteq outbox'
    /\ processed \subseteq processed'

\* A transaction that writes a row with the version of Pin pins for good.
LEMMA CommitRowPins ==
    ASSUME StoreTypeOK, NEW a \in Audio, NEW row \in AudioRow, NEW status,
           audios[a].version # NoVersion => row.version = audios[a].version,
           CommitRow(a, row, status)
    PROVE  /\ \A b \in Audio : audios[b].version # NoVersion =>
                audios'[b].version = audios[b].version
           /\ outbox \subseteq outbox'
  <1>1. /\ audios'[a] = [row EXCEPT !.status = IF status = "CLEAN" THEN "QUEUED" ELSE status]
        /\ \A b \in Audio : b # a => audios'[b] = audios[b]
    BY CommitRowColumns
  <1>2. audios'[a].version = row.version
    BY <1>1 DEF AudioRow
  <1>3. outbox \subseteq outbox'
    BY DEF CommitRow, EnqueueInitialTranscode
  <1> QED
    BY <1>1, <1>2, <1>3

LEMMA IntakePins ==
    ASSUME IntakeShape, IntakeNext
    PROVE  Pinned
  <1> USE DEF Pinned
  <1>1. ASSUME NEW a \in Audio, CreateUpload(a) \/ PutSource(a)
        PROVE  Pinned
    <2>1. CASE CreateUpload(a)
      <3>1. audios' = [audios EXCEPT ![a].status = "UPLOAD_PENDING"]
            /\ UNCHANGED <<outbox, processed>>
        BY <2>1 DEF CreateUpload, InsertAudio
      <3>2. \A b \in Audio : audios'[b].version = audios[b].version
        BY <3>1 DEF IntakeShape, StoreTypeOK, AudioRow
      <3> QED
        BY <3>1, <3>2
    <2>2. CASE PutSource(a)
      BY <2>2 DEF PutSource, storeVars
    <2> QED
      BY <1>1, <2>1, <2>2
  <1>2. ASSUME UNCHANGED storeVars
        PROVE  Pinned
    BY <1>2 DEF storeVars
  <1>3. ASSUME NEW c \in Caller, FinishComplete(c)
        PROVE  Pinned
    <2> DEFINE a == calls[c].audio
               v == calls[c].version
               row == [audios[a] EXCEPT !.verified = TRUE, !.version = Pin(audios[a], v)]
               status == StatusOnceVerified(audios[a], v)
    <2>1. a \in Audio /\ v \in Version
      BY <1>3 DEF IntakeShape, FinishComplete, Call, IdleCall
    <2>2. audios[a] \in AudioRow
      BY <2>1 DEF IntakeShape, StoreTypeOK
    <2>3. row \in AudioRow /\ row.version = Pin(audios[a], v)
      BY <2>1, <2>2, PinType DEF AudioRow
    <2>4. audios[a].version # NoVersion => row.version = audios[a].version
      BY <2>3 DEF Pin
    <2>5. CommitRow(a, row, status) /\ UNCHANGED processed
      BY <1>3 DEF FinishComplete, MarkUploadVerified
    <2> HIDE DEF row, status
    <2> QED
      BY <2>1, <2>3, <2>4, <2>5, CommitRowPins DEF IntakeShape
  <1>4. ASSUME NEW m \in scanQueue, ConsumeScanResult(m)
        PROVE  Pinned
    <2> DEFINE a == m.audio
               verdict == EffectiveVerdict(audios[a], m)
               row == [audios[a] EXCEPT !.version = Pin(audios[a], m.version), !.scan = verdict]
               status == StatusOnceScanned(audios[a], verdict)
    <2>1. a \in Audio /\ m.version \in Version /\ m.status \in ScanStatus
      BY DEF IntakeShape, ScanMessage
    <2>2. audios[a] \in AudioRow /\ verdict \in ScanStatus
      BY <2>1 DEF IntakeShape, StoreTypeOK, EffectiveVerdict, ScanStatus
    <2>3. row \in AudioRow /\ row.version = Pin(audios[a], m.version)
      BY <2>1, <2>2, PinType DEF AudioRow
    <2>4. audios[a].version # NoVersion => row.version = audios[a].version
      BY <2>3 DEF Pin
    <2>5. \/ UNCHANGED storeVars
          \/ CommitRow(a, row, status) /\ processed \subseteq processed'
      BY <1>4 DEF ConsumeScanResult, ProcessScanResult
    <2> HIDE DEF row, status
    <2> QED
      BY <1>2, <2>1, <2>3, <2>4, <2>5, CommitRowPins DEF IntakeShape
  <1>5. ASSUME NEW c \in Caller, CompleteStep(c)
        PROVE  FinishComplete(c) \/ UNCHANGED storeVars
    BY <1>5 DEF CompleteStep, BeginComplete, HeadSource, TagSource, SendScanResult, AbortComplete
  <1>6. ASSUME NEW a \in Audio, NEW v \in Version, NEW verdict \in ScannerVerdicts,
               ScanExternally(a, v, verdict)
        PROVE  UNCHANGED storeVars
    BY <1>6 DEF ScanExternally
  <1> QED
    BY <1>1, <1>2, <1>3, <1>4, <1>5, <1>6 DEF IntakeNext

\* With any callers and any scanner, the source version of an audio is never
\* exchanged once it is pinned, and no request or event id is taken back.
THEOREM VersionPinned == IntakeSpec => PinnedForGood
  <1>1. ASSUME IntakeShape, [IntakeNext]_intakeVars
        PROVE  [Pinned]_intakeVars
    BY <1>1, IntakePins
  <1> QED
    BY <1>1, IntakeShapeAlways, PTL DEF IntakeSpec, PinnedForGood, Pinned

-----------------------------------------------------------------------------
(* AudioIntake implements UploadGate when completions follow one another   *)
(* and the adapter is the only scanner.  (Run IntakeDoubleComplete shows   *)
(* that two overlapping completions are enough to request twice.)          *)

\* The deployment of the repository, one completion at a time.
OneCall == ScannerVerdicts = {} /\ \A c, d \in Caller : c = d

Rejected(a) == audios[a].status \in {"QUARANTINED", "SCAN_FAILED"}
Requested(a) == Cardinality({e \in outbox : e.audio = a})

\* How the columns of a row hang together: the scan decides alone until the upload is
\* verified, and the worker settles only what was verified.
RowInv ==
    \A a \in Audio :
        /\ audios[a].status \in {"READY", "TRANSCODE_FAILED"} => audios[a].verified
        /\ audios[a].scan = "PENDING" =>
             ~Rejected(a) /\ (audios[a].verified \/ audios[a].version = NoVersion)
        /\ audios[a].scan = "NO_THREATS_FOUND" /\ ~audios[a].verified => ~Rejected(a)
        /\ audios[a].scan \notin {"PENDING", "NO_THREATS_FOUND"} => Rejected(a)

GateInv == IntakeInv /\ SerialInv /\ RequestMatchesJob /\ RowInv

-----------------------------------------------------------------------------
(* One transaction on a row                                                *)

\* The transactions of the intake, on an audio that was not requested yet.
LEMMA CommitRowEffect ==
    ASSUME StoreTypeOK, NEW a \in Audio, NEW row \in AudioRow, NEW status,
           CommitRow(a, row, status),
           \A e \in outbox : e.audio # a
    PROVE  /\ audios'[a].verified = row.verified
           /\ audios'[a].scan = row.scan
           /\ audios'[a].version = row.version
           /\ audios'[a].status = IF status = "CLEAN" THEN "QUEUED" ELSE status
           /\ \A b \in Audio : b # a => audios'[b] = audios[b]
           /\ Requested(a) = 0
           /\ Requested(a)' = IF status = "CLEAN" THEN 1 ELSE 0
           /\ \A b \in Audio : b # a => Requested(b)' = Requested(b)
  <1>1. /\ audios'[a] = [row EXCEPT !.status = IF status = "CLEAN" THEN "QUEUED" ELSE status]
        /\ \A b \in Audio : b # a => audios'[b] = audios[b]
    BY CommitRowColumns
  <1>2. /\ audios'[a].verified = row.verified
        /\ audios'[a].scan = row.scan
        /\ audios'[a].version = row.version
        /\ audios'[a].status = IF status = "CLEAN" THEN "QUEUED" ELSE status
    BY <1>1 DEF AudioRow
  <1>3. {e \in outbox : e.audio = a} = {} /\ Requested(a) = 0
    BY FS_EmptySet DEF Requested
  <1>4. CASE status = "CLEAN"
    <2>1. PICK id \in FreshId : EnqueueInitialTranscode(a, row, id)
      BY <1>4 DEF CommitRow
    <2> DEFINE new == [id |-> id, audio |-> a, version |-> row.version]
    <2>2. outbox' = outbox \cup {new} /\ new.audio = a
      BY <2>1 DEF EnqueueInitialTranscode
    <2> HIDE DEF new
    <2>3. {e \in outbox' : e.audio = a} = {new}
      BY <1>3, <2>2
    <2>4. Requested(a)' = 1
      BY <2>3, FS_Singleton DEF Requested
    <2>5. \A b \in Audio : b # a => {e \in outbox' : e.audio = b} = {e \in outbox : e.audio = b}
      BY <2>2
    <2>6. \A b \in Audio : b # a => Requested(b)' = Requested(b)
      BY <2>5 DEF Requested
    <2> QED
      BY <1>1, <1>2, <1>3, <1>4, <2>4, <2>6
  <1>5. CASE status # "CLEAN"
    <2>1. outbox' = outbox
      BY <1>5 DEF CommitRow
    <2>2. \A b \in Audio : Requested(b)' = Requested(b)
      BY <2>1 DEF Requested
    <2> QED
      BY <1>1, <1>2, <1>3, <1>5, <2>2
  <1> QED
    BY <1>4, <1>5

-----------------------------------------------------------------------------
(* The abstract state                                                      *)

\* GateVerdict in terms of the rows' Rejected, before and after a step.
LEMMA VerdictOf ==
    ASSUME StoreTypeOK, RowInv, NEW a \in Audio
    PROVE  GateVerdict(a) = IF Rejected(a) THEN "rejected"
                            ELSE IF audios[a].scan = "NO_THREATS_FOUND" THEN "clear" ELSE "none"
  BY DEF GateVerdict, Rejected

LEMMA VerdictAfter ==
    ASSUME StoreTypeOK', RowInv', NEW a \in Audio
    PROVE  GateVerdict(a)' = IF Rejected(a)' THEN "rejected"
                             ELSE IF audios'[a].scan = "NO_THREATS_FOUND" THEN "clear" ELSE "none"
  BY DEF GateVerdict, Rejected

\* A change of one audio's abstract state, as the gate's actions write it.
LEMMA GateConfirms ==
    ASSUME NEW a \in Audio, ~audios[a].verified, audios'[a].verified = TRUE,
           \A b \in Audio : b # a => audios'[b].verified = audios[b].verified,
           \A b \in Audio : GateVerdict(b)' = GateVerdict(b),
           \A b \in Audio : b # a => Requested(b)' = Requested(b),
           Requested(a)' = IF GateVerdict(a) = "clear" THEN Requested(a) + 1 ELSE Requested(a)
    PROVE  Gate!GateNext
  <1>1. Gate!Confirm(a)
    BY DEF Gate!Confirm, Gate!Request, Requested
  <1> QED
    BY <1>1 DEF Gate!GateNext

LEMMA GateConfirmsAnother ==
    ASSUME NEW a \in Audio, ~audios[a].verified, audios'[a].verified = TRUE,
           \A b \in Audio : b # a => audios'[b].verified = audios[b].verified,
           GateVerdict(a) = "clear", GateVerdict(a)' = "rejected",
           \A b \in Audio : b # a => GateVerdict(b)' = GateVerdict(b),
           \A b \in Audio : Requested(b)' = Requested(b)
    PROVE  Gate!GateNext
  <1>1. Gate!ConfirmAnother(a)
    BY DEF Gate!ConfirmAnother, Requested
  <1> QED
    BY <1>1 DEF Gate!GateNext

LEMMA GateJudges ==
    ASSUME NEW a \in Audio, NEW v \in {"clear", "rejected"},
           GateVerdict(a) = "none", GateVerdict(a)' = v,
           \A b \in Audio : b # a => GateVerdict(b)' = GateVerdict(b),
           \A b \in Audio : audios'[b].verified = audios[b].verified,
           \A b \in Audio : b # a => Requested(b)' = Requested(b),
           Requested(a)' = IF v = "clear" /\ audios[a].verified
                             THEN Requested(a) + 1 ELSE Requested(a)
    PROVE  Gate!GateNext
  <1>1. Gate!Judge(a, v)
    BY DEF Gate!Judge, Gate!Request, Requested
  <1> QED
    BY <1>1 DEF Gate!GateNext

-----------------------------------------------------------------------------
(* The two transactions                                                    *)

\* RowInv carries over to the rows a transaction leaves alone.
LEMMA RowInvElsewhere ==
    ASSUME RowInv, NEW a \in Audio,
           \A b \in Audio : b # a => audios'[b] = audios[b],
           /\ audios'[a].status \in {"READY", "TRANSCODE_FAILED"} => audios'[a].verified
           /\ audios'[a].scan = "PENDING" =>
                ~Rejected(a)' /\ (audios'[a].verified \/ audios'[a].version = NoVersion)
           /\ audios'[a].scan = "NO_THREATS_FOUND" /\ ~audios'[a].verified => ~Rejected(a)'
           /\ audios'[a].scan \notin {"PENDING", "NO_THREATS_FOUND"} => Rejected(a)'
    PROVE  RowInv'
  <1>1. ASSUME NEW b \in Audio, b # a
        PROVE  /\ audios'[b] = audios[b]
               /\ Rejected(b)' <=> Rejected(b)
    BY <1>1 DEF Rejected
  <1> QED
    BY <1>1 DEF RowInv

LEMMA VerdictElsewhere ==
    ASSUME NEW a \in Audio, audios'[a] = audios[a]
    PROVE  GateVerdict(a)' = GateVerdict(a)
  BY DEF GateVerdict

LEMMA FinishCompleteGate ==
    ASSUME GateInv, StoreTypeOK', NEW c \in Caller, FinishComplete(c),
           NEW a, NEW v, a = calls[c].audio, v = calls[c].version
    PROVE  RowInv' /\ Gate!GateNext
  <1> DEFINE row == [audios[a] EXCEPT !.verified = TRUE, !.version = Pin(audios[a], v)]
             status == StatusOnceVerified(audios[a], v)
  <1>1. IntakeShape /\ StoreTypeOK /\ RowInv
    BY DEF GateInv, IntakeInv, IntakeShape
  <1>2. a \in Audio /\ v \in Version
    BY <1>1 DEF FinishComplete, IntakeShape, Call, IdleCall
  <1>3. ~audios[a].verified /\ audios[a] \in AudioRow /\ \A e \in outbox : e.audio # a
    BY <1>1, <1>2 DEF GateInv, SerialInv, IntakeInv, RequestsAreGated, FinishComplete, StoreTypeOK
  <1>4. row \in AudioRow /\ row.verified /\ row.scan = audios[a].scan
    BY <1>2, <1>3, PinType DEF AudioRow
  <1>5. CommitRow(a, row, status)
    BY DEF FinishComplete, MarkUploadVerified
  <1>6. /\ audios[a].scan \in ScanStatus
        /\ status = "CLEAN" =>
             audios[a].scan = "NO_THREATS_FOUND" /\ audios[a].version \in {NoVersion, v}
        /\ status \in {"CLEAN", "SCANNING", "QUARANTINED", "SCAN_FAILED"}
        /\ status = "SCANNING" => audios[a].scan = "PENDING"
        /\ audios[a].scan = "PENDING" => status = "SCANNING"
        /\ audios[a].scan = "NO_THREATS_FOUND" => status \in {"CLEAN", "SCAN_FAILED"}
    BY <1>1, <1>2, <1>3 DEF StatusOnceVerified, AudioRow, ScanStatus, RowInv
  <1> HIDE DEF row, status
  <1>7. /\ audios'[a].verified = TRUE
        /\ audios'[a].scan = audios[a].scan
        /\ audios'[a].status = IF status = "CLEAN" THEN "QUEUED" ELSE status
        /\ \A b \in Audio : b # a => audios'[b] = audios[b]
        /\ Requested(a) = 0
        /\ Requested(a)' = IF status = "CLEAN" THEN 1 ELSE 0
        /\ \A b \in Audio : b # a => Requested(b)' = Requested(b)
    BY <1>1, <1>2, <1>3, <1>4, <1>5, CommitRowEffect DEF AudioRow
  <1>8. Rejected(a)' <=> status \in {"QUARANTINED", "SCAN_FAILED"}
    BY <1>6, <1>7 DEF Rejected
  <1>9. RowInv'
    BY <1>1, <1>2, <1>6, <1>7, <1>8, RowInvElsewhere
  <1>10. /\ GateVerdict(a) = IF Rejected(a) THEN "rejected"
                             ELSE IF audios[a].scan = "NO_THREATS_FOUND" THEN "clear" ELSE "none"
         /\ GateVerdict(a)' = IF Rejected(a)' THEN "rejected"
                              ELSE IF audios'[a].scan = "NO_THREATS_FOUND" THEN "clear" ELSE "none"
    BY <1>1, <1>2, <1>9, VerdictOf, VerdictAfter
  <1>11. \A b \in Audio : b # a => GateVerdict(b)' = GateVerdict(b)
    BY <1>7, VerdictElsewhere
  <1>12. \A b \in Audio : b # a => audios'[b].verified = audios[b].verified
    BY <1>7
  <1>13. /\ audios[a].scan = "PENDING" => ~Rejected(a)
         /\ audios[a].scan = "NO_THREATS_FOUND" => ~Rejected(a)
         /\ audios[a].scan \notin {"PENDING", "NO_THREATS_FOUND"} => Rejected(a)
    BY <1>1, <1>2, <1>3 DEF RowInv
  <1>14. CASE status = "CLEAN"
    <2>1. GateVerdict(a) = "clear" /\ GateVerdict(a)' = "clear"
      BY <1>6, <1>7, <1>8, <1>10, <1>13, <1>14
    <2>2. \A b \in Audio : GateVerdict(b)' = GateVerdict(b)
      BY <1>11, <2>1
    <2>3. Requested(a)' = Requested(a) + 1
      BY <1>7, <1>14
    <2>4. Gate!GateNext
      BY <1>2, <1>3, <1>7, <1>12, <2>1, <2>2, <2>3, GateConfirms
    <2> QED
      BY <1>9, <2>4
  <1>15. CASE status # "CLEAN" /\ audios[a].scan = "NO_THREATS_FOUND"
    <2>1. GateVerdict(a) = "clear" /\ GateVerdict(a)' = "rejected"
      BY <1>6, <1>7, <1>8, <1>10, <1>13, <1>15
    <2>2. \A b \in Audio : Requested(b)' = Requested(b)
      BY <1>7, <1>15
    <2> QED
      BY <1>2, <1>3, <1>7, <1>9, <1>11, <1>12, <2>1, <2>2, GateConfirmsAnother
  <1>16. CASE audios[a].scan # "NO_THREATS_FOUND"
    <2>1. GateVerdict(a)' = GateVerdict(a) /\ GateVerdict(a) # "clear" /\ status # "CLEAN"
      BY <1>6, <1>7, <1>8, <1>10, <1>13, <1>16
    <2> QED
      BY <1>2, <1>3, <1>7, <1>9, <1>11, <1>12, <2>1, GateConfirms
  <1> QED
    BY <1>14, <1>15, <1>16

LEMMA ConsumeScanResultGate ==
    ASSUME GateInv, StoreTypeOK', NEW m \in scanQueue, ConsumeScanResult(m), ~UNCHANGED storeVars
    PROVE  RowInv' /\ Gate!GateNext
  <1> DEFINE a == m.audio
             verdict == EffectiveVerdict(audios[a], m)
             row == [audios[a] EXCEPT !.version = Pin(audios[a], m.version), !.scan = verdict]
             status == StatusOnceScanned(audios[a], verdict)
  <1>1. IntakeShape /\ StoreTypeOK /\ RowInv
    BY DEF GateInv, IntakeInv, IntakeShape
  <1>2. /\ a \in Audio /\ m.version \in Version /\ m.status \in ScanStatus \ {"PENDING"}
        /\ m.id = AdapterEventId(a)
    BY <1>1 DEF IntakeShape, ScanMessage, GateInv, SerialInv
  <1>3. m.id \notin processed /\ CommitRow(a, row, status)
    BY DEF ConsumeScanResult, ProcessScanResult
  <1>4. audios[a] \in AudioRow /\ audios[a].scan = "PENDING" /\ \A e \in outbox : e.audio # a
    BY <1>1, <1>2, <1>3 DEF GateInv, SerialInv, StoreTypeOK
  <1>5. verdict \in ScanStatus \ {"PENDING"}
    BY <1>2 DEF EffectiveVerdict, ScanStatus
  <1>6. row \in AudioRow /\ row.verified = audios[a].verified /\ row.scan = verdict
    BY <1>2, <1>4, <1>5, PinType DEF AudioRow
  <1>7. /\ verdict = "NO_THREATS_FOUND" =>
             status = IF audios[a].verified THEN "CLEAN" ELSE "SCANNING"
        /\ verdict # "NO_THREATS_FOUND" => status \in {"QUARANTINED", "SCAN_FAILED"}
    BY <1>5 DEF StatusOnceScanned
  <1> HIDE DEF verdict, row, status
  <1>8. /\ audios'[a].verified = audios[a].verified
        /\ audios'[a].scan = verdict
        /\ audios'[a].status = IF status = "CLEAN" THEN "QUEUED" ELSE status
        /\ \A b \in Audio : b # a => audios'[b] = audios[b]
        /\ Requested(a) = 0
        /\ Requested(a)' = IF status = "CLEAN" THEN 1 ELSE 0
        /\ \A b \in Audio : b # a => Requested(b)' = Requested(b)
    BY <1>1, <1>2, <1>3, <1>4, <1>6, CommitRowEffect
  <1>9. Rejected(a)' <=> verdict # "NO_THREATS_FOUND"
    BY <1>7, <1>8 DEF Rejected
  <1>10. RowInv'
    BY <1>1, <1>2, <1>5, <1>7, <1>8, <1>9, RowInvElsewhere
  <1>11. GateVerdict(a) = "none"
    BY <1>1, <1>2, <1>4, VerdictOf DEF RowInv
  <1>12. GateVerdict(a)' = IF verdict = "NO_THREATS_FOUND" THEN "clear" ELSE "rejected"
    <2>1. GateVerdict(a)' = IF Rejected(a)' THEN "rejected"
                            ELSE IF audios'[a].scan = "NO_THREATS_FOUND" THEN "clear" ELSE "none"
      BY <1>2, <1>10, VerdictAfter
    <2> QED
      BY <1>8, <1>9, <2>1
  <1>13. \A b \in Audio : b # a => GateVerdict(b)' = GateVerdict(b)
    BY <1>8, VerdictElsewhere
  <1>14. \A b \in Audio : audios'[b].verified = audios[b].verified
    BY <1>8
  <1>15. Requested(a)' = IF verdict = "NO_THREATS_FOUND" /\ audios[a].verified
                           THEN Requested(a) + 1 ELSE Requested(a)
    BY <1>7, <1>8
  <1> QED
    BY <1>2, <1>8, <1>10, <1>11, <1>12, <1>13, <1>14, <1>15, GateJudges

-----------------------------------------------------------------------------
(* The refinement                                                          *)

\* The other steps leave the abstract state alone.
LEMMA OtherStepsGate ==
    ASSUME GateInv, IntakeNext, ScannerVerdicts = {},
           \A c \in Caller : ~FinishComplete(c),
           \A m \in scanQueue : ConsumeScanResult(m) => UNCHANGED storeVars
    PROVE  RowInv' /\ UNCHANGED Gate!gateVars
  <1>1. StoreTypeOK /\ RowInv
    BY DEF GateInv, IntakeInv, IntakeShape
  <1>2. CASE UNCHANGED storeVars
    BY <1>1, <1>2 DEF storeVars, RowInv, Rejected, Gate!gateVars, GateVerdict
  <1>3. ASSUME NEW a \in Audio, CreateUpload(a)
        PROVE  RowInv' /\ UNCHANGED Gate!gateVars
    <2>1. /\ audios[a].status = "ABSENT" /\ audios[a] \in AudioRow
          /\ audios' = [audios EXCEPT ![a].status = "UPLOAD_PENDING"]
          /\ UNCHANGED outbox
      BY <1>1, <1>3 DEF CreateUpload, InsertAudio, Exists, StoreTypeOK
    <2>2. /\ audios'[a].status = "UPLOAD_PENDING"
          /\ audios'[a].verified = audios[a].verified
          /\ audios'[a].scan = audios[a].scan
          /\ audios'[a].version = audios[a].version
          /\ \A b \in Audio : b # a => audios'[b] = audios[b]
      BY <1>1, <2>1 DEF StoreTypeOK, AudioRow
    <2>3. ~Rejected(a) /\ ~Rejected(a)'
      BY <2>1, <2>2 DEF Rejected
    <2>4. RowInv'
      BY <1>1, <2>2, <2>3, RowInvElsewhere DEF RowInv
    <2>5. GateVerdict(a)' = GateVerdict(a)
      BY <2>1, <2>2 DEF GateVerdict
    <2>6. \A b \in Audio : GateVerdict(b)' = GateVerdict(b) /\ audios'[b].verified = audios[b].verified
      BY <2>2, <2>5, VerdictElsewhere
    <2> QED
      BY <2>1, <2>4, <2>6 DEF Gate!gateVars
  <1>4. UNCHANGED storeVars \/ \E a \in Audio : CreateUpload(a)
    BY DEF IntakeNext, CompleteStep, PutSource, BeginComplete, HeadSource, TagSource,
       SendScanResult, AbortComplete
  <1> QED
    BY <1>2, <1>3, <1>4

LEMMA GateInvNext ==
    ASSUME OneCall, GateInv, [IntakeNext]_intakeVars
    PROVE  GateInv' /\ [Gate!GateNext]_Gate!gateVars
  <1>1. IntakeInv /\ IntakeInv' /\ SerialInv' /\ RequestMatchesJob'
    BY IntakeInvNext, SerialInvNext DEF GateInv, OneCall
  <1>2. StoreTypeOK'
    BY <1>1 DEF IntakeInv, IntakeShape
  <1>3. RowInv' /\ [Gate!GateNext]_Gate!gateVars
    <2>1. CASE UNCHANGED intakeVars
      BY <2>1 DEF intakeVars, storeVars, GateInv, RowInv, Rejected, Gate!gateVars, GateVerdict
    <2>2. CASE \E c \in Caller : FinishComplete(c)
      <3>1. PICK c \in Caller : FinishComplete(c)
        BY <2>2
      <3>2. \A a, v : a = calls[c].audio /\ v = calls[c].version => RowInv' /\ Gate!GateNext
        BY <1>2, <3>1, FinishCompleteGate
      <3> QED
        BY <3>2
    <2>3. CASE \E m \in scanQueue : ConsumeScanResult(m) /\ ~UNCHANGED storeVars
      BY <1>2, <2>3, ConsumeScanResultGate
    <2>4. CASE /\ IntakeNext
               /\ \A c \in Caller : ~FinishComplete(c)
               /\ \A m \in scanQueue : ConsumeScanResult(m) => UNCHANGED storeVars
      BY <2>4, OtherStepsGate DEF OneCall
    <2> QED
      BY <2>1, <2>2, <2>3, <2>4
  <1> QED
    BY <1>1, <1>3 DEF GateInv

LEMMA GateInvInit ==
    ASSUME IntakeInit
    PROVE  GateInv /\ Gate!GateInit
  <1>1. IntakeInv
    BY IntakeInvInit
  <1>2. SerialInv /\ RequestMatchesJob
    BY DEF IntakeInit, StoreInit, SerialInv, RequestMatchesJob, IdleCall, AbsentAudio, AbsentJob
  <1>3. RowInv
    BY DEF IntakeInit, StoreInit, RowInv, Rejected, AbsentAudio
  <1>4. \A a \in Audio : GateVerdict(a) = "none" /\ audios[a].verified = FALSE
    BY DEF IntakeInit, StoreInit, GateVerdict, AbsentAudio
  <1>5. \A a \in Audio : Cardinality({e \in outbox : e.audio = a}) = 0
    BY FS_EmptySet DEF IntakeInit, StoreInit
  <1> QED
    BY <1>1, <1>2, <1>3, <1>4, <1>5 DEF GateInv, Gate!GateInit

\* With one completion at a time and the adapter as the only scanner, the queue,
\* the retries, the re-uploads and the versions of the intake never show: an upload
\* is confirmed once and judged once, in either order, and requested exactly when
\* both have happened and the verdict is clear.
THEOREM IntakeImplementsGate ==
    ASSUME OneCall
    PROVE  IntakeSpec => ImplementsGate
  <1>1. IntakeInit => GateInv /\ Gate!GateInit
    BY GateInvInit
  <1>2. GateInv /\ [IntakeNext]_intakeVars => GateInv' /\ [Gate!GateNext]_Gate!gateVars
    BY GateInvNext
  <1> QED
    BY <1>1, <1>2, PTL DEF IntakeSpec, ImplementsGate, Gate!GateSpec
=============================================================================
