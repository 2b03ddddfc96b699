----------------------------- MODULE AudioStore -----------------------------
(***************************************************************************)
(* The PostgreSQL database of the audio service and the transactions that  *)
(* services/api/internal/postgres runs on it.  Every operator below that   *)
(* primes a variable is ONE database transaction: PostgreSQL makes it      *)
(* atomic, and the row lock it takes (UPDATE, or SELECT ... FOR UPDATE)    *)
(* serialises it with the other transactions on the same audio.            *)
(*                                                                         *)
(* The rows are cut down to the columns some decision of the code reads:   *)
(*   audios           status, upload_verified, source_version, scan_status *)
(*                    and the job whose artifacts playback_key and         *)
(*                    waveform_key name (the keys are a function of the    *)
(*                    job id)                                              *)
(*   transcode_jobs   id, status, attempt_count; UNIQUE (audio_id,         *)
(*                    request_key) with the one key 'initial' leaves at    *)
(*                    most one row per audio, so the table is a function   *)
(*                    of the audio                                         *)
(*   outbox_events    id, aggregate_id and the source version and job id   *)
(*                    of the payload; the rows whose published_at is set   *)
(*                    are those whose id is in "published"                 *)
(*   processed_events the event ids                                        *)
(*                                                                         *)
(* Each caller of an enqueueing transaction draws a job id and an event id *)
(* with uuid.New() as a pair, so one fresh Id stands for both; "the job id *)
(* in the payload of event e" is e.id.                                     *)
(***************************************************************************)
EXTENDS Integers, FiniteSets

CONSTANTS
    Audio,            \* the audio ids
    Id,               \* the UUIDs drawn for transcode jobs and outbox events
    NoId,             \* no job (a missing row, a NULL column)
    NoAudio,          \* no audio (an idle process)
    MaxUploads,       \* bound: uploads to one source key, hence S3 versions
    MaximumAttempts   \* audio-events' TRANSCODE_MAXIMUM_ATTEMPTS

ASSUME StoreAssumption ==
    /\ MaxUploads \in Nat \ {0}
    /\ MaximumAttempts \in Nat \ {0}
    /\ NoId \notin Id
    /\ NoAudio \notin Audio

VARIABLES
    audios,
    jobs,
    outbox,
    published,
    processed

storeVars == <<audios, jobs, outbox, published, processed>>

\* S3 hands out a new version id on every upload to the key.
Version == 1..MaxUploads
NoVersion == 0

ScanStatus == {"PENDING", "NO_THREATS_FOUND", "THREATS_FOUND",
               "UNSUPPORTED", "ACCESS_DENIED", "FAILED"}

\* The statuses the code can leave in a row; ABSENT is "no row".  The code
\* declares UPLOADED, TRANSCODING and DELETED as well and never writes them;
\* CLEAN exists only between two statements of one transaction.
AudioStatus == {"ABSENT", "UPLOAD_PENDING", "SCANNING", "QUARANTINED",
                "SCAN_FAILED", "QUEUED", "READY", "TRANSCODE_FAILED"}

JobStatus == {"QUEUED", "SUCCEEDED", "FAILED"}

AudioRow == [status: AudioStatus, verified: BOOLEAN,
             version: Version \cup {NoVersion}, scan: ScanStatus,
             artifacts: Id \cup {NoId}]

JobRow == [id: Id \cup {NoId}, status: JobStatus, attempts: Nat]

OutboxEvent == [id: Id, audio: Audio, version: Version]

AbsentAudio == [status |-> "ABSENT", verified |-> FALSE, version |-> NoVersion,
                scan |-> "PENDING", artifacts |-> NoId]

AbsentJob == [id |-> NoId, status |-> "QUEUED", attempts |-> 0]

Exists(a) == audios[a].status # "ABSENT"

StoreTypeOK ==
    /\ audios \in [Audio -> AudioRow]
    /\ jobs \in [Audio -> JobRow]
    /\ outbox \subseteq OutboxEvent
    /\ published \subseteq Id

StoreInit ==
    /\ audios = [a \in Audio |-> AbsentAudio]
    /\ jobs = [a \in Audio |-> AbsentJob]
    /\ outbox = {}
    /\ published = {}
    /\ processed = {}

-----------------------------------------------------------------------------
(* Upload and scan: repository.go and the first half of events.go.         *)

InsertAudio(a) ==
    /\ ~Exists(a)
    /\ audios' = [audios EXCEPT ![a].status = "UPLOAD_PENDING"]
    /\ UNCHANGED <<jobs, outbox, published, processed>>

FreshId == Id \ ({e.id : e \in outbox} \cup {jobs[a].id : a \in Audio})

\* A UUID is a new one; which of the ids nobody has does not matter.
NewId == CHOOSE id \in FreshId : TRUE

\* enqueueInitialTranscode on the row the same transaction just made CLEAN.
\* The job insert yields to a job that is already there; the outbox insert
\* does not, its id being new.
EnqueueInitialTranscode(a, row, id) ==
    /\ audios' = [audios EXCEPT ![a] = [row EXCEPT !.status = "QUEUED"]]
    /\ jobs' = IF jobs[a].id = NoId
                 THEN [jobs EXCEPT ![a] = [AbsentJob EXCEPT !.id = id]]
                 ELSE jobs
    /\ outbox' = outbox \cup {[id |-> id, audio |-> a, version |-> row.version]}

\* The tail MarkUploadVerified and ProcessScanResult share: write the row and,
\* when it became CLEAN, enqueue the transcode before COMMIT.
CommitRow(a, row, status) ==
    /\ UNCHANGED published
    /\ \/ /\ status = "CLEAN"
          /\ \E id \in FreshId : id = NewId /\ EnqueueInitialTranscode(a, row, id)
       \/ /\ status # "CLEAN"
          /\ audios' = [audios EXCEPT ![a] = [row EXCEPT !.status = status]]
          /\ UNCHANGED <<jobs, outbox>>

\* Mutant: source_version = $2.
PinOverwriting(row, v) == v

\* COALESCE(source_version, $2)
Pin(row, v) == IF row.version = NoVersion THEN v ELSE row.version

\* Mutant: the completion never looks at a verdict that came before it.
StatusAlwaysScanning(row, v) == "SCANNING"

\* The CASE of MarkUploadVerified; it reads the columns as they were.
StatusOnceVerified(row, v) ==
    CASE row.version # NoVersion /\ row.version # v -> "SCAN_FAILED"
      [] row.version \in {NoVersion, v} ->
           CASE row.scan = "NO_THREATS_FOUND" -> "CLEAN"
             [] row.scan = "THREATS_FOUND" -> "QUARANTINED"
             [] row.scan \in {"UNSUPPORTED", "ACCESS_DENIED", "FAILED"} -> "SCAN_FAILED"
             [] row.scan = "PENDING" -> "SCANNING"

MarkUploadVerified(a, v) ==
    LET row == audios[a]
    IN  /\ Exists(a)
        /\ CommitRow(a, [row EXCEPT !.verified = TRUE, !.version = Pin(row, v)],
                     StatusOnceVerified(row, v))
        /\ UNCHANGED processed

\* A result for another version than the pinned one is recorded as FAILED.
EffectiveVerdict(row, m) ==
    IF row.version \in {NoVersion, m.version} THEN m.status ELSE "FAILED"

\* Mutant: a clean verdict does not wait for the upload to be verified.
StatusScannedUngated(row, verdict) ==
    CASE verdict = "NO_THREATS_FOUND" -> "CLEAN"
      [] verdict = "THREATS_FOUND" -> "QUARANTINED"
      [] verdict \notin {"NO_THREATS_FOUND", "THREATS_FOUND"} -> "SCAN_FAILED"

StatusOnceScanned(row, verdict) ==
    CASE verdict = "NO_THREATS_FOUND" -> IF row.verified THEN "CLEAN" ELSE "SCANNING"
      [] verdict = "THREATS_FOUND" -> "QUARANTINED"
      [] verdict \notin {"NO_THREATS_FOUND", "THREATS_FOUND"} -> "SCAN_FAILED"

\* Mutant: a redelivered event is applied again.
ScanResultUnregistered(m) ==
    LET row == audios[m.audio]
        verdict == EffectiveVerdict(row, m)
    IN  /\ Exists(m.audio)
        /\ processed' = processed \cup {m.id}
        /\ CommitRow(m.audio,
                     [row EXCEPT !.version = Pin(row, m.version), !.scan = verdict],
                     StatusOnceScanned(row, verdict))

\* m is a scan result [id, audio, version, status]; the event id is registered
\* first, and a registered id makes the transaction a no-op.
ProcessScanResult(m) ==
    LET row == audios[m.audio]
        verdict == EffectiveVerdict(row, m)
    IN  \/ /\ m.id \in processed
           /\ UNCHANGED storeVars
        \/ /\ m.id \notin processed
           /\ Exists(m.audio)
           /\ processed' = processed \cup {m.id}
           /\ CommitRow(m.audio,
                        [row EXCEPT !.version = Pin(row, m.version), !.scan = verdict],
                        StatusOnceScanned(row, verdict))

-----------------------------------------------------------------------------
(* Outbox and transcode results: the second half of events.go.             *)

PendingOutbox == {e \in outbox : e.id \notin published}

\* published_at IS NULL in the WHERE clause: a second publisher of the same
\* event updates no row and gets an error instead.
MarkOutboxPublished(e) ==
    /\ e.id \notin published
    /\ published' = published \cup {e.id}
    /\ UNCHANGED <<audios, jobs, outbox, processed>>

\* The worker derives the event id of a result from these three and nothing else.
ResultEventId(r) == <<r.job, r.status, r.attempt>>

JobKnown(r) == jobs[r.audio].id = r.job

\* What a result makes of its job.
JobStatusAfter(r) ==
    CASE r.status = "SUCCEEDED" -> "SUCCEEDED"
      [] r.status = "FAILED" ->
           IF r.retryable /\ r.attempt < MaximumAttempts THEN "QUEUED" ELSE "FAILED"

\* The audio status written beside each job status.
AudioStatusFor == [SUCCEEDED |-> "READY", FAILED |-> "TRANSCODE_FAILED", QUEUED |-> "QUEUED"]

\* The row updates of a result, given what becomes of attempt_count.
ApplyResult(r, attempts) ==
    LET status == JobStatusAfter(r)
    IN  /\ jobs' = [jobs EXCEPT ![r.audio].status = status, ![r.audio].attempts = attempts]
        /\ audios' = [audios EXCEPT ![r.audio].status = AudioStatusFor[status],
                                    ![r.audio].artifacts = IF status = "SUCCEEDED" THEN r.job ELSE @]
        /\ UNCHANGED <<outbox, published>>

\* Mutant: a redelivered event is applied again.
ResultUnregistered(r) ==
    IF JobKnown(r)
      THEN /\ processed' = processed \cup {ResultEventId(r)}
           /\ ApplyResult(r, IF r.attempt > jobs[r.audio].attempts
                               THEN r.attempt ELSE jobs[r.audio].attempts)
      ELSE UNCHANGED storeVars

\* Mutant: attempt_count = $2.
ResultLastAttempt(r) ==
    IF JobKnown(r) /\ ResultEventId(r) \notin processed
      THEN /\ processed' = processed \cup {ResultEventId(r)}
           /\ ApplyResult(r, r.attempt)
      ELSE UNCHANGED storeVars

\* r is a transcode result [job, audio, status, attempt, retryable].  A result
\* of an unknown job rolls the transaction back, its registration included.
ProcessTranscodeResult(r) ==
    LET counted == jobs[r.audio].attempts
    IN  \/ /\ ResultEventId(r) \in processed \/ ~JobKnown(r)
           /\ UNCHANGED storeVars
        \/ /\ ResultEventId(r) \notin processed
           /\ JobKnown(r)
           /\ processed' = processed \cup {ResultEventId(r)}
           /\ ApplyResult(r, IF r.attempt > counted THEN r.attempt ELSE counted)
=============================================================================
