----------------------------- MODULE AudioIntake -----------------------------
(***************************************************************************)
(* From the creation of an upload to the request for its transcode: the    *)
(* audio-api process (services/api/internal/audio/service.go), its scan    *)
(* adapter (scanadapter/development.go), the source bucket, the            *)
(* scan-result queue and the scan consumer of audio-events                 *)
(* (sqsevents/runner.go), over the database of AudioStore.                 *)
(*                                                                         *)
(* CompleteUpload is not atomic.  A call reads the row, asks S3 for the    *)
(* latest version, tags that version clean, sends a scan result and only   *)
(* then writes upload_verified; other calls, the uploader and the scan     *)
(* consumer run between any two of these, and a crash or an error of any   *)
(* service it calls ends it wherever it stands.  A Caller is one such      *)
(* call at a time: a client that retries, a second browser tab, another    *)
(* replica of the API.                                                     *)
(*                                                                         *)
(* The scan-result queue is SQS Standard: a message may be delivered in    *)
(* any order and again and again until a consumer that committed its       *)
(* transaction also deletes it.  Messages that carry the same event id and *)
(* the same version are indistinguishable to the consumer, so the queue is *)
(* a set.                                                                  *)
(***************************************************************************)
EXTENDS AudioStore

CONSTANTS
    Caller,           \* concurrent CompleteUpload calls
    Conforming,       \* the S3 versions with the declared size and type
    ScannerVerdicts   \* what an external scanner may put on the queue

ASSUME IntakeAssumption ==
    /\ Conforming \subseteq Version
    /\ ScannerVerdicts \subseteq ScanStatus \ {"PENDING"}

VARIABLES
    latest,      \* per source key, the newest S3 version (NoVersion: no object)
    tags,        \* per source key and version, the scan tag on the object
    scanQueue,   \* the scan-result queue
    calls        \* the CompleteUpload call each Caller is in

intakeOnlyVars == <<latest, tags, scanQueue, calls>>
intakeVars == <<storeVars, intakeOnlyVars>>

IdleCall == [step |-> "idle", audio |-> NoAudio, seen |-> NoVersion, version |-> NoVersion]

\* A call in flight knows its audio and, once HEAD has answered, a version.
Call ==
    {IdleCall}
    \cup [step: {"head"}, audio: Audio, seen: Version \cup {NoVersion},
          version: {NoVersion}]
    \cup [step: {"tag", "send", "mark"}, audio: Audio, seen: Version \cup {NoVersion},
          version: Version]

\* The adapter reuses the upload id as event id, whatever the version; an
\* external scanner has an event of its own per version.
AdapterEventId(a) == <<a, NoVersion>>
ScannerEventId(a, v) == <<a, v>>
ScanEventId == Audio \X (Version \cup {NoVersion})

ScanMessage == [id: ScanEventId, audio: Audio, version: Version,
                status: ScanStatus \ {"PENDING"}]

AdapterMessage(a, v) == [id |-> AdapterEventId(a), audio |-> a, version |-> v,
                         status |-> "NO_THREATS_FOUND"]

IntakeInit ==
    /\ StoreInit
    /\ latest = [a \in Audio |-> NoVersion]
    /\ tags = [a \in Audio |-> [v \in Version |-> "PENDING"]]
    /\ scanQueue = {}
    /\ calls = [c \in Caller |-> IdleCall]

-----------------------------------------------------------------------------
(* The uploader                                                            *)

\* CreateUpload: the row, then the presigned URL.  Rejected requests and a
\* failed presign leave nothing that the later steps could use.
CreateUpload(a) ==
    /\ InsertAudio(a)
    /\ UNCHANGED intakeOnlyVars

\* PUT on the presigned URL.  The bucket is versioned and the URL may be used
\* again, so an upload never replaces an earlier version.
PutSource(a) ==
    /\ Exists(a)
    /\ latest[a] < MaxUploads
    /\ latest' = [latest EXCEPT ![a] = @ + 1]
    /\ UNCHANGED <<storeVars, tags, scanQueue, calls>>

-----------------------------------------------------------------------------
(* CompleteUpload, one step per call it makes                              *)

\* Mutant: a record that is verified already is completed once more.
BeginCompleteAnyRecord(c, a) ==
    /\ calls[c].step = "idle"
    /\ Exists(a)
    /\ calls' = [calls EXCEPT ![c] = [step |-> "head", audio |-> a,
                                      seen |-> audios[a].version,
                                      version |-> NoVersion]]
    /\ UNCHANGED <<storeVars, latest, tags, scanQueue>>

\* GetAudio and the early returns: a verified record is answered as it is, a
\* record in another status than these two is refused.
BeginComplete(c, a) ==
    /\ calls[c].step = "idle"
    /\ Exists(a)
    /\ ~audios[a].verified
    /\ audios[a].status \in {"UPLOAD_PENDING", "SCANNING"}
    /\ calls' = [calls EXCEPT ![c] = [step |-> "head", audio |-> a,
                                      seen |-> audios[a].version,
                                      version |-> NoVersion]]
    /\ UNCHANGED <<storeVars, latest, tags, scanQueue>>

\* Mutant: neither the size nor the type of the object is looked at.
ObjectMatchesAnything(call, v) == call.seen \in {NoVersion, v}

\* The object HEAD returns, compared with the record read a step ago.
ObjectMatches(call, v) ==
    /\ v # NoVersion
    /\ call.seen \in {NoVersion, v}
    /\ v \in Conforming

HeadSource(c) ==
    LET v == latest[calls[c].audio]
    IN  /\ calls[c].step = "head"
        /\ calls' = [calls EXCEPT ![c] =
                       IF ObjectMatches(calls[c], v)
                         THEN [@ EXCEPT !.step = "tag", !.version = v]
                         ELSE IdleCall]
        /\ UNCHANGED <<storeVars, latest, tags, scanQueue>>

\* Mutant: the tag goes to the latest version, not to the one HEAD returned.
TagLatestSource(c) ==
    LET call == calls[c]
    IN  /\ call.step = "tag"
        /\ tags' = [tags EXCEPT ![call.audio][latest[call.audio]] = "NO_THREATS_FOUND"]
        /\ calls' = [calls EXCEPT ![c].step = "send"]
        /\ UNCHANGED <<storeVars, latest, scanQueue>>

\* Submit, first half: PutObjectTagging on the exact version.
TagSource(c) ==
    LET call == calls[c]
    IN  /\ call.step = "tag"
        /\ tags' = [tags EXCEPT ![call.audio][call.version] = "NO_THREATS_FOUND"]
        /\ calls' = [calls EXCEPT ![c].step = "send"]
        /\ UNCHANGED <<storeVars, latest, scanQueue>>

\* Submit, second half: SendMessage on the scan-result queue.
SendScanResult(c) ==
    LET call == calls[c]
    IN  /\ call.step = "send"
        /\ scanQueue' = scanQueue \cup {AdapterMessage(call.audio, call.version)}
        /\ calls' = [calls EXCEPT ![c].step = "mark"]
        /\ UNCHANGED <<storeVars, latest, tags>>

\* The transaction that ends the call.  It compares nothing with what the call
\* read: neither the status nor upload_verified is in its WHERE clause.
FinishComplete(c) ==
    /\ calls[c].step = "mark"
    /\ MarkUploadVerified(calls[c].audio, calls[c].version)
    /\ calls' = [calls EXCEPT ![c] = IdleCall]
    /\ UNCHANGED <<latest, tags, scanQueue>>

\* An error of S3, SQS or PostgreSQL, a cancelled request, a killed process.
AbortComplete(c) ==
    /\ calls[c].step # "idle"
    /\ calls' = [calls EXCEPT ![c] = IdleCall]
    /\ UNCHANGED <<storeVars, latest, tags, scanQueue>>

-----------------------------------------------------------------------------
(* audio-events' scan consumer and the external scanner                    *)

\* One delivery: the transaction, then DeleteMessage.  A consumer that dies in
\* between, or whose delete fails, leaves the message for a redelivery.
ConsumeScanResult(m) ==
    /\ m \in scanQueue
    /\ ProcessScanResult(m)
    /\ scanQueue' \in {scanQueue, scanQueue \ {m}}
    /\ UNCHANGED <<latest, tags, calls>>

\* A scanner outside this repository: it judges one uploaded version, tags it
\* and reports it with an event id of its own.
ScanExternally(a, v, verdict) ==
    LET m == [id |-> ScannerEventId(a, v), audio |-> a, version |-> v, status |-> verdict]
    IN  /\ v <= latest[a]
        /\ m.id \notin processed
        /\ \A n \in scanQueue : n.id # m.id
        /\ tags' = [tags EXCEPT ![a][v] = verdict]
        /\ scanQueue' = scanQueue \cup {m}
        /\ UNCHANGED <<storeVars, latest, calls>>

-----------------------------------------------------------------------------
CompleteStep(c) ==
    \/ \E a \in Audio : BeginComplete(c, a)
    \/ HeadSource(c)
    \/ TagSource(c)
    \/ SendScanResult(c)
    \/ FinishComplete(c)
    \/ AbortComplete(c)

IntakeNext ==
    \/ \E a \in Audio : CreateUpload(a) \/ PutSource(a)
    \/ \E c \in Caller : CompleteStep(c)
    \/ \E m \in scanQueue : ConsumeScanResult(m)
    \/ \E a \in Audio, v \in Version, verdict \in ScannerVerdicts :
         ScanExternally(a, v, verdict)

IntakeSpec == IntakeInit /\ [][IntakeNext]_intakeVars

\* SQS redelivers every message that is not deleted, and audio-events runs a
\* receive loop for as long as the service is up (it is restarted when a delete
\* fails), so each message that stays on the queue is eventually handled.
\* Nothing obliges a client to call, or a call to get through.
ScanFairness ==
    \A a \in Audio, v \in Version :
        WF_intakeVars(ConsumeScanResult(AdapterMessage(a, v)))

FairIntakeSpec == IntakeSpec /\ ScanFairness

-----------------------------------------------------------------------------
(* Properties                                                              *)

\* Every variable has its type.
IntakeTypeOK ==
    /\ StoreTypeOK
    /\ processed \subseteq ScanEventId
    /\ latest \in [Audio -> Version \cup {NoVersion}]
    /\ tags \in [Audio -> [Version -> ScanStatus]]
    /\ scanQueue \subseteq ScanMessage
    /\ calls \in [Caller -> Call]

\* However completions, re-uploads and scan results interleave, a transcode is
\* requested only behind both gates: every outbox event belongs to a verified
\* audio that has a job and names the version that audio is pinned to, and an
\* audio in QUEUED is verified with a clean scan and an event in the outbox
\* (MarkUploadVerified, ProcessScanResult and enqueueInitialTranscode).
RequestsAreGated ==
    /\ \A e \in outbox :
         /\ audios[e.audio].verified
         /\ audios[e.audio].version = e.version
         /\ jobs[e.audio].id # NoId
    /\ \A a \in Audio : audios[a].status = "QUEUED" =>
         /\ audios[a].verified
         /\ audios[a].scan = "NO_THREATS_FOUND"
         /\ \E e \in outbox : e.audio = a

\* A completed upload that still says SCANNING is waiting for a message that is
\* really on the scan-result queue and that the consumer will not discard as a
\* duplicate: no order of crash, retry, redelivery and verification loses the
\* scan result (CompleteUpload sends before it marks; registerProcessedEvent
\* and the update share a transaction).
NoLostScan ==
    \A a \in Audio :
        audios[a].verified /\ audios[a].status = "SCANNING" =>
            \E m \in scanQueue : m.audio = a /\ m.id \notin processed

\* The worker refuses a source that does not carry the clean tag, so the version
\* a transcode is requested for must have been tagged before, whichever of the
\* two transactions requested it (Development.Submit tags before it sends).
RequestedSourceIsTagged ==
    \A e \in outbox : tags[e.audio][e.version] = "NO_THREATS_FOUND"

\* Only a version whose size and type CompleteUpload compared with the record is
\* ever handed to the transcoder, although the flag upload_verified does not say
\* which version was compared.
RequestedSourceConforms ==
    \A e \in outbox : e.version \in Conforming

\* An audio has one transcode request, and it carries the id of the job row that
\* its result will be matched with (UNIQUE (audio_id, request_key) and the outbox
\* row are written by the same transaction).
RequestMatchesJob ==
    \A e \in outbox :
        /\ jobs[e.audio].id = e.id
        /\ \A f \in outbox : f.audio = e.audio => f = e

\* The source version, once pinned, is never exchanged, and no request or
\* processed event is ever taken back (COALESCE, ON CONFLICT DO NOTHING).
PinnedForGood ==
    [][/\ \A a \in Audio : audios[a].version # NoVersion =>
            audios'[a].version = audios[a].version
       /\ outbox \subseteq outbox'
       /\ processed \subseteq processed']_intakeVars

\* Every completed upload gets its decision: it is queued, quarantined or failed,
\* whether the scan result came before or after the completion.
VerifiedIsDecided ==
    \A a \in Audio :
        audios[a].verified ~>
            audios[a].status \in {"QUEUED", "QUARANTINED", "SCAN_FAILED"}

\* The intake implements the abstract gate when the calls for an upload follow
\* one another and only the adapter reports scans.
GateVerdict(a) ==
    IF audios[a].status \in {"QUARANTINED", "SCAN_FAILED"} THEN "rejected"
    ELSE IF audios[a].scan = "NO_THREATS_FOUND" THEN "clear" ELSE "none"

Gate == INSTANCE UploadGate WITH
    confirmed <- [a \in Audio |-> audios[a].verified],
    verdict <- [a \in Audio |-> GateVerdict(a)],
    requests <- [a \in Audio |-> Cardinality({e \in outbox : e.audio = a})]

ImplementsGate == Gate!GateSpec
=============================================================================
