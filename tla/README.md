# Cantaloupe audio service: TLA+ specifications

Models of the audio service in this repository: the Go processes `audio-api` and
`audio-events`, the Python worker `audio-transcode`, the PostgreSQL database, S3 buckets
and SQS queues between them, and the web client. Paths below are relative to the
repository root, `DOC` is `docs/audio-service-architecture.md`, `web` is
`services/web/src`.

## 1. The system

    client -- POST uploads -----------> audio-api --- INSERT audios
    client -- PUT (presigned) --------> source bucket (versioned)
    client -- POST complete ----------> audio-api --- HEAD, tag, SendMessage, UPDATE
                                                        | scan-result queue
    audio-events: scan consumer <-----------------------+
        UPDATE audios, and when verified and clean: transcode_jobs + outbox_events
    audio-events: outbox publisher --- transcode queue ---> audio-transcode
                                                            tag check, download, FFmpeg,
                                                            playback.mp3, waveform.json
    audio-events: result consumer <--- transcode-result queue ---+
        UPDATE transcode_jobs and audios (READY / QUEUED / TRANSCODE_FAILED)

    web client: session (OIDC) --- identity ---> query cache, player, upload page
                pages --- lists, playback URL, waveform ---> audio-api, artifact bucket

### Components

| component | state | operations | talks to |
|---|---|---|---|
| database (`internal/postgres`, `migrations`) | `audios`, `transcode_jobs`, `outbox_events`, `processed_events` | `CreateUpload`, `MarkUploadVerified`, `ProcessScanResult`, `ProcessTranscodeResult`, `ListUnpublishedOutbox`, `MarkOutboxPublished`, lists, `UpdateVisibility` | everyone, one transaction per operation |
| upload intake (`audio/service.go`, `scanadapter`, `s3store`) | none of its own; a call in flight | `CreateUpload`, `CompleteUpload` (read, HEAD, tag, send, mark) | database, source bucket, scan-result queue |
| scan consumer (`sqsevents/runner.go`, `events.go:14`) | none | one delivery | scan-result queue, database |
| outbox publisher (`runner.go:114`) | the batch it read | list, send, mark | database, transcode queue |
| result consumer (`runner.go:75`, `events.go:77`) | none | one delivery | transcode-result queue, database |
| worker (`services/worker`) | the attempt it is in, the receipt, a heartbeat thread | receive, verify, transcode, two uploads, report, delete | transcode queue, both buckets, result queue |
| catalogue (`ListAudios`, `UpdateVisibility`, `GetPlayback`) | rows | keyset pages, visibility, signed URLs | database, URL signer |
| HTTP layer and anonymous limiter (`httpapi`) | a fixed window | route, authenticate, limit | service |
| web: upload page | `uploadStore`, an abort controller, a status query | choose, upload, cancel, retry, poll | API, source bucket |
| web: session (`authService.ts`, `authStore.ts`, `providers.tsx`, `queryClient.ts`, `apiClient.ts`) | the stored user, `useAuthStore`, the query cache | sign in, callback, sign out, expiry, renewal, clearing on a change of identity | OIDC provider, every page |
| web: player (`playerStore.ts`, `PersistentPlayer.tsx`, `TrackPage.tsx`) | queue, current track, an `<audio>` element | play, toggle, next, previous, seek, hydrate, reset | the element, the page's queries |
| web: live waveform (`LiveWaveform.tsx`) | a canvas | resize, draw frames, draw a still | player store, the element's time |
| web: lists (`DiscoverPage.tsx`, `LibraryPage.tsx`) | an infinite query | load more, refetch, leave, come back | catalogue |
| media (`media.py`) | none | probe, transcode, waveform peaks | FFmpeg |
| contracts, signer, token verification, observability, configuration, layout | none worth modelling | | |

### What is hard, and what makes each part correct

* **The gate.** Upload verification and the scan verdict arrive in either order, from two
  processes (DOC:305-307). A transcode must be requested exactly when both hold, by
  whichever transaction comes second. `CompleteUpload` is five remote calls with nothing
  locked; it may die between any two, be retried, or run twice at once, and the client may
  upload the key again in between. Correct means: requested only when verified and clean,
  for a version that was compared and tagged; no scan result lost; one request, with the
  id of its job.
* **The outbox.** Send before mark: a crash in between duplicates an event and must never
  lose one.
* **The worker.** The attempt number is the receive count of an SQS message; a retry is a
  message that is not deleted; a heartbeat keeps the message hidden. Two workers may be at
  one job. Results are reported before the message is deleted, in SQS Standard order, that
  is none. Correct means: no request lost, nothing READY without both artifacts, each
  result applied once, every request settled.
* **The whole.** What is READY was vetted; what was rejected never plays.
* **Lists under change.** Every page is a query of its own while rows appear, vanish and
  tie on `created_at`; the client refetches all its pages while the button asks for one
  more. Correct means: no track twice, none missed that was there all the time.
* **Upload page.** Nothing ties a run to the page; an abandoned one goes on writing into
  the store. "Ready" must be about the upload that is watched, "processing" about one that
  is polled (it is not always: §4, 5), and only the user and the runs may wake an idle page.
* **Session.** Four writers of one session (start-up read, callback, events, timers), two
  renewals that may overlap, an authorization code that is good once and an effect that
  React runs twice. No data of one identity may be shown to another.
* **Player.** The store, two effects with different dependencies and an element that
  loads, fails, ends and rejects promises in its own time; waveforms and URLs arrive late.
  Queue, element and canvas must stay with the one current track.

`PROJECT.json` lists these at their lines under `hazards`.

## 2. Modules

| module | models | extends |
|---|---|---|
| `AudioStore` | the tables and the transactions on them, one operator per transaction | |
| `AudioIntake` | `CompleteUpload` step by step, the source bucket, scan queue and scan consumer | `AudioStore` |
| `UploadGate` | abstract: confirm and judge in either order, request once | |
| `AudioLifecycle` | abstract: the gate, and behind it artifacts and an outcome | `UploadGate` |
| `TranscodePipeline` | publisher, transcode queue, workers, result queue, result consumer | `AudioStore` |
| `AudioPipeline` | the two together, joined by the rows and by the scan tag | `AudioIntake`, `TranscodePipeline` |
| `AudioCatalog` | the list queries page by page, and the client's infinite queries over them | |
| `UploadFlow` | the upload page of the web client, its store, its runs and its poll | |
| `WebSession` | who is signed in, and what the query cache holds for whom | |
| `Waveform` | the arithmetic of the canvas: buckets, amplitudes | |
| `WebPlayer` | player store, audio element, track page and canvas | `Waveform` |
| `MC*` | the instances TLC checks | the module of that name |
| `AudioIntakeProofs`, `TranscodePipelineProofs`, `AudioCatalogProofs`, `UploadFlowProofs`, `WebSessionProofs`, `WaveformProofs` | theorems | the module of that name, `TLAPS` |
| `WebPlayerProofs` | theorems about player, element and canvas | `WebPlayer`, `WaveformProofs` |
| `AudioPipelineProofs` | theorems about the whole path | `AudioPipeline` and the proofs of both halves |

Definitions labelled `Mutant:` are wrong variants of the definition after them. No
specification uses them; replacing the definition by its mutant makes TLC report the
properties that guard it, which shows that these properties depend on the code.

### How state and actions correspond to the code

**Tables.** `audios[a]` keeps the columns some decision reads: `status`,
`upload_verified`, `source_version`, `scan_status` and the job the artifact keys belong
to. `jobs[a]` is the one `transcode_jobs` row of the audio (`UNIQUE (audio_id,
request_key)` with one key in use). `outbox` with `published` is `outbox_events` with
`published_at`, `processed` is `processed_events`. The job id and event id that a
transaction draws are drawn together, so one `Id` stands for both. Ids and messages
are interchangeable before they are used, so the next one is a fixed choice (`NewId`,
`NextMessage`); nothing the model or the theorems say depends on which one it is.

**Intake.** `CompleteUpload` is `BeginComplete` (row read, early returns), `HeadSource`,
`TagSource`, `SendScanResult`, `FinishComplete` (`MarkUploadVerified`); `AbortComplete` is
every error and crash between them. A `Caller` is one call at a time. `latest` and `tags`
are the versioned source bucket; a presigned URL can be used again, so `PutSource` makes a
new version. The adapter sends every result of an upload with the upload id as event id,
the version notwithstanding, so the second version's message is a duplicate of the
first's.

**Queues** are sets: SQS Standard delivers in any order and repeatedly, and messages with
equal fields cannot be told apart by their consumers. A consumer action is the transaction
and then the delete, which may fail to happen. The transcode queue needs more: `requests`
holds each message with its visibility and receive count, because the worker reads that
count.

**Worker.** `workers[w]` is the attempt in `_handle`: `verify`, `transcode` (download to
the upload of playback.mp3), `waveform` (the second upload), `report` (`_publish`),
`delete`. FFmpeg is a choice between success, a final and a retryable failure.
`VisibilityExpires`, `HeartbeatLost`, `InternalError` (`except Exception`), `CrashWorker`
and `AbortBatch` are the ways a step does not happen; `FaultKinds` and `MaxFaults` say
which and how many.

**Catalogue.** `AudioCatalog` has a table of its own, because its queries read columns
nobody else does: owner, visibility, `created_at` and whether the row is READY.
`created_at` is read before the INSERT (`service.go`), so `CreateUpload` draws any time.
`lists[r]` is an infinite query: `data` is the list on display, `fetch` and `built` the
walk that is under way. `ListAudios` is one query with its look-ahead row, `NextPage` and
`PageAgain` are the two things its answer is used for, `LoadMore` the button (which gives
a refetch up), `PageFails` the last failed try, `Reopen` and `Reconnect` the occasions of
a refetch. `steady` is a history variable: the rows that were in the list ever since the
walk began, which is what "not skipped" can be said of.

**Upload page.** `UploadFlow` is the page with the store outside it. `store` is
`useUploadStore`, `file`, `abortRef` and `shown` are what the mounted page holds,
`phase[r]` is where the `runUpload` of run r waits, `server[r]` the status of its audio,
`polls` and `cache` the status query. A run that was abandoned goes on writing into
`store`; nothing in the page compares runs, and `Cancel`, `Remount`, `RemoveFile` and
`ChangeIdentity` do not end one (only `Cancel` does, and only while `uploadFile` is
listening).

**Session.** `user` is what the OIDC client keeps in sessionStorage, so it survives
`LoadPage`; everything else in `WebSession` is memory. `StoreUser` and `RemoveUser` are
`storeUser` and `removeUser` of the OIDC client with the event each raises, and
`SetSession` is the store's reaction together with the effect of `providers.tsx` that
clears the cache when the subject changes. `exchanges` holds one element per
`signinRedirectCallback` under way, which is the set of effects that await it: StrictMode
ends the first effect and runs a second one, and `completeSignIn` gives both the same
promise. `query[r]` is the fetch of one query: waiting for `signinSilent` (`renewing`) or
for its answer (`sent`), and `as` whom it will be answered for. A fetch that was dropped
in `renewing` goes on renewing with `live` false: its answer is nobody's, the user it
stores is everybody's.

**Player.** A change of `usePlayerStore` and the effects React runs for it are one step,
`Commit` with `Effects`: the source effect when `SourceOf` differs, the play effect when
`PlaysAgain`, in this order, on the element `media`. `Loaded`, `Played` and `Paused` are
what HTML defines for `load()`, `play()` and `pause()`: a `play()` before the data is
there is `pending`, and `load()`, `pause()`, an error and the browser's refusal reject it
(`Broken`); the handler of the rejection is the later step `PlayRejected`. `urls` and
`waves` are what the track page's two queries hold. A card's queue is made of snapshots
(`Snapshot`), and `HydrateTrack` fills a late waveform into the current track and its
places in the queue. `canvas` is the one of the track page: `Bars` is the resize,
`Redrawn` the effects that draw it still, `Frame` one frame of the effect that animates.
`Waveform` is its arithmetic, with amplitudes as integers (times 128 * 127) and, for the
bucket borders, the outcomes floating point may have (`ShortBorders`).

## 3. Runs

| run | instance | shows |
|---|---|---|
| `IntakeConcurrent` | 1 audio, 2 callers, 2 uploads, the adapter and an external scanner with two verdicts | type, gate, no lost scan, pinned version; every verified upload is decided |
| `IntakeDoubleComplete` | 2 callers | **violation**: an outbox event with a job id no row has |
| `PipelineWorkers` | 1 audio, 2 publishers, 2 workers, 2 messages (a duplicate), 1 fault of any kind, 2 attempts, 3 receives | no lost request, playable READY, results applied once, attempt count |
| `PipelineLateFailure` | no fault at all | **violation**: a failure that arrives late takes an audio out of READY |
| `EndToEnd` | 1 audio, 1 caller, 3 uploads of which the second does not conform, 2 messages (the second if the publisher sends the event again), 1 fault of any kind | requested source tagged and conforming, one request with its job's id, READY was vetted, audio and job agree, rejected never plays, refinement of `UploadGate` and `AudioLifecycle`; every verified upload settles, also when its event is sent again and the receives start from one |
| `EndToEndLateVerification` | 2 callers, 2 uploads | **violation**: SCAN_FAILED, then READY |
| `CatalogWalks` | 3 tracks with times 0 and 1, one reader, pages of one and two | no list repeats a track; none that stayed in it is missed |
| `UploadOverlap` | two runs, all handlers of the page, a change of identity | "ready" is about the upload being watched; no late answer, cached data or rendering wakes an idle page; a run that begins alone ends in "ready", "failed" or "idle", unless another one starts beside it or the store is reset after its upload was created |
| `UploadResetUnderRun` | one run | **violation**: the page says "processing" and watches nothing |
| `WebSession` | every mode, two people, two queries, two retries | the session is the stored user's, no data survives a change of identity, a sign-in is seen; callback and button do not wait for ever |
| `WebPlayer` | two audios, one of them with two URLs, queues of one and two, five peaks and one peak on three bars | queue, element, waveform and canvas stay with the current track; what is to play is heard or said to have stopped |
| `PlayerLateRejection` | two track pages, no queue | **violation**: the rejection of an old `play()` stops the next track |

`CHECK_DEADLOCK FALSE` everywhere: a service whose uploads are all settled, within the
bound on uploads, has nothing left to do, and neither has a client nobody uses.

### Bounds

* `MaxUploads` 2 or 3: two versions are enough for every mismatch, the third separates "not
  the latest" from "not conforming".
* Two callers: the properties are about pairs of interleaved completions; a third call only
  repeats one of them.
* `MaxReceives` is `WorkerMaximumAttempts + MaxFaults`: one retry, a last attempt, and one
  receive for the attempt a fault swallows. Two messages: the original and one duplicate.
* `MaxFaults` 1: any one fault at any step, the step after it included.
* `BatchLimit` 1 in the `Pipeline*` runs and 20, the code's value, end to end. With one
  audio there is one event, so no run has a batch that leaves events behind; the theorems
  have any outbox and any limit. The two attempt limits are equal in every run; the theorems
  that need `LimitsAgree` say so.
* Three tracks and two times: a tie that the id breaks, a page that ends within the tie,
  and a row that appears above or below the cursor. Pages of one and two (the limits 0 and
  5 meet `DefaultListLimit` and `MaxListLimit`); readers do not influence one another, so
  one is enough.
* Two runs of the upload page: one that was abandoned and one in front; what a run does
  depends on no other run but through the store.
* Two queries: one whose renewal is under way while the other one's ends.
* `MaxRejected`: the rejected promises whose handlers a step of the user may overtake. The
  handler is a microtask behind a rejection the element raises in a task of its own, so
  mostly nothing comes between; 0 keeps the liveness run short, and the theorems hold for
  every value. Note that `PlayerLateRejection` needs no overtaking either: the handler that
  stops the wrong track runs as soon as it may.
* `MaxTime` 1 and `RestartAfter` 0: both branches of `previous()`. `Widths` 0 and 15 with
  `BarStep` 5: a canvas that is not laid out and three bars, under five peaks (a bucket
  border that floating point may miss) and under one (more bars than peaks).
* `MaxUrl`: an audio whose URL is signed anew once.

### Fairness

`ScanFairness` and `Fairness` are weak fairness of the loops that run
for as long as the service does: the two consumers, the publisher's ticker, the workers'
receive loop and the steps of an attempt, and the visibility timeout, which runs in SQS.
The process exits on a failed delete and is restarted by its supervisor, hence fairness of
the action and not of the process. No client step, no upload, no completion and no fault is
fair.

`FlowFairness` says that a request of a run is answered or fails, that the API decides
(which is `UploadSettles` of `EndToEnd`), that the query polls while it is enabled and that
React renders. `SessionFairness` says that the exchange of a code and a redirect are
answered or fail. `PlayerFairness` says that a source that loads is loaded or fails, and
that the handler of a rejected promise runs. The user is free to do nothing, and no answer
to a page's query need ever come.

## 4. Disagreements between the code and its documents

1. **A completion can request a second transcode.** `MarkUploadVerified` checks neither
   `upload_verified` nor the status (`repository.go:146`); `enqueueInitialTranscode` inserts
   the outbox event although the job insert did nothing (`repository.go:197-213`).
2. **READY is not final.** A FAILED result is written over READY (`events.go:125-146`).
3. **A rejected audio can become READY.** The READY update looks at no status
   (`events.go:114-123`).
4. **A late rejection stops the next track.** The `catch` of `audio.play()`
   (`PersistentPlayer.tsx:55`) does not ask which source the promise was for. Play on one
   track page and, before its source has loaded, on another: `load()` rejects the first
   promise, and its handler pauses the second track, which the comment at lines 62-63 says
   is played.
5. **A page that says "processing" and polls nothing.** Removing the file, choosing another
   one or a change of identity resets `uploadStore` under a run that nobody ends. The run
   goes on to "verifying" and "processing" (`UploadPage.tsx:106-109`) with the session gone,
   so the status query is not enabled (`:56`) although `services/web/README.md:11-12` says
   that the page polls. It stays so until another file is chosen or the page is loaded anew.
   One run is enough.

The positive runs and the theorems say how far the properties hold all the same: with one
completion at a time 1 and 3 cannot happen (`SerialRequests`, `RejectedNeverPlayable`), and
after 4 the store at least says that it stopped (`LoadingSettles`). `LoneRunSettles` says
that 5 needs a reset after the upload was created, or a second run: no other run that begins
alone gets stuck.

## 5. Proofs

TLAPS checks the theorems below for every set of audios, callers, ids, versions,
publishers, workers, messages, runs, people, queries and queues, and every bound. They rest
on the named assumptions of the modules (`StoreAssumption`, `IntakeAssumption`,
`PipelineAssumption`, `FlowAssumption`, `SessionAssumption`, `PlayerAssumption`,
`NoneAssumption`: constants are numbers where they are counted, the null values are not
values) and on what a theorem states as its own ASSUME.

| theorem | says | assumes | inductive invariant |
|---|---|---|---|
| `AudioIntakeProofs!IntakeTypeCorrect` | `[]IntakeTypeOK` | | `IntakeShape`, `IntakeEventIds` |
| `!GatedRequests` | `[]RequestsAreGated` | | `IntakeInv` |
| `!ScanResultNotLost` | `[]NoLostScan` | | `IntakeInv` |
| `!RequestedConform` | `[]RequestedSourceConforms` | no external scanner | `IntakeInv /\ SourceInv` |
| `!RequestedTagged` | `[]RequestedSourceIsTagged` | no external scanner | `IntakeInv /\ SourceInv` |
| `!SerialRequests` | `[]RequestMatchesJob` | no external scanner, one call | `IntakeInv /\ SerialInv` |
| `!VersionPinned` | `PinnedForGood` | | `IntakeShape` |
| `!IntakeImplementsGate` | `ImplementsGate` | no external scanner, one call | `GateInv` |
| `TranscodePipelineProofs!PipelineTypeCorrect` | `[]PipelineTypeOK` | | `PipelineTypeInv`, `PipelineEventIds` |
| `!ReadyArtifacts` | `[]ReadyIsPlayable` | | `UploadInv` |
| `!RequestsAccounted` | `[]RequestAccounted` | `LimitsAgree` | `AccountInv` |
| `!ResultsAppliedOnce` | `AppliedOnce` | | `PipelineTypeInv` |
| `!AttemptCount` | `[]AttemptsRecorded` | | `AttemptsInv` |
| `AudioPipelineProofs!ReadyVetted` | `[]ReadyWasVetted` | no external scanner | `PipeInv` |
| `!StoriesAgree` | `[]JobAgrees` | no external scanner, one call | `PipeSerialInv` |
| `!RejectedNeverPlayable` | `RejectedIsNeverPlayable` | no external scanner, one call | `PipeSerialInv` |
| `!PathReadyArtifacts` | `[]ReadyIsPlayable` of the whole path | no external scanner | `PathInv` |
| `!PathAttemptCount` | `[]AttemptsRecorded` of the whole path | no external scanner | `PathInv` |
| `!PathRequestsVetted` | `[]` of `RequestsAreGated`, `NoLostScan`, `RequestedSourceConforms`, `RequestedSourceIsTagged` of the whole path | no external scanner | `PathInv` |
| `!PathVersionPinned` | `PinnedForGood` of the whole path | no external scanner | `PathInv` |
| `!PathAccounted` | `[]RequestAccounted` of the whole path | `OneCall`, `LimitsAgree` | `PathAccountInv` |
| `!PathSerialRequests` | `[]RequestMatchesJob` of the whole path | `OneCall` | `PipeSerialInv` |
| `!PathImplementsGate` | `ImplementsGate` of the whole path | `OneCall` | `PathGateInv` |
| `!PathImplementsLifecycle` | `ImplementsLifecycle` | `OneCall`, `LimitsAgree` | `LifeInv` |
| `AudioCatalogProofs!CatalogTypeCorrect` | `[]CatalogTypeOK` | | `CatalogInv` |
| `!PagesRepeatNothing` | `[]NothingRepeats` | | `CatalogInv` |
| `!PagesSkipNothing` | `[]NothingSkipped` | | `CatalogInv` |
| `UploadFlowProofs!FlowTypeCorrect` | `[]FlowTypeOK` | | `FlowInv` |
| `!ReadyOfWatched` | `[]ReadyIsWatched` | | `FlowInv` |
| `!LateAnswersNeverReturn` | `LateAnswersStayAway` | | `FlowInv` |
| `WebSessionProofs!SessionTypeCorrect` | `[]SessionTypeOK` | | `SessionInv` |
| `!SessionFollows` | `[]SessionFollowsUser` | | `SessionInv` |
| `!CacheOfOneIdentity` | `[]CacheIsCurrent` | | `SessionInv` |
| `!SignInSeen` | `[]SignInIsSeen` | | `SessionInv` |
| `WaveformProofs!BarsArePicture` | `Downsample` makes `Pictures`, whatever borders fall short | any peaks, at least one bar | |
| `WebPlayerProofs!PlayerTypeCorrect` | `[]PlayerTypeOK` | | `PlayerInv /\ DrawnInv` |
| `!PictureOfTrack` | `[]PictureIsOwn` | | `PlayerInv /\ DrawnInv` |
| `!TrackOfQueue` | `[]QueueAgrees` | | `PlayerInv` |
| `!WaveformOfTrack` | `[]WaveformIsOwn` | | `PlayerInv` |
| `!SoundOfTrack` | `[]SoundIsCurrent` | | `PlayerInv` |
| `!CanvasAtRest` | `[]StillUnlessPlaying` | | `PlayerInv` |
| `!HydrationKeepsSound` | `HydrationIsSilent` | | `PlayerInv` |

* **`IntakeInv`.** `NoLostScan` is not inductive: a call between "send" and "mark" must be
  known to have sent. `CallInv` says that it did, `ScanInv` that `scan_status` is PENDING
  exactly as long as the adapter's event was not processed, and `QueueInv` that no message
  uses up another audio's event id. None of them mentions a version, which is why the gate
  holds for any re-upload and any external scanner.
* **`SourceInv`** follows a version from HEAD to the tag, the message and the row.
  **`SerialInv`** says that while a call is in flight nobody else verifies its upload. The
  two assumptions are needed: `IntakeDoubleComplete` breaks the conclusion with two calls.
* **`GateInv`** adds `RowInv`: until an upload is verified its scan status alone decides
  whether it is rejected. The gate's state is a function of the row (`GateVerdict`) and
  the number of outbox events, which `CommitRowEffect` counts.
* **`AttemptsInv`** ties `attempt_count` to the results applied. `processed` is one table, so the
  property and the invariant read only its result events (`ResultEventIds`); this is what
  lets it hold of the whole path as well.
* **`UploadInv`** follows the two artifacts: the first is there when an attempt is at the
  second, both are there when a success may be reported, was reported or was applied.
  Objects are never removed, so a second attempt cannot take them away.
* **`AccountInv`** is the chain from outbox to result. A published event was sent
  (`PublishedIsSent`, and before it `BatchesFromOutbox`: the publisher sends what it read);
  a message is deleted only behind a result of its job (`DeletesAfterReport`,
  `DeletedIsReported`); a failure reported as retryable is the last attempt's
  (`RetryableIsLast`), so with `LimitsAgree` (`WorkerMaximumAttempts >= MaximumAttempts`)
  no applied result leaves the audio QUEUED (`AppliedIsSettled`). Without `LimitsAgree`
  the theorem is false, and nothing in the code compares the two settings.
* **`PipeInv`** composes the halves. Each half's invariant speaks of variables the other
  half writes, so the halves' types leave out which event ids `processed` may hold
  (`IntakeShape`, `PipelineShape`): both register theirs in one table. `IntakeRowStep` and
  `TranscodeRowStep` reduce the steps of a half to what they do to the rows. The link
  between them is `JobsVetted`: a job stands for an audio that is verified, pinned and
  clean. A completion cannot undo that (it only adds to verified and version), and a scan
  result cannot either, because the one event of the adapter is used up by then
  (`OneVerdict`). With `ReadyHasJob` and `SourceInv` this is `ReadyWasVetted`, for any
  number of overlapping completions. `JobAgrees` needs more: **`PipeSerialInv`** adds
  `SerialInv`, by which an audio with a job has no call in flight that would write a
  decision over READY. `EndToEndLateVerification` shows that two calls do.
* **`PathInv`** carries `UploadInv` and `AttemptsInv` over the steps of the intake, which
  draws jobs and writes the scan consumer's event ids into the table both halves share
  (`IntakeStoreStep`). A new job must not be taken for one that has artifacts or results:
  `FreshId` and `AppliedIsDrawn` exclude it, and `ScanIdIsNoResultId` keeps the two kinds of
  event apart. **`PathAccountInv`** does the same for `AccountInv`. There a new outbox event
  must not look published (`PublishedIsRequested`), and it must be the only one of its
  audio, which is where one completion at a time comes in (`OneCall`: the adapter is the
  only scanner and there is one caller).
* **`PathGateInv`** shows the steps of the pipeline to be stutters of `UploadGate`: a result
  is applied only to an audio that has a job, hence passed both gates, and moves it between
  statuses that are no rejection. **`LifeInv`** adds to it that objects lie only under drawn
  ids (`ArtifactsAreDrawn`) and only an audio with a job has an outcome (`SettledHasJob`).
  The upload of `waveform.json` is then `Store` the first time and a stutter every other
  time; a result is `Settle` or a stutter. That READY is behind `Store` is `ReadyIsPlayable`,
  and that no outcome goes back to "none" is `RetryableIsLast` with `LimitsAgree`.
* **`CatalogInv`** says of every walk, the one on display and the one being built, that
  what it has shown lies at or above its cursor and what stayed in the list and lies there
  has been shown (`WalkOK`); and that a page is only asked for after one that promised
  another. Steps of the table keep it because no row is removed or gets another time
  (`TableStep`). The page itself is `ListAudiosOK`: the rows of a page have a last one
  (`LastRow`), a row before one of the first n is one of them (`FirstOfIsUpward`), and a
  page that holds all rows that were read has reached the end (`LookAhead`). The three rest
  on `Extreme`: in a strict order a finite set has an element that none precedes, which is
  the one with the fewest before it, so the least number of a set takes the place of an
  induction.
* **`FlowInv`**: a final status is the last one the query asks for (`FinalIsLast`), so what
  is behind "ready" cannot be followed by an older answer (`ReadyIsCached`), and an idle
  store watches nothing (`IdleWatchesNothing`), so no late answer can move it.
* **`SessionInv`**: `CacheIsCurrent` is not inductive, since a request that is out will
  fill the cache. `SentIsCurrent` says as whom it was sent; every change of the session's
  subject drops it. `OnlyOidc` says what the other modes never do, and `Awaited` that an
  effect is still there for every exchange of a code, whichever effect of the two began it.
* **`PlayerInv`** is `Good` of the store (the place is one of the queue's even without a
  track), `Fits` between store and element (`EffectsFit`: whatever the store becomes, the
  two effects leave an element that fits), `Present` (there is an element whenever there is
  something to show), and `Still` of the canvas.
* **`DrawnInv`** says what the canvas shows: bars that are a picture of the peaks of the
  page's own audio at the canvas's own width, and an energy that some peak has. A hidden
  canvas keeps the bars it had, so the invariant is about a width above 0. That `Bars` makes
  pictures is `BarsArePicture`: a border that falls short moves by one peak at most
  (`BorderBounds`), so a bucket meets its own stretch of the track (`BucketMeets`) and every
  peak but the last is in a bucket (`BucketsCover`). The SMT solver does not do division by a
  variable. `Quotient` turns `\div` into the two inequalities that define it, `TimesMonotonic`
  and `Interpolation` are the products those need, and the rest is linear. `Lit` survives a
  frame because what `AmplitudeAt` mixes of two peaks is no louder than the louder one
  (`AmplitudeAtBelowPeak`).

**The assumptions a theorem states.** `ScannerVerdicts = {}` is the deployment of this
repository: the scan adapter in `audio-api` is the one producer of scan results (DOC:506). It
is needed for everything about the version that was scanned, since a second scanner may report
on a version nobody compared; the gate itself, `NoLostScan` and `PinnedForGood` of the intake
are proved without it. One completion at a time is what the web client does (a run of
`UploadPage.tsx` awaits its one `completeUpload`); the API does not enforce it, and
`IntakeDoubleComplete` and `EndToEndLateVerification` show what happens otherwise, which is
why the theorems that can do without it are proved without it. `LimitsAgree` is about
`TRANSCODE_MAXIMUM_ATTEMPTS`, which worker and `audio-events` each read from their own
environment; both default to 3.

**Only model-checked.** Liveness (`VerifiedIsDecided`, `UploadSettles`,
`LoneRunSettles`, `CallbackSettles`, `LoadingEnds`, `LoadingSettles`): ENABLED and fairness
are out of the prover's reach. Every invariant and every action property that a passing run
checks is proved.

## 6. What would come next

* `UploadFlow` and `AudioPipeline` meet in the status the API reports: with `UploadSettles`
  as the premise, an abstract specification of what the uploader sees would be the next one
  to state.
* An abstract session (one identity, one cache) that `WebSession` implements.
* `EndToEnd` with two audios: the rows of two audios share only the event table, whose ids
  carry the audio; the theorems cover it, the liveness run does not.

## 7. Not modelled

* The fixed-window limiter of `httpapi/handler.go`: one counter and one time behind a
  mutex. That up to twice the limit passes around the border of a window is how a fixed
  window works, and no document promises more.
* Token verification, the URL signer, message contracts, observability, configuration,
  layout and styles: no state, or none that a decision in this repository depends on.
* `GetAudio`, `GetPlayback`: they read one row and change nothing. A signed URL outlives
  the publication it was given for; that is its nature, and `UpdateVisibility` writes a
  column that nothing of what it read before can change.
* Messages a consumer cannot parse, and rows it does not know: they change no row and come
  back for ever, since the local queues have no redrive policy. `ConsumeResult` has the
  unknown job as a step that changes nothing.
* What an exhausted message says: an exception that is not a `WorkerError` reports nothing
  (`main.py:145-159`), on the last attempt either. The message is not deleted, so it comes
  back, and the receive after that settles it (`UploadSettles`).
* Media processing: FFmpeg succeeds, or fails finally or retryably. The windows of
  `media.py` are one sequential loop over a stream, with no second actor.
* `UploadFlow`: the title, the progress numbers, and the wording of errors. A run
  that was abandoned brings its upload back on the page with its next answer, and two
  overlapping runs can leave the page with a cancel that does nothing; the model contains
  these behaviours, no property excludes them, because neither a document nor the code
  promises anything about a run that was abandoned.
* `WebSession`: return addresses and display names; what the OIDC client and React Query do
  inside is modelled from how the code uses them (the external definitions of the map).
* `WebPlayer`: volume and mute, `isBuffering`, the open sheet, and shuffle, which nothing
  reads. `repeatMode` is a choice made when the queue ends, where alone it matters.
  `playTrack` keeps the old time until the element reports its own; the model has it so. No
  page that is routed today renders a list with Play buttons, so a queue longer than one
  comes from components (`TrackCard`, `TrackRow`) that are there and not yet reached.
* The canvases of the footer (`PersistentPlayer.tsx:104`) and of the sheet
  (`MobilePlayerSheet.tsx:24`): `Seek` has the clicks and keys on them, but what they show
  is not modelled, and the theorems about the canvas are about the track page's. The
  footer's canvas has no key, so it keeps its energy from one track to the next.
* Colours and shapes of the waveform, the pages without a backend, `LibraryPage`'s route
  (`router.tsx:38`); its list is that of `AudioCatalog`.
* Containers and deployment. That the local queues have no redrive policy is used in
  `TranscodePipeline`, where no message is moved away.
