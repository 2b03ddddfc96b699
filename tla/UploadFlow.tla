------------------------------ MODULE UploadFlow ------------------------------
(***************************************************************************)
(* The upload page of the web client (services/web/src/pages/              *)
(* UploadPage.tsx, stores/uploadStore.ts, services/uploadService.ts) and   *)
(* the reset on a change of identity (app/providers.tsx).                  *)
(*                                                                         *)
(* The store outlives the page and has no idea of runs: every runUpload    *)
(* that was ever started goes on writing into it until it ends, also after *)
(* the file was removed, another one was chosen, the page was left or      *)
(* somebody else signed in.  A run stands for the upload it creates.       *)
(***************************************************************************)
CONSTANTS
    Run,        \* bound: the runs of runUpload, each of which creates one audio
    None        \* null and undefined

ASSUME FlowAssumption == None \notin Run

VARIABLES
    store,      \* useUploadStore
    file,       \* page: a file and a title are there
    abortRef,   \* page: the controller cancel() would abort, named by its run
    mine,       \* page: the runs started since the page was mounted
    phase,      \* per run: what runUpload is waiting for
    server,     \* per run: the status of its audio
    polls,      \* per run: the answer of a GET under way
    cache,      \* per run: the query's data
    shown       \* the data the status effect last ran with

pageVars == <<file, abortRef, mine>>
queryVars == <<polls, cache, shown>>
flowVars == <<store, pageVars, phase, server, queryVars>>

Stage == {"idle", "preparing", "uploading", "verifying", "processing", "ready", "failed"}
Terminal == {"READY", "STOPPED"}   \* STOPPED: one of the four failure statuses
Status == {"INITIATED", "PROCESSING"} \cup Terminal
Phase == {"unused", "preparing", "uploading", "cancelled", "verifying", "over"}
Record == [id: Run, status: Status]

\* Runs that will still write into the store.
Active == {r \in Run : phase[r] \notin {"unused", "over"}}

-----------------------------------------------------------------------------
(* The store                                                               *)

\* Mutant: the reset forgets the session.
ResetKeepingSession ==
    [stage |-> "idle", session |-> store.session, record |-> None, error |-> FALSE]

Reset == [stage |-> "idle", session |-> None, record |-> None, error |-> FALSE]

Failed(s) == [s EXCEPT !.stage = "failed", !.error = TRUE]

-----------------------------------------------------------------------------
FlowInit ==
    /\ store = [stage |-> "idle", session |-> None, record |-> None, error |-> FALSE]
    /\ file = FALSE
    /\ abortRef = None
    /\ mine = {}
    /\ phase = [r \in Run |-> "unused"]
    /\ server = [r \in Run |-> None]
    /\ polls = [r \in Run |-> None]
    /\ cache = [r \in Run |-> None]
    /\ shown = None

(* What the user does                                                      *)

\* selectFile; a file it rejects leaves the one chosen before in place.
SelectFile ==
    /\ \/ store' = Reset /\ file' = TRUE
       \/ store' = Failed(Reset) /\ UNCHANGED file
    /\ UNCHANGED <<abortRef, mine, phase, server, queryVars>>

RemoveFile ==
    /\ file
    /\ file' = FALSE
    /\ store' = Reset
    /\ UNCHANGED <<abortRef, mine, phase, server, queryVars>>

\* runUpload up to its first await.  Submitting the form does not reset the store,
\* which also the Enter key does after a failure; the Retry button does.
StartRun(r) ==
    /\ phase[r] = "unused"
    /\ file
    /\ \/ store.stage \in {"idle", "failed"}
          /\ store' = [store EXCEPT !.stage = "preparing", !.error = FALSE]
       \/ store.stage = "failed"
          /\ store' = [Reset EXCEPT !.stage = "preparing"]
    /\ phase' = [phase EXCEPT ![r] = "preparing"]
    /\ abortRef' = r
    /\ mine' = mine \cup {r}
    /\ UNCHANGED <<file, server, queryVars>>

\* The button aborts whatever controller is in abortRef.  uploadFile listens only
\* while its request is out: before and after that an abort is lost.
Cancel ==
    /\ store.stage = "uploading"
    /\ abortRef # None
    /\ phase[abortRef] = "uploading"
    /\ phase' = [phase EXCEPT ![abortRef] = "cancelled"]
    /\ UNCHANGED <<store, pageVars, server, queryVars>>

\* Leaving the page and coming back: its state is new, the store's is not, and the
\* status effect runs again with whatever the cache holds.
Remount ==
    /\ file' = FALSE
    /\ abortRef' = None
    /\ mine' = {}
    /\ shown' = None
    /\ UNCHANGED <<store, phase, server, polls, cache>>

\* AppProviders: another subject signed in or out.
ChangeIdentity ==
    /\ store' = Reset
    /\ polls' = [r \in Run |-> None]
    /\ cache' = [r \in Run |-> None]
    /\ UNCHANGED <<pageVars, phase, server, shown>>

-----------------------------------------------------------------------------
(* One run                                                                 *)

\* finally: the page's reference is cleared, whoever's controller it is.
End(r) ==
    /\ phase' = [phase EXCEPT ![r] = "over"]
    /\ abortRef' = IF r \in mine THEN None ELSE abortRef

\* Mutant: the stage changes only when the file is sent.
UploadCreatedQuietly(r) ==
    /\ phase[r] = "preparing"
    /\ phase' = [phase EXCEPT ![r] = "uploading"]
    /\ server' = [server EXCEPT ![r] = "INITIATED"]
    /\ store' = [store EXCEPT !.session = r]
    /\ UNCHANGED <<pageVars, queryVars>>

\* createUpload returns: the session and the stage.
UploadCreated(r) ==
    /\ phase[r] = "preparing"
    /\ phase' = [phase EXCEPT ![r] = "uploading"]
    /\ server' = [server EXCEPT ![r] = "INITIATED"]
    /\ store' = [store EXCEPT !.session = r, !.stage = "uploading"]
    /\ UNCHANGED <<pageVars, queryVars>>

\* uploadFile returns.
FileUploaded(r) ==
    /\ phase[r] = "uploading"
    /\ phase' = [phase EXCEPT ![r] = "verifying"]
    /\ store' = [store EXCEPT !.stage = "verifying"]
    /\ UNCHANGED <<pageVars, server, queryVars>>

\* completeUpload returns; the answer was given some time before.
Completed(r) ==
    /\ phase[r] = "verifying"
    /\ server[r] # "INITIATED"
    /\ store' = [store EXCEPT !.record = [id |-> r, status |-> "PROCESSING"],
                              !.stage = "processing"]
    /\ End(r)
    /\ UNCHANGED <<file, mine, server, queryVars>>

\* catch: any of the three requests fails, or was cancelled.
RunFailed(r) ==
    /\ r \in Active
    /\ store' = Failed(store)
    /\ End(r)
    /\ UNCHANGED <<file, mine, server, queryVars>>

-----------------------------------------------------------------------------
(* The API, and the status query.  Once READY or stopped, a status stays so *)
(* here: that the service may change its mind is PipelineLateFailure's      *)
(* subject, not the page's.                                                 *)

ServeComplete(r) ==
    /\ phase[r] = "verifying"
    /\ server[r] = "INITIATED"
    /\ server' = [server EXCEPT ![r] = "PROCESSING"]
    /\ UNCHANGED <<store, pageVars, phase, queryVars>>

Process(r) ==
    /\ server[r] = "PROCESSING"
    /\ \E status \in Terminal : server' = [server EXCEPT ![r] = status]
    /\ UNCHANGED <<store, pageVars, phase, queryVars>>

\* The query is enabled in "processing" and polls until the status is terminal.
Poll(r) ==
    /\ store.stage = "processing"
    /\ store.session = r
    /\ cache[r] \notin Terminal
    /\ polls[r] = None
    /\ polls' = [polls EXCEPT ![r] = server[r]]
    /\ UNCHANGED <<store, pageVars, phase, server, cache, shown>>

PollAnswered(r) ==
    /\ polls[r] # None
    /\ cache' = [cache EXCEPT ![r] = polls[r]]
    /\ polls' = [polls EXCEPT ![r] = None]
    /\ UNCHANGED <<store, pageVars, phase, server, shown>>

\* Mutant: undefined is taken for data.
DataUnchecked ==
    IF store.session = None THEN None
    ELSE [id |-> store.session, status |-> cache[store.session]]

\* statusQuery.data: the key is the session's audio.
Data ==
    IF store.session = None THEN None
    ELSE IF cache[store.session] = None THEN None
    ELSE [id |-> store.session, status |-> cache[store.session]]

\* Mutant: only READY ends the stage.
AfterStatusReadyOnly(value) ==
    [store EXCEPT !.record = value, !.stage = IF value.status = "READY" THEN "ready" ELSE @]

AfterStatus(value) ==
    LET s == [store EXCEPT !.record = value]
    IN  IF value.status = "READY" THEN [s EXCEPT !.stage = "ready"]
        ELSE IF value.status = "STOPPED" THEN Failed(s) ELSE s

\* The effect on statusQuery.data: it runs when the data changes, whatever the stage.
StatusEffect ==
    /\ Data # shown
    /\ shown' = Data
    /\ store' = IF Data = None THEN store ELSE AfterStatus(Data)
    /\ UNCHANGED <<pageVars, phase, server, polls, cache>>

-----------------------------------------------------------------------------
RunStep(r) == UploadCreated(r) \/ FileUploaded(r) \/ Completed(r) \/ RunFailed(r)

FlowNext ==
    \/ SelectFile \/ RemoveFile \/ Cancel \/ Remount \/ ChangeIdentity \/ StatusEffect
    \/ \E r \in Run : \/ StartRun(r) \/ RunStep(r) \/ ServeComplete(r)
                      \/ Process(r) \/ Poll(r) \/ PollAnswered(r)

\* A request is answered or fails, the API decides (UploadSettles of AudioPipeline),
\* the query polls and React renders.  The user is free to do nothing.
FlowFairness ==
    /\ WF_flowVars(StatusEffect)
    /\ \A r \in Run : /\ WF_flowVars(RunStep(r))
                      /\ WF_flowVars(Process(r))
                      /\ WF_flowVars(Poll(r))
                      /\ WF_flowVars(PollAnswered(r))

FlowSpec == FlowInit /\ [][FlowNext]_flowVars
FairFlowSpec == FlowSpec /\ FlowFairness

-----------------------------------------------------------------------------
(* Properties                                                              *)

\* Every variable has its type.
FlowTypeOK ==
    /\ store \in [stage: Stage, session: Run \cup {None}, record: Record \cup {None},
                  error: BOOLEAN]
    /\ file \in BOOLEAN
    /\ abortRef \in Run \cup {None}
    /\ mine \subseteq Run
    /\ phase \in [Run -> Phase]
    /\ server \in [Run -> Status \cup {None}]
    /\ polls \in [Run -> Status \cup {None}]
    /\ cache \in [Run -> Status \cup {None}]
    /\ shown \in Record \cup {None}

\* "ready" shows a link to the record's track (UploadPage.tsx:154): the record is
\* then that of the upload being watched, and it was READY when it was read, whatever
\* the runs that were abandoned wrote in the meantime.
ReadyIsWatched ==
    store.stage = "ready" =>
        /\ store.session # None
        /\ store.record = [id |-> store.session, status |-> "READY"]

\* Only its user and the runs themselves wake an idle page: a late answer to a poll,
\* data that are still cached and a rendering leave it alone, also while runs that were
\* abandoned go on (UploadPage.tsx:54-73).
LateAnswersStayAway ==
    [][(store.stage = "idle" /\ UNCHANGED phase) => store'.stage \in {"idle", "failed"}]_flowVars

\* A run that starts when no other one is left ends and leaves the page in something
\* its user can act on, for good -- unless another run is started beside it, or the
\* store is reset under it after its upload was created, which is the case
\* ProcessingIsPolled is about (UploadPage.tsx:98-118).
LoneRunSettles ==
    \A r \in Run :
        (Active = {r} /\ phase[r] = "preparing") ~>
            \/ Active = {} /\ store.stage \in {"idle", "ready", "failed"}
            \/ phase[r] \in {"uploading", "cancelled", "verifying"} /\ store.session # r
            \/ ~(Active \subseteq {r})

\* What the page shows as being processed is an upload it watches: the query is enabled.
ProcessingIsPolled == store.stage = "processing" => store.session # None

=============================================================================
