--------------------------- MODULE UploadFlowProofs ---------------------------
(***************************************************************************)
(* Proofs about UploadFlow, for any number of runs that were started and   *)
(* abandoned: the variables have their types, "ready" speaks of the upload *)
(* that is watched, and no late answer wakes an idle page.                 *)
(***************************************************************************)
EXTENDS UploadFlow, TLAPS

\* A final status is the last one a query asks for, ...
FinalIsLast == \A r \in Run : cache[r] \in Terminal => polls[r] = None

\* ... so the data behind "ready" cannot be followed by older ones.
ReadyIsCached ==
    store.stage = "ready" =>
        /\ store.session \in Run
        /\ store.record = [id |-> store.session, status |-> "READY"]
        /\ cache[store.session] = "READY"

\* An idle store watches nothing.
IdleWatchesNothing == store.stage = "idle" => store.session = None

FlowInv == FlowTypeOK /\ FinalIsLast /\ ReadyIsCached /\ IdleWatchesNothing

-----------------------------------------------------------------------------
LEMMA ResetType ==
    /\ Reset \in [stage: Stage, session: Run \cup {None}, record: Record \cup {None},
                  error: BOOLEAN]
    /\ Reset.stage = "idle" /\ Reset.session = None
    /\ Failed(Reset).stage = "failed"
    /\ Failed(Reset) \in [stage: Stage, session: Run \cup {None}, record: Record \cup {None},
                          error: BOOLEAN]
    /\ [Reset EXCEPT !.stage = "preparing"].stage = "preparing"
    /\ [Reset EXCEPT !.stage = "preparing"] \in
         [stage: Stage, session: Run \cup {None}, record: Record \cup {None}, error: BOOLEAN]
BY DEF Reset, Failed, Stage

LEMMA FlowInvInit == FlowInit => FlowInv
<1> SUFFICES ASSUME FlowInit
             PROVE  FlowInv
  OBVIOUS
<1>1. FlowTypeOK
  <2>1. store \in [stage: Stage, session: Run \cup {None}, record: Record \cup {None},
                   error: BOOLEAN]
    BY DEF FlowInit, Stage
  <2>2. phase \in [Run -> Phase]
    BY DEF FlowInit, Phase
  <2> QED BY <2>1, <2>2 DEF FlowInit, FlowTypeOK
<1>2. FinalIsLast /\ ReadyIsCached /\ IdleWatchesNothing
  BY DEF FlowInit, FinalIsLast, ReadyIsCached, IdleWatchesNothing
<1> QED BY <1>1, <1>2 DEF FlowInv

\* The status effect, on data a query holds.
LEMMA StatusEffectInv ==
    ASSUME FlowInv, StatusEffect
    PROVE  FlowInv'
<1> USE DEF FlowInv
<1>1. UNCHANGED <<file, abortRef, mine, phase, server, polls, cache>>
  BY DEF StatusEffect, pageVars
<1>2. CASE Data = None
  <2>1. store' = store /\ shown' = None
    BY <1>2 DEF StatusEffect
  <2> QED BY <1>1, <2>1 DEF FlowTypeOK, FinalIsLast, ReadyIsCached, IdleWatchesNothing
<1>3. CASE Data # None
  <2>1. /\ store.session \in Run
        /\ cache[store.session] \in Status
        /\ Data = [id |-> store.session, status |-> cache[store.session]]
    BY <1>3 DEF Data, FlowTypeOK
  <2>2. PICK value \in Record : value = Data
    BY <2>1 DEF Record
  <2>3. value.id = store.session /\ value.status = cache[store.session]
    BY <2>1, <2>2
  <2>4. store' = AfterStatus(value) /\ shown' = value
    BY <1>3, <2>2 DEF StatusEffect
  <2>5. store.stage = "idle" => FALSE
    BY <2>1, FlowAssumption DEF IdleWatchesNothing
  <2>6. store \in [stage: Stage, session: Run \cup {None}, record: Record \cup {None},
                   error: BOOLEAN]
    BY DEF FlowTypeOK
  <2>7. CASE value.status = "READY"
    <3>1. store' = [store EXCEPT !.record = value, !.stage = "ready"]
      BY <2>4, <2>6, <2>7 DEF AfterStatus
    <3>2. /\ store' \in [stage: Stage, session: Run \cup {None}, record: Record \cup {None},
                         error: BOOLEAN]
          /\ store'.stage = "ready" /\ store'.session = store.session /\ store'.record = value
      BY <2>6, <3>1 DEF Stage
    <3>3. value = [id |-> store.session, status |-> "READY"]
      BY <2>1, <2>2, <2>3, <2>7
    <3> QED BY <1>1, <2>1, <2>3, <2>4, <2>7, <3>2, <3>3
            DEF FlowTypeOK, FinalIsLast, ReadyIsCached, IdleWatchesNothing
  <2>8. CASE value.status = "STOPPED"
    <3>1. store' = [store EXCEPT !.record = value, !.stage = "failed", !.error = TRUE]
      BY <2>4, <2>6, <2>8 DEF AfterStatus, Failed
    <3>2. /\ store' \in [stage: Stage, session: Run \cup {None}, record: Record \cup {None},
                         error: BOOLEAN]
          /\ store'.stage = "failed"
      BY <2>6, <3>1 DEF Stage
    <3> QED BY <1>1, <2>4, <3>2
            DEF FlowTypeOK, FinalIsLast, ReadyIsCached, IdleWatchesNothing
  <2>9. CASE value.status \notin {"READY", "STOPPED"}
    <3>1. store' = [store EXCEPT !.record = value]
      BY <2>4, <2>9 DEF AfterStatus
    <3>2. /\ store' \in [stage: Stage, session: Run \cup {None}, record: Record \cup {None},
                         error: BOOLEAN]
          /\ store'.stage = store.stage
      BY <2>6, <3>1
    <3>3. store.stage # "ready"
      BY <2>3, <2>9 DEF ReadyIsCached
    <3> QED BY <1>1, <2>4, <2>5, <3>2, <3>3
            DEF FlowTypeOK, FinalIsLast, ReadyIsCached, IdleWatchesNothing
  <2> QED BY <2>7, <2>8, <2>9
<1> QED BY <1>2, <1>3

LEMMA FlowInvNext == FlowInv /\ [FlowNext]_flowVars => FlowInv'
<1> SUFFICES ASSUME FlowInv, [FlowNext]_flowVars
             PROVE  FlowInv'
  OBVIOUS
<1> USE DEF FlowInv, FinalIsLast, ReadyIsCached, IdleWatchesNothing, pageVars, queryVars
<1>1. CASE SelectFile
  BY <1>1, ResetType DEF SelectFile, FlowTypeOK
<1>2. CASE RemoveFile
  BY <1>2, ResetType DEF RemoveFile, FlowTypeOK
<1>3. CASE Cancel
  BY <1>3 DEF Cancel, FlowTypeOK, Phase
<1>4. CASE Remount
  BY <1>4 DEF Remount, FlowTypeOK
<1>5. CASE ChangeIdentity
  BY <1>5, ResetType, FlowAssumption DEF ChangeIdentity, FlowTypeOK
<1>6. CASE StatusEffect
  BY <1>6, StatusEffectInv
<1>7. ASSUME NEW r \in Run, StartRun(r)
      PROVE  FlowInv'
  <2>1. store' \in [stage: Stage, session: Run \cup {None}, record: Record \cup {None},
                    error: BOOLEAN]
        /\ store'.stage = "preparing"
    BY <1>7, ResetType DEF StartRun, FlowTypeOK, Stage
  <2> QED BY <1>7, <2>1 DEF StartRun, FlowTypeOK, Phase
<1>8. ASSUME NEW r \in Run, UploadCreated(r)
      PROVE  FlowInv'
  BY <1>8 DEF UploadCreated, FlowTypeOK, Phase, Stage, Status
<1>9. ASSUME NEW r \in Run, FileUploaded(r)
      PROVE  FlowInv'
  BY <1>9 DEF FileUploaded, FlowTypeOK, Phase, Stage
<1>10. ASSUME NEW r \in Run, Completed(r)
       PROVE  FlowInv'
  <2>1. [id |-> r, status |-> "PROCESSING"] \in Record
    BY DEF Record, Status
  <2> QED BY <1>10, <2>1 DEF Completed, End, FlowTypeOK, Phase, Stage
<1>11. ASSUME NEW r \in Run, RunFailed(r)
       PROVE  FlowInv'
  BY <1>11 DEF RunFailed, End, Failed, FlowTypeOK, Phase, Stage
<1>12. ASSUME NEW r \in Run, ServeComplete(r) \/ Process(r)
       PROVE  FlowInv'
  BY <1>12 DEF ServeComplete, Process, FlowTypeOK, Status
<1>13. ASSUME NEW r \in Run, Poll(r)
       PROVE  FlowInv'
  BY <1>13 DEF Poll, FlowTypeOK
<1>14. ASSUME NEW r \in Run, PollAnswered(r)
       PROVE  FlowInv'
  BY <1>14 DEF PollAnswered, FlowTypeOK, Terminal
<1>15. CASE UNCHANGED flowVars
  BY <1>15 DEF flowVars, FlowTypeOK
<1> QED
  BY <1>1, <1>2, <1>3, <1>4, <1>5, <1>6, <1>7, <1>8, <1>9, <1>10, <1>11, <1>12, <1>13,
     <1>14, <1>15
  DEF FlowNext, RunStep

LEMMA FlowInvAlways == FlowSpec => []FlowInv
BY FlowInvInit, FlowInvNext, PTL DEF FlowSpec

-----------------------------------------------------------------------------
(* The theorems                                                            *)

\* Every reachable state of the page, its store and its queries is well typed.
THEOREM FlowTypeCorrect == FlowSpec => []FlowTypeOK
<1>1. FlowInv => FlowTypeOK
  BY DEF FlowInv
<1> QED BY <1>1, FlowInvAlways, PTL

\* The link of "ready" (UploadPage.tsx:154) leads to the upload that is watched, which
\* was READY, whatever any number of abandoned runs wrote in the meantime.
THEOREM ReadyOfWatched == FlowSpec => []ReadyIsWatched
<1>1. FlowInv => ReadyIsWatched
  BY FlowAssumption DEF FlowInv, ReadyIsCached, ReadyIsWatched
<1> QED BY <1>1, FlowInvAlways, PTL

\* No late answer, no data in the cache and no rendering wakes an idle page, however
\* many abandoned runs are still going on: only its user and those runs do.
THEOREM LateAnswersNeverReturn == FlowSpec => LateAnswersStayAway
<1>1. FlowInv /\ [FlowNext]_flowVars =>
        [(store.stage = "idle" /\ UNCHANGED phase) => store'.stage \in {"idle", "failed"}]_flowVars
  <2> SUFFICES ASSUME FlowInv, FlowNext, store.stage = "idle", phase' = phase
               PROVE  store'.stage \in {"idle", "failed"}
    OBVIOUS
  <2>1. store.session = None
    BY DEF FlowInv, IdleWatchesNothing
  <2>2. phase \in [Run -> Phase]
    BY DEF FlowInv, FlowTypeOK
  <2>3. CASE StatusEffect
    <3>1. Data = None
      BY <2>1 DEF Data
    <3> QED BY <2>3, <3>1 DEF StatusEffect
  <2>4. ASSUME NEW r \in Run, StartRun(r) \/ UploadCreated(r) \/ FileUploaded(r) \/ Completed(r)
        PROVE  FALSE
    BY <2>2, <2>4 DEF StartRun, UploadCreated, FileUploaded, Completed, End
  <2>5. ASSUME NEW r \in Run, RunFailed(r)
        PROVE  FALSE
    BY <2>2, <2>5 DEF RunFailed, End, Active
  <2>6. SelectFile \/ RemoveFile \/ ChangeIdentity => store'.stage \in {"idle", "failed"}
    BY ResetType DEF SelectFile, RemoveFile, ChangeIdentity
  <2>7. Cancel \/ Remount => store' = store
    BY DEF Cancel, Remount
  <2>8. ASSUME NEW r \in Run, ServeComplete(r) \/ Process(r) \/ Poll(r) \/ PollAnswered(r)
        PROVE  store' = store
    BY <2>8 DEF ServeComplete, Process, Poll, PollAnswered
  <2> QED BY <2>3, <2>4, <2>5, <2>6, <2>7, <2>8 DEF FlowNext, RunStep
<1> QED BY <1>1, FlowInvAlways, PTL DEF FlowSpec, LateAnswersStayAway

=============================================================================
