--------------------- MODULE StorageBackedFetcherProofs ---------------------
(***************************************************************************)
(* Proofs about StorageBackedFetcher: it uses the handle as DBHandle       *)
(* allows, so that what is proved there holds here; and Close waits for    *)
(* the saves that Fetch started.                                           *)
(***************************************************************************)
EXTENDS StorageBackedFetcher, DBHandleProofs, FiniteSetTheorems

LEMMA WorkerFacts ==
  /\ Setup \in Caller /\ Setup \in Proc
  /\ Main # Setup /\ AfterFunc # Setup
  /\ \A p \in Worker : p \in Caller /\ p \in Proc /\ p # Setup
  /\ \A p \in Request : p \in Worker
  /\ \A l \in Listener : l = WaitListener
  /\ WaitListener \in Listener
  BY WorkerAssumption, ProcAssumption DEF Worker, Proc

LEMMA StageFacts ==
  /\ Stages = {"lookup", "row", "save", "saveId"}
  /\ \A s \in Stages : StageKey[s] \in Key
<1>1. Stages = {"lookup", "row", "save", "saveId"}
  BY DEF Stages, StageKey
<1> QED
  BY <1>1, KeyAssumption

USE DEF HandleInv, Goto, Free, Enter, Return, Panic,
        handleVars, procVars, tickerVars, historyVars, fetcherVars

-----------------------------------------------------------------------------
(***************************************************************************)
(* The handle's behaviour under the fetcher is one that DBHandle allows.   *)
(***************************************************************************)
LEMMA HandleSteps == [FetcherNext]_allVars => [Next]_vars
<1> SUFFICES ASSUME [FetcherNext]_allVars PROVE Next \/ UNCHANGED vars
  OBVIOUS
<1>1. CASE AddWaitListener
  BY <1>1, WorkerFacts DEF AddWaitListener, Next, Invoke
<1>2. ASSUME NEW p \in Worker, Arrive(p) \/ WorkerStep(p)
      PROVE  Next \/ UNCHANGED vars
  <2>1. CASE AskStatement(p)
    BY <2>1, WorkerFacts, StageFacts DEF AskStatement, Next, Invoke
  <2>2. CASE Arrive(p) \/ ExecLookup(p) \/ ExecSave(p) \/ ExecFails(p) \/ FetchLive(p)
    BY <2>2 DEF Arrive, ExecLookup, ExecSave, ExecFails, FetchLive
  <2> QED
    BY <1>2, <2>1, <2>2 DEF WorkerStep
<1>3. ASSUME NEW p \in Proc, WaitReturns(p)
      PROVE  Next
  BY <1>3 DEF WaitReturns, Next, Continue
<1>4. CASE StartServing \/ StopServing
  BY <1>4 DEF StartServing, StopServing
<1>5. CASE Shutdown
  BY <1>5 DEF Shutdown, Next
<1>6. CASE HandleStep
  BY <1>6 DEF HandleStep, Next, Continue
<1>7. CASE UNCHANGED allVars
  BY <1>7 DEF allVars
<1> QED
  BY <1>1, <1>2, <1>3, <1>4, <1>5, <1>6, <1>7 DEF FetcherNext

\* Every behaviour of the fetcher is a behaviour of the handle.
THEOREM UsesHandle == FetcherSpec => Spec
<1>1. FetcherInit => Init
  BY DEF FetcherInit
<1> QED
  BY <1>1, HandleSteps, PTL DEF FetcherSpec, Spec

-----------------------------------------------------------------------------
(***************************************************************************)
(* The WaitGroup counts saves.                                             *)
(***************************************************************************)
PendingSaves == {p \in Request : work[p] \in SaveStages}

LEMMA PendingSavesFinite ==
  IsFiniteSet(PendingSaves) /\ Cardinality(PendingSaves) \in Nat
<1>1. IsFiniteSet(PendingSaves)
  BY FS_Subset, WorkerAssumption DEF PendingSaves
<1> QED
  BY <1>1, FS_CardinalityType

\* Done is called exactly when a counted save ends.
LEMMA StageCounts ==
  ASSUME FetcherTypeOK, SavingCountsSaves, NEW p \in Worker, NEW stage,
         Stage(p, stage),
         work[p] \in SaveStages => stage \in SaveStages \union Outcomes,
         work[p] \notin SaveStages => stage \notin SaveStages
  PROVE  SavingCountsSaves' /\ saving' \in Nat
<1>1. saving = Cardinality(PendingSaves)
  BY DEF SavingCountsSaves, PendingSaves
<1>2. \A q \in Request : work'[q] = IF q = p THEN stage ELSE work[q]
  BY WorkerFacts DEF Stage, FetcherTypeOK
<1>3. CASE p \in Request /\ work[p] \in SaveStages /\ stage \in Outcomes
  <2>1. stage \notin SaveStages
    BY <1>3 DEF Outcomes, SaveStages
  <2>2. PendingSaves' = PendingSaves \ {p}
    BY <1>2, <2>1 DEF PendingSaves
  <2>3. p \in PendingSaves
    BY <1>3 DEF PendingSaves
  <2>4. Cardinality(PendingSaves \ {p}) = Cardinality(PendingSaves) - 1
    BY <2>3, PendingSavesFinite, FS_RemoveElement
  <2>5. Cardinality(PendingSaves \ {p}) \in Nat
    BY PendingSavesFinite, FS_RemoveElement, FS_CardinalityType
  <2>6. saving' = saving - 1
    BY <1>3 DEF Stage
  <2>7. saving' = Cardinality(PendingSaves')
    BY <1>1, <2>2, <2>4, <2>6
  <2> QED
    BY <2>2, <2>5, <2>7 DEF SavingCountsSaves, PendingSaves
<1>4. CASE ~(p \in Request /\ work[p] \in SaveStages /\ stage \in Outcomes)
  <2>1. PendingSaves' = PendingSaves
    BY <1>2, <1>4 DEF PendingSaves
  <2>2. saving' = saving
    BY <1>4 DEF Stage
  <2>3. saving' = Cardinality(PendingSaves')
    BY <1>1, <2>1, <2>2
  <2> QED
    BY <1>1, <2>2, <2>3, PendingSavesFinite DEF SavingCountsSaves, PendingSaves
<1> QED
  BY <1>3, <1>4

\* Add is called exactly when a counted save begins.
LEMMA FetchCounts ==
  ASSUME FetcherTypeOK, SavingCountsSaves, NEW p \in Worker, FetchLive(p)
  PROVE  SavingCountsSaves' /\ saving' \in Nat
<1>1. saving = Cardinality(PendingSaves) /\ saving \in Nat
  BY DEF SavingCountsSaves, PendingSaves, FetcherTypeOK
<1>2. work[p] = "web" /\ "web" \notin SaveStages
  BY DEF FetchLive, SaveStages
<1>3. CASE work' = [work EXCEPT ![p] = "save"] /\ p \in Request
  <2>1. \A q \in Request : work'[q] = IF q = p THEN "save" ELSE work[q]
    BY <1>3, WorkerFacts DEF FetcherTypeOK
  <2>2. PendingSaves' = PendingSaves \union {p}
    BY <1>3, <2>1 DEF PendingSaves, SaveStages
  <2>3. p \notin PendingSaves
    BY <1>2 DEF PendingSaves
  <2>4. Cardinality(PendingSaves \union {p}) = Cardinality(PendingSaves) + 1
    BY <2>3, PendingSavesFinite, FS_AddElement
  <2>5. saving' = saving + 1
    <3>1. work'[p] = "save" /\ work' # [work EXCEPT ![p] = "failed"]
      BY <1>3, <2>1 DEF FetcherTypeOK
    <3> QED
      BY <1>3, <3>1 DEF FetchLive
  <2>6. saving' = Cardinality(PendingSaves')
    BY <1>1, <2>2, <2>4, <2>5
  <2> QED
    BY <1>1, <2>5, <2>6 DEF SavingCountsSaves, PendingSaves
<1>4. CASE UNCHANGED saving /\ (p \notin Request \/ work' = [work EXCEPT ![p] = "failed"])
  <2>1. PendingSaves' = PendingSaves
    <3>1. \A q \in Request : q = p \/ work'[q] = work[q]
      BY WorkerFacts DEF FetchLive, FetcherTypeOK
    <3>2. p \in Request => work'[p] = "failed"
      BY <1>4, WorkerFacts DEF FetcherTypeOK
    <3> QED
      BY <1>2, <3>1, <3>2 DEF PendingSaves, SaveStages
  <2>2. saving' = Cardinality(PendingSaves')
    BY <1>1, <1>4, <2>1
  <2> QED
    BY <1>1, <1>4, <2>2 DEF SavingCountsSaves, PendingSaves
<1>5. work' # [work EXCEPT ![p] = "save"] => work' = [work EXCEPT ![p] = "failed"] /\ UNCHANGED saving
  BY DEF FetchLive
<1>6. p \notin Request => UNCHANGED saving
  BY DEF FetchLive
<1> QED
  BY <1>3, <1>4, <1>5, <1>6

-----------------------------------------------------------------------------
(***************************************************************************)
(* One lemma per kind of step.                                             *)
(***************************************************************************)
LEMMA FetcherInvInit == FetcherInit => FetcherInv
<1> SUFFICES ASSUME FetcherInit PROVE FetcherInv
  OBVIOUS
<1>1. TypeOK
  BY InvInit DEF FetcherInit
<1>2. FetcherTypeOK
  BY <1>1 DEF FetcherInit, FetcherTypeOK
<1>3. SavingCountsSaves
  <2>1. {p \in Request : work[p] \in SaveStages} = {}
    BY WorkerFacts DEF FetcherInit, SaveStages
  <2> QED
    BY <2>1, FS_EmptySet DEF SavingCountsSaves, FetcherInit
<1>4. SetupInv
  BY WorkerFacts DEF FetcherInit, Init, SetupInv
<1>5. CancelInv
  BY ProcFacts DEF FetcherInit, Init, CancelInv, CloseSection
<1>6. WaitInv
  BY DEF FetcherInit, Init, WaitInv
<1> QED
  BY <1>2, <1>3, <1>4, <1>5, <1>6 DEF FetcherInv

\* What a step of a call under way leaves alone.
LEMMA ProceedFacts ==
  ASSUME TypeOK, FetcherInv, NEW p \in Proc, Proceed(p)
  PROVE  /\ UNCHANGED ctx
         /\ accepted \subseteq accepted'
         /\ \A q \in Proc : q # p => pc'[q] = pc[q] /\ ret'[q] = ret[q] /\ arg'[q] = arg[q]
         /\ pc[p] # "close.calling"
         /\ p = Setup => AddSend(Setup)
         /\ pc[p] \notin CloseSection \union {"close.lock"} =>
              /\ UNCHANGED <<accepting, notified>>
              /\ pc'[p] \notin CloseSection \union {"close.lock"}
         /\ notified' = notified \/ pc'[p] = "close.calling"
<1> USE DEF TypeOK, CloseSection
<1>1. CASE StatementLock(p)
  BY <1>1 DEF StatementLock, FetcherInv, SetupInv
<1>2. CASE StatementPrepare(p)
  BY <1>2 DEF StatementPrepare, FetcherInv, SetupInv
<1>3. CASE StatementStore(p)
  BY <1>3 DEF StatementStore, FetcherInv, SetupInv
<1>4. CASE AddSend(p)
  BY <1>4 DEF AddSend
<1>5. CASE PingUse(p)
  BY <1>5 DEF PingUse, FetcherInv, SetupInv
<1>6. CASE CloseLock(p)
  BY <1>6 DEF CloseLock, FetcherInv, SetupInv
<1>7. CASE CloseNextListener(p)
  BY <1>7 DEF CloseNextListener, FetcherInv, SetupInv
<1>8. CASE CloseStatements(p)
  BY <1>8 DEF CloseStatements, FetcherInv, SetupInv
<1>9. CASE CloseDB(p)
  BY <1>9 DEF CloseDB, FetcherInv, SetupInv
<1>10. CASE CloseFinish(p)
  BY <1>10 DEF CloseFinish, FetcherInv, SetupInv
<1> QED
  BY <1>1, <1>2, <1>3, <1>4, <1>5, <1>6, <1>7, <1>8, <1>9, <1>10 DEF Proceed

\* The listener is accepted: the channel is open and empty when main adds it.
LEMMA WaitListenerAccepted ==
  ASSUME TypeOK, HandleInv, FetcherInv, AddSend(Setup)
  PROVE  /\ WaitListener \in accepted'
         /\ pc'[Setup] = "idle"
<1>1. /\ pc[Setup] = "add.send" /\ ret[Setup] = "none" /\ arg[Setup] = WaitListener
      /\ ctx = "live"
  BY DEF AddSend, FetcherInv, SetupInv
<1>2. accepting
  BY <1>1 DEF FetcherInv, CancelInv
<1>3. WaitListener \notin accepted
  BY <1>1, WorkerFacts DEF ArgInv
<1>4. listeners = <<>>
  <2>1. Elements(listeners) = {}
    <3>1. Elements(listeners) \subseteq accepted
      BY DEF ListenerInv
    <3>2. accepted = {}
      BY <1>3, WorkerFacts DEF TypeOK
    <3> QED
      BY <3>1, <3>2
  <2>2. Len(listeners) \in Nat
    BY LenProperties DEF TypeOK
  <2>3. Len(listeners) = 0
    <3>1. 1 \in 1..Len(listeners) => listeners[1] \in Elements(listeners)
      BY DEF Elements
    <3> QED
      BY <2>1, <2>2, <3>1
  <2> QED
    BY <2>3, EmptySeq DEF TypeOK
<1>5. Len(listeners) = 0
  BY <1>4, EmptySeq
<1>6. Len(listeners) < MaxListeners
  BY <1>5, WorkerAssumption
<1>7. accepted' = accepted \union {WaitListener} /\ pc' = [pc EXCEPT ![Setup] = "idle"]
  BY <1>1, <1>2, <1>6, CapacityAssumption DEF AddSend
<1> QED
  BY <1>7, WorkerFacts DEF TypeOK

LEMMA HandleStepKeeps ==
  ASSUME TypeOK, HandleInv, FetcherInv, TypeOK', HandleStep
  PROVE  FetcherInv'
<1>1. FetcherTypeOK' /\ SavingCountsSaves'
  BY DEF HandleStep, FetcherInv, FetcherTypeOK, SavingCountsSaves
<1>2. ASSUME NEW p \in Proc, Proceed(p)
      PROVE  SetupInv' /\ CancelInv' /\ WaitInv'
  <2>1. SetupInv'
    <3>1. CASE p = Setup
      <4>1. WaitListener \in accepted' /\ pc'[Setup] = "idle"
        BY <1>2, <3>1, ProceedFacts, WaitListenerAccepted
      <4>2. serving = "not yet" /\ ctx = "live"
        BY <1>2, <3>1, ProceedFacts DEF AddSend, FetcherInv, SetupInv
      <4> QED
        BY <1>2, <4>1, <4>2, ProceedFacts DEF HandleStep, SetupInv
    <3>2. CASE p # Setup
      <4>1. /\ pc'[Setup] = pc[Setup] /\ ret'[Setup] = ret[Setup] /\ arg'[Setup] = arg[Setup]
            /\ UNCHANGED <<ctx, serving>> /\ accepted \subseteq accepted'
        BY <1>2, <3>2, ProceedFacts, WorkerFacts DEF HandleStep
      <4> QED
        BY <4>1 DEF FetcherInv, SetupInv
    <3> QED
      BY <3>1, <3>2
  <2>2. CancelInv'
    <3>1. UNCHANGED <<ctx, serving, fclosed>> /\ (HandlersDone' <=> HandlersDone)
      BY <1>2, ProceedFacts DEF HandleStep, HandlersDone
    <3>2. ASSUME ctx = "live"
          PROVE  /\ accepting'
                 /\ \A q \in Proc : pc'[q] \notin CloseSection \union {"close.lock"}
      <4>1. \A q \in Proc : pc[q] \notin CloseSection \union {"close.lock"}
        BY <3>2 DEF FetcherInv, CancelInv
      <4> QED
        BY <1>2, <3>2, <4>1, ProceedFacts DEF FetcherInv, CancelInv
    <3> QED
      BY <3>1, <3>2 DEF FetcherInv, CancelInv
  <2>3. WaitInv'
    <3>1. UNCHANGED <<serving, fclosed, work>>
      BY DEF HandleStep
    <3>2. ASSUME WaitListener \in notified'
          PROVE  fclosed \/ \E q \in Proc : pc'[q] = "close.calling"
      <4>1. CASE pc'[p] = "close.calling"
        BY <4>1
      <4>2. CASE notified' = notified
        <5>1. fclosed \/ \E q \in Proc : pc[q] = "close.calling"
          BY <3>2, <4>2 DEF FetcherInv, WaitInv
        <5> QED
          BY <1>2, <5>1, ProceedFacts
      <4> QED
        BY <1>2, <4>1, <4>2, ProceedFacts
    <3> QED
      BY <3>1, <3>2 DEF FetcherInv, WaitInv
  <2> QED
    BY <2>1, <2>2, <2>3
<1>3. CASE Open
  <2>1. /\ UNCHANGED <<ctx, accepting, accepted, notified, serving, fclosed, work>>
        /\ \A q \in Proc : q # Main => pc'[q] = pc[q] /\ ret'[q] = ret[q] /\ arg'[q] = arg[q]
        /\ pc[Main] # "close.calling"
        /\ pc'[Main] \in {"opening", "failed", "idle"}
    BY <1>3, ProcFacts DEF Open, OpenDB, OpenReady, HandleStep, TypeOK
  <2>2. HandlersDone' <=> HandlersDone
    BY <2>1 DEF HandlersDone
  <2>3. SetupInv'
    BY <2>1, WorkerFacts DEF FetcherInv, SetupInv
  <2>4. CancelInv'
    BY <2>1, <2>2 DEF FetcherInv, CancelInv, CloseSection
  <2>5. WaitInv'
    BY <2>1 DEF FetcherInv, WaitInv
  <2> QED
    BY <1>1, <2>3, <2>4, <2>5 DEF FetcherInv
<1>4. CASE AfterFuncFires
  <2>1. /\ UNCHANGED <<ctx, accepting, accepted, notified, serving, fclosed, work>>
        /\ \A q \in Proc : q # AfterFunc => pc'[q] = pc[q] /\ ret'[q] = ret[q] /\ arg'[q] = arg[q]
        /\ pc[AfterFunc] # "close.calling"
        /\ ctx = "cancelled"
    BY <1>4, ProcFacts DEF AfterFuncFires, CloseCheck, HandleStep, TypeOK
  <2>2. HandlersDone' <=> HandlersDone
    BY <2>1 DEF HandlersDone
  <2>3. SetupInv'
    BY <2>1, WorkerFacts DEF FetcherInv, SetupInv
  <2>4. CancelInv'
    BY <2>1, <2>2 DEF FetcherInv, CancelInv, CloseSection
  <2>5. WaitInv'
    BY <2>1 DEF FetcherInv, WaitInv
  <2> QED
    BY <1>1, <2>3, <2>4, <2>5 DEF FetcherInv
<1> QED
  BY <1>1, <1>2, <1>3, <1>4 DEF HandleStep, FetcherInv

\* A worker's step counts saves right and never makes a handler unfinished again.
LEMMA WorkerStepKeeps ==
  ASSUME TypeOK, HandleInv, FetcherInv, TypeOK', NEW p \in Worker, WorkerStep(p)
  PROVE  FetcherInv'
<1> USE DEF FetcherInv
<1>1. CASE AskStatement(p)
  <2>1. /\ UNCHANGED <<ctx, accepting, accepted, notified, serving, fclosed, work, saving>>
        /\ \A q \in Proc : q # p => pc'[q] = pc[q] /\ ret'[q] = ret[q] /\ arg'[q] = arg[q]
        /\ pc[p] # "close.calling"
        /\ pc'[p] \in {"idle", "stmt.lock", "panicked"}
    BY <1>1, WorkerFacts DEF AskStatement, StatementCall, TypeOK
  <2>2. FetcherTypeOK' /\ SavingCountsSaves' /\ (HandlersDone' <=> HandlersDone)
    BY <1>1, <2>1 DEF AskStatement, FetcherTypeOK, SavingCountsSaves, HandlersDone
  <2>3. SetupInv'
    BY <2>1, WorkerFacts DEF SetupInv
  <2>4. CancelInv'
    BY <2>1, <2>2, WorkerFacts DEF CancelInv, CloseSection
  <2>5. WaitInv'
    BY <2>1 DEF WaitInv
  <2> QED
    BY <2>2, <2>3, <2>4, <2>5
<1>2. ASSUME NEW stage \in Stages \union {"web"} \union Outcomes,
             work' = [work EXCEPT ![p] = stage],
             work[p] \in SaveStages => stage \in SaveStages \union Outcomes,
             work[p] \notin SaveStages =>
               \/ work[p] \in {"lookup", "row"} /\ stage \notin SaveStages
               \/ work[p] = "web",
             UNCHANGED <<vars, serving, fclosed>>,
             SavingCountsSaves', saving' \in Nat, asked' \in [Worker -> BOOLEAN]
      PROVE  FetcherInv'
  <2>1. \A q \in Worker : work'[q] = IF q = p THEN stage ELSE work[q]
    BY <1>2 DEF FetcherTypeOK
  <2>2. FetcherTypeOK'
    BY <1>2 DEF FetcherTypeOK
  <2>3. HandlersDone => HandlersDone'
    BY <1>2, <2>1 DEF HandlersDone, Outcomes, SaveStages
  <2>4. SetupInv'
    BY <1>2 DEF SetupInv, vars
  <2>5. CancelInv'
    BY <1>2, <2>3 DEF CancelInv, vars
  <2>6. WaitInv'
    <3>1. ASSUME fclosed, serving # "abandoned", NEW q \in Request
          PROVE  work'[q] \notin SaveStages
      <4>1. work[q] \notin SaveStages
        BY <3>1 DEF WaitInv
      <4>2. HandlersDone
        BY <3>1 DEF CancelInv, TypeOK
      <4>3. work[q] # "web" /\ work[q] \notin {"lookup", "row"}
        BY <4>2, WorkerFacts DEF HandlersDone, SaveStages, Outcomes
      <4> QED
        BY <1>2, <2>1, <4>1, <4>3, WorkerFacts
    <3> QED
      BY <1>2, <3>1 DEF WaitInv, vars
  <2> QED
    BY <1>2, <2>2, <2>4, <2>5, <2>6
<1>3. ASSUME NEW stage \in Stages \union {"web"} \union Outcomes, Stage(p, stage),
             work[p] \in SaveStages => stage \in SaveStages \union Outcomes,
             work[p] \notin SaveStages => work[p] \in {"lookup", "row"} /\ stage \notin SaveStages,
             UNCHANGED <<vars, serving, fclosed>>
      PROVE  FetcherInv'
  <2>1. SavingCountsSaves' /\ saving' \in Nat
    BY <1>3, StageCounts
  <2>2. work' = [work EXCEPT ![p] = stage] /\ asked' \in [Worker -> BOOLEAN]
    BY <1>3 DEF Stage, FetcherTypeOK
  <2> QED
    BY <1>2, <1>3, <2>1, <2>2
<1>4. CASE ExecLookup(p)
  <2>1. ASSUME NEW stage \in {"row", "hit", "web"}, Stage(p, stage), work[p] \in {"lookup", "row"}
        PROVE  FetcherInv'
    <3>1. /\ work[p] \notin SaveStages /\ stage \notin SaveStages
          /\ stage \in Stages \union {"web"} \union Outcomes
      BY <2>1, StageFacts DEF SaveStages, Outcomes
    <3>2. UNCHANGED <<vars, serving, fclosed>>
      BY <1>4 DEF ExecLookup
    <3> QED
      BY <1>3, <2>1, <3>1, <3>2
  <2> QED
    BY <1>4, <2>1 DEF ExecLookup
<1>5. CASE ExecSave(p)
  <2>1. ASSUME NEW stage \in {"saveId", "stored"}, Stage(p, stage), work[p] \in SaveStages
        PROVE  FetcherInv'
    <3>1. /\ stage \in SaveStages \union Outcomes
          /\ stage \in Stages \union {"web"} \union Outcomes
      BY <2>1, StageFacts DEF SaveStages, Outcomes
    <3>2. UNCHANGED <<vars, serving, fclosed>>
      BY <1>5 DEF ExecSave
    <3> QED
      BY <1>3, <2>1, <3>1, <3>2
  <2> QED
    BY <1>5, <2>1 DEF ExecSave, SaveStages
<1>6. CASE ExecFails(p)
  <2>1. UNCHANGED <<vars, serving, fclosed>> /\ work[p] \in Stages
    BY <1>6 DEF ExecFails
  <2>2. CASE work[p] \in SaveStages
    <3>1. Stage(p, "lost") /\ "lost" \in Outcomes
      BY <1>6, <2>2 DEF ExecFails, Outcomes
    <3> QED
      BY <1>3, <2>1, <2>2, <3>1
  <2>3. CASE work[p] \notin SaveStages
    <3>1. Stage(p, "failed") /\ "failed" \in Outcomes /\ "failed" \notin SaveStages
      BY <1>6, <2>3 DEF ExecFails, Outcomes, SaveStages
    <3>2. work[p] \in {"lookup", "row"}
      BY <2>1, <2>3, StageFacts DEF SaveStages
    <3> QED
      BY <1>3, <2>1, <2>3, <3>1, <3>2
  <2> QED
    BY <2>2, <2>3
<1>7. CASE FetchLive(p)
  <2>1. SavingCountsSaves' /\ saving' \in Nat
    BY <1>7, FetchCounts
  <2>2. /\ UNCHANGED <<vars, serving, fclosed>> /\ work[p] = "web" /\ work[p] \notin SaveStages
        /\ asked' \in [Worker -> BOOLEAN]
    BY <1>7 DEF FetchLive, SaveStages, FetcherTypeOK
  <2>3. PICK stage \in {"save", "failed"} : work' = [work EXCEPT ![p] = stage]
    BY <1>7 DEF FetchLive
  <2>4. stage \in Stages \union {"web"} \union Outcomes
    BY <2>3, StageFacts DEF Outcomes
  <2> QED
    BY <1>2, <2>1, <2>2, <2>3, <2>4
<1> QED
  BY <1>1, <1>4, <1>5, <1>6, <1>7 DEF WorkerStep

\* The steps of main, of new requests and of Wait.
LEMMA OtherStepKeeps ==
  ASSUME TypeOK, HandleInv, FetcherInv, TypeOK',
         \/ AddWaitListener \/ StartServing \/ StopServing \/ Shutdown
         \/ \E p \in Worker : Arrive(p)
         \/ \E p \in Proc : WaitReturns(p)
  PROVE  FetcherInv'
<1> USE DEF FetcherInv
<1>1. CASE AddWaitListener
  <2>1. serving = "not yet" /\ ctx = "live" /\ ~closed
    BY <1>1 DEF AddWaitListener, SetupInv, CancelInv, CloseInv
  <2>2. /\ UNCHANGED <<ctx, accepting, accepted, notified, fetcherVars>>
        /\ \A q \in Proc : q # Setup => pc'[q] = pc[q]
        /\ pc[Setup] = "idle"
        /\ pc'[Setup] = "add.send" /\ ret'[Setup] = "none" /\ arg'[Setup] = WaitListener
    BY <1>1, <2>1, WorkerFacts DEF AddWaitListener, AddCheck, TypeOK
  <2>3. FetcherTypeOK' /\ SavingCountsSaves' /\ (HandlersDone' <=> HandlersDone)
    BY <2>2 DEF FetcherTypeOK, SavingCountsSaves, HandlersDone
  <2> QED
    BY <2>1, <2>2, <2>3, WorkerFacts DEF SetupInv, CancelInv, WaitInv, CloseSection
<1>2. CASE StartServing
  <2>1. FetcherTypeOK' /\ SavingCountsSaves'
    BY <1>2 DEF StartServing, FetcherTypeOK, SavingCountsSaves
  <2>2. SetupInv'
    BY <1>2 DEF StartServing, SetupInv, vars
  <2>3. ctx = "live" /\ ~fclosed
    BY <1>2 DEF StartServing, SetupInv, CancelInv
  <2> QED
    BY <1>2, <2>1, <2>2, <2>3 DEF StartServing, CancelInv, WaitInv, vars
<1>3. CASE StopServing
  <2>1. FetcherTypeOK' /\ SavingCountsSaves'
    BY <1>3 DEF StopServing, FetcherTypeOK, SavingCountsSaves
  <2>2. SetupInv'
    BY <1>3 DEF StopServing, SetupInv, vars
  <2>3. ctx = "live" /\ ~fclosed
    BY <1>3 DEF StopServing, CancelInv, TypeOK
  <2> QED
    BY <1>3, <2>1, <2>2, <2>3 DEF StopServing, CancelInv, WaitInv, vars
<1>4. CASE Shutdown
  <2>1. /\ ctx = "live" /\ ctx' = "cancelled" /\ ~fclosed
        /\ UNCHANGED <<accepted, notified, pc, arg, ret, work, asked, saving, fclosed>>
        /\ serving = "stopped"
        /\ serving' = IF HandlersDone THEN "stopped" ELSE "abandoned"
    BY <1>4 DEF Shutdown, CancelContext, CancelInv
  <2>2. FetcherTypeOK' /\ SavingCountsSaves' /\ (HandlersDone' <=> HandlersDone)
    BY <2>1 DEF FetcherTypeOK, SavingCountsSaves, HandlersDone
  <2>3. SetupInv'
    BY <2>1 DEF SetupInv
  <2>4. CancelInv'
    BY <2>1, <2>2 DEF CancelInv
  <2>5. WaitInv'
    BY <2>1 DEF WaitInv
  <2> QED
    BY <2>2, <2>3, <2>4, <2>5
<1>5. ASSUME NEW p \in Worker, Arrive(p) PROVE FetcherInv'
  <2>1. /\ UNCHANGED <<vars, serving, asked, saving, fclosed>>
        /\ serving = "yes" /\ work[p] = "new"
        /\ \A q \in Worker : work'[q] = IF q = p THEN "lookup" ELSE work[q]
    BY <1>5 DEF Arrive, FetcherTypeOK
  <2>2. FetcherTypeOK'
    BY <1>5, <2>1, StageFacts DEF Arrive, FetcherTypeOK
  <2>3. SavingCountsSaves'
    <3>1. PendingSaves' = PendingSaves
      BY <2>1, WorkerFacts DEF PendingSaves, SaveStages
    <3> QED
      BY <2>1, <3>1 DEF SavingCountsSaves, PendingSaves
  <2>4. ctx = "live" /\ ~fclosed
    BY <2>1 DEF CancelInv, TypeOK
  <2> QED
    BY <2>1, <2>2, <2>3, <2>4 DEF SetupInv, CancelInv, WaitInv, vars
<1>6. ASSUME NEW p \in Proc, WaitReturns(p) PROVE FetcherInv'
  <2>1. /\ UNCHANGED <<ctx, accepting, accepted, notified, serving, work, asked, saving>>
        /\ \A q \in Proc : q # p => pc'[q] = pc[q] /\ ret'[q] = ret[q] /\ arg'[q] = arg[q]
        /\ pc[p] = "close.calling" /\ pc'[p] = "close.listeners"
        /\ fclosed' = TRUE
        /\ fclosed \/ saving = 0
    BY <1>6 DEF WaitReturns, ListenerReturns, TypeOK
  <2>2. FetcherTypeOK' /\ SavingCountsSaves' /\ (HandlersDone' <=> HandlersDone)
    BY <2>1 DEF FetcherTypeOK, SavingCountsSaves, HandlersDone
  <2>3. SetupInv'
    BY <2>1, WorkerFacts DEF SetupInv
  <2>4. ctx = "cancelled"
    BY <2>1 DEF CancelInv, TypeOK, CloseSection
  <2>5. CancelInv'
    BY <2>1, <2>2, <2>4 DEF CancelInv
  <2>6. WaitInv'
    <3>1. CASE fclosed
      BY <2>1, <3>1 DEF WaitInv
    <3>2. CASE saving = 0
      <4>1. Cardinality(PendingSaves) = 0
        BY <3>2 DEF SavingCountsSaves, PendingSaves
      <4>2. PendingSaves = {}
        BY <4>1, PendingSavesFinite, FS_EmptySet
      <4> QED
        BY <2>1, <4>2 DEF WaitInv, PendingSaves
    <3> QED
      BY <2>1, <3>1, <3>2
  <2> QED
    BY <2>2, <2>3, <2>5, <2>6
<1> QED
  BY <1>1, <1>2, <1>3, <1>4, <1>5, <1>6

LEMMA FetcherInvNext ==
  ASSUME TypeOK, HandleInv, FetcherInv, TypeOK', [FetcherNext]_allVars
  PROVE  FetcherInv'
<1>1. CASE FetcherNext
  BY <1>1, HandleStepKeeps, WorkerStepKeeps, OtherStepKeeps DEF FetcherNext
<1>2. CASE UNCHANGED allVars
  BY <1>2 DEF allVars, vars, FetcherInv, FetcherTypeOK, SavingCountsSaves, SetupInv,
    CancelInv, WaitInv, HandlersDone
<1> QED
  BY <1>1, <1>2

-----------------------------------------------------------------------------
\* The handle's invariant and the fetcher's hold together.
THEOREM FetcherInvariance == FetcherSpec => [](TypeOK /\ HandleInv /\ FetcherInv)
<1>1. FetcherSpec => [](TypeOK /\ HandleInv)
  BY UsesHandle, Invariance, PTL
<1>2. FetcherInit => FetcherInv
  BY FetcherInvInit
<1>3. TypeOK /\ HandleInv /\ FetcherInv /\ TypeOK' /\ [FetcherNext]_allVars => FetcherInv'
  BY FetcherInvNext
<1> QED
  BY <1>1, <1>2, <1>3, PTL DEF FetcherSpec

\* Types, for any requests, batches and callers.
THEOREM FetcherTypeCorrect == FetcherSpec => []FetcherTypeOK
<1>1. FetcherInv => FetcherTypeOK
  BY DEF FetcherInv
<1> QED
  BY <1>1, FetcherInvariance, PTL

\* f.saving counts the saves of Fetch, however many requests there are.
THEOREM SavesAreCounted == FetcherSpec => []SavingCountsSaves
<1>1. FetcherInv => SavingCountsSaves
  BY DEF FetcherInv
<1> QED
  BY <1>1, FetcherInvariance, PTL

\* Close is done only after Wait, and Wait only after the saves that Fetch started.
LEMMA ClosedFacts ==
  ASSUME TypeOK, HandleInv, FetcherInv, closed
  PROVE  ctx = "cancelled" /\ PendingSavesCovered
<1>1. ~accepting /\ db = "nil" /\ \A p \in Proc : pc[p] \notin CloseSection
  BY DEF CloseInv
<1>2. listeners = <<>> /\ ctx = "cancelled"
  BY <1>1 DEF CloseInv, FetcherInv, CancelInv, TypeOK
<1>3. ASSUME serving # "abandoned"
      PROVE  \A p \in Request : work[p] \notin SaveStages
  <2>1. WaitListener \in accepted
    BY <1>2, <1>3 DEF FetcherInv, SetupInv
  <2>2. accepted = notified
    BY <1>2, EmptySeq DEF ListenerInv, Elements
  <2>3. fclosed
    BY <1>1, <2>1, <2>2 DEF FetcherInv, WaitInv, CloseSection
  <2> QED
    BY <1>3, <2>3 DEF FetcherInv, WaitInv
<1> QED
  BY <1>2, <1>3 DEF PendingSavesCovered

\* No save that Fetch started is under way on a closed handle.
THEOREM SavesAreCovered == FetcherSpec => []PendingSavesCovered
<1>1. TypeOK /\ HandleInv /\ FetcherInv => PendingSavesCovered
  <2>1. ~closed => PendingSavesCovered
    BY DEF PendingSavesCovered, TypeOK
  <2> QED
    BY <2>1, ClosedFacts
<1> QED
  BY <1>1, FetcherInvariance, PTL

-----------------------------------------------------------------------------
(***************************************************************************)
(* The shutdown is orderly: StorageBackedFetcher implements                *)
(* OrderlyShutdown.                                                        *)
(***************************************************************************)
EndedSaves == {p \in Request : work[p] \in {"stored", "lost"}}

\* A closed handle stays closed, and closing it needs no worker.
LEMMA ClosedStays == ASSUME TypeOK, [Next]_vars PROVE closed => closed'
<1> USE DEF TypeOK
<1>1. CASE UNCHANGED vars
  BY <1>1 DEF vars
<1>2. CASE Open \/ CancelContext \/ AfterFuncFires \/ Maintenance
  BY <1>2 DEF Open, OpenDB, OpenReady, CancelContext, AfterFuncFires, CloseCheck, Maintenance,
              TickerTicks, MaintenanceSelect, MaintenanceRun
<1>3. CASE \E p \in Caller : Invoke(p)
  BY <1>3 DEF Invoke, StatementCall, AddCheck, PingCheck, CloseCall, CloseCheck, StopMaintenance
<1>4. CASE \E p \in Proc : Continue(p)
  BY <1>4 DEF Continue, Proceed, StatementLock, StatementPrepare, StatementStore, AddSend, PingUse,
              CloseLock, CloseNextListener, ListenerReturns, CloseStatements, CloseDB, CloseFinish
<1> QED
  BY <1>1, <1>2, <1>3, <1>4 DEF Next

\* A worker's step begins a save, ends one, or does neither.
LEMMA WorkerMoves ==
  ASSUME TypeOK, HandleInv, FetcherInv, NEW p \in Worker, WorkerStep(p)
  PROVE  /\ UNCHANGED <<closed, ctx, serving>>
         /\ \/ UNCHANGED <<PendingSaves, EndedSaves>>
            \/ Orderly!BeginSave(p) /\ p \in Request
            \/ Orderly!EndSave(p) /\ p \in Request
<1> USE DEF SaveStages
<1>1. UNCHANGED <<closed, ctx, serving>>
  BY DEF WorkerStep, AskStatement, StatementCall, ExecLookup, ExecSave, ExecFails, FetchLive, vars
<1>2. UNCHANGED work => UNCHANGED <<PendingSaves, EndedSaves>>
  BY DEF PendingSaves, EndedSaves
<1>3. ASSUME NEW stage, work' = [work EXCEPT ![p] = stage], p \in Request,
             \/ work[p] \in SaveStages /\ stage \in SaveStages
             \/ work[p] \in {"lookup", "row", "web"} /\ stage \in {"row", "hit", "web", "failed"}
      PROVE  UNCHANGED <<PendingSaves, EndedSaves>>
  <2>1. \A q \in Request : work'[q] = IF q = p THEN stage ELSE work[q]
    BY <1>3, WorkerFacts DEF FetcherInv, FetcherTypeOK
  <2> QED
    BY <1>3, <2>1 DEF PendingSaves, EndedSaves
<1>4. CASE p \notin Request
  <2>1. \A q \in Request : work'[q] = work[q]
    BY <1>4, WorkerFacts
       DEF WorkerStep, AskStatement, ExecLookup, ExecSave, ExecFails, FetchLive, Stage,
           FetcherInv, FetcherTypeOK
  <2> QED
    BY <1>1, <2>1 DEF PendingSaves, EndedSaves
<1>5. CASE p \in Request /\ work[p] = "web" /\ work' = [work EXCEPT ![p] = "save"]
  <2>1. \A q \in Request : work'[q] = IF q = p THEN "save" ELSE work[q]
    BY <1>5, WorkerFacts DEF FetcherInv, FetcherTypeOK
  <2>2. PendingSaves' = PendingSaves \union {p} /\ EndedSaves' = EndedSaves
    BY <1>5, <2>1 DEF PendingSaves, EndedSaves
  <2>3. p \notin PendingSaves \union EndedSaves
    BY <1>5 DEF PendingSaves, EndedSaves
  <2>4. serving = "abandoned" \/ ctx = "live"
    BY <1>5, WorkerFacts DEF FetcherInv, CancelInv, HandlersDone, TypeOK, Outcomes
  <2>5. shutdownPhase \in {"up", "abandoned"}
    BY <2>4, ClosedFacts DEF shutdownPhase
  <2>6. shutdownPhase' = shutdownPhase
    BY <1>1 DEF shutdownPhase
  <2> QED
    BY <1>1, <1>5, <2>2, <2>3, <2>5, <2>6 DEF Orderly!BeginSave, PendingSaves, EndedSaves
<1>6. ASSUME NEW stage \in {"stored", "lost"}, work' = [work EXCEPT ![p] = stage],
             p \in Request, work[p] \in SaveStages
      PROVE  Orderly!EndSave(p)
  <2>1. \A q \in Request : work'[q] = IF q = p THEN stage ELSE work[q]
    BY <1>6, WorkerFacts DEF FetcherInv, FetcherTypeOK
  <2>2. /\ PendingSaves' = PendingSaves \ {p} /\ EndedSaves' = EndedSaves \union {p}
        /\ p \in PendingSaves
    BY <1>6, <2>1 DEF PendingSaves, EndedSaves
  <2>3. shutdownPhase' = shutdownPhase
    BY <1>1 DEF shutdownPhase
  <2> QED
    BY <2>2, <2>3 DEF Orderly!EndSave, PendingSaves, EndedSaves
<1>7. CASE p \in Request /\ AskStatement(p)
  BY <1>1, <1>2, <1>7 DEF AskStatement
<1>8. CASE p \in Request /\ ExecLookup(p)
  <2>1. PICK stage \in {"row", "hit", "web"} :
          work' = [work EXCEPT ![p] = stage] /\ work[p] \in {"lookup", "row"}
    BY <1>8 DEF ExecLookup, Stage
  <2> QED
    BY <1>1, <1>3, <1>8, <2>1
<1>9. CASE p \in Request /\ ExecSave(p)
  <2>1. \/ work[p] = "save" /\ work' = [work EXCEPT ![p] = "saveId"]
        \/ work[p] = "saveId" /\ work' = [work EXCEPT ![p] = "stored"]
    BY <1>9 DEF ExecSave, Stage
  <2> QED
    BY <1>1, <1>3, <1>6, <1>9, <2>1
<1>10. CASE p \in Request /\ ExecFails(p)
  <2>1. \/ work[p] \in SaveStages /\ work' = [work EXCEPT ![p] = "lost"]
        \/ work[p] \in {"lookup", "row"} /\ work' = [work EXCEPT ![p] = "failed"]
    BY <1>10, StageFacts DEF ExecFails, Stage
  <2> QED
    BY <1>1, <1>3, <1>6, <1>10, <2>1
<1>11. CASE p \in Request /\ FetchLive(p)
  <2>1. /\ work[p] = "web"
        /\ \/ work' = [work EXCEPT ![p] = "save"]
           \/ work' = [work EXCEPT ![p] = "failed"]
    BY <1>11 DEF FetchLive
  <2> QED
    BY <1>1, <1>3, <1>5, <1>11, <2>1
<1> QED
  BY <1>1, <1>4, <1>7, <1>8, <1>9, <1>10, <1>11 DEF WorkerStep

\* The handle, the WaitGroup, the listener and the server together shut down
\* in an orderly way, for any number of requests and batches: no save begins
\* while the server drains, and the database goes away after the last one.
THEOREM ShutdownIsOrderly == FetcherSpec => ShutdownPromise
<1>1. FetcherInit => Orderly!ShutdownInit
  BY WorkerFacts DEF FetcherInit, Init, Orderly!ShutdownInit, shutdownPhase, SaveStages
<1> DEFINE AllInv == TypeOK /\ HandleInv /\ FetcherInv
           Covered == closed => ctx = "cancelled" /\ PendingSavesCovered
<1>2. AllInv => Covered
  BY ClosedFacts
<1>3. AllInv /\ AllInv' /\ Covered' /\ [FetcherNext]_allVars => [Orderly!ShutdownNext]_Orderly!shutdownVars
  <2> SUFFICES ASSUME AllInv, AllInv', Covered', [FetcherNext]_allVars
               PROVE  Orderly!ShutdownNext \/ UNCHANGED Orderly!shutdownVars
    OBVIOUS
  <2> USE DEF PendingSaves, EndedSaves
  <2>1. ASSUME UNCHANGED <<shutdownPhase, PendingSaves, EndedSaves>>
        PROVE  UNCHANGED Orderly!shutdownVars
    BY <2>1 DEF Orderly!shutdownVars
  <2>2. ASSUME UNCHANGED <<ctx, serving, work>>
        PROVE  Orderly!ShutdownNext \/ UNCHANGED Orderly!shutdownVars
    <3>1. UNCHANGED <<PendingSaves, EndedSaves>>
      BY <2>2
    <3>2. CASE closed' = closed \/ serving = "abandoned"
      BY <2>1, <2>2, <3>1, <3>2 DEF shutdownPhase
    <3>3. CASE closed' # closed /\ serving # "abandoned"
      <4>1. ~closed /\ closed'
        BY <3>3, HandleSteps, ClosedStays DEF TypeOK
      <4>2. ctx' = "cancelled" /\ PendingSavesCovered'
        BY <4>1
      <4>3. PendingSaves = {} /\ shutdownPhase = "draining" /\ shutdownPhase' = "down"
        BY <2>2, <3>3, <4>1, <4>2 DEF PendingSavesCovered, shutdownPhase
      <4> QED
        BY <3>1, <4>3 DEF Orderly!ShutdownNext, Orderly!GoDown
    <3> QED
      BY <3>2, <3>3
  <2>3. ASSUME NEW p \in Worker, Arrive(p)
        PROVE  UNCHANGED Orderly!shutdownVars
    <3>1. \A q \in Request : work'[q] = IF q = p THEN "lookup" ELSE work[q]
      BY <2>3, WorkerFacts DEF Arrive, FetcherInv, FetcherTypeOK
    <3>2. UNCHANGED <<PendingSaves, EndedSaves, shutdownPhase>>
      BY <2>3, <3>1 DEF Arrive, SaveStages, shutdownPhase, vars
    <3> QED
      BY <2>1, <3>2
  <2>4. ASSUME NEW p \in Worker, WorkerStep(p)
        PROVE  Orderly!ShutdownNext \/ UNCHANGED Orderly!shutdownVars
    <3>1. UNCHANGED shutdownPhase
      BY <2>4, WorkerMoves DEF shutdownPhase
    <3> QED
      BY <2>1, <2>4, <3>1, WorkerMoves DEF Orderly!ShutdownNext
  <2>5. CASE AddWaitListener \/ HandleStep \/ \E p \in Proc : WaitReturns(p)
    <3>1. ASSUME Open \/ AfterFuncFires \/ \E p \in Proc : Continue(p) \/ AddCheck(Setup, WaitListener)
          PROVE  UNCHANGED ctx
      BY <3>1 DEF Open, OpenDB, OpenReady, AfterFuncFires, CloseCheck, Continue, Proceed,
              StatementLock, StatementPrepare, StatementStore, AddSend, PingUse, AddCheck,
              CloseLock, CloseNextListener, ListenerReturns, CloseStatements, CloseDB, CloseFinish
    <3>2. UNCHANGED <<ctx, serving, work>>
      BY <2>5, <3>1, WorkerFacts DEF AddWaitListener, HandleStep, WaitReturns, Continue
    <3> QED
      BY <2>2, <3>2
  <2>6. CASE StartServing \/ StopServing
    <3>1. UNCHANGED <<work, ctx, closed>>
      BY <2>6 DEF StartServing, StopServing, vars
    <3>2. UNCHANGED <<PendingSaves, EndedSaves>>
      BY <3>1
    <3>3. UNCHANGED shutdownPhase
      BY <2>6, <3>1 DEF StartServing, StopServing, shutdownPhase
    <3> QED
      BY <2>1, <3>2, <3>3
  <2>7. CASE Shutdown
    <3>1. /\ ctx = "live" /\ ctx' = "cancelled" /\ UNCHANGED <<closed, work>>
          /\ serving = "stopped" /\ serving' \in {"stopped", "abandoned"}
      BY <2>7 DEF Shutdown, CancelContext
    <3>2. ~closed
      BY <3>1, ClosedFacts
    <3>3. shutdownPhase = "up" /\ shutdownPhase' \in {"draining", "abandoned"}
      BY <3>1, <3>2 DEF shutdownPhase
    <3> QED
      BY <3>1, <3>3 DEF Orderly!ShutdownNext, Orderly!Drain
  <2>8. CASE UNCHANGED allVars
    BY <2>1, <2>8 DEF allVars, vars, shutdownPhase
  <2> QED
    BY <2>3, <2>4, <2>5, <2>6, <2>7, <2>8 DEF FetcherNext
<1> QED
  BY <1>1, <1>2, <1>3, FetcherInvariance, PTL DEF FetcherSpec, ShutdownPromise, Orderly!ShutdownSpec

-----------------------------------------------------------------------------
\* Close that waits for saves and a save that waits for Close's mutex never
\* get away from each other, however many requests there are and whatever
\* they, the database and the server do.
THEOREM BlockedStays == FetcherSpec => BlockedForGood
<1>1. TypeOK /\ HandleInv /\ FetcherInv /\ [FetcherNext]_allVars => [Blocked => Blocked']_allVars
  <2> SUFFICES ASSUME TypeOK, HandleInv, FetcherInv, FetcherNext, Blocked PROVE Blocked'
    OBVIOUS
  <2>1. PICK p \in Request : work[p] \in SaveStages /\ pc[p] = "stmt.lock"
    BY DEF Blocked
  <2>2. pc[AfterFunc] = "close.calling" /\ ~fclosed
    BY DEF Blocked
  <2>3. lock = AfterFunc
    BY <2>2, ProcFacts DEF LockInv, CriticalSection, CloseSection
  <2>4. p \in Worker /\ p \in Proc /\ p \notin {Setup, Main, AfterFunc}
    BY WorkerFacts, ProcAssumption
  <2>5. saving # 0
    <3>1. p \in PendingSaves
      BY <2>1 DEF PendingSaves
    <3>2. Cardinality(PendingSaves) # 0
      BY <3>1, PendingSavesFinite, FS_EmptySet
    <3> QED
      BY <3>2 DEF FetcherInv, SavingCountsSaves, PendingSaves
  <2>6. ASSUME pc'[AfterFunc] = pc[AfterFunc], pc'[p] = pc[p], work'[p] = work[p], UNCHANGED fclosed
        PROVE  Blocked'
    BY <2>1, <2>2, <2>6 DEF Blocked
  <2>7. CASE AddWaitListener
    <3>1. UNCHANGED <<work, fclosed>> /\ AddCheck(Setup, WaitListener)
      BY <2>7 DEF AddWaitListener
    <3>2. \A q \in Proc : q # Setup => pc'[q] = pc[q]
      BY <3>1 DEF AddCheck, TypeOK
    <3> QED
      BY <2>4, <2>6, <3>1, <3>2, WorkerFacts, ProcFacts
  <2>8. ASSUME NEW q \in Worker, Arrive(q) \/ WorkerStep(q) PROVE Blocked'
    <3>1. q # p
      BY <2>1, <2>8
         DEF Arrive, WorkerStep, AskStatement, StatementCall, ExecLookup, ExecSave, ExecFails,
             Answered, FetchLive, SaveStages
    <3>2. q # AfterFunc /\ q \in Proc
      BY WorkerFacts, ProcAssumption
    <3>3. pc'[AfterFunc] = pc[AfterFunc] /\ pc'[p] = pc[p]
      BY <2>4, <2>8, <3>1, <3>2, ProcFacts
         DEF Arrive, WorkerStep, AskStatement, StatementCall, ExecLookup, ExecSave, ExecFails,
             FetchLive, vars, TypeOK
    <3>4. work'[p] = work[p] /\ UNCHANGED fclosed
      BY <2>4, <2>8, <3>1
         DEF Arrive, WorkerStep, AskStatement, ExecLookup, ExecSave, ExecFails, FetchLive, Stage,
             FetcherInv, FetcherTypeOK
    <3> QED
      BY <2>6, <3>3, <3>4
  <2>9. \A q \in Proc : ~WaitReturns(q)
    BY <2>2, <2>5 DEF WaitReturns
  <2>10. CASE StartServing \/ StopServing \/ Shutdown
    BY <2>6, <2>10 DEF StartServing, StopServing, Shutdown, CancelContext, vars
  <2>11. CASE HandleStep
    <3>1. UNCHANGED <<work, fclosed>>
      BY <2>11 DEF HandleStep
    <3>2. ASSUME NEW q \in Proc, Proceed(q) PROVE Blocked'
      <4>1. q # AfterFunc
        BY <2>2, <3>2, ProceedFacts
      <4>2. q # p
        BY <2>1, <2>3, <3>2, ProcFacts
           DEF Proceed, StatementLock, StatementPrepare, StatementStore, AddSend, PingUse, CloseLock,
               CloseNextListener, CloseStatements, CloseDB, CloseFinish
      <4> QED
        BY <2>4, <2>6, <3>1, <3>2, <4>1, <4>2, ProceedFacts, ProcFacts
    <3>3. CASE Open \/ AfterFuncFires
      BY <2>2, <2>4, <2>6, <3>1, <3>3, ProcFacts
         DEF Open, OpenDB, OpenReady, AfterFuncFires, TypeOK
    <3> QED
      BY <2>11, <3>2, <3>3 DEF HandleStep
  <2> QED
    BY <2>7, <2>8, <2>9, <2>10, <2>11 DEF FetcherNext
<1> QED
  BY <1>1, FetcherInvariance, PTL DEF FetcherSpec, BlockedForGood

\* The fetcher keeps the handle sound: listeners, statements and connection go
\* in the promised order, no statement is prepared twice and none leaks.
THEOREM HandleStaysSound == FetcherSpec => Promise /\ []PreparedOnce /\ []NoStatementLeak
BY UsesHandle, KeepsPromise, PreparedAtMostOnce, NoStatementLeaks, PTL
=============================================================================
