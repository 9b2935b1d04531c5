------------------------ MODULE StorageBackedFetcher ------------------------
(***************************************************************************)
(* internal/scrape.go on top of the handle it saves through: Fetch answers *)
(* from storage or fetches the page and saves it in a goroutine of its     *)
(* own, Batch does the same for a list of URLs, and Wait, registered as    *)
(* close listener, holds Close up until the saves are done.                *)
(*                                                                         *)
(* One process per URL stands for the goroutine that looks it up and, once *)
(* the page is fetched and handed to the client, for the goroutine that    *)
(* saves it; the first one touches nothing any more by then.  Each SQL     *)
(* statement is a call of DBHandle's Statement and an execution.  The      *)
(* maintenance ticker is left to DBHandle.                                 *)
(***************************************************************************)
EXTENDS DBHandle

CONSTANTS
  Setup,             \* main, when it sets the fetcher up
  Request,           \* URLs passed to Fetch
  Item,              \* URLs passed to Batch
  WaitListener,      \* the listener NewStorageBackedFetcher adds
  DBErrors           \* may the database fail of its own?

Worker == Request \union Item

ASSUME WorkerAssumption ==
  /\ Caller = {Setup} \union Worker
  /\ Setup \notin Worker
  /\ Request \cap Item = {}
  /\ Listener = {WaitListener}
  /\ MaxListeners > 0
  /\ IsFiniteSet(Request)
  /\ DBErrors \in BOOLEAN

VARIABLES
  serving,  \* does the server take requests: "not yet", "yes", "stopped", or
            \* "abandoned" if it gave up on handlers that were running
  work,     \* what each worker is about to do, or how it ended
  asked,    \* has it called Statement for it?
  saving,   \* the counter of the WaitGroup f.saving
  fclosed   \* f.closed

fetcherVars == <<serving, work, asked, saving, fclosed>>
allVars == <<vars, fetcherVars>>

\* The statement of each stage; the two of Storage.Fetch, then those of Save.
StageKey == [lookup |-> "lookupId", row |-> "fetchOne", save |-> "save", saveId |-> "saveId"]
Stages == DOMAIN StageKey
SaveStages == {"save", "saveId"}
Outcomes == {"hit", "failed", "stored", "lost"}

ASSUME KeyAssumption == Key = {StageKey[stage] : stage \in Stages}

FetcherInit ==
  /\ Init
  /\ serving = "not yet"
  /\ work = [p \in Worker |-> "new"]
  /\ asked = [p \in Worker |-> FALSE]
  /\ saving = 0
  /\ fclosed = FALSE

-----------------------------------------------------------------------------
\* NewStorageBackedFetcher, before the server starts; its error is ignored.
\* main exits if Open returned one.
AddWaitListener ==
  /\ ret[Main] = "ok" /\ ret[Setup] = "none"
  /\ AddCheck(Setup, WaitListener)
  /\ UNCHANGED fetcherVars

\* Mutant: the server starts before the fetcher is set up.
StartServingEarly ==
  /\ serving = "not yet"
  /\ pc[Setup] = "idle"
  /\ serving' = "yes"
  /\ UNCHANGED <<vars, work, asked, saving, fclosed>>

StartServing ==
  /\ serving = "not yet"
  /\ pc[Setup] = "idle" /\ ret[Setup] # "none"
  /\ serving' = "yes"
  /\ UNCHANGED <<vars, work, asked, saving, fclosed>>

Arrive(p) ==
  /\ serving = "yes"
  /\ work[p] = "new"
  /\ work' = [work EXCEPT ![p] = "lookup"]
  /\ UNCHANGED <<vars, serving, asked, saving, fclosed>>

AskStatement(p) ==
  /\ work[p] \in Stages
  /\ ~asked[p]
  /\ StatementCall(p, StageKey[work[p]])
  /\ asked' = [asked EXCEPT ![p] = TRUE]
  /\ UNCHANGED <<serving, work, saving, fclosed>>

\* Mutant: a failed save does not call Done.
StageDoneOnSuccess(p, stage) ==
  /\ work' = [work EXCEPT ![p] = stage]
  /\ asked' = [asked EXCEPT ![p] = FALSE]
  /\ saving' = IF p \in Request /\ work[p] \in SaveStages /\ stage = "stored"
               THEN saving - 1 ELSE saving

\* Only a goroutine that Fetch started counts in f.saving.
Stage(p, stage) ==
  /\ work' = [work EXCEPT ![p] = stage]
  /\ asked' = [asked EXCEPT ![p] = FALSE]
  /\ saving' = IF p \in Request /\ work[p] \in SaveStages /\ stage \in Outcomes
               THEN saving - 1 ELSE saving

Usable(key) == db = "open" /\ ctx = "live" /\ key \in stmts

Answered(p) == asked[p] /\ pc[p] = "idle"

ExecLookup(p) ==
  /\ Answered(p) /\ ret[p] = "ok" /\ Usable(StageKey[work[p]])
  /\ \/ work[p] = "lookup" /\ Stage(p, "row")
     \/ work[p] = "row" /\ \E next \in {"hit", "web"} : Stage(p, next)
  /\ UNCHANGED <<vars, serving, fclosed>>

ExecSave(p) ==
  /\ Answered(p) /\ ret[p] = "ok" /\ Usable(StageKey[work[p]])
  /\ \/ work[p] = "save" /\ Stage(p, "saveId")
     \/ work[p] = "saveId" /\ Stage(p, "stored")
  /\ UNCHANGED <<vars, serving, fclosed>>

\* The statement could not be had or executed: Fetch returns an error, Save logs
\* one.  A panic counts as well; the deferred Done runs on its way out.
ExecFails(p) ==
  /\ work[p] \in Stages
  /\ asked[p]
  /\ \/ pc[p] = "panicked"
     \/ Answered(p) /\ (ret[p] = "error" \/ ~Usable(StageKey[work[p]]) \/ DBErrors)
  /\ Stage(p, IF work[p] \in SaveStages THEN "lost" ELSE "failed")
  /\ UNCHANGED <<vars, serving, fclosed>>

\* A page with an error is returned but not stored; otherwise the save goroutine
\* starts, after f.saving.Add(1) in Fetch and without it in fetchUnstored.
FetchLive(p) ==
  /\ work[p] = "web"
  /\ \/ /\ work' = [work EXCEPT ![p] = "save"]
        /\ saving' = IF p \in Request THEN saving + 1 ELSE saving
     \/ work' = [work EXCEPT ![p] = "failed"] /\ UNCHANGED saving
  /\ UNCHANGED <<vars, serving, asked, fclosed>>

-----------------------------------------------------------------------------
\* Mutant: Wait marks the fetcher closed without waiting for the saves.
WaitReturnsAtOnce(p) ==
  /\ ListenerReturns(p)
  /\ fclosed' = TRUE
  /\ UNCHANGED <<serving, work, asked, saving>>

\* Wait, as Close calls it with the handle's mutex held.
WaitReturns(p) ==
  /\ fclosed \/ saving = 0
  /\ ListenerReturns(p)
  /\ fclosed' = TRUE
  /\ UNCHANGED <<serving, work, asked, saving>>

\* The server stops listening and waits for its handlers, up to a timeout; then
\* main cancels the context.
StopServing ==
  /\ serving = "yes"
  /\ serving' = "stopped"
  /\ UNCHANGED <<vars, work, asked, saving, fclosed>>

HandlersDone == \A p \in Worker : work[p] \in {"new"} \union SaveStages \union Outcomes

Shutdown ==
  /\ serving = "stopped"
  /\ CancelContext
  /\ serving' = IF HandlersDone THEN "stopped" ELSE "abandoned"
  /\ UNCHANGED <<work, asked, saving, fclosed>>

HandleStep ==
  /\ Open \/ AfterFuncFires \/ \E p \in Proc : Proceed(p)
  /\ UNCHANGED fetcherVars

WorkerStep(p) ==
  \/ AskStatement(p)
  \/ ExecLookup(p)
  \/ ExecSave(p)
  \/ ExecFails(p)
  \/ FetchLive(p)

FetcherNext ==
  \/ AddWaitListener
  \/ StartServing
  \/ \E p \in Worker : Arrive(p) \/ WorkerStep(p)
  \/ \E p \in Proc : WaitReturns(p)
  \/ StopServing
  \/ Shutdown
  \/ HandleStep

FetcherSpec == FetcherInit /\ [][FetcherNext]_allVars

(***************************************************************************)
(* Goroutines run, the mutex is handed on, the web answers or times out.   *)
(***************************************************************************)
FetcherFairness ==
  /\ \A p \in Worker : WF_allVars(WorkerStep(p))
  /\ \A p \in Proc \ {Main} :
       /\ WF_allVars((Proceed(p) /\ UNCHANGED fetcherVars) \/ WaitReturns(p))
       /\ SF_allVars((StatementLock(p) \/ CloseLock(p)) /\ UNCHANGED fetcherVars)
  /\ WF_allVars((Open \/ AfterFuncFires) /\ UNCHANGED fetcherVars)

FairFetcherSpec == FetcherSpec /\ FetcherFairness

-----------------------------------------------------------------------------
FetcherTypeOK ==
  /\ TypeOK
  /\ serving \in {"not yet", "yes", "stopped", "abandoned"}
  /\ work \in [Worker -> {"new", "web"} \union Stages \union Outcomes]
  /\ asked \in [Worker -> BOOLEAN]
  /\ saving \in Nat
  /\ fclosed \in BOOLEAN

\* The WaitGroup counts exactly the saves that Fetch started and that are not over.
SavingCountsSaves ==
  saving = Cardinality({p \in Request : work[p] \in SaveStages})

\* NewStorageBackedFetcher's comment: the close listener waits for pending saves.
\* So, if the handlers were done in time, no save of a page that Fetch returned
\* is under way on a closed handle; those of Batch are not waited for.
PendingSavesCovered ==
  closed /\ serving # "abandoned" => \A p \in Request : work[p] \notin SaveStages

\* AddCloseListener's comment: a listener may block to complete writes in
\* progress.  So a save is lost by a fault of the database, never because the
\* handle became unusable before Wait returned.
SavesComplete ==
  [][\A p \in Request :
       work[p] \in SaveStages /\ work'[p] = "lost" /\ ~fclosed =>
         ret[p] = "error" \/ pc[p] = "panicked" \/ Usable(StageKey[work[p]])]_allVars

(***************************************************************************)
(* The orderly shutdown that handle, WaitGroup and server make together.   *)
(***************************************************************************)
shutdownPhase ==
  IF serving = "abandoned" THEN "abandoned"
  ELSE IF closed THEN "down"
  ELSE IF ctx = "cancelled" THEN "draining" ELSE "up"

Orderly == INSTANCE OrderlyShutdown
           WITH phase <- shutdownPhase,
                saving <- {p \in Request : work[p] \in SaveStages},
                ended <- {p \in Request : work[p] \in {"stored", "lost"}}

\* The pages that Fetch returned are saved at most once each, no save of one
\* begins when the server is on its way down, and the database goes away after
\* the last of them, unless the server gave up on its handlers.
ShutdownPromise == Orderly!ShutdownSpec

\* Close holds the mutex and waits for saves, and one of them waits for it.
Blocked ==
  /\ pc[AfterFunc] = "close.calling"
  /\ ~fclosed
  /\ \E p \in Request : work[p] \in SaveStages /\ pc[p] = "stmt.lock"

\* Once they do, nothing resolves it: no other goroutine, no failure of the
\* database and no shutdown of the server.
BlockedForGood == [][Blocked => Blocked']_allVars

\* Close by cancellation ends, unless a save goroutine waits for the mutex that
\* Close holds while it waits for the save: the only way the two block each other.
CloseEndsOrSaveBlocked ==
  (ctx = "cancelled" /\ pc[Main] = "idle") ~>
    (closed \/ Blocked)

(***************************************************************************)
(* Why the safety properties hold: the parts of an inductive invariant,    *)
(* on top of DBHandle's.                                                   *)
(***************************************************************************)
\* The wait listener is accepted before the server starts.
SetupInv ==
  /\ pc[Setup] \in {"idle", "add.send"}
  /\ pc[Setup] = "add.send" => ret[Setup] = "none" /\ arg[Setup] = WaitListener
  /\ ret[Setup] # "none" => WaitListener \in accepted
  /\ serving # "not yet" => ret[Setup] # "none"
  /\ serving = "not yet" => ctx = "live"

\* Only the cancellation starts Close, and nothing is cancelled before the
\* handlers are done unless they are abandoned.
CancelInv ==
  /\ ctx = "live" => accepting /\ ~fclosed
  /\ ctx = "live" => \A p \in Proc : pc[p] \notin CloseSection \union {"close.lock"}
  /\ ctx = "cancelled" /\ serving # "abandoned" => serving = "stopped" /\ HandlersDone

\* Close has called Wait, and Wait has returned, before the handle is closed.
WaitInv ==
  /\ WaitListener \in notified => fclosed \/ \E p \in Proc : pc[p] = "close.calling"
  /\ fclosed /\ serving # "abandoned" => \A p \in Request : work[p] \notin SaveStages

FetcherInv == FetcherTypeOK /\ SavingCountsSaves /\ SetupInv /\ CancelInv /\ WaitInv
=============================================================================
