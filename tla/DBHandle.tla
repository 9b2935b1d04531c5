------------------------------ MODULE DBHandle ------------------------------
(***************************************************************************)
(* database/database.go: the handle every part of scrape shares.  It wraps *)
(* *sql.DB with a cache of prepared statements, close listeners and a      *)
(* maintenance ticker, and closes itself when its context is cancelled.    *)
(*                                                                         *)
(* Each goroutine has a program counter.  A label names the statement the  *)
(* goroutine is about to execute, and a step ends where another goroutine  *)
(* can observe or change what the next one reads.  A panic ends the        *)
(* goroutine, running its deferred mutex.Unlock: net/http recovers it in a *)
(* request handler; anywhere else the process ends, and that run of the    *)
(* process is a prefix of a behaviour of this module.                      *)
(***************************************************************************)
EXTENDS Naturals, Sequences, FiniteSets

CONSTANTS
  Caller,            \* goroutines that call the handle's methods
  Main,              \* the goroutine that opens the handle and owns its context
  AfterFunc,         \* the goroutine context.AfterFunc starts at cancellation
  Key,               \* keys of the statement cache
  Listener,          \* close listeners, one per AddCloseListener call
  MaxListeners,      \* closeListenerCapacity
  None,              \* no goroutine, no argument
  CancelDuringOpen,  \* may the context be cancelled before Open returns?
  ManualStop         \* do callers use StopMaintenance?

Proc == Caller \union {Main, AfterFunc}

ASSUME ProcAssumption ==
  /\ Main \notin Caller
  /\ AfterFunc \notin Caller
  /\ Main # AfterFunc
  /\ None \notin Proc
ASSUME ArgAssumption == None \notin Key \union Listener
ASSUME CapacityAssumption == MaxListeners \in Nat
ASSUME SwitchAssumption == CancelDuringOpen \in BOOLEAN /\ ManualStop \in BOOLEAN

VARIABLES
  db,         \* s.DB: "nil" or "open"
  closed,     \* s.closed
  done,       \* s.done: "nil", "open" or "closed"; s.mutex is nil iff this is
  lock,       \* the goroutine holding s.mutex, or None
  stmts,      \* the keys of s.stmts
  listeners,  \* s.closeListeners, a buffered channel
  accepting,  \* is that channel still open?
  ctx,        \* s.Ctx: "live" or "cancelled"
  pc,         \* where each goroutine is
  arg,        \* the key or listener each goroutine works on
  ret,        \* what its last call returned: "none", "ok" or "error"
  ticker,     \* the maintenance goroutine: "none", "select", "run", "stopped", "panicked"
  tick,       \* is there a tick in the ticker's channel?
  prepares,   \* history: how many statements were prepared for each key
  accepted,   \* history: the listeners AddCloseListener accepted
  notified    \* history: the listeners Close has called

handleVars == <<db, closed, done, lock, stmts, listeners, accepting, ctx>>
procVars == <<pc, arg, ret>>
tickerVars == <<ticker, tick>>
historyVars == <<prepares, accepted, notified>>
vars == <<handleVars, procVars, tickerVars, historyVars>>

StatementLabels == {"stmt.lock", "stmt.prepare", "stmt.store"}
CloseSection == {"close.listeners", "close.calling", "close.stmts", "close.db", "close.flag"}
CriticalSection == {"stmt.prepare", "stmt.store"} \union CloseSection
Labels ==
  {"new", "opening", "failed", "parked", "idle", "panicked",
   "close.lock", "add.send", "ping.use"}
    \union StatementLabels \union CloseSection

Init ==
  /\ db = "nil"
  /\ closed = FALSE
  /\ done = "nil"
  /\ lock = None
  /\ stmts = {}
  /\ listeners = <<>>
  /\ accepting = TRUE
  /\ ctx = "live"
  /\ pc = [p \in Proc |-> CASE p = Main -> "new"
                            [] p = AfterFunc -> "parked"
                            [] OTHER -> "idle"]
  /\ arg = [p \in Proc |-> None]
  /\ ret = [p \in Proc |-> "none"]
  /\ ticker = "none"
  /\ tick = FALSE
  /\ prepares = [k \in Key |-> 0]
  /\ accepted = {}
  /\ notified = {}

-----------------------------------------------------------------------------
Goto(p, label) == pc' = [pc EXCEPT ![p] = label]

\* May p make a call?  The programs share the handle once Open has returned.
Free(p) == pc[Main] = "idle" /\ pc[p] = "idle"

Enter(p, label, a) ==
  /\ Goto(p, label)
  /\ arg' = [arg EXCEPT ![p] = a]
  /\ ret' = [ret EXCEPT ![p] = "none"]

Return(p, result) ==
  /\ Goto(p, "idle")
  /\ arg' = [arg EXCEPT ![p] = None]
  /\ ret' = [ret EXCEPT ![p] = result]

Panic(p) == Enter(p, "panicked", None)

(***************************************************************************)
(* Open.  The context's AfterFunc is registered before s.done and s.mutex  *)
(* exist.  AfterOpen of sqlite starts the maintenance ticker as its last   *)
(* step, or fails, and Open then returns its error with the handle built;  *)
(* mysql has no AfterOpen.                                                 *)
(***************************************************************************)
OpenDB ==
  /\ pc[Main] = "new"
  /\ db = "nil"
  /\ \/ db' = "open" /\ Goto(Main, "opening")
     \/ UNCHANGED db /\ Goto(Main, "failed")
  /\ UNCHANGED <<closed, done, lock, stmts, listeners, accepting, ctx, arg, ret,
                 tickerVars, historyVars>>

OpenReady ==
  /\ pc[Main] = "opening"
  /\ done' = "open"
  /\ \/ ticker' = "select" /\ Return(Main, "ok")
     \/ UNCHANGED ticker /\ \E result \in {"ok", "error"} : Return(Main, result)
  /\ UNCHANGED <<db, closed, lock, stmts, listeners, accepting, ctx, tick, historyVars>>

CancelContext ==
  /\ ctx = "live"
  /\ \/ pc[Main] = "idle"
     \/ CancelDuringOpen /\ pc[Main] \in {"new", "opening"}
  /\ ctx' = "cancelled"
  /\ UNCHANGED <<db, closed, done, lock, stmts, listeners, accepting,
                 procVars, tickerVars, historyVars>>

-----------------------------------------------------------------------------
(***************************************************************************)
(* Statement.  The first look at the map is not synchronised: while        *)
(* another goroutine writes the map the Go runtime may stop the program    *)
(* ("concurrent map read and map write") or let the read miss or hit.      *)
(***************************************************************************)
MapBeingWritten == \E q \in Proc : pc[q] \in {"stmt.store", "close.stmts"}

StatementCall(p, k) ==
  /\ Free(p)
  /\ \/ k \in stmts /\ Return(p, "ok")
     \/ (k \notin stmts \/ MapBeingWritten) /\ Enter(p, "stmt.lock", k)
     \/ MapBeingWritten /\ Panic(p)
  /\ UNCHANGED <<handleVars, tickerVars, historyVars>>

\* Mutant: no second look at the map once the lock is held.
StatementLockNoRecheck(p) ==
  /\ pc[p] = "stmt.lock"
  /\ lock = None
  /\ lock' = p
  /\ Goto(p, "stmt.prepare")
  /\ UNCHANGED <<db, closed, done, stmts, listeners, accepting, ctx, arg, ret,
                 tickerVars, historyVars>>

StatementLock(p) ==
  /\ pc[p] = "stmt.lock"
  /\ lock = None
  /\ \/ /\ arg[p] \in stmts
        /\ Return(p, "ok")
        /\ UNCHANGED lock
     \/ /\ arg[p] \notin stmts
        /\ lock' = p
        /\ Goto(p, "stmt.prepare")
        /\ UNCHANGED <<arg, ret>>
  /\ UNCHANGED <<db, closed, done, stmts, listeners, accepting, ctx,
                 tickerVars, historyVars>>

\* Mutant: the error return leaves the mutex locked.
StatementPrepareKeepsLock(p) ==
  /\ pc[p] = "stmt.prepare"
  /\ \/ db = "nil" /\ Panic(p) /\ lock' = None /\ UNCHANGED prepares
     \/ db = "open" /\ Return(p, "error") /\ UNCHANGED <<lock, prepares>>
     \/ /\ db = "open"
        /\ ctx = "live"
        /\ prepares' = [prepares EXCEPT ![arg[p]] = @ + 1]
        /\ Goto(p, "stmt.store")
        /\ UNCHANGED <<arg, ret, lock>>
  /\ UNCHANGED <<db, closed, done, stmts, listeners, accepting, ctx,
                 tickerVars, accepted, notified>>

\* Mutant: the mutex is released before the statement is stored.
StatementPrepareUnlocks(p) ==
  /\ pc[p] = "stmt.prepare"
  /\ lock' = None
  /\ \/ db = "nil" /\ Panic(p) /\ UNCHANGED prepares
     \/ db = "open" /\ Return(p, "error") /\ UNCHANGED prepares
     \/ /\ db = "open"
        /\ ctx = "live"
        /\ prepares' = [prepares EXCEPT ![arg[p]] = @ + 1]
        /\ Goto(p, "stmt.store")
        /\ UNCHANGED <<arg, ret>>
  /\ UNCHANGED <<db, closed, done, stmts, listeners, accepting, ctx,
                 tickerVars, accepted, notified>>

\* The generator runs on s.DB as it is now.  PrepareContext panics on a nil
\* *sql.DB, fails on a cancelled context, and may fail on its own.
StatementPrepare(p) ==
  /\ pc[p] = "stmt.prepare"
  /\ \/ db = "nil" /\ Panic(p) /\ lock' = None /\ UNCHANGED prepares
     \/ db = "open" /\ Return(p, "error") /\ lock' = None /\ UNCHANGED prepares
     \/ /\ db = "open"
        /\ ctx = "live"
        /\ prepares' = [prepares EXCEPT ![arg[p]] = @ + 1]
        /\ Goto(p, "stmt.store")
        /\ UNCHANGED <<arg, ret, lock>>
  /\ UNCHANGED <<db, closed, done, stmts, listeners, accepting, ctx,
                 tickerVars, accepted, notified>>

StatementStore(p) ==
  /\ pc[p] = "stmt.store"
  /\ stmts' = stmts \union {arg[p]}
  /\ lock' = None
  /\ Return(p, "ok")
  /\ UNCHANGED <<db, closed, done, listeners, accepting, ctx, tickerVars, historyVars>>

-----------------------------------------------------------------------------
(***************************************************************************)
(* AddCloseListener: a check of s.closed and, later, a non-blocking send.  *)
(* The send panics once Close has closed the channel.                      *)
(***************************************************************************)
AddCheck(p, l) ==
  /\ Free(p)
  /\ l \notin accepted
  /\ \A q \in Proc : pc[q] = "add.send" => arg[q] # l
  /\ \/ closed /\ Return(p, "error")
     \/ ~closed /\ Enter(p, "add.send", l)
  /\ UNCHANGED <<handleVars, tickerVars, historyVars>>

\* Mutant: one listener more than the capacity is accepted.
AddSendOverCapacity(p) ==
  /\ pc[p] = "add.send"
  /\ \/ ~accepting /\ Panic(p) /\ UNCHANGED <<listeners, accepted>>
     \/ /\ accepting
        /\ Len(listeners) <= MaxListeners
        /\ listeners' = Append(listeners, arg[p])
        /\ accepted' = accepted \union {arg[p]}
        /\ Return(p, "ok")
     \/ /\ accepting
        /\ Len(listeners) > MaxListeners
        /\ Return(p, "error")
        /\ UNCHANGED <<listeners, accepted>>
  /\ UNCHANGED <<db, closed, done, lock, stmts, accepting, ctx, tickerVars,
                 prepares, notified>>

AddSend(p) ==
  /\ pc[p] = "add.send"
  /\ \/ ~accepting /\ Panic(p) /\ UNCHANGED <<listeners, accepted>>
     \/ /\ accepting
        /\ Len(listeners) < MaxListeners
        /\ listeners' = Append(listeners, arg[p])
        /\ accepted' = accepted \union {arg[p]}
        /\ Return(p, "ok")
     \/ /\ accepting
        /\ Len(listeners) >= MaxListeners
        /\ Return(p, "error")
        /\ UNCHANGED <<listeners, accepted>>
  /\ UNCHANGED <<db, closed, done, lock, stmts, accepting, ctx, tickerVars,
                 prepares, notified>>

-----------------------------------------------------------------------------
(***************************************************************************)
(* Ping: s.DB is looked at once for nil and once for use.                  *)
(***************************************************************************)
PingCheck(p) ==
  /\ Free(p)
  /\ \/ (closed \/ db = "nil") /\ Return(p, "error")
     \/ ~closed /\ db # "nil" /\ Enter(p, "ping.use", None)
  /\ UNCHANGED <<handleVars, tickerVars, historyVars>>

PingUse(p) ==
  /\ pc[p] = "ping.use"
  /\ \/ db = "nil" /\ Panic(p)
     \/ db = "open" /\ ctx = "live" /\ Return(p, "ok")
     \/ db = "open" /\ Return(p, "error")
  /\ UNCHANGED <<handleVars, tickerVars, historyVars>>

-----------------------------------------------------------------------------
(***************************************************************************)
(* Close: called by hand, or by the AfterFunc goroutine.                   *)
(***************************************************************************)
CloseCheck(p) ==
  /\ \/ (closed \/ db = "nil") /\ Return(p, "ok")
     \/ ~closed /\ db # "nil" /\ done = "nil" /\ Panic(p)
     \/ ~closed /\ db # "nil" /\ done # "nil" /\ Enter(p, "close.lock", None)
  /\ UNCHANGED <<handleVars, tickerVars, historyVars>>

CloseCall(p) == Free(p) /\ CloseCheck(p)

AfterFuncFires ==
  /\ pc[AfterFunc] = "parked"
  /\ ctx = "cancelled"
  /\ pc[Main] \in {"opening", "idle"}
  /\ CloseCheck(AfterFunc)

\* Mutant: Close forgets StopMaintenance.
CloseLockKeepsTicker(p) ==
  /\ pc[p] = "close.lock"
  /\ lock = None
  /\ \/ (closed \/ db = "nil") /\ Return(p, "ok") /\ UNCHANGED <<lock, accepting>>
     \/ /\ ~closed /\ db # "nil"
        /\ lock' = p
        /\ accepting' = FALSE
        /\ Goto(p, "close.listeners")
        /\ UNCHANGED <<arg, ret>>
  /\ UNCHANGED <<db, closed, done, stmts, listeners, ctx, tickerVars, historyVars>>

\* Takes the lock, looks again, then StopMaintenance and close(s.closeListeners);
\* close panics on a channel that StopMaintenance closed before.
CloseLock(p) ==
  /\ pc[p] = "close.lock"
  /\ lock = None
  /\ \/ /\ closed \/ db = "nil"
        /\ Return(p, "ok")
        /\ UNCHANGED <<lock, done, accepting>>
     \/ /\ ~closed /\ db # "nil" /\ done = "closed"
        /\ Panic(p)
        /\ UNCHANGED <<lock, done, accepting>>
     \/ /\ ~closed /\ db # "nil" /\ done = "open"
        /\ lock' = p
        /\ done' = "closed"
        /\ accepting' = FALSE
        /\ Goto(p, "close.listeners")
        /\ UNCHANGED <<arg, ret>>
  /\ UNCHANGED <<db, closed, stmts, listeners, ctx, tickerVars, historyVars>>

\* Mutant: no more listeners are called once the context is cancelled.
CloseSkipsWhenCancelled(p) ==
  /\ pc[p] = "close.listeners"
  /\ \/ /\ listeners # <<>>
        /\ ctx = "live"
        /\ arg' = [arg EXCEPT ![p] = Head(listeners)]
        /\ listeners' = Tail(listeners)
        /\ notified' = notified \union {Head(listeners)}
        /\ Goto(p, "close.calling")
     \/ /\ listeners = <<>> \/ ctx = "cancelled"
        /\ Goto(p, "close.stmts")
        /\ UNCHANGED <<arg, listeners, notified>>
  /\ UNCHANGED <<db, closed, done, lock, stmts, accepting, ctx, ret, tickerVars,
                 prepares, accepted>>

\* Mutant: the listener that is called stays in the channel.
CloseListenerStays(p) ==
  /\ pc[p] = "close.listeners"
  /\ \/ /\ listeners # <<>>
        /\ arg' = [arg EXCEPT ![p] = Head(listeners)]
        /\ notified' = notified \union {Head(listeners)}
        /\ Goto(p, "close.calling")
     \/ /\ listeners = <<>>
        /\ Goto(p, "close.stmts")
        /\ UNCHANGED <<arg, notified>>
  /\ UNCHANGED <<db, closed, done, lock, stmts, listeners, accepting, ctx, ret, tickerVars,
                 prepares, accepted>>

CloseNextListener(p) ==
  /\ pc[p] = "close.listeners"
  /\ \/ /\ listeners # <<>>
        /\ arg' = [arg EXCEPT ![p] = Head(listeners)]
        /\ listeners' = Tail(listeners)
        /\ notified' = notified \union {Head(listeners)}
        /\ Goto(p, "close.calling")
     \/ /\ listeners = <<>>
        /\ Goto(p, "close.stmts")
        /\ UNCHANGED <<arg, listeners, notified>>
  /\ UNCHANGED <<db, closed, done, lock, stmts, accepting, ctx, ret, tickerVars,
                 prepares, accepted>>

ListenerReturns(p) ==
  /\ pc[p] = "close.calling"
  /\ Enter(p, "close.listeners", None)
  /\ UNCHANGED <<handleVars, tickerVars, historyVars>>

CloseStatements(p) ==
  /\ pc[p] = "close.stmts"
  /\ stmts' = {}
  /\ Goto(p, "close.db")
  /\ UNCHANGED <<db, closed, done, lock, listeners, accepting, ctx, arg, ret,
                 tickerVars, historyVars>>

CloseDB(p) ==
  /\ pc[p] = "close.db"
  /\ db' = "nil"
  /\ Goto(p, "close.flag")
  /\ UNCHANGED <<closed, done, lock, stmts, listeners, accepting, ctx, arg, ret,
                 tickerVars, historyVars>>

\* Mutant: the mutex stays locked.
CloseFinishKeepsLock(p) ==
  /\ pc[p] = "close.flag"
  /\ closed' = TRUE
  /\ \E result \in {"ok", "error"} : Return(p, result)
  /\ UNCHANGED <<db, done, lock, stmts, listeners, accepting, ctx, tickerVars,
                 historyVars>>

\* The error, when stmt.Close or DB.Close reported one, is joined and returned.
CloseFinish(p) ==
  /\ pc[p] = "close.flag"
  /\ closed' = TRUE
  /\ lock' = None
  /\ \E result \in {"ok", "error"} : Return(p, result)
  /\ UNCHANGED <<db, done, stmts, listeners, accepting, ctx, tickerVars, historyVars>>

-----------------------------------------------------------------------------
(***************************************************************************)
(* Maintenance: a goroutine selects on s.done and the ticker's channel; if *)
(* both are ready it takes either.  The function it runs uses s.DB, nil    *)
(* once the handle is closed, and stops the ticker when it fails.          *)
(***************************************************************************)
StopMaintenance(p) ==
  /\ ManualStop
  /\ Free(p)
  /\ \/ done = "open" /\ done' = "closed" /\ Return(p, "ok")
     \/ done # "open" /\ Panic(p) /\ UNCHANGED done
  /\ UNCHANGED <<db, closed, lock, stmts, listeners, accepting, ctx, tickerVars, historyVars>>

TickerTicks ==
  /\ ticker \in {"select", "run"}
  /\ ~tick
  /\ tick' = TRUE
  /\ UNCHANGED <<handleVars, procVars, ticker, historyVars>>

MaintenanceSelect ==
  /\ ticker = "select"
  /\ \/ done = "closed" /\ ticker' = "stopped" /\ UNCHANGED tick
     \/ tick /\ ticker' = "run" /\ tick' = FALSE
  /\ UNCHANGED <<handleVars, procVars, historyVars>>

MaintenanceRun ==
  /\ ticker = "run"
  /\ \/ db = "nil" /\ ticker' = "panicked"
     \/ db = "open" /\ ticker' = "stopped"
     \/ db = "open" /\ ctx = "live" /\ ticker' = "select"
  /\ UNCHANGED <<handleVars, procVars, tick, historyVars>>

-----------------------------------------------------------------------------
\* A new call on the handle.
Invoke(p) ==
  \/ \E k \in Key : StatementCall(p, k)
  \/ \E l \in Listener : AddCheck(p, l)
  \/ PingCheck(p)
  \/ CloseCall(p)
  \/ StopMaintenance(p)

\* A step of a call that is under way, up to the call of a close listener.
Proceed(p) ==
  \/ StatementLock(p)
  \/ StatementPrepare(p)
  \/ StatementStore(p)
  \/ AddSend(p)
  \/ PingUse(p)
  \/ CloseLock(p)
  \/ CloseNextListener(p)
  \/ CloseStatements(p)
  \/ CloseDB(p)
  \/ CloseFinish(p)

Continue(p) == Proceed(p) \/ ListenerReturns(p)

Open == OpenDB \/ OpenReady
Maintenance == TickerTicks \/ MaintenanceSelect \/ MaintenanceRun

Next ==
  \/ Open
  \/ CancelContext
  \/ AfterFuncFires
  \/ \E p \in Caller : Invoke(p)
  \/ \E p \in Proc : Continue(p)
  \/ Maintenance

Spec == Init /\ [][Next]_vars

(***************************************************************************)
(* A runnable goroutine runs; a goroutine waiting for s.mutex gets it      *)
(* sooner or later although others take it too (sync.Mutex hands the lock  *)
(* over after a waiter starved for a millisecond).  Nobody has to call the *)
(* handle, cancel the context or wait for a tick.                          *)
(***************************************************************************)
Fairness ==
  /\ WF_vars(Open)
  /\ WF_vars(AfterFuncFires)
  /\ \A p \in Proc \ {Main} :
       /\ WF_vars(Continue(p))
       /\ SF_vars(StatementLock(p) \/ CloseLock(p))
  /\ WF_vars(MaintenanceSelect \/ MaintenanceRun)

FairSpec == Spec /\ Fairness

-----------------------------------------------------------------------------
\* Every variable keeps its type, and the listener channel its capacity.
TypeOK ==
  /\ db \in {"nil", "open"}
  /\ closed \in BOOLEAN
  /\ done \in {"nil", "open", "closed"}
  /\ lock \in Proc \union {None}
  /\ stmts \subseteq Key
  /\ listeners \in Seq(Listener)
  /\ Len(listeners) <= MaxListeners
  /\ accepting \in BOOLEAN
  /\ ctx \in {"live", "cancelled"}
  /\ pc \in [Proc -> Labels]
  /\ arg \in [Proc -> Key \union Listener \union {None}]
  /\ ret \in [Proc -> {"none", "ok", "error"}]
  /\ ticker \in {"none", "select", "run", "stopped", "panicked"}
  /\ tick \in BOOLEAN
  /\ prepares \in [Key -> Nat]
  /\ accepted \subseteq Listener
  /\ notified \subseteq Listener

\* The double-checked lookup in Statement prepares each statement at most
\* once, however many goroutines miss it at the same time.
PreparedOnce == \A k \in Key : prepares[k] <= 1

\* No statement leaks: one that was prepared is in the cache, or about to be
\* stored by the goroutine that holds the mutex, or Close has closed it.
NoStatementLeak ==
  \A k \in Key : prepares[k] > 0 =>
    \/ k \in stmts
    \/ lock # None /\ pc[lock] = "stmt.store" /\ arg[lock] = k
    \/ lock # None /\ pc[lock] \in {"close.db", "close.flag"}
    \/ closed

(***************************************************************************)
(* Why these hold: the parts of an inductive invariant.                    *)
(***************************************************************************)
Elements(s) == {s[i] : i \in 1..Len(s)}
Distinct(s) == \A i, j \in 1..Len(s) : i # j => s[i] # s[j]

\* The mutex is held by the goroutine inside a critical section, and only by it.
LockInv == \A p \in Proc : pc[p] \in CriticalSection <=> lock = p

ArgInv ==
  \A p \in Proc :
    /\ pc[p] \in StatementLabels => arg[p] \in Key
    /\ pc[p] \in {"stmt.prepare", "stmt.store"} => arg[p] \notin stmts
    /\ pc[p] = "add.send" => arg[p] \in Listener \ accepted

\* Nobody uses the handle before Open has returned.
OpenInv ==
  /\ pc[Main] \in {"new", "opening", "failed", "idle"}
  /\ \A p \in Caller : pc[p] \notin {"new", "opening", "failed", "parked"}
  /\ pc[AfterFunc] \notin {"new", "opening", "failed", "add.send"} \union StatementLabels
  /\ done = "nil" <=> pc[Main] # "idle"
  /\ pc[Main] # "idle" =>
       /\ \A p \in Caller : pc[p] = "idle"
       /\ pc[AfterFunc] \in {"parked", "panicked"}
       /\ accepting
       /\ stmts = {} /\ accepted = {}
       /\ db = IF pc[Main] = "opening" THEN "open" ELSE "nil"
  /\ pc[Main] = "idle" /\ accepting => db = "open"

\* The stages of Close, seen from the handle's fields.
CloseInv ==
  /\ ~accepting => done = "closed"
  /\ closed => ~accepting /\ db = "nil"
  /\ ~accepting => closed \/ (lock # None /\ pc[lock] \in CloseSection)
  /\ ~accepting /\ db = "nil" => stmts = {} /\ listeners = <<>>
  /\ \A p \in Proc :
       /\ pc[p] \in CloseSection => ~accepting /\ ~closed
       /\ pc[p] \in CloseSection \ {"close.flag"} => db = "open"
       /\ pc[p] = "close.flag" => db = "nil"
       /\ pc[p] = "close.db" => stmts = {}
       /\ pc[p] \in {"close.stmts", "close.db"} => listeners = <<>>
       /\ pc[p] = "stmt.store" => accepting /\ db = "open"

\* Every accepted listener is either in the channel, once, or has been called.
ListenerInv ==
  /\ accepted = Elements(listeners) \union notified
  /\ Elements(listeners) \cap notified = {}
  /\ Distinct(listeners)
  /\ \A p, q \in Proc :
       pc[p] = "add.send" /\ pc[q] = "add.send" /\ p # q => arg[p] # arg[q]
  /\ accepting => notified = {}

PrepareInv ==
  /\ PreparedOnce
  /\ NoStatementLeak
  /\ \A k \in stmts : prepares[k] = 1
  /\ \A p \in Proc : pc[p] = "stmt.store" => prepares[arg[p]] = 1

\* No interleaving of the handle's methods breaks the mutex discipline, the
\* order of the stages of Close, or the accounting of statements and listeners.
HandleInv == LockInv /\ ArgInv /\ OpenInv /\ CloseInv /\ ListenerInv /\ PrepareInv

(***************************************************************************)
(* The abstract handle this one implements.                                *)
(***************************************************************************)
phase ==
  IF accepting THEN IF db = "nil" THEN "new" ELSE "open"
               ELSE IF db = "nil" THEN "closed" ELSE "closing"

Lifecycle == INSTANCE HandleLifecycle
               WITH phase <- phase, cached <- stmts,
                    registered <- accepted, notified <- notified

\* The handle keeps the promise of HandleLifecycle: whatever the goroutines
\* do, Close calls every accepted listener once, before it drops the
\* statements and the connection, and a closed handle stays as it is.
Promise == Lifecycle!Spec

\* A bound on the steps that a call still takes once it has its turns at the mutex.
CallSteps(p) ==
  IF pc[p] = "close.lock" THEN 2 * MaxListeners + 5
  ELSE IF pc[p] = "close.calling" THEN 2 * Len(listeners) + 5
  ELSE IF pc[p] = "close.listeners" THEN 2 * Len(listeners) + 4
  ELSE IF pc[p] \in {"stmt.lock", "close.stmts"} THEN 3
  ELSE IF pc[p] \in {"stmt.prepare", "close.db"} THEN 2
  ELSE IF pc[p] \in {"stmt.store", "add.send", "ping.use", "close.flag"} THEN 1
  ELSE 0

\* Each step of a call brings its end nearer and no step of anybody else's puts
\* it off: not even the range over closeListeners, to which other goroutines
\* still try to add, can go on for ever.
CallsRunOut ==
  [][\A p \in Proc : CallSteps(p) > 0 =>
       IF pc'[p] = pc[p]
       THEN CallSteps(p)' = CallSteps(p)
       ELSE CallSteps(p)' \in Nat /\ CallSteps(p)' < CallSteps(p)]_vars

\* Calls never all wait for the mutex: whoever left it locked would leave them
\* waiting for good.
SomeCallGoesOn ==
  (\E p \in Proc : CallSteps(p) > 0) =>
    \E p \in Proc :
      /\ CallSteps(p) > 0
      /\ pc[p] \in {"stmt.lock", "close.lock"} => lock = None

\* Open's comment: the handle is closed if and when its context is cancelled.
CancelCloses == (ctx = "cancelled" /\ pc[Main] = "idle") ~> closed

\* No caller waits for ever in a method of the handle.
CallsReturn == \A p \in Caller : []<>(pc[p] \in {"idle", "panicked"})

\* Maintenance's comment: closing the handle ends the maintenance goroutine.
CloseStopsTicker == closed ~> ticker \in {"none", "stopped", "panicked"}
=============================================================================
