--------------------------- MODULE DBHandleProofs ---------------------------
(***************************************************************************)
(* Proofs about DBHandle: the inductive invariant TypeOK /\ HandleInv, what *)
(* follows from it, and the refinement of HandleLifecycle.  One lemma per  *)
(* action, one step per part of the invariant.                             *)
(***************************************************************************)
EXTENDS DBHandle, SequenceTheorems, TLAPS

\* The goroutines, without their definition as a union.
LEMMA ProcFacts ==
  /\ Main \in Proc /\ AfterFunc \in Proc /\ Main # AfterFunc
  /\ Main \notin Caller /\ AfterFunc \notin Caller
  /\ \A p \in Caller : p \in Proc
  /\ \A p \in Proc : p \in Caller \/ p = Main \/ p = AfterFunc
  /\ None \notin Proc
  BY ProcAssumption DEF Proc

USE ProcFacts, ArgAssumption, CapacityAssumption, SwitchAssumption
USE DEF HandleInv,
        Goto, Free, Enter, Return, Panic, handleVars, procVars, tickerVars, historyVars

-----------------------------------------------------------------------------
(***************************************************************************)
(* The listener channel as a sequence without repetitions.                 *)
(***************************************************************************)

\* Receiving from the channel takes one element out of it.
LEMMA TailElements ==
  ASSUME NEW S, NEW s \in Seq(S), s # <<>>, Distinct(s)
  PROVE  /\ Distinct(Tail(s))
         /\ Elements(s) = Elements(Tail(s)) \union {Head(s)}
         /\ Head(s) \notin Elements(Tail(s))
<1>1. /\ Len(s) \in Nat /\ Len(s) > 0
      /\ Len(Tail(s)) = Len(s) - 1
      /\ \A i \in 1..Len(Tail(s)) : Tail(s)[i] = s[i + 1]
      /\ Head(s) = s[1]
  BY EmptySeq, LenProperties, HeadTailProperties
<1>2. \A i \in 1..Len(s) : i = 1 \/ (i - 1 \in 1..Len(Tail(s)) /\ s[i] = Tail(s)[i - 1])
  BY <1>1
<1>3. \A i \in 1..Len(Tail(s)) : i + 1 \in 1..Len(s) /\ 1 \in 1..Len(s) /\ i + 1 # 1
  BY <1>1
<1>4. Distinct(Tail(s))
  BY <1>1, <1>3 DEF Distinct
<1>5. Head(s) \notin Elements(Tail(s))
  BY <1>1, <1>3 DEF Distinct, Elements
<1>6. Elements(s) = Elements(Tail(s)) \union {Head(s)}
  <2>1. ASSUME NEW x \in Elements(s) PROVE x \in Elements(Tail(s)) \union {Head(s)}
    BY <1>1, <1>2, <2>1 DEF Elements
  <2>2. ASSUME NEW x \in Elements(Tail(s)) PROVE x \in Elements(s)
    BY <1>1, <1>3, <2>2 DEF Elements
  <2>3. Head(s) \in Elements(s)
    BY <1>1 DEF Elements
  <2> QED
    BY <2>1, <2>2, <2>3
<1> QED
  BY <1>4, <1>5, <1>6

\* Sending on the channel adds one element to it.
LEMMA AppendElements ==
  ASSUME NEW S, NEW s \in Seq(S), NEW e \in S
  PROVE  /\ Elements(Append(s, e)) = Elements(s) \union {e}
         /\ Distinct(s) /\ e \notin Elements(s) => Distinct(Append(s, e))
<1>1. /\ Len(s) \in Nat
      /\ Len(Append(s, e)) = Len(s) + 1
      /\ \A i \in 1..Len(s) : Append(s, e)[i] = s[i]
      /\ Append(s, e)[Len(s) + 1] = e
  BY LenProperties, AppendProperties
<1>2. \A i \in 1..Len(Append(s, e)) : i \in 1..Len(s) \/ i = Len(s) + 1
  BY <1>1
<1>3. Elements(Append(s, e)) = Elements(s) \union {e}
  BY <1>1, <1>2 DEF Elements
<1>4. Distinct(s) /\ e \notin Elements(s) => Distinct(Append(s, e))
  BY <1>1, <1>2 DEF Elements, Distinct
<1> QED
  BY <1>3, <1>4

-----------------------------------------------------------------------------
(***************************************************************************)
(* The invariant is inductive.                                             *)
(***************************************************************************)
LEMMA OpenDBStep ==
  ASSUME TypeOK, HandleInv, OpenDB
  PROVE  TypeOK' /\ HandleInv'
<1>1. TypeOK'
  BY DEF OpenDB, TypeOK, Labels, CloseSection, StatementLabels, ArgInv
<1>2. LockInv'
  BY DEF OpenDB, LockInv, TypeOK, CriticalSection, CloseSection
<1>3. ArgInv'
  BY DEF OpenDB, ArgInv, TypeOK, LockInv, OpenInv, CriticalSection, CloseSection,
    StatementLabels
<1>4. OpenInv'
  BY DEF OpenDB, OpenInv, TypeOK, CloseInv, CriticalSection, CloseSection,
    StatementLabels
<1>5. CloseInv'
  BY DEF OpenDB, CloseInv, TypeOK, LockInv, OpenInv, ArgInv, CriticalSection,
    CloseSection, StatementLabels
<1>6. ListenerInv'
  BY DEF OpenDB, ListenerInv, TypeOK, ArgInv, CloseInv, CloseSection
<1>7. PrepareInv'
  BY DEF OpenDB, PrepareInv, TypeOK, ArgInv, LockInv, CloseInv, OpenInv,
    PreparedOnce, NoStatementLeak, CriticalSection, CloseSection, StatementLabels
<1> QED
  BY <1>1, <1>2, <1>3, <1>4, <1>5, <1>6, <1>7

LEMMA OpenReadyStep ==
  ASSUME TypeOK, HandleInv, OpenReady
  PROVE  TypeOK' /\ HandleInv'
<1>1. TypeOK'
  BY DEF OpenReady, TypeOK, Labels, CloseSection, StatementLabels, ArgInv
<1>2. LockInv'
  BY DEF OpenReady, LockInv, TypeOK, CriticalSection, CloseSection
<1>3. ArgInv'
  BY DEF OpenReady, ArgInv, TypeOK, LockInv, OpenInv, CriticalSection, CloseSection,
    StatementLabels
<1>4. OpenInv'
  BY DEF OpenReady, OpenInv, TypeOK, CloseInv, CriticalSection, CloseSection,
    StatementLabels
<1>5. CloseInv'
  BY DEF OpenReady, CloseInv, TypeOK, LockInv, OpenInv, ArgInv, CriticalSection,
    CloseSection, StatementLabels
<1>6. ListenerInv'
  BY DEF OpenReady, ListenerInv, TypeOK, ArgInv, CloseInv, CloseSection
<1>7. PrepareInv'
  <2>1. /\ UNCHANGED <<stmts, prepares, lock, closed>>
        /\ pc[Main] = "opening" /\ pc'[Main] = "idle"
        /\ \A p \in Proc \ {Main} : pc'[p] = pc[p] /\ arg'[p] = arg[p]
    BY DEF OpenReady, Return, Goto, TypeOK, historyVars
  <2>2. PreparedOnce' /\ (\A k \in stmts' : prepares'[k] = 1)
    BY <2>1 DEF PrepareInv, PreparedOnce
  <2>3. NoStatementLeak'
    BY <2>1 DEF PrepareInv, NoStatementLeak, LockInv, TypeOK
  <2>4. \A p \in Proc : pc'[p] = "stmt.store" => prepares'[arg'[p]] = 1
    BY <2>1 DEF PrepareInv
  <2> QED
    BY <2>2, <2>3, <2>4 DEF PrepareInv
<1> QED
  BY <1>1, <1>2, <1>3, <1>4, <1>5, <1>6, <1>7

LEMMA CancelContextStep ==
  ASSUME TypeOK, HandleInv, CancelContext
  PROVE  TypeOK' /\ HandleInv'
<1>1. TypeOK'
  BY DEF CancelContext, TypeOK, Labels, CloseSection, StatementLabels, ArgInv
<1>2. LockInv'
  BY DEF CancelContext, LockInv, TypeOK, CriticalSection, CloseSection
<1>3. ArgInv'
  BY DEF CancelContext, ArgInv, TypeOK, LockInv, OpenInv, CriticalSection,
    CloseSection, StatementLabels
<1>4. OpenInv'
  BY DEF CancelContext, OpenInv, TypeOK, CloseInv, CriticalSection, CloseSection,
    StatementLabels
<1>5. CloseInv'
  BY DEF CancelContext, CloseInv, TypeOK, LockInv, OpenInv, ArgInv, CriticalSection,
    CloseSection, StatementLabels
<1>6. ListenerInv'
  BY DEF CancelContext, ListenerInv, TypeOK, ArgInv, CloseInv, CloseSection
<1>7. PrepareInv'
  BY DEF CancelContext, PrepareInv, TypeOK, ArgInv, LockInv, CloseInv, OpenInv,
    PreparedOnce, NoStatementLeak, CriticalSection, CloseSection, StatementLabels
<1> QED
  BY <1>1, <1>2, <1>3, <1>4, <1>5, <1>6, <1>7

LEMMA AfterFuncFiresStep ==
  ASSUME TypeOK, HandleInv, AfterFuncFires
  PROVE  TypeOK' /\ HandleInv'
<1>1. TypeOK'
  <2>1. \E label \in Labels, result \in {"none", "ok", "error"}, x \in Key \union {None} :
           /\ pc' = [pc EXCEPT ![AfterFunc] = label]
           /\ arg' = [arg EXCEPT ![AfterFunc] = x]
           /\ ret' = [ret EXCEPT ![AfterFunc] = result]
    BY DEF AfterFuncFires, CloseCheck, Labels, StatementLabels
  <2>2. /\ pc' \in [Proc -> Labels]
        /\ arg' \in [Proc -> Key \union Listener \union {None}]
        /\ ret' \in [Proc -> {"none", "ok", "error"}]
    BY <2>1 DEF TypeOK
  <2> QED
    BY <2>2 DEF AfterFuncFires, CloseCheck, TypeOK
<1>2. LockInv'
  BY DEF AfterFuncFires, CloseCheck, LockInv, TypeOK, CriticalSection, CloseSection
<1>3. ArgInv'
  BY DEF AfterFuncFires, CloseCheck, ArgInv, TypeOK, LockInv, OpenInv,
    CriticalSection, CloseSection, StatementLabels
<1>4. OpenInv'
  BY DEF AfterFuncFires, CloseCheck, OpenInv, TypeOK, CloseInv, CriticalSection,
    CloseSection, StatementLabels
<1>5. CloseInv'
  BY DEF AfterFuncFires, CloseCheck, CloseInv, TypeOK, LockInv, OpenInv, ArgInv,
    CriticalSection, CloseSection, StatementLabels
<1>6. ListenerInv'
  BY DEF AfterFuncFires, CloseCheck, ListenerInv, TypeOK, ArgInv, CloseInv,
    CloseSection
<1>7. PrepareInv'
  BY DEF AfterFuncFires, CloseCheck, PrepareInv, TypeOK, ArgInv, LockInv, CloseInv,
    OpenInv, PreparedOnce, NoStatementLeak, CriticalSection, CloseSection,
    StatementLabels
<1> QED
  BY <1>1, <1>2, <1>3, <1>4, <1>5, <1>6, <1>7

LEMMA StatementCallStep ==
  ASSUME TypeOK, HandleInv, NEW p \in Caller, NEW k \in Key, StatementCall(p, k)
  PROVE  TypeOK' /\ HandleInv'
<1>1. TypeOK'
  <2>1. \E label \in Labels, result \in {"none", "ok", "error"}, x \in Key \union {None} :
           /\ pc' = [pc EXCEPT ![p] = label]
           /\ arg' = [arg EXCEPT ![p] = x]
           /\ ret' = [ret EXCEPT ![p] = result]
    BY DEF StatementCall, Labels, StatementLabels
  <2>2. /\ pc' \in [Proc -> Labels]
        /\ arg' \in [Proc -> Key \union Listener \union {None}]
        /\ ret' \in [Proc -> {"none", "ok", "error"}]
    BY <2>1 DEF TypeOK
  <2> QED
    BY <2>2 DEF StatementCall, TypeOK
<1>2. LockInv'
  BY DEF StatementCall, LockInv, TypeOK, CriticalSection, CloseSection
<1>3. ArgInv'
  BY DEF StatementCall, ArgInv, TypeOK, LockInv, OpenInv, CriticalSection,
    CloseSection, StatementLabels
<1>4. OpenInv'
  BY DEF StatementCall, OpenInv, TypeOK, CloseInv, CriticalSection, CloseSection,
    StatementLabels
<1>5. CloseInv'
  BY DEF StatementCall, CloseInv, TypeOK, LockInv, OpenInv, ArgInv, CriticalSection,
    CloseSection, StatementLabels
<1>6. ListenerInv'
  BY DEF StatementCall, ListenerInv, TypeOK, ArgInv, CloseInv, CloseSection
<1>7. PrepareInv'
  BY DEF StatementCall, PrepareInv, TypeOK, ArgInv, LockInv, CloseInv, OpenInv,
    PreparedOnce, NoStatementLeak, CriticalSection, CloseSection, StatementLabels
<1> QED
  BY <1>1, <1>2, <1>3, <1>4, <1>5, <1>6, <1>7

LEMMA StatementLockStep ==
  ASSUME TypeOK, HandleInv, NEW p \in Proc, StatementLock(p)
  PROVE  TypeOK' /\ HandleInv'
<1>1. TypeOK'
  <2>1. /\ pc' \in [Proc -> Labels]
        /\ arg' \in [Proc -> Key \union Listener \union {None}]
        /\ ret' \in [Proc -> {"none", "ok", "error"}]
    BY DEF StatementLock, TypeOK, Labels, CloseSection, StatementLabels
  <2> QED
    BY <2>1 DEF StatementLock, TypeOK
<1>2. LockInv'
  BY DEF StatementLock, LockInv, TypeOK, CriticalSection, CloseSection
<1>3. ArgInv'
  BY DEF StatementLock, ArgInv, TypeOK, LockInv, OpenInv, CriticalSection,
    CloseSection, StatementLabels
<1>4. OpenInv'
  BY DEF StatementLock, OpenInv, TypeOK, CloseInv, CriticalSection, CloseSection,
    StatementLabels
<1>5. CloseInv'
  BY DEF StatementLock, CloseInv, TypeOK, LockInv, OpenInv, ArgInv, CriticalSection,
    CloseSection, StatementLabels
<1>6. ListenerInv'
  <2>1. UNCHANGED <<listeners, accepted, notified>>
    BY DEF StatementLock
  <2> QED
    BY <2>1 DEF StatementLock, ListenerInv, TypeOK, ArgInv, CloseInv, CloseSection
<1>7. PrepareInv'
  BY DEF StatementLock, PrepareInv, TypeOK, ArgInv, LockInv, CloseInv, OpenInv,
    PreparedOnce, NoStatementLeak, CriticalSection, CloseSection, StatementLabels
<1> QED
  BY <1>1, <1>2, <1>3, <1>4, <1>5, <1>6, <1>7

LEMMA StatementPrepareStep ==
  ASSUME TypeOK, HandleInv, NEW p \in Proc, StatementPrepare(p)
  PROVE  TypeOK' /\ HandleInv'
<1>1. TypeOK'
  <2>1. /\ pc' \in [Proc -> Labels]
        /\ arg' \in [Proc -> Key \union Listener \union {None}]
        /\ ret' \in [Proc -> {"none", "ok", "error"}]
    BY DEF StatementPrepare, TypeOK, Labels, StatementLabels
  <2>2. prepares' \in [Key -> Nat]
    BY DEF StatementPrepare, TypeOK, ArgInv, StatementLabels
  <2>3. lock' \in Proc \union {None}
    BY DEF StatementPrepare, TypeOK
  <2> QED
    BY <2>1, <2>2, <2>3 DEF StatementPrepare, TypeOK
<1>2. LockInv'
  BY DEF StatementPrepare, LockInv, TypeOK, CriticalSection, CloseSection
<1>3. ArgInv'
  BY DEF StatementPrepare, ArgInv, TypeOK, LockInv, OpenInv, CriticalSection,
    CloseSection, StatementLabels
<1>4. OpenInv'
  BY DEF StatementPrepare, OpenInv, TypeOK, CloseInv, CriticalSection, CloseSection,
    StatementLabels
<1>5. CloseInv'
  BY DEF StatementPrepare, CloseInv, TypeOK, LockInv, OpenInv, ArgInv,
    CriticalSection, CloseSection, StatementLabels
<1>6. ListenerInv'
  BY DEF StatementPrepare, ListenerInv, TypeOK, ArgInv, CloseInv, CloseSection
<1>7. PrepareInv'
  BY DEF StatementPrepare, PrepareInv, TypeOK, ArgInv, LockInv, CloseInv, OpenInv,
    PreparedOnce, NoStatementLeak, CriticalSection, CloseSection, StatementLabels
<1> QED
  BY <1>1, <1>2, <1>3, <1>4, <1>5, <1>6, <1>7

LEMMA StatementStoreStep ==
  ASSUME TypeOK, HandleInv, NEW p \in Proc, StatementStore(p)
  PROVE  TypeOK' /\ HandleInv'
<1>1. TypeOK'
  BY DEF StatementStore, TypeOK, Labels, CloseSection, StatementLabels, ArgInv
<1>2. LockInv'
  BY DEF StatementStore, LockInv, TypeOK, CriticalSection, CloseSection
<1>3. ArgInv'
  BY DEF StatementStore, ArgInv, TypeOK, LockInv, OpenInv, CriticalSection,
    CloseSection, StatementLabels
<1>4. OpenInv'
  BY DEF StatementStore, OpenInv, TypeOK, CloseInv, CriticalSection, CloseSection,
    StatementLabels
<1>5. CloseInv'
  BY DEF StatementStore, CloseInv, TypeOK, LockInv, OpenInv, ArgInv,
    CriticalSection, CloseSection, StatementLabels
<1>6. ListenerInv'
  BY DEF StatementStore, ListenerInv, TypeOK, ArgInv, CloseInv, CloseSection
<1>7. PrepareInv'
  BY DEF StatementStore, PrepareInv, TypeOK, ArgInv, LockInv, CloseInv, OpenInv,
    PreparedOnce, NoStatementLeak, CriticalSection, CloseSection, StatementLabels
<1> QED
  BY <1>1, <1>2, <1>3, <1>4, <1>5, <1>6, <1>7

LEMMA AddCheckStep ==
  ASSUME TypeOK, HandleInv, NEW p \in Caller, NEW l \in Listener, AddCheck(p, l)
  PROVE  TypeOK' /\ HandleInv'
<1>1. TypeOK'
  <2>1. /\ pc' \in [Proc -> Labels]
        /\ arg' \in [Proc -> Key \union Listener \union {None}]
        /\ ret' \in [Proc -> {"none", "ok", "error"}]
    <3>1. p \in Proc /\ l \in Listener
      BY ProcFacts
    <3>2. pc' \in [Proc -> Labels]
      BY <3>1 DEF AddCheck, TypeOK, Labels
    <3>3. arg' \in [Proc -> Key \union Listener \union {None}]
      BY <3>1 DEF AddCheck, TypeOK
    <3>4. ret' \in [Proc -> {"none", "ok", "error"}]
      BY <3>1 DEF AddCheck, TypeOK
    <3> QED
      BY <3>2, <3>3, <3>4
  <2> QED
    BY <2>1 DEF AddCheck, TypeOK
<1>2. LockInv'
  BY DEF AddCheck, LockInv, TypeOK, CriticalSection, CloseSection
<1>3. ArgInv'
  BY DEF AddCheck, ArgInv, TypeOK, LockInv, OpenInv, CriticalSection, CloseSection,
    StatementLabels
<1>4. OpenInv'
  BY DEF AddCheck, OpenInv, TypeOK, CloseInv, CriticalSection, CloseSection,
    StatementLabels
<1>5. CloseInv'
  BY DEF AddCheck, CloseInv, TypeOK, LockInv, OpenInv, ArgInv, CriticalSection,
    CloseSection, StatementLabels
<1>6. ListenerInv'
  BY DEF AddCheck, ListenerInv, TypeOK, ArgInv, CloseInv, CloseSection
<1>7. PrepareInv'
  <2>1. \A q \in Proc :
          /\ pc'[q] = "stmt.store" <=> pc[q] = "stmt.store"
          /\ pc[q] = "stmt.store" => arg'[q] = arg[q]
          /\ pc[q] \in {"close.db", "close.flag"} => pc'[q] = pc[q]
    BY DEF AddCheck, TypeOK
  <2>2. stmts' = stmts /\ lock' = lock /\ closed' = closed /\ prepares' = prepares
    BY DEF AddCheck
  <2>3. lock # None => lock \in Proc
    BY DEF TypeOK
  <2> QED
    BY <2>1, <2>2, <2>3 DEF PrepareInv, PreparedOnce, NoStatementLeak
<1> QED
  BY <1>1, <1>2, <1>3, <1>4, <1>5, <1>6, <1>7

LEMMA AddSendStep ==
  ASSUME TypeOK, HandleInv, NEW p \in Proc, AddSend(p)
  PROVE  TypeOK' /\ HandleInv'
<1>1. TypeOK'
  <2>1. /\ pc' \in [Proc -> Labels]
        /\ arg' \in [Proc -> Key \union Listener \union {None}]
        /\ ret' \in [Proc -> {"none", "ok", "error"}]
    BY DEF AddSend, TypeOK, Labels
  <2>2. CASE listeners' = listeners /\ accepted' = accepted
    BY <2>1, <2>2 DEF AddSend, TypeOK
  <2>3. CASE /\ Len(listeners) < MaxListeners
             /\ listeners' = Append(listeners, arg[p])
             /\ accepted' = accepted \union {arg[p]}
    <3>1. arg[p] \in Listener
      BY DEF AddSend, ArgInv
    <3>2. listeners' \in Seq(Listener) /\ Len(listeners') <= MaxListeners
      BY <2>3, <3>1, AppendProperties, LenProperties DEF TypeOK
    <3> QED
      BY <2>1, <2>3, <3>1, <3>2 DEF AddSend, TypeOK
  <2> QED
    BY <2>2, <2>3 DEF AddSend
<1>2. LockInv'
  BY DEF AddSend, LockInv, TypeOK, CriticalSection, CloseSection
<1>3. ArgInv'
  BY DEF AddSend, ArgInv, TypeOK, LockInv, OpenInv, CriticalSection, CloseSection,
    StatementLabels, ListenerInv
<1>4. OpenInv'
  BY DEF AddSend, OpenInv, TypeOK, CloseInv, CriticalSection, CloseSection,
    StatementLabels
<1>5. CloseInv'
  BY DEF AddSend, CloseInv, TypeOK, LockInv, OpenInv, ArgInv, CriticalSection,
    CloseSection, StatementLabels
<1>6. ListenerInv'
  <2>1. CASE listeners' = listeners /\ accepted' = accepted
    <3>1. UNCHANGED <<notified, accepting>>
      BY DEF AddSend
    <3>2. \A q \in Proc : pc'[q] = "add.send" => pc[q] = "add.send" /\ arg'[q] = arg[q]
      BY DEF AddSend, TypeOK
    <3>3. accepting' => notified' = {}
      BY <3>1 DEF ListenerInv
    <3>4. \A q, u \in Proc :
            pc'[q] = "add.send" /\ pc'[u] = "add.send" /\ q # u => arg'[q] # arg'[u]
      BY <3>1, <3>2 DEF ListenerInv
    <3> QED
      BY <2>1, <3>1, <3>3, <3>4 DEF ListenerInv
  <2>2. CASE /\ accepting
             /\ listeners' = Append(listeners, arg[p])
             /\ accepted' = accepted \union {arg[p]}
    <3>1. arg[p] \in Listener \ accepted
      BY DEF AddSend, ArgInv
    <3>2. /\ Elements(listeners') = Elements(listeners) \union {arg[p]}
          /\ Distinct(listeners')
      BY <2>2, <3>1, AppendElements DEF ListenerInv, TypeOK
    <3> QED
      BY <2>2, <3>1, <3>2 DEF ListenerInv, AddSend, TypeOK
  <2> QED
    BY <2>1, <2>2 DEF AddSend
<1>7. PrepareInv'
  <2>1. \A q \in Proc :
          /\ pc'[q] = "stmt.store" <=> pc[q] = "stmt.store"
          /\ pc[q] = "stmt.store" => arg'[q] = arg[q]
          /\ pc[q] \in {"close.db", "close.flag"} => pc'[q] = pc[q]
    BY DEF AddSend, TypeOK
  <2>2. stmts' = stmts /\ lock' = lock /\ closed' = closed /\ prepares' = prepares
    BY DEF AddSend
  <2>3. lock # None => lock \in Proc
    BY DEF TypeOK
  <2> QED
    BY <2>1, <2>2, <2>3 DEF PrepareInv, PreparedOnce, NoStatementLeak
<1> QED
  BY <1>1, <1>2, <1>3, <1>4, <1>5, <1>6, <1>7

LEMMA PingCheckStep ==
  ASSUME TypeOK, HandleInv, NEW p \in Caller, PingCheck(p)
  PROVE  TypeOK' /\ HandleInv'
<1>1. TypeOK'
  <2>1. \E label \in Labels, result \in {"none", "ok", "error"} :
           /\ pc' = [pc EXCEPT ![p] = label]
           /\ arg' = [arg EXCEPT ![p] = None]
           /\ ret' = [ret EXCEPT ![p] = result]
    BY DEF PingCheck, Labels
  <2>2. /\ pc' \in [Proc -> Labels]
        /\ arg' \in [Proc -> Key \union Listener \union {None}]
        /\ ret' \in [Proc -> {"none", "ok", "error"}]
    BY <2>1 DEF TypeOK
  <2> QED
    BY <2>2 DEF PingCheck, TypeOK
<1>2. LockInv'
  BY DEF PingCheck, LockInv, TypeOK, CriticalSection, CloseSection
<1>3. ArgInv'
  BY DEF PingCheck, ArgInv, TypeOK, LockInv, OpenInv, CriticalSection, CloseSection,
    StatementLabels
<1>4. OpenInv'
  BY DEF PingCheck, OpenInv, TypeOK, CloseInv, CriticalSection, CloseSection,
    StatementLabels
<1>5. CloseInv'
  BY DEF PingCheck, CloseInv, TypeOK, LockInv, OpenInv, ArgInv, CriticalSection,
    CloseSection, StatementLabels
<1>6. ListenerInv'
  <2>1. \A q \in Proc : pc'[q] = "add.send" => pc[q] = "add.send" /\ arg'[q] = arg[q]
    BY DEF PingCheck, TypeOK
  <2> QED
    BY <2>1 DEF PingCheck, ListenerInv
<1>7. PrepareInv'
  BY DEF PingCheck, PrepareInv, TypeOK, ArgInv, LockInv, CloseInv, OpenInv,
    PreparedOnce, NoStatementLeak, CriticalSection, CloseSection, StatementLabels
<1> QED
  BY <1>1, <1>2, <1>3, <1>4, <1>5, <1>6, <1>7

LEMMA PingUseStep ==
  ASSUME TypeOK, HandleInv, NEW p \in Proc, PingUse(p)
  PROVE  TypeOK' /\ HandleInv'
<1>1. TypeOK'
  <2>1. \E label \in Labels, result \in {"none", "ok", "error"} :
           /\ pc' = [pc EXCEPT ![p] = label]
           /\ arg' = [arg EXCEPT ![p] = None]
           /\ ret' = [ret EXCEPT ![p] = result]
    BY DEF PingUse, Labels
  <2>2. /\ pc' \in [Proc -> Labels]
        /\ arg' \in [Proc -> Key \union Listener \union {None}]
        /\ ret' \in [Proc -> {"none", "ok", "error"}]
    BY <2>1 DEF TypeOK
  <2> QED
    BY <2>2 DEF PingUse, TypeOK
<1>2. LockInv'
  BY DEF PingUse, LockInv, TypeOK, CriticalSection, CloseSection
<1>3. ArgInv'
  BY DEF PingUse, ArgInv, TypeOK, LockInv, OpenInv, CriticalSection, CloseSection,
    StatementLabels
<1>4. OpenInv'
  BY DEF PingUse, OpenInv, TypeOK, CloseInv, CriticalSection, CloseSection,
    StatementLabels
<1>5. CloseInv'
  BY DEF PingUse, CloseInv, TypeOK, LockInv, OpenInv, ArgInv, CriticalSection,
    CloseSection, StatementLabels
<1>6. ListenerInv'
  <2>1. \A q \in Proc : pc'[q] = "add.send" => pc[q] = "add.send" /\ arg'[q] = arg[q]
    BY DEF PingUse, TypeOK
  <2> QED
    BY <2>1 DEF PingUse, ListenerInv
<1>7. PrepareInv'
  BY DEF PingUse, PrepareInv, TypeOK, ArgInv, LockInv, CloseInv, OpenInv,
    PreparedOnce, NoStatementLeak, CriticalSection, CloseSection, StatementLabels
<1> QED
  BY <1>1, <1>2, <1>3, <1>4, <1>5, <1>6, <1>7

LEMMA CloseCallStep ==
  ASSUME TypeOK, HandleInv, NEW p \in Caller, CloseCall(p)
  PROVE  TypeOK' /\ HandleInv'
<1>1. TypeOK'
  <2>1. \E label \in Labels, result \in {"none", "ok", "error"} :
           /\ pc' = [pc EXCEPT ![p] = label]
           /\ arg' = [arg EXCEPT ![p] = None]
           /\ ret' = [ret EXCEPT ![p] = result]
    BY DEF CloseCall, CloseCheck, Labels
  <2>2. /\ pc' \in [Proc -> Labels]
        /\ arg' \in [Proc -> Key \union Listener \union {None}]
        /\ ret' \in [Proc -> {"none", "ok", "error"}]
    BY <2>1 DEF TypeOK
  <2> QED
    BY <2>2 DEF CloseCall, CloseCheck, TypeOK
<1>2. LockInv'
  BY DEF CloseCall, CloseCheck, LockInv, TypeOK, CriticalSection, CloseSection
<1>3. ArgInv'
  BY DEF CloseCall, CloseCheck, ArgInv, TypeOK, LockInv, OpenInv, CriticalSection,
    CloseSection, StatementLabels
<1>4. OpenInv'
  BY DEF CloseCall, CloseCheck, OpenInv, TypeOK, CloseInv, CriticalSection,
    CloseSection, StatementLabels
<1>5. CloseInv'
  BY DEF CloseCall, CloseCheck, CloseInv, TypeOK, LockInv, OpenInv, ArgInv,
    CriticalSection, CloseSection, StatementLabels
<1>6. ListenerInv'
  <2>1. \A q \in Proc : pc'[q] = "add.send" => pc[q] = "add.send" /\ arg'[q] = arg[q]
    BY DEF CloseCall, CloseCheck, TypeOK
  <2> QED
    BY <2>1 DEF CloseCall, CloseCheck, ListenerInv
<1>7. PrepareInv'
  BY DEF CloseCall, CloseCheck, PrepareInv, TypeOK, ArgInv, LockInv, CloseInv,
    OpenInv, PreparedOnce, NoStatementLeak, CriticalSection, CloseSection,
    StatementLabels
<1> QED
  BY <1>1, <1>2, <1>3, <1>4, <1>5, <1>6, <1>7

LEMMA CloseLockStep ==
  ASSUME TypeOK, HandleInv, NEW p \in Proc, CloseLock(p)
  PROVE  TypeOK' /\ HandleInv'
<1>1. TypeOK'
  <2>1. /\ pc' \in [Proc -> Labels]
        /\ arg' \in [Proc -> Key \union Listener \union {None}]
        /\ ret' \in [Proc -> {"none", "ok", "error"}]
    BY DEF CloseLock, TypeOK, Labels, CloseSection, StatementLabels
  <2> QED
    BY <2>1 DEF CloseLock, TypeOK
<1>2. LockInv'
  BY DEF CloseLock, LockInv, TypeOK, CriticalSection, CloseSection
<1>3. ArgInv'
  BY DEF CloseLock, ArgInv, TypeOK, LockInv, OpenInv, CriticalSection, CloseSection,
    StatementLabels
<1>4. OpenInv'
  BY DEF CloseLock, OpenInv, TypeOK, CloseInv, CriticalSection, CloseSection,
    StatementLabels
<1>5. CloseInv'
  BY DEF CloseLock, CloseInv, TypeOK, LockInv, OpenInv, ArgInv, CriticalSection,
    CloseSection, StatementLabels
<1>6. ListenerInv'
  BY DEF CloseLock, ListenerInv, TypeOK, ArgInv, CloseInv, CloseSection
<1>7. PrepareInv'
  BY DEF CloseLock, PrepareInv, TypeOK, ArgInv, LockInv, CloseInv, OpenInv,
    PreparedOnce, NoStatementLeak, CriticalSection, CloseSection, StatementLabels
<1> QED
  BY <1>1, <1>2, <1>3, <1>4, <1>5, <1>6, <1>7

LEMMA CloseNextListenerStep ==
  ASSUME TypeOK, HandleInv, NEW p \in Proc, CloseNextListener(p)
  PROVE  TypeOK' /\ HandleInv'
<1>1. TypeOK'
  <2>1. CASE listeners = <<>>
    BY <2>1 DEF CloseNextListener, TypeOK, Labels, CloseSection
  <2>2. CASE listeners # <<>>
    <3>1. /\ Head(listeners) \in Listener
          /\ Tail(listeners) \in Seq(Listener)
          /\ Len(Tail(listeners)) = Len(listeners) - 1
          /\ Len(listeners) \in Nat
      BY <2>2, HeadTailProperties, LenProperties DEF TypeOK
    <3>2. /\ listeners' = Tail(listeners)
          /\ notified' = notified \union {Head(listeners)}
          /\ arg' = [arg EXCEPT ![p] = Head(listeners)]
          /\ pc' = [pc EXCEPT ![p] = "close.calling"]
          /\ UNCHANGED <<db, closed, done, lock, stmts, accepting, ctx, ret, tickerVars,
                         prepares, accepted>>
      BY <2>2 DEF CloseNextListener
    <3>3. listeners' \in Seq(Listener) /\ Len(listeners') <= MaxListeners
      BY <3>1, <3>2 DEF TypeOK
    <3> QED
      BY <3>1, <3>2, <3>3 DEF TypeOK, Labels, CloseSection
  <2> QED
    BY <2>1, <2>2
<1>2. LockInv'
  BY DEF CloseNextListener, LockInv, TypeOK, CriticalSection, CloseSection
<1>3. ArgInv'
  BY DEF CloseNextListener, ArgInv, TypeOK, LockInv, OpenInv, CriticalSection,
    CloseSection, StatementLabels
<1>4. OpenInv'
  BY DEF CloseNextListener, OpenInv, TypeOK, CloseInv, CriticalSection,
    CloseSection, StatementLabels
<1>5. CloseInv'
  BY DEF CloseNextListener, CloseInv, TypeOK, LockInv, OpenInv, ArgInv,
    CriticalSection, CloseSection, StatementLabels
<1>6. ListenerInv'
  <2>1. ~accepting
    BY DEF CloseNextListener, CloseInv, CloseSection
  <2>2. CASE listeners = <<>>
    BY <2>1, <2>2 DEF CloseNextListener, TypeOK, ListenerInv, ArgInv
  <2>3. CASE listeners # <<>>
    <3>1. /\ Distinct(Tail(listeners))
          /\ Elements(listeners) = Elements(Tail(listeners)) \union {Head(listeners)}
          /\ Head(listeners) \notin Elements(Tail(listeners))
      BY <2>3, TailElements DEF TypeOK, ListenerInv
    <3>2. /\ listeners' = Tail(listeners)
          /\ notified' = notified \union {Head(listeners)}
          /\ arg' = [arg EXCEPT ![p] = Head(listeners)]
          /\ pc' = [pc EXCEPT ![p] = "close.calling"]
          /\ UNCHANGED <<accepting, accepted>>
      BY <2>3 DEF CloseNextListener
    <3>3. /\ accepted' = Elements(listeners') \union notified'
          /\ Elements(listeners') \cap notified' = {}
          /\ Distinct(listeners')
      BY <3>1, <3>2 DEF ListenerInv
    <3>4. \A q, r \in Proc :
            pc'[q] = "add.send" /\ pc'[r] = "add.send" /\ q # r => arg'[q] # arg'[r]
      BY <3>2 DEF TypeOK, ListenerInv
    <3> QED
      BY <2>1, <3>2, <3>3, <3>4 DEF ListenerInv
  <2> QED
    BY <2>2, <2>3
<1>7. PrepareInv'
  BY DEF CloseNextListener, PrepareInv, TypeOK, ArgInv, LockInv, CloseInv, OpenInv,
    PreparedOnce, NoStatementLeak, CriticalSection, CloseSection, StatementLabels
<1> QED
  BY <1>1, <1>2, <1>3, <1>4, <1>5, <1>6, <1>7

LEMMA ListenerReturnsStep ==
  ASSUME TypeOK, HandleInv, NEW p \in Proc, ListenerReturns(p)
  PROVE  TypeOK' /\ HandleInv'
<1>1. TypeOK'
  BY DEF ListenerReturns, TypeOK, Labels, CloseSection, StatementLabels, ArgInv
<1>2. LockInv'
  BY DEF ListenerReturns, LockInv, TypeOK, CriticalSection, CloseSection
<1>3. ArgInv'
  BY DEF ListenerReturns, ArgInv, TypeOK, LockInv, OpenInv, CriticalSection,
    CloseSection, StatementLabels
<1>4. OpenInv'
  BY DEF ListenerReturns, OpenInv, TypeOK, CloseInv, CriticalSection, CloseSection,
    StatementLabels
<1>5. CloseInv'
  BY DEF ListenerReturns, CloseInv, TypeOK, LockInv, OpenInv, ArgInv,
    CriticalSection, CloseSection, StatementLabels
<1>6. ListenerInv'
  BY DEF ListenerReturns, ListenerInv, TypeOK, ArgInv, CloseInv, CloseSection
<1>7. PrepareInv'
  BY DEF ListenerReturns, PrepareInv, TypeOK, ArgInv, LockInv, CloseInv, OpenInv,
    PreparedOnce, NoStatementLeak, CriticalSection, CloseSection, StatementLabels
<1> QED
  BY <1>1, <1>2, <1>3, <1>4, <1>5, <1>6, <1>7

LEMMA CloseStatementsStep ==
  ASSUME TypeOK, HandleInv, NEW p \in Proc, CloseStatements(p)
  PROVE  TypeOK' /\ HandleInv'
<1>1. TypeOK'
  BY DEF CloseStatements, TypeOK, Labels, CloseSection, StatementLabels, ArgInv
<1>2. LockInv'
  BY DEF CloseStatements, LockInv, TypeOK, CriticalSection, CloseSection
<1>3. ArgInv'
  BY DEF CloseStatements, ArgInv, TypeOK, LockInv, OpenInv, CriticalSection,
    CloseSection, StatementLabels
<1>4. OpenInv'
  BY DEF CloseStatements, OpenInv, TypeOK, CloseInv, CriticalSection, CloseSection,
    StatementLabels
<1>5. CloseInv'
  BY DEF CloseStatements, CloseInv, TypeOK, LockInv, OpenInv, ArgInv,
    CriticalSection, CloseSection, StatementLabels
<1>6. ListenerInv'
  BY DEF CloseStatements, ListenerInv, TypeOK, ArgInv, CloseInv, CloseSection
<1>7. PrepareInv'
  BY DEF CloseStatements, PrepareInv, TypeOK, ArgInv, LockInv, CloseInv, OpenInv,
    PreparedOnce, NoStatementLeak, CriticalSection, CloseSection, StatementLabels
<1> QED
  BY <1>1, <1>2, <1>3, <1>4, <1>5, <1>6, <1>7

LEMMA CloseDBStep ==
  ASSUME TypeOK, HandleInv, NEW p \in Proc, CloseDB(p)
  PROVE  TypeOK' /\ HandleInv'
<1>1. TypeOK'
  BY DEF CloseDB, TypeOK, Labels, CloseSection, StatementLabels, ArgInv
<1>2. LockInv'
  BY DEF CloseDB, LockInv, TypeOK, CriticalSection, CloseSection
<1>3. ArgInv'
  BY DEF CloseDB, ArgInv, TypeOK, LockInv, OpenInv, CriticalSection, CloseSection,
    StatementLabels
<1>4. OpenInv'
  BY DEF CloseDB, OpenInv, TypeOK, CloseInv, CriticalSection, CloseSection,
    StatementLabels
<1>5. CloseInv'
  BY DEF CloseDB, CloseInv, TypeOK, LockInv, OpenInv, ArgInv, CriticalSection,
    CloseSection, StatementLabels
<1>6. ListenerInv'
  BY DEF CloseDB, ListenerInv, TypeOK, ArgInv, CloseInv, CloseSection
<1>7. PrepareInv'
  BY DEF CloseDB, PrepareInv, TypeOK, ArgInv, LockInv, CloseInv, OpenInv,
    PreparedOnce, NoStatementLeak, CriticalSection, CloseSection, StatementLabels
<1> QED
  BY <1>1, <1>2, <1>3, <1>4, <1>5, <1>6, <1>7

LEMMA CloseFinishStep ==
  ASSUME TypeOK, HandleInv, NEW p \in Proc, CloseFinish(p)
  PROVE  TypeOK' /\ HandleInv'
<1>1. TypeOK'
  BY DEF CloseFinish, TypeOK, Labels, CloseSection, StatementLabels, ArgInv
<1>2. LockInv'
  BY DEF CloseFinish, LockInv, TypeOK, CriticalSection, CloseSection
<1>3. ArgInv'
  BY DEF CloseFinish, ArgInv, TypeOK, LockInv, OpenInv, CriticalSection,
    CloseSection, StatementLabels
<1>4. OpenInv'
  BY DEF CloseFinish, OpenInv, TypeOK, CloseInv, CriticalSection, CloseSection,
    StatementLabels
<1>5. CloseInv'
  BY DEF CloseFinish, CloseInv, TypeOK, LockInv, OpenInv, ArgInv, CriticalSection,
    CloseSection, StatementLabels
<1>6. ListenerInv'
  BY DEF CloseFinish, ListenerInv, TypeOK, ArgInv, CloseInv, CloseSection
<1>7. PrepareInv'
  BY DEF CloseFinish, PrepareInv, TypeOK, ArgInv, LockInv, CloseInv, OpenInv,
    PreparedOnce, NoStatementLeak, CriticalSection, CloseSection, StatementLabels
<1> QED
  BY <1>1, <1>2, <1>3, <1>4, <1>5, <1>6, <1>7

LEMMA StopMaintenanceStep ==
  ASSUME TypeOK, HandleInv, NEW p \in Caller, StopMaintenance(p)
  PROVE  TypeOK' /\ HandleInv'
<1>1. TypeOK'
  <2>1. \E label \in Labels, result \in {"none", "ok", "error"}, x \in Key \union {None} :
           /\ pc' = [pc EXCEPT ![p] = label]
           /\ arg' = [arg EXCEPT ![p] = x]
           /\ ret' = [ret EXCEPT ![p] = result]
    BY DEF StopMaintenance, Labels, StatementLabels
  <2>2. /\ pc' \in [Proc -> Labels]
        /\ arg' \in [Proc -> Key \union Listener \union {None}]
        /\ ret' \in [Proc -> {"none", "ok", "error"}]
    BY <2>1 DEF TypeOK
  <2> QED
    BY <2>2 DEF StopMaintenance, TypeOK
<1>2. LockInv'
  BY DEF StopMaintenance, LockInv, TypeOK, CriticalSection, CloseSection
<1>3. ArgInv'
  BY DEF StopMaintenance, ArgInv, TypeOK, LockInv, OpenInv, CriticalSection,
    CloseSection, StatementLabels
<1>4. OpenInv'
  BY DEF StopMaintenance, OpenInv, TypeOK, CloseInv, CriticalSection, CloseSection,
    StatementLabels
<1>5. CloseInv'
  BY DEF StopMaintenance, CloseInv, TypeOK, LockInv, OpenInv, ArgInv,
    CriticalSection, CloseSection, StatementLabels
<1>6. ListenerInv'
  BY DEF StopMaintenance, ListenerInv, TypeOK, ArgInv, CloseInv, CloseSection
<1>7. PrepareInv'
  BY DEF StopMaintenance, PrepareInv, TypeOK, ArgInv, LockInv, CloseInv, OpenInv,
    PreparedOnce, NoStatementLeak, CriticalSection, CloseSection, StatementLabels
<1> QED
  BY <1>1, <1>2, <1>3, <1>4, <1>5, <1>6, <1>7

LEMMA TickerTicksStep ==
  ASSUME TypeOK, HandleInv, TickerTicks
  PROVE  TypeOK' /\ HandleInv'
<1>1. TypeOK'
  BY DEF TickerTicks, TypeOK, Labels, CloseSection, StatementLabels, ArgInv
<1>2. LockInv'
  BY DEF TickerTicks, LockInv, TypeOK, CriticalSection, CloseSection
<1>3. ArgInv'
  BY DEF TickerTicks, ArgInv, TypeOK, LockInv, OpenInv, CriticalSection,
    CloseSection, StatementLabels
<1>4. OpenInv'
  BY DEF TickerTicks, OpenInv, TypeOK, CloseInv, CriticalSection, CloseSection,
    StatementLabels
<1>5. CloseInv'
  BY DEF TickerTicks, CloseInv, TypeOK, LockInv, OpenInv, ArgInv, CriticalSection,
    CloseSection, StatementLabels
<1>6. ListenerInv'
  BY DEF TickerTicks, ListenerInv, TypeOK, ArgInv, CloseInv, CloseSection
<1>7. PrepareInv'
  BY DEF TickerTicks, PrepareInv, TypeOK, ArgInv, LockInv, CloseInv, OpenInv,
    PreparedOnce, NoStatementLeak, CriticalSection, CloseSection, StatementLabels
<1> QED
  BY <1>1, <1>2, <1>3, <1>4, <1>5, <1>6, <1>7

LEMMA MaintenanceSelectStep ==
  ASSUME TypeOK, HandleInv, MaintenanceSelect
  PROVE  TypeOK' /\ HandleInv'
<1>1. TypeOK'
  BY DEF MaintenanceSelect, TypeOK, Labels, CloseSection, StatementLabels, ArgInv
<1>2. LockInv'
  BY DEF MaintenanceSelect, LockInv, TypeOK, CriticalSection, CloseSection
<1>3. ArgInv'
  BY DEF MaintenanceSelect, ArgInv, TypeOK, LockInv, OpenInv, CriticalSection,
    CloseSection, StatementLabels
<1>4. OpenInv'
  BY DEF MaintenanceSelect, OpenInv, TypeOK, CloseInv, CriticalSection,
    CloseSection, StatementLabels
<1>5. CloseInv'
  BY DEF MaintenanceSelect, CloseInv, TypeOK, LockInv, OpenInv, ArgInv,
    CriticalSection, CloseSection, StatementLabels
<1>6. ListenerInv'
  BY DEF MaintenanceSelect, ListenerInv, TypeOK, ArgInv, CloseInv, CloseSection
<1>7. PrepareInv'
  BY DEF MaintenanceSelect, PrepareInv, TypeOK, ArgInv, LockInv, CloseInv, OpenInv,
    PreparedOnce, NoStatementLeak, CriticalSection, CloseSection, StatementLabels
<1> QED
  BY <1>1, <1>2, <1>3, <1>4, <1>5, <1>6, <1>7

LEMMA MaintenanceRunStep ==
  ASSUME TypeOK, HandleInv, MaintenanceRun
  PROVE  TypeOK' /\ HandleInv'
<1>1. TypeOK'
  BY DEF MaintenanceRun, TypeOK, Labels, CloseSection, StatementLabels, ArgInv
<1>2. LockInv'
  BY DEF MaintenanceRun, LockInv, TypeOK, CriticalSection, CloseSection
<1>3. ArgInv'
  BY DEF MaintenanceRun, ArgInv, TypeOK, LockInv, OpenInv, CriticalSection,
    CloseSection, StatementLabels
<1>4. OpenInv'
  BY DEF MaintenanceRun, OpenInv, TypeOK, CloseInv, CriticalSection, CloseSection,
    StatementLabels
<1>5. CloseInv'
  BY DEF MaintenanceRun, CloseInv, TypeOK, LockInv, OpenInv, ArgInv,
    CriticalSection, CloseSection, StatementLabels
<1>6. ListenerInv'
  BY DEF MaintenanceRun, ListenerInv, TypeOK, ArgInv, CloseInv, CloseSection
<1>7. PrepareInv'
  BY DEF MaintenanceRun, PrepareInv, TypeOK, ArgInv, LockInv, CloseInv, OpenInv,
    PreparedOnce, NoStatementLeak, CriticalSection, CloseSection, StatementLabels
<1> QED
  BY <1>1, <1>2, <1>3, <1>4, <1>5, <1>6, <1>7

-----------------------------------------------------------------------------
LEMMA InvInit ==
  ASSUME Init
  PROVE  TypeOK /\ HandleInv
<1>1. TypeOK
  <2>1. pc \in [Proc -> Labels]
    BY DEF Init, Labels
  <2>2. listeners \in Seq(Listener) /\ Len(listeners) <= MaxListeners
    BY EmptySeq DEF Init
  <2> QED
    BY <2>1, <2>2 DEF Init, TypeOK
<1>2. Elements(listeners) = {} /\ Distinct(listeners)
  BY DEF Init, Elements, Distinct
<1>3. LockInv /\ ArgInv /\ OpenInv
  BY DEF Init, LockInv, ArgInv, OpenInv, CriticalSection, CloseSection, StatementLabels
<1>4. CloseInv
  BY DEF Init, CloseInv, CloseSection
<1>5. ListenerInv
  BY <1>2 DEF Init, ListenerInv
<1>6. PrepareInv
  BY DEF Init, PrepareInv, PreparedOnce, NoStatementLeak
<1> QED
  BY <1>1, <1>3, <1>4, <1>5, <1>6

LEMMA InvNext ==
  ASSUME TypeOK, HandleInv, [Next]_vars
  PROVE  TypeOK' /\ HandleInv'
<1>1. CASE UNCHANGED vars
  BY <1>1 DEF vars, TypeOK, LockInv, ArgInv, OpenInv, CloseInv, ListenerInv, PrepareInv,
    PreparedOnce, NoStatementLeak
<1>2. CASE Open \/ CancelContext \/ AfterFuncFires
  BY <1>2, OpenDBStep, OpenReadyStep, CancelContextStep, AfterFuncFiresStep DEF Open
<1>3. CASE \E p \in Caller : Invoke(p)
  BY <1>3, StatementCallStep, AddCheckStep, PingCheckStep, CloseCallStep,
     StopMaintenanceStep DEF Invoke
<1>4. CASE \E p \in Proc : Continue(p)
  BY <1>4, StatementLockStep, StatementPrepareStep, StatementStoreStep, AddSendStep,
     PingUseStep, CloseLockStep, CloseNextListenerStep, ListenerReturnsStep,
     CloseStatementsStep, CloseDBStep, CloseFinishStep DEF Continue, Proceed
<1>5. CASE Maintenance
  BY <1>5, TickerTicksStep, MaintenanceSelectStep, MaintenanceRunStep DEF Maintenance
<1> QED
  BY <1>1, <1>2, <1>3, <1>4, <1>5 DEF Next

\* The inductive invariant of the handle, for any number of goroutines,
\* statements and listeners.
THEOREM Invariance == Spec => [](TypeOK /\ HandleInv)
<1>1. Init => TypeOK /\ HandleInv
  BY InvInit
<1>2. TypeOK /\ HandleInv /\ [Next]_vars => TypeOK' /\ HandleInv'
  BY InvNext
<1> QED
  BY <1>1, <1>2, PTL DEF Spec

\* Type correctness; the listener channel never holds more than its capacity.
THEOREM TypeCorrect == Spec => []TypeOK
  BY Invariance, PTL

\* The mutex, the stages of Close and the accounting of listeners and statements.
THEOREM HandleCorrect == Spec => []HandleInv
  BY Invariance, PTL

\* The double-checked lookup of Statement prepares a key at most once.
THEOREM PreparedAtMostOnce == Spec => []PreparedOnce
<1>1. HandleInv => PreparedOnce
  BY DEF PrepareInv
<1> QED
  BY <1>1, Invariance, PTL

\* No prepared statement escapes Close.
THEOREM NoStatementLeaks == Spec => []NoStatementLeak
<1>1. HandleInv => NoStatementLeak
  BY DEF PrepareInv
<1> QED
  BY <1>1, Invariance, PTL

-----------------------------------------------------------------------------
(***************************************************************************)
(* Refinement: every step of the handle is a step of HandleLifecycle under *)
(* the mapping, or changes nothing there.                                  *)
(***************************************************************************)
LEMMA LifecycleInit ==
  ASSUME Init
  PROVE  Lifecycle!Init
  BY DEF Init, Lifecycle!Init, phase

LEMMA LifecycleNext ==
  ASSUME TypeOK, HandleInv, [Next]_vars
  PROVE  [Lifecycle!Next]_(Lifecycle!vars)
<1> DEFINE Same == UNCHANGED <<db, accepting, stmts, accepted, notified>>
<1> SUFFICES Same \/ Lifecycle!Next
  BY DEF Lifecycle!vars, phase
<1>1. CASE UNCHANGED vars
  BY <1>1 DEF vars
<1>2. CASE OpenDB
  BY <1>2 DEF OpenDB, OpenInv, Lifecycle!Next, Lifecycle!Open, phase
<1>3. CASE OpenReady \/ CancelContext \/ AfterFuncFires
  BY <1>3 DEF OpenReady, CancelContext, AfterFuncFires, CloseCheck
<1>4. CASE \E p \in Caller : Invoke(p)
  BY <1>4 DEF Invoke, StatementCall, AddCheck, PingCheck, CloseCall, CloseCheck,
    StopMaintenance
<1>5. ASSUME NEW p \in Proc, StatementStore(p)
      PROVE  Lifecycle!Next
  <2>1. /\ accepting /\ db = "open"
        /\ arg[p] \in Key /\ arg[p] \notin stmts
    BY <1>5 DEF StatementStore, CloseInv, ArgInv, StatementLabels
  <2>2. Lifecycle!Cache(arg[p])
    BY <1>5, <2>1 DEF StatementStore, Lifecycle!Cache, phase
  <2> QED
    BY <2>1, <2>2 DEF Lifecycle!Next
<1>6. ASSUME NEW p \in Proc, AddSend(p)
      PROVE  Same \/ Lifecycle!Next
  <2>1. CASE accepted' = accepted
    BY <1>6, <2>1 DEF AddSend
  <2>2. CASE accepting /\ accepted' = accepted \union {arg[p]}
    <3>1. arg[p] \in Listener \ accepted
      BY <1>6 DEF AddSend, ArgInv
    <3>2. db = "open"
      BY <1>6, <2>2 DEF AddSend, OpenInv
    <3>3. Lifecycle!Register(arg[p])
      BY <1>6, <2>2, <3>1, <3>2 DEF AddSend, Lifecycle!Register, phase
    <3> QED
      BY <3>1, <3>3 DEF Lifecycle!Next
  <2> QED
    BY <1>6, <2>1, <2>2 DEF AddSend
<1>7. ASSUME NEW p \in Proc, CloseLock(p)
      PROVE  Same \/ Lifecycle!Next
  <2>1. CASE accepting' = accepting
    BY <1>7, <2>1 DEF CloseLock
  <2>2. CASE db # "nil" /\ ~closed /\ done = "open" /\ accepting' = FALSE
    <3>1. accepting /\ db = "open"
      BY <2>2 DEF CloseInv, TypeOK
    <3> QED
      BY <1>7, <2>2, <3>1 DEF CloseLock, Lifecycle!Next, Lifecycle!BeginClose, phase
  <2> QED
    BY <1>7, <2>1, <2>2 DEF CloseLock
<1>8. ASSUME NEW p \in Proc, CloseNextListener(p)
      PROVE  Same \/ Lifecycle!Next
  <2>1. CASE notified' = notified
    BY <1>8, <2>1 DEF CloseNextListener
  <2>2. CASE listeners # <<>> /\ notified' = notified \union {Head(listeners)}
    <3>1. ~accepting /\ db = "open"
      BY <1>8 DEF CloseNextListener, CloseInv, CloseSection
    <3>2. Head(listeners) \in accepted \ notified
      BY <2>2, TailElements DEF ListenerInv, TypeOK
    <3>3. Head(listeners) \in Listener
      BY <3>2 DEF TypeOK
    <3>4. Lifecycle!Notify(Head(listeners))
      BY <1>8, <2>2, <3>1, <3>2 DEF CloseNextListener, Lifecycle!Notify, phase
    <3> QED
      BY <3>3, <3>4 DEF Lifecycle!Next
  <2> QED
    BY <1>8, <2>1, <2>2 DEF CloseNextListener
<1>9. ASSUME NEW p \in Proc, CloseStatements(p) \/ CloseDB(p)
      PROVE  Lifecycle!Next
  <2>1. ~accepting /\ db = "open" /\ listeners = <<>>
    BY <1>9 DEF CloseStatements, CloseDB, CloseInv, CloseSection
  <2>2. notified = accepted
    BY <2>1 DEF ListenerInv, Elements
  <2>3. CASE CloseStatements(p)
    BY <2>1, <2>2, <2>3 DEF CloseStatements, Lifecycle!Next, Lifecycle!DropStatements, phase
  <2>4. CASE CloseDB(p)
    <3>1. stmts = {}
      BY <2>4 DEF CloseDB, CloseInv
    <3> QED
      BY <2>1, <2>2, <2>4, <3>1 DEF CloseDB, Lifecycle!Next, Lifecycle!FinishClose, phase
  <2> QED
    BY <1>9, <2>3, <2>4
<1>10. ASSUME NEW p \in Proc, Continue(p)
       PROVE  Same \/ Lifecycle!Next
  <2>1. CASE StatementLock(p) \/ StatementPrepare(p) \/ PingUse(p)
    BY <2>1 DEF StatementLock, StatementPrepare, PingUse
  <2>2. CASE ListenerReturns(p) \/ CloseFinish(p)
    BY <2>2 DEF ListenerReturns, CloseFinish
  <2> QED
    BY <1>5, <1>6, <1>7, <1>8, <1>9, <1>10, <2>1, <2>2 DEF Continue, Proceed
<1>11. CASE Maintenance
  BY <1>11 DEF Maintenance, TickerTicks, MaintenanceSelect, MaintenanceRun
<1> QED
  BY <1>1, <1>2, <1>3, <1>4, <1>10, <1>11 DEF Next, Open

\* The handle implements HandleLifecycle: accepted listeners are called once,
\* before the statements and the connection go, and closed is final.
THEOREM KeepsPromise == Spec => Promise
<1>1. Init => Lifecycle!Init
  BY LifecycleInit
<1>2. TypeOK /\ HandleInv /\ [Next]_vars => [Lifecycle!Next]_(Lifecycle!vars)
  BY LifecycleNext
<1> QED
  BY <1>1, <1>2, Invariance, PTL DEF Spec, Promise, Lifecycle!Spec

-----------------------------------------------------------------------------
(***************************************************************************)
(* What is left of CallsReturn without fairness: a call's own steps run    *)
(* out, nobody else puts them off, and the mutex is never left locked.     *)
(***************************************************************************)
LEMMA CallStepsType ==
  ASSUME TypeOK, NEW p \in Proc
  PROVE  /\ Len(listeners) \in Nat /\ Len(listeners) <= MaxListeners
         /\ CallSteps(p) \in Nat
<1>1. Len(listeners) \in Nat /\ Len(listeners) <= MaxListeners
  BY LenProperties DEF TypeOK
<1> QED
  BY <1>1 DEF CallSteps

\* A goroutine whose label stays keeps its bound, if the channel does not change
\* while it closes the handle.
LEMMA CallFrame ==
  ASSUME NEW p \in Proc, pc'[p] = pc[p],
         pc[p] \in {"close.listeners", "close.calling"} => listeners' = listeners
  PROVE  CallSteps(p)' = CallSteps(p)
BY DEF CallSteps

\* While a goroutine closes the handle no other one takes from the channel or
\* adds to it.
LEMMA ChannelIsClosers ==
  ASSUME TypeOK, HandleInv, NEW q \in Proc, Continue(q), NEW p \in Proc \ {q},
         pc[p] \in {"close.listeners", "close.calling"}
  PROVE  listeners' = listeners
<1>1. pc[p] \in CloseSection /\ lock = p /\ ~accepting
  BY DEF LockInv, CloseInv, CriticalSection, CloseSection
<1>2. ~CloseNextListener(q)
  BY <1>1 DEF CloseNextListener, LockInv, CriticalSection, CloseSection
<1>3. AddSend(q) => listeners' = listeners
  BY <1>1 DEF AddSend
<1> QED
  BY <1>2, <1>3 DEF Continue, Proceed, StatementLock, StatementPrepare, StatementStore, PingUse,
     CloseLock, CloseStatements, CloseDB, CloseFinish, ListenerReturns

\* A step of a call moves this call's label only.
LEMMA ContinueIsOwn ==
  ASSUME TypeOK, NEW q \in Proc, Continue(q), NEW p \in Proc \ {q}
  PROVE  pc'[p] = pc[p]
BY DEF TypeOK, Continue, Proceed, StatementLock, StatementPrepare, StatementStore, AddSend, PingUse,
   CloseLock, CloseNextListener, CloseStatements, CloseDB, CloseFinish, ListenerReturns

\* The range over closeListeners takes one of them at a time.
LEMMA ListenerStepsDecrease ==
  ASSUME TypeOK, NEW p \in Proc, CloseNextListener(p)
  PROVE  CallSteps(p)' \in Nat /\ CallSteps(p)' < CallSteps(p)
<1>1. Len(listeners) \in Nat
  BY CallStepsType
<1>2. CallSteps(p) = 2 * Len(listeners) + 4
  BY DEF CloseNextListener, CallSteps
<1>3. CASE listeners # <<>> /\ listeners' = Tail(listeners) /\ Goto(p, "close.calling")
  <2>1. Len(listeners') = Len(listeners) - 1 /\ Len(listeners) > 0
    BY <1>1, <1>3, EmptySeq, LenProperties, HeadTailProperties DEF TypeOK
  <2>2. pc'[p] = "close.calling"
    BY <1>3 DEF TypeOK
  <2>3. CallSteps(p)' = 2 * Len(listeners') + 5
    BY <2>2 DEF CallSteps
  <2> QED
    BY <1>1, <1>2, <2>1, <2>3
<1>4. CASE Goto(p, "close.stmts")
  <2>1. CallSteps(p)' = 3
    BY <1>4 DEF TypeOK, CallSteps
  <2> QED
    BY <1>1, <1>2, <2>1
<1> QED
  BY <1>3, <1>4 DEF CloseNextListener

\* Every other step goes on to a cheaper label.
LEMMA CallStepsDecrease ==
  ASSUME TypeOK, NEW p \in Proc, Continue(p)
  PROVE  /\ pc'[p] # pc[p]
         /\ CallSteps(p)' \in Nat /\ CallSteps(p)' < CallSteps(p)
<1>1. Len(listeners) \in Nat /\ Len(listeners) <= MaxListeners /\ pc \in [Proc -> Labels]
  BY CallStepsType DEF TypeOK
<1>2. ASSUME StatementLock(p) \/ StatementPrepare(p) \/ StatementStore(p) \/ AddSend(p) \/ PingUse(p)
      PROVE  /\ pc[p] \in {"stmt.lock", "stmt.prepare", "stmt.store", "add.send", "ping.use"}
             /\ pc'[p] \in {"stmt.prepare", "stmt.store", "idle", "panicked"}
             /\ pc'[p] = "stmt.prepare" => pc[p] = "stmt.lock"
             /\ pc'[p] = "stmt.store" => pc[p] = "stmt.prepare"
  BY <1>1, <1>2 DEF StatementLock, StatementPrepare, StatementStore, AddSend, PingUse
<1>3. ASSUME StatementLock(p) \/ StatementPrepare(p) \/ StatementStore(p) \/ AddSend(p) \/ PingUse(p)
      PROVE  /\ pc'[p] # pc[p]
             /\ CallSteps(p)' \in Nat /\ CallSteps(p)' < CallSteps(p)
  BY <1>2, <1>3 DEF CallSteps
<1>4. ASSUME CloseLock(p)
      PROVE  /\ pc'[p] # pc[p]
             /\ CallSteps(p)' \in Nat /\ CallSteps(p)' < CallSteps(p)
  <2>1. /\ pc[p] = "close.lock" /\ listeners' = listeners
        /\ pc'[p] \in {"idle", "panicked", "close.listeners"}
    BY <1>1, <1>4 DEF CloseLock
  <2> QED
    BY <1>1, <2>1 DEF CallSteps
<1>5. ASSUME ListenerReturns(p)
      PROVE  /\ pc'[p] # pc[p]
             /\ CallSteps(p)' \in Nat /\ CallSteps(p)' < CallSteps(p)
  <2>1. pc[p] = "close.calling" /\ listeners' = listeners /\ pc'[p] = "close.listeners"
    BY <1>1, <1>5 DEF ListenerReturns
  <2> QED
    BY <1>1, <2>1 DEF CallSteps
<1>6. ASSUME CloseStatements(p) \/ CloseDB(p) \/ CloseFinish(p)
      PROVE  /\ pc'[p] # pc[p]
             /\ CallSteps(p)' \in Nat /\ CallSteps(p)' < CallSteps(p)
  <2>1. \/ pc[p] = "close.stmts" /\ pc'[p] = "close.db"
        \/ pc[p] = "close.db" /\ pc'[p] = "close.flag"
        \/ pc[p] = "close.flag" /\ pc'[p] = "idle"
    BY <1>1, <1>6 DEF CloseStatements, CloseDB, CloseFinish
  <2> QED
    BY <2>1 DEF CallSteps
<1>7. ASSUME CloseNextListener(p)
      PROVE  /\ pc'[p] # pc[p]
             /\ CallSteps(p)' \in Nat /\ CallSteps(p)' < CallSteps(p)
  <2>1. pc'[p] # pc[p]
    BY <1>1, <1>7 DEF CloseNextListener
  <2> QED
    BY <1>7, <2>1, ListenerStepsDecrease
<1> QED
  BY <1>3, <1>4, <1>5, <1>6, <1>7 DEF Continue, Proceed

\* Whoever starts a call has none under way, and the rest is none of the calls'.
LEMMA OtherStepsKeepCalls ==
  ASSUME TypeOK, HandleInv,
         Open \/ CancelContext \/ AfterFuncFires \/ (\E q \in Caller : Invoke(q)) \/ Maintenance,
         NEW p \in Proc, CallSteps(p) > 0
  PROVE  pc'[p] = pc[p] /\ CallSteps(p)' = CallSteps(p)
<1>1. pc[p] \notin {"new", "opening", "failed", "parked", "idle", "panicked"}
  BY DEF CallSteps
<1>2. CASE Open \/ CancelContext \/ Maintenance
  <2>1. pc'[p] = pc[p] /\ listeners' = listeners
    BY <1>1, <1>2 DEF Open, OpenDB, OpenReady, CancelContext, Maintenance, TickerTicks,
       MaintenanceSelect, MaintenanceRun, TypeOK
  <2> QED
    BY <2>1, CallFrame
<1>3. CASE AfterFuncFires \/ \E q \in Caller : Invoke(q)
  <2>1. pc'[p] = pc[p] /\ listeners' = listeners
    BY <1>1, <1>3 DEF AfterFuncFires, CloseCheck, Invoke, StatementCall, AddCheck, PingCheck,
       CloseCall, StopMaintenance, TypeOK
  <2> QED
    BY <2>1, CallFrame
<1> QED
  BY <1>2, <1>3

\* CallsRunOut: a call takes at most 2 * closeListenerCapacity + 5 steps of its
\* own, whatever other goroutines do with the handle meanwhile.
THEOREM CallsAreFinite == Spec => CallsRunOut
<1>1. ASSUME TypeOK, HandleInv, Next, NEW p \in Proc, CallSteps(p) > 0
      PROVE  IF pc'[p] = pc[p]
             THEN CallSteps(p)' = CallSteps(p)
             ELSE CallSteps(p)' \in Nat /\ CallSteps(p)' < CallSteps(p)
  <2>1. CASE Continue(p)
    BY <2>1, <1>1, CallStepsDecrease
  <2>2. ASSUME NEW q \in Proc \ {p}, Continue(q)
        PROVE  pc'[p] = pc[p] /\ CallSteps(p)' = CallSteps(p)
    <3>1. pc'[p] = pc[p]
      BY <1>1, <2>2, ContinueIsOwn
    <3>2. pc[p] \in {"close.listeners", "close.calling"} => listeners' = listeners
      BY <1>1, <2>2, ChannelIsClosers
    <3> QED
      BY <3>1, <3>2, CallFrame
  <2>3. CASE Open \/ CancelContext \/ AfterFuncFires \/ (\E q \in Caller : Invoke(q)) \/ Maintenance
    BY <1>1, <2>3, OtherStepsKeepCalls
  <2> QED
    BY <1>1, <2>1, <2>2, <2>3 DEF Next
<1>2. TypeOK /\ HandleInv /\ [Next]_vars =>
        [\A p \in Proc : CallSteps(p) > 0 =>
           IF pc'[p] = pc[p]
           THEN CallSteps(p)' = CallSteps(p)
           ELSE CallSteps(p)' \in Nat /\ CallSteps(p)' < CallSteps(p)]_vars
  BY <1>1
<1> QED
  BY <1>2, Invariance, PTL DEF Spec, CallsRunOut

\* SomeCallGoesOn: as long as there are calls, one of them need not wait.
THEOREM CallsDoNotDeadlock == Spec => []SomeCallGoesOn
<1>1. TypeOK /\ HandleInv => SomeCallGoesOn
  <2> SUFFICES ASSUME TypeOK, HandleInv, NEW p \in Proc, CallSteps(p) > 0
               PROVE  \E q \in Proc : /\ CallSteps(q) > 0
                                      /\ pc[q] \in {"stmt.lock", "close.lock"} => lock = None
    BY DEF SomeCallGoesOn
  <2>1. CASE lock = None
    BY <2>1
  <2>2. CASE lock # None
    <3>1. lock \in Proc /\ pc[lock] \in CriticalSection
      BY <2>2 DEF TypeOK, LockInv
    <3>2. CallSteps(lock) > 0
      BY <3>1, CallStepsType DEF CallSteps, CriticalSection, CloseSection
    <3> QED
      BY <3>1, <3>2 DEF CriticalSection, CloseSection
  <2> QED
    BY <2>1, <2>2
<1> QED
  BY <1>1, Invariance, PTL
=============================================================================
