------------------------- MODULE URLDataStoreProofs -------------------------
(***************************************************************************)
(* Proofs about URLDataStore: the two tables agree for any number of       *)
(* clients and URLs, whatever fails between two statements.                *)
(***************************************************************************)
EXTENDS URLDataStore, TLAPS

USE StoreAssumption, NoneAssumption
USE DEF StoreInv, Goto, Return, tables, clients, history

-----------------------------------------------------------------------------
LEMMA RowToSaveType ==
  ASSUME TypeOK, NEW u \in URL, NEW ttl \in TTL
  PROVE  RowToSave(u, ttl) \in Row /\ RowToSave(u, ttl).canonical = u
<1>1. Second \in Nat
  BY DEF TypeOK, Second
<1> QED
  BY <1>1 DEF RowToSave, Row

LEMMA SaveCallStep ==
  ASSUME TypeOK, StoreInv, NEW c \in Client, NEW u \in URL, NEW k \in URL,
         NEW ttl \in TTL, SaveCall(c, u, k, ttl)
  PROVE  TypeOK' /\ StoreInv'
<1>1. RowToSave(k, ttl) \in Row /\ RowToSave(k, ttl).canonical = k
  BY RowToSaveType
<1>2. /\ job' = [job EXCEPT ![c] = [row |-> RowToSave(k, ttl), url |-> u, key |-> None]]
      /\ pc' = [pc EXCEPT ![c] = "save.row"]
      /\ aliases' = aliases \union {<<u, k>>}
      /\ UNCHANGED <<now, urls, idMap, answer, removed>>
  BY DEF SaveCall
<1>3. TypeOK'
  BY <1>1, <1>2 DEF TypeOK
<1>4. JobInv'
  BY <1>1, <1>2 DEF TypeOK, JobInv
<1>5. RowInv' /\ MapInv' /\ MappingHasRow' /\ HitIsAlias'
  BY <1>2 DEF RowInv, MapInv, MappingHasRow, HitIsAlias
<1> QED
  BY <1>3, <1>4, <1>5

LEMMA SaveRowStep ==
  ASSUME TypeOK, StoreInv, NEW c \in Client, SaveRow(c)
  PROVE  TypeOK' /\ StoreInv'
<1>1. job[c].row \in Row /\ job[c].row # None /\ job[c].row.canonical \in URL
  BY DEF SaveRow, JobInv, Row
<1>2. TypeOK'
  <2>1. urls' \in [URL -> Row \union {None}] /\ removed' \subseteq URL
    BY <1>1 DEF SaveRow, TypeOK
  <2>2. /\ pc' \in [Client -> {"idle", "save.row", "save.map", "fetch.row", "clear.map"}]
        /\ job' \in [Client -> [row : Row \union {None}, url : URL \union {None},
                                key : URL \union {None}]]
    <3>1. CASE pc' = [pc EXCEPT ![c] = "save.map"] /\ UNCHANGED job
      BY <3>1 DEF TypeOK
    <3>2. CASE Return(c)
      BY <3>2 DEF TypeOK, NoJob
    <3> QED
      BY <3>1, <3>2 DEF SaveRow
  <2> QED
    BY <2>1, <2>2 DEF SaveRow, TypeOK
<1>3. RowInv' /\ MapInv'
  BY <1>1 DEF SaveRow, TypeOK, RowInv, MapInv
<1>4. JobInv'
  <2> DEFINE k == job[c].row.canonical
  <2>1. \A d \in Client : pc'[d] \in {"save.row", "save.map", "fetch.row"} => job'[d] = job[d]
    BY DEF SaveRow, TypeOK
  <2>2. \A d \in Client : pc'[d] # pc[d] =>
          d = c /\ (pc'[d] = "idle" \/ (pc'[d] = "save.map" /\ urls'[k] # None))
    BY <1>1 DEF SaveRow, TypeOK
  <2>3. \A u \in URL : urls'[u] = None => urls[u] = None /\ (u \in removed => u \in removed')
    BY <1>1 DEF SaveRow, TypeOK
  <2> QED
    BY <1>1, <2>1, <2>2, <2>3 DEF SaveRow, TypeOK, JobInv, Row
<1>5. MappingHasRow' /\ HitIsAlias'
  BY <1>1 DEF SaveRow, TypeOK, MappingHasRow, HitIsAlias
<1> QED
  BY <1>2, <1>3, <1>4, <1>5

LEMMA SaveMapStep ==
  ASSUME TypeOK, StoreInv, NEW c \in Client, SaveMap(c)
  PROVE  TypeOK' /\ StoreInv'
<1>1. job[c].url \in URL /\ job[c].row.canonical \in URL
  BY DEF SaveMap, JobInv, Row
<1>2. TypeOK'
  BY <1>1 DEF SaveMap, TypeOK, NoJob
<1>3. RowInv' /\ MapInv' /\ JobInv'
  BY <1>1 DEF SaveMap, TypeOK, RowInv, MapInv, JobInv, NoJob
<1>4. MappingHasRow' /\ HitIsAlias'
  BY <1>1 DEF SaveMap, TypeOK, JobInv, MappingHasRow, HitIsAlias
<1> QED
  BY <1>2, <1>3, <1>4

LEMMA FetchLookupStep ==
  ASSUME TypeOK, StoreInv, NEW c \in Client, NEW u \in URL, FetchLookup(c, u)
  PROVE  TypeOK' /\ StoreInv'
<1>1. TypeOK'
  <2>1. job' \in [Client -> [row : Row \union {None}, url : URL \union {None},
                             key : URL \union {None}]]
    BY DEF FetchLookup, LookupKey, TypeOK, NoJob
  <2>2. answer' \in [Client -> [url : URL \union {None}, canonical : URL \union {None}]]
    BY DEF FetchLookup, TypeOK, NoAnswer
  <2> QED
    BY <2>1, <2>2 DEF FetchLookup, TypeOK
<1>2. RowInv' /\ MapInv' /\ MappingHasRow'
  BY DEF FetchLookup, RowInv, MapInv, MappingHasRow
<1>3. JobInv'
  BY DEF FetchLookup, LookupKey, TypeOK, JobInv, MapInv, NoJob
<1>4. HitIsAlias'
  BY DEF FetchLookup, TypeOK, HitIsAlias, NoAnswer
<1> QED
  BY <1>1, <1>2, <1>3, <1>4

LEMMA FetchRowStep ==
  ASSUME TypeOK, StoreInv, NEW c \in Client, FetchRow(c)
  PROVE  TypeOK' /\ StoreInv'
<1>1. /\ job[c].url \in URL /\ job[c].key \in URL
      /\ job[c].key = job[c].url \/ <<job[c].url, job[c].key>> \in aliases
  BY DEF FetchRow, JobInv
<1>2. urls[job[c].key] # None =>
        urls[job[c].key] \in Row /\ urls[job[c].key].canonical = job[c].key
  BY <1>1 DEF TypeOK, RowInv
<1>3. TypeOK'
  BY <1>1, <1>2 DEF FetchRow, TypeOK, NoJob
<1>4. RowInv' /\ MapInv' /\ MappingHasRow'
  BY DEF FetchRow, RowInv, MapInv, MappingHasRow
<1>5. JobInv'
  BY DEF FetchRow, TypeOK, JobInv, NoJob
<1>6. HitIsAlias'
  <2>1. CASE answer' = answer
    BY <2>1 DEF FetchRow, HitIsAlias
  <2>2. CASE /\ urls[job[c].key] # None
             /\ answer' = [answer EXCEPT ![c] = [url |-> job[c].url, canonical |-> urls[job[c].key].canonical]]
    BY <1>1, <1>2, <2>2 DEF FetchRow, TypeOK, HitIsAlias
  <2> QED
    BY <2>1, <2>2 DEF FetchRow
<1> QED
  BY <1>3, <1>4, <1>5, <1>6

LEMMA DeleteStep ==
  ASSUME TypeOK, StoreInv, NEW c \in Client, NEW u \in URL, Delete(c, u)
  PROVE  TypeOK' /\ StoreInv'
<1>1. TypeOK'
  BY DEF Delete, TypeOK
<1>2. RowInv' /\ MapInv' /\ HitIsAlias'
  BY DEF Delete, TypeOK, RowInv, MapInv, HitIsAlias
<1>3. JobInv' /\ MappingHasRow'
  BY DEF Delete, TypeOK, JobInv, MappingHasRow, Row
<1> QED
  BY <1>1, <1>2, <1>3

LEMMA ClearStep ==
  ASSUME TypeOK, StoreInv, NEW c \in Client, ClearUrls(c) \/ ClearMap(c)
  PROVE  TypeOK' /\ StoreInv'
<1>1. TypeOK'
  <2>1. CASE ClearUrls(c)
    BY <2>1 DEF ClearUrls, TypeOK
  <2>2. CASE ClearMap(c)
    BY <2>2 DEF ClearMap, TypeOK, NoJob
  <2> QED
    BY <2>1, <2>2
<1>2. RowInv' /\ MapInv' /\ HitIsAlias'
  BY DEF ClearUrls, ClearMap, TypeOK, RowInv, MapInv, HitIsAlias
<1>3. JobInv'
  <2>1. CASE ClearUrls(c)
    BY <2>1 DEF ClearUrls, TypeOK, JobInv, Row
  <2>2. CASE ClearMap(c)
    BY <2>2 DEF ClearMap, TypeOK, JobInv, NoJob
  <2> QED
    BY <2>1, <2>2
<1>4. MappingHasRow'
  BY DEF ClearUrls, ClearMap, TypeOK, MappingHasRow
<1> QED
  BY <1>1, <1>2, <1>3, <1>4

LEMMA MaintainStep ==
  ASSUME TypeOK, StoreInv, Maintain
  PROVE  TypeOK' /\ StoreInv'
<1> DEFINE old == {u \in URL : urls[u] # None /\ urls[u].expires < Second}
<1>1. /\ urls' = [u \in URL |-> IF u \in old THEN None ELSE urls[u]]
      /\ removed' = removed \union old
      /\ UNCHANGED <<now, idMap, pc, job, answer, aliases>>
  BY DEF Maintain
<1>2. old \subseteq URL
  OBVIOUS
<1> HIDE DEF old
<1>3. TypeOK'
  BY <1>1, <1>2 DEF TypeOK
<1>4. RowInv' /\ MapInv' /\ HitIsAlias'
  BY <1>1 DEF RowInv, MapInv, HitIsAlias
<1>5. JobInv' /\ MappingHasRow'
  BY <1>1 DEF TypeOK, JobInv, MappingHasRow, Row
<1> QED
  BY <1>3, <1>4, <1>5

LEMMA TickOrCrashStep ==
  ASSUME TypeOK, StoreInv, Tick \/ Crash
  PROVE  TypeOK' /\ StoreInv'
<1>1. TypeOK'
  BY DEF Tick, Crash, TypeOK, NoJob, NoAnswer
<1>2. RowInv' /\ MapInv' /\ MappingHasRow'
  BY DEF Tick, Crash, RowInv, MapInv, MappingHasRow
<1>3. JobInv' /\ HitIsAlias'
  BY DEF Tick, Crash, JobInv, HitIsAlias, NoAnswer
<1> QED
  BY <1>1, <1>2, <1>3

-----------------------------------------------------------------------------
LEMMA InvInit ==
  ASSUME Init
  PROVE  TypeOK /\ StoreInv
  BY DEF Init, TypeOK, RowInv, MapInv, JobInv, MappingHasRow, HitIsAlias, NoJob, NoAnswer

LEMMA InvNext ==
  ASSUME TypeOK, StoreInv, [Next]_vars
  PROVE  TypeOK' /\ StoreInv'
<1>1. CASE UNCHANGED vars
  BY <1>1 DEF vars, TypeOK, RowInv, MapInv, JobInv, MappingHasRow, HitIsAlias
<1>2. CASE \E c \in Client : Operation(c)
  BY <1>2, SaveCallStep, SaveRowStep, SaveMapStep, FetchLookupStep, FetchRowStep,
     DeleteStep, ClearStep DEF Operation
<1>3. CASE Maintain \/ Tick \/ Crash
  BY <1>3, MaintainStep, TickOrCrashStep
<1> QED
  BY <1>1, <1>2, <1>3 DEF Next

\* The inductive invariant of the two tables.
THEOREM Invariance == Spec => [](TypeOK /\ StoreInv)
<1>1. Init => TypeOK /\ StoreInv
  BY InvInit
<1>2. TypeOK /\ StoreInv /\ [Next]_vars => TypeOK' /\ StoreInv'
  BY InvNext
<1> QED
  BY <1>1, <1>2, PTL DEF Spec

\* Tables, mapping and clients keep their types.
THEOREM TypeCorrect == Spec => []TypeOK
  BY Invariance, PTL

\* Rows are filed under their canonical URL, mappings were asked for, and a
\* client between two statements of Save knows what its first one left behind.
THEOREM StoreCorrect == Spec => []StoreInv
  BY Invariance, PTL

\* A mapping leads to a row unless somebody deleted the row.
THEOREM MappingsHaveRows == Spec => []MappingHasRow
<1>1. StoreInv => MappingHasRow
  OBVIOUS
<1> QED
  BY <1>1, Invariance, PTL

\* Fetch answers with the page of the URL or of one that aliases it.
THEOREM HitsAreAliases == Spec => []HitIsAlias
<1>1. StoreInv => HitIsAlias
  OBVIOUS
<1> QED
  BY <1>1, Invariance, PTL

\* Maintenance never deletes a row that Fetch would still return.
THEOREM MaintenanceIsSafe == Spec => MaintenanceKeepsFresh
<1>1. ASSUME TypeOK, Maintain
      PROVE  \A u \in URL : urls[u] # None /\ urls'[u] = None => Expired(urls[u])
  <2> SUFFICES ASSUME NEW u \in URL, urls[u] # None, urls'[u] = None
               PROVE  now > 2 * urls[u].expires
    BY DEF Expired
  <2>1. urls[u].expires < now \div 2
    BY <1>1 DEF Maintain, Second, TypeOK
  <2>2. urls[u].expires \in Nat /\ now \in Nat
    BY <1>1 DEF TypeOK, Row
  <2> QED
    BY <2>1, <2>2
<1>2. TypeOK /\ [Next]_vars =>
        [Maintain => \A u \in URL : urls[u] # None /\ urls'[u] = None => Expired(urls[u])]_vars
  BY <1>1
<1> QED
  BY <1>2, Invariance, PTL DEF Spec, MaintenanceKeepsFresh

\* A key that no longer leads to a row was removed: by the statement that took
\* the row away, or before the save whose mapping now leads to it.
LEMMA LostWasRemoved ==
  ASSUME TypeOK, StoreInv, StoreInv', [Next]_vars, NEW u \in URL, Found(u), ~Found(u)'
  PROVE  LookupKey(u)' \in removed' \/ (idMap[u] # None /\ idMap'[u] = None)
<1> USE DEF Found, LookupKey
<1>1. urls[LookupKey(u)] # None /\ urls'[LookupKey(u)'] = None
  OBVIOUS
<1>2. CASE idMap'[u] # None
  BY <1>1, <1>2 DEF MappingHasRow
<1>3. CASE idMap'[u] = None /\ idMap[u] = None
  <2>1. urls[u] # None /\ urls'[u] = None /\ LookupKey(u)' = u
    BY <1>1, <1>3
  <2>2. ASSUME NEW c \in Client, Operation(c) PROVE u \in removed'
    <3>1. CASE SaveRow(c)
      <4>1. job[c].row \in Row /\ job[c].row # None
        BY <3>1 DEF SaveRow, JobInv
      <4> QED
        BY <2>1, <3>1, <4>1 DEF SaveRow, TypeOK
    <3>2. CASE \E url \in URL : Delete(c, url)
      BY <2>1, <3>2 DEF Delete, TypeOK
    <3>3. CASE ClearUrls(c)
      BY <3>3 DEF ClearUrls
    <3>4. ~UNCHANGED urls
      BY <2>1
    <3> QED
      BY <2>2, <3>1, <3>2, <3>3, <3>4
         DEF Operation, SaveCall, FetchLookup, SaveMap, FetchRow, ClearMap
  <2>3. ASSUME Maintain PROVE u \in removed'
    BY <2>1, <2>3 DEF Maintain
  <2> QED
    BY <2>1, <2>2, <2>3 DEF Next, Tick, Crash, vars
<1> QED
  BY <1>2, <1>3

\* No save, whole or half-done, makes a page unfindable: only deletions do.
THEOREM PagesStayFound == Spec => FoundUntilRemoved
<1>1. TypeOK /\ StoreInv /\ StoreInv' /\ [Next]_vars =>
        [\A u \in URL : Found(u) /\ ~Found(u)' =>
           \/ LookupKey(u)' \in removed'
           \/ idMap[u] # None /\ idMap'[u] = None]_vars
  BY LostWasRemoved
<1> QED
  BY <1>1, Invariance, PTL DEF Spec, FoundUntilRemoved
=============================================================================
