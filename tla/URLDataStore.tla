---------------------------- MODULE URLDataStore ----------------------------
(***************************************************************************)
(* internal/storage/storage.go: pages in two SQL tables.  urls holds one   *)
(* row per canonical URL, id_map sends a requested URL to the canonical    *)
(* URL its page reported.  Every SQL statement commits on its own, so each *)
(* operation is one step per statement, and the process may die between    *)
(* two of them.  A URL stands for its key (storage.Key): two URLs of the   *)
(* model never share one.                                                  *)
(***************************************************************************)
EXTENDS Naturals, FiniteSets

CONSTANTS
  Client,     \* goroutines using the store
  URL,
  TTL,        \* time to live of the pages to be saved, in seconds; 0 if unset
  DefaultTTL, \* resource.DefaultTTL
  MaxTime,    \* bound on the clock, in half seconds
  None

ASSUME StoreAssumption ==
  /\ TTL \subseteq Nat
  /\ DefaultTTL \in Nat \ {0}
  /\ MaxTime \in Nat

\* A row of the urls table, as far as the properties tell rows apart.
Row == [canonical : URL, fetchTime : Nat, expires : Nat]

ASSUME NoneAssumption == None \notin URL \union Row

VARIABLES
  now,      \* the clock, in half seconds: time.Now() is finer than the stored seconds
  urls,     \* the urls table: canonical URL -> row, or None
  idMap,    \* the id_map table: requested URL -> canonical URL, or None
  pc,       \* where each client is
  job,      \* the row and the requested URL a client saves, or the URL it looks
            \* for and the key it looks under
  answer,   \* the URL of a client's last Fetch and the canonical URL of its page
  removed,  \* history: canonical URLs whose row was deleted since it was last saved
  aliases   \* history: pairs (requested, canonical) of the pages clients saved

tables == <<urls, idMap>>
clients == <<pc, job, answer>>
history == <<removed, aliases>>
vars == <<now, tables, clients, history>>

NoJob == [row |-> None, url |-> None, key |-> None]
NoAnswer == [url |-> None, canonical |-> None]

Second == now \div 2

Init ==
  /\ now = 0
  /\ urls = [u \in URL |-> None]
  /\ idMap = [u \in URL |-> None]
  /\ pc = [c \in Client |-> "idle"]
  /\ job = [c \in Client |-> NoJob]
  /\ answer = [c \in Client |-> NoAnswer]
  /\ removed = {}
  /\ aliases = {}

Goto(c, label) == pc' = [pc EXCEPT ![c] = label]

\* The call ends: ok or an error, which the store's callers only log.
Return(c) ==
  /\ Goto(c, "idle")
  /\ job' = [job EXCEPT ![c] = NoJob]

-----------------------------------------------------------------------------
(***************************************************************************)
(* Save.  A page without a TTL gets the default, a page without a fetch    *)
(* time gets the current second.  The row goes first, its mapping second;  *)
(* either statement may fail, and the row stays if the second one does.    *)
(***************************************************************************)

\* Mutant: no default for a missing TTL, so that the row gets no expiry.
RowToSaveNoDefault(canonical, ttl) ==
  [canonical |-> canonical, fetchTime |-> Second,
   expires |-> IF ttl = 0 THEN None ELSE Second + ttl]

RowToSave(canonical, ttl) ==
  [canonical |-> canonical, fetchTime |-> Second,
   expires |-> Second + IF ttl = 0 THEN DefaultTTL ELSE ttl]

SaveCall(c, requested, canonical, ttl) ==
  /\ pc[c] = "idle"
  /\ job' = [job EXCEPT ![c] = [row |-> RowToSave(canonical, ttl), url |-> requested,
                                key |-> None]]
  /\ aliases' = aliases \union {<<requested, canonical>>}
  /\ Goto(c, "save.row")
  /\ UNCHANGED <<now, tables, answer, removed>>

\* Mutant: the row and its mapping are written in the other order.
SaveMapFirst(c) ==
  /\ pc[c] = "save.row"
  /\ \/ /\ idMap' = [idMap EXCEPT ![job[c].url] = job[c].row.canonical]
        /\ Goto(c, "save.map")
        /\ UNCHANGED job
     \/ Return(c) /\ UNCHANGED idMap
  /\ UNCHANGED <<now, urls, answer, history>>

\* Mutant: Save goes on to the mapping although the row could not be saved.
SaveRowGoesOn(c) ==
  /\ pc[c] = "save.row"
  /\ LET row == job[c].row
     IN \/ /\ urls' = [urls EXCEPT ![row.canonical] = row]
           /\ removed' = removed \ {row.canonical}
        \/ UNCHANGED <<urls, removed>>
  /\ Goto(c, "save.map")
  /\ UNCHANGED <<now, job, idMap, answer, aliases>>

SaveRow(c) ==
  /\ pc[c] = "save.row"
  /\ LET row == job[c].row
     IN \/ /\ urls' = [urls EXCEPT ![row.canonical] = row]
           /\ removed' = removed \ {row.canonical}
           /\ Goto(c, "save.map")
           /\ UNCHANGED job
        \/ Return(c) /\ UNCHANGED <<urls, removed>>
  /\ UNCHANGED <<now, idMap, answer, aliases>>

\* Mutant: the arguments of the id_map statement are swapped.
SaveMapSwapped(c) ==
  /\ pc[c] = "save.map"
  /\ \/ idMap' = [idMap EXCEPT ![job[c].row.canonical] = job[c].url]
     \/ UNCHANGED idMap
  /\ Return(c)
  /\ UNCHANGED <<now, urls, answer, history>>

SaveMap(c) ==
  /\ pc[c] = "save.map"
  /\ \/ idMap' = [idMap EXCEPT ![job[c].url] = job[c].row.canonical]
     \/ UNCHANGED idMap
  /\ Return(c)
  /\ UNCHANGED <<now, urls, answer, history>>

-----------------------------------------------------------------------------
(***************************************************************************)
(* Fetch.  The id map is consulted first, once; without a mapping the URL  *)
(* itself is the key.  A row past its expiry is not returned.              *)
(***************************************************************************)
Expired(row) == now > 2 * row.expires

LookupKey(url) == IF idMap[url] = None THEN url ELSE idMap[url]

FetchLookup(c, url) ==
  /\ pc[c] = "idle"
  /\ answer' = [answer EXCEPT ![c] = NoAnswer]
  /\ \/ /\ job' = [job EXCEPT ![c] = [row |-> None, url |-> url, key |-> LookupKey(url)]]
        /\ Goto(c, "fetch.row")
     \/ Return(c)
  /\ UNCHANGED <<now, tables, history>>

FetchRow(c) ==
  /\ pc[c] = "fetch.row"
  /\ LET row == urls[job[c].key]
     IN \/ /\ row # None /\ ~Expired(row)
           /\ answer' = [answer EXCEPT ![c] = [url |-> job[c].url, canonical |-> row.canonical]]
        \/ UNCHANGED answer
  /\ Return(c)
  /\ UNCHANGED <<now, tables, history>>

-----------------------------------------------------------------------------
\* Delete: only the row, and only under the URL's own key.
Delete(c, url) ==
  /\ pc[c] = "idle"
  /\ urls' = [urls EXCEPT ![url] = None]
  /\ removed' = removed \union {url}
  /\ UNCHANGED <<now, idMap, clients, aliases>>

\* Clear: one statement per table.
ClearUrls(c) ==
  /\ pc[c] = "idle"
  /\ urls' = [u \in URL |-> None]
  /\ removed' = URL
  /\ Goto(c, "clear.map")
  /\ UNCHANGED <<now, idMap, job, answer, aliases>>

ClearMap(c) ==
  /\ pc[c] = "clear.map"
  /\ idMap' = [u \in URL |-> None]
  /\ Return(c)
  /\ UNCHANGED <<now, urls, answer, history>>

\* Mutant: maintenance deletes rows that expire this very second.
MaintainEarly ==
  LET old == {u \in URL : urls[u] # None /\ urls[u].expires <= Second}
  IN /\ urls' = [u \in URL |-> IF u \in old THEN None ELSE urls[u]]
     /\ removed' = removed \union old
     /\ UNCHANGED <<now, idMap, clients, aliases>>

\* sqlite's daily maintenance; strftime('%s', 'now') is in whole seconds.
Maintain ==
  LET old == {u \in URL : urls[u] # None /\ urls[u].expires < Second}
  IN /\ urls' = [u \in URL |-> IF u \in old THEN None ELSE urls[u]]
     /\ removed' = removed \union old
     /\ UNCHANGED <<now, idMap, clients, aliases>>

-----------------------------------------------------------------------------
Tick ==
  /\ now < MaxTime
  /\ now' = now + 1
  /\ UNCHANGED <<tables, clients, history>>

\* The process dies and starts again: the tables stay.
Crash ==
  /\ pc' = [c \in Client |-> "idle"]
  /\ job' = [c \in Client |-> NoJob]
  /\ answer' = [c \in Client |-> NoAnswer]
  /\ UNCHANGED <<now, tables, history>>

Operation(c) ==
  \/ \E requested, canonical \in URL, ttl \in TTL : SaveCall(c, requested, canonical, ttl)
  \/ \E url \in URL : FetchLookup(c, url) \/ Delete(c, url)
  \/ ClearUrls(c)
  \/ SaveRow(c)
  \/ SaveMap(c)
  \/ FetchRow(c)
  \/ ClearMap(c)

Next ==
  \/ \E c \in Client : Operation(c)
  \/ Maintain
  \/ Tick
  \/ Crash

Spec == Init /\ [][Next]_vars

-----------------------------------------------------------------------------
\* Every variable keeps its type.
TypeOK ==
  /\ now \in Nat
  /\ urls \in [URL -> Row \union {None}]
  /\ idMap \in [URL -> URL \union {None}]
  /\ pc \in [Client -> {"idle", "save.row", "save.map", "fetch.row", "clear.map"}]
  /\ job \in [Client -> [row : Row \union {None}, url : URL \union {None},
                         key : URL \union {None}]]
  /\ answer \in [Client -> [url : URL \union {None}, canonical : URL \union {None}]]
  /\ removed \subseteq URL
  /\ aliases \subseteq URL \X URL

\* Save writes the row before its mapping, so that whatever Saves, Clears and
\* crashes interleave, a mapping leads to a row unless the row was deleted.
MappingHasRow ==
  \A u \in URL : idMap[u] # None /\ urls[idMap[u]] = None => idMap[u] \in removed

\* Fetch looks the key up and reads the row in two statements; the page it
\* returns is still the URL's own or one that named it as its requested URL.
HitIsAlias ==
  \A c \in Client :
    LET hit == answer[c]
    IN hit.canonical # None => \/ hit.canonical = hit.url
                               \/ <<hit.url, hit.canonical>> \in aliases

(***************************************************************************)
(* Why these hold: the parts of an inductive invariant.                    *)
(***************************************************************************)
RowInv == \A u \in URL : urls[u] # None => urls[u].canonical = u

MapInv == \A u \in URL : idMap[u] # None => <<u, idMap[u]>> \in aliases

\* What a client in the middle of Save or Fetch knows.
JobInv ==
  \A c \in Client :
    /\ pc[c] \in {"save.row", "save.map"} =>
         /\ job[c].row \in Row
         /\ job[c].url \in URL
         /\ <<job[c].url, job[c].row.canonical>> \in aliases
    /\ pc[c] = "save.map" /\ urls[job[c].row.canonical] = None =>
         job[c].row.canonical \in removed
    /\ pc[c] = "fetch.row" =>
         /\ job[c].url \in URL /\ job[c].key \in URL
         /\ job[c].key = job[c].url \/ <<job[c].url, job[c].key>> \in aliases

\* The two tables and the operations in progress agree, across interleavings,
\* failed statements and crashes.
StoreInv == RowInv /\ MapInv /\ JobInv /\ MappingHasRow /\ HitIsAlias

\* Maintenance compares whole seconds, Fetch the full clock; a row that
\* maintenance deletes is one that Fetch refuses already.
MaintenanceKeepsFresh ==
  [][Maintain => \A u \in URL : urls[u] # None /\ urls'[u] = None => Expired(urls[u])]_vars

\* A URL that is found stays found until the row it leads to is deleted or Clear
\* deletes its mapping: a Save that fails half-way, races with another or names
\* another canonical URL than the last one never takes a page away.
Found(url) == urls[LookupKey(url)] # None

FoundUntilRemoved ==
  [][\A u \in URL : Found(u) /\ ~Found(u)' =>
       \/ LookupKey(u)' \in removed'
       \/ idMap[u] # None /\ idMap'[u] = None]_vars
=============================================================================
