--------------------------- MODULE DomainSettings ---------------------------
(***************************************************************************)
(* The settings of domains and their endpoints.  Every request executes    *)
(* one statement.  Of the settings only the headers are told apart, for    *)
(* they are written in any spelling and marshalled in the canonical one.   *)
(***************************************************************************)
EXTENDS Requests

CONSTANTS
  Domain,       \* domain names, without regard to upper and lower case
  Text,         \* values of a header
  NoText,       \* the header is absent
  NoRow,        \* no settings for a domain
  MaxBatch,     \* MaxDomainSettingsBatchSize: 1000
  DefaultBatch, \* DefaultDomainSettingsBatchSize: 100
  MaxOffset,    \* bound on the offset of a search
  Body,         \* settings that a PUT may have
  Written       \* settings that the domains may have at the start

\* A domain in one of two spellings, only the first of which is all lower case.
Spelling == [name : Domain, upper : BOOLEAN]

\* One header under its canonical and under another key, as a PUT may have it.
Settings == [canonical : Text \union {NoText}, other : Text \union {NoText}]

ASSUME SettingsAssumption ==
  /\ Domain # {}
  /\ NoText \notin Text
  /\ NoRow \notin Text \union {NoText}
  /\ NoRow \notin Settings
  /\ {MaxBatch, DefaultBatch, MaxOffset} \subseteq Nat
  /\ Body \subseteq Settings
  /\ Written \subseteq [Domain -> [canonical : Text, other : {NoText}] \union {NoRow}]

VARIABLES
  table,  \* domain_settings: the marshalled header per domain, as spelled
  domain, \* per request: the domain in the context, after extractDomainFromPath
  input,  \* per request: the settings in the body of a PUT
  output, \* per request: the header in the answer to a PUT or GET
  range,  \* per request: offset and limit of a search
  latest  \* history: the settings that the last PUT for a domain stored

settingsVars == <<table, domain, input, output, range, latest>>

Lower(x) == [name |-> x.name, upper |-> FALSE]

\* Mutant: the path's domain is used as it was written.
PathDomainAsIs(x) == x

\* extractDomainFromPath lowers before it validates.
PathDomain(x) == Lower(x)

\* MIMEHeader.MarshalJSON: two keys with one canonical form collide, and the
\* one that the map's iteration comes to last wins.
Marshalled(s) ==
  CASE s.canonical = NoText -> {s.other}
    [] s.other = NoText -> {s.canonical}
    [] OTHER -> {s.canonical, s.other}

SettingsInit ==
  /\ latest \in Written
  /\ table = [x \in Spelling |->
       IF x.upper \/ latest[x.name] = NoRow THEN NoRow ELSE latest[x.name].canonical]
  /\ domain = [r \in Request |-> CHOOSE x \in Spelling : TRUE]
  /\ input = [r \in Request |-> CHOOSE s \in Settings : TRUE]
  /\ output = [r \in Request |-> NoText]
  /\ range = [r \in Request |-> [offset |-> 0, limit |-> 0]]

\* An invalid domain, body, offset, limit or query.
RejectSettings(r) ==
  /\ \/ pc[r] \in {"domain", "body", "query", "search"} /\ Reply(r, 400)
     \/ pc[r] = "body" /\ Reply(r, 413)
  /\ UNCHANGED settingsVars

\* The store fails.
SettingsFail(r) ==
  /\ pc[r] \in {"get", "put", "remove", "search"}
  /\ Reply(r, 500)
  /\ UNCHANGED settingsVars

AcceptDomain(r, x) ==
  /\ pc[r] = "domain"
  /\ domain' = [domain EXCEPT ![r] = PathDomain(x)]
  /\ Goto(r, CASE route[r] = "settings.get" -> "get"
               [] route[r] = "settings.put" -> "body"
               [] OTHER -> "remove")
  /\ UNCHANGED <<table, input, output, range, latest>>

AcceptSettings(r, s) ==
  /\ pc[r] = "body"
  /\ input' = [input EXCEPT ![r] = s]
  /\ Goto(r, "put")
  /\ UNCHANGED <<table, domain, output, range, latest>>

GetSettings(r) ==
  /\ pc[r] = "get"
  /\ IF table[domain[r]] = NoRow
     THEN Reply(r, 404) /\ UNCHANGED output
     ELSE /\ output' = [output EXCEPT ![r] = table[domain[r]]]
          /\ Reply(r, 200)
  /\ UNCHANGED <<table, domain, input, range, latest>>

\* Save lowers the domain once more and replaces the row; the headers are
\* marshalled for the row and again for the answer.
PutSettings(r) ==
  /\ pc[r] = "put"
  /\ \E stored, answered \in Marshalled(input[r]) :
       /\ table' = [table EXCEPT ![Lower(domain[r])] = stored]
       /\ output' = [output EXCEPT ![r] = answered]
  /\ latest' = [latest EXCEPT ![domain[r].name] = input[r]]
  /\ Reply(r, 200)
  /\ UNCHANGED <<domain, input, range>>

\* 204 whether or not there was a row.
RemoveSettings(r) ==
  /\ pc[r] = "remove"
  /\ table' = [x \in Spelling |-> IF Lower(x) = Lower(domain[r]) THEN NoRow ELSE table[x]]
  /\ latest' = [latest EXCEPT ![domain[r].name] = NoRow]
  /\ Reply(r, 204)
  /\ UNCHANGED <<domain, input, output, range>>

\* extractBatchDomainSettingsQuery; a limit that is absent is the maximum.
AcceptQuery(r, offset, limit) ==
  /\ pc[r] = "query"
  /\ range' = [range EXCEPT ![r] =
       [offset |-> offset, limit |-> IF limit > MaxBatch THEN MaxBatch ELSE limit]]
  /\ Goto(r, "search")
  /\ UNCHANGED <<table, domain, input, output, latest>>

\* FetchRange: 0 becomes the default, and only then is the result allocated
\* with the limit as its capacity.
Capacity(limit) == IF limit = 0 THEN DefaultBatch ELSE limit

\* Mutant: room is made for the rows after the offset only.
RoomLessOffset(r) == Capacity(range[r].limit) - range[r].offset

\* The capacity of the slice that make is called with.
Room(r) == Capacity(range[r].limit)

Search(r) ==
  /\ pc[r] = "search"
  /\ Room(r) >= 0
  /\ Reply(r, 200)
  /\ UNCHANGED settingsVars

\* make panics on a negative capacity; net/http drops the connection.
SearchPanics(r) ==
  /\ pc[r] = "search"
  /\ Room(r) < 0
  /\ Goto(r, "died")
  /\ UNCHANGED settingsVars

SettingsStep(r) ==
  \/ RejectSettings(r) \/ SettingsFail(r)
  \/ \E x \in Spelling : AcceptDomain(r, x)
  \/ \E s \in Body : AcceptSettings(r, s)
  \/ GetSettings(r) \/ PutSettings(r) \/ RemoveSettings(r)
  \/ \E offset \in 0 .. MaxOffset, limit \in -1 .. MaxBatch + 1 : AcceptQuery(r, offset, limit)
  \/ Search(r) \/ SearchPanics(r)
=============================================================================
