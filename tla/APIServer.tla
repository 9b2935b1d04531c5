------------------------------ MODULE APIServer -----------------------------
(***************************************************************************)
(* The API of scrape-server: requests for pages, settings and health come  *)
(* in concurrently, pass the authorization and share the store.            *)
(***************************************************************************)
EXTENDS PageAnswers, DomainSettings, FiniteSets

\* However long the server runs, it has met a finite number of URLs.
ASSUME URLAssumption == IsFiniteSet(Url)

vars == <<requestVars, pageVars, settingsVars>>

APIInit == RequestsInit /\ PagesInit /\ SettingsInit

\* A request's own steps that come to an end.
Serve(r) ==
  \/ RequestStep(r) /\ UNCHANGED <<pageVars, settingsVars>>
  \/ PageStep(r) /\ UNCHANGED settingsVars
  \/ SettingsStep(r) /\ UNCHANGED pageVars

APINext ==
  \/ \E r \in Request :
       \/ \E rt \in Route : Arrive(r, rt) /\ UNCHANGED <<pageVars, settingsVars>>
       \/ Serve(r)
       \/ RemoteStep(r) /\ UNCHANGED settingsVars
  \/ SaveStep /\ UNCHANGED settingsVars

APISpec == APIInit /\ [][APINext]_vars

\* A goroutine that can go on does.
APIFairSpec == APISpec /\ \A r \in Request : WF_vars(Serve(r))

-----------------------------------------------------------------------------
Stage == Ended \union
  {"idle", "auth", "health", "unavailable", "payload", "domain", "query", "body", "headless",
   "feed", "pages", "delete", "get", "put", "remove", "search"}

Code == {Unanswered, 200, 204, 400, 401, 404, 410, 413, 415, 422, 500, 503, 504}

RequestTypes ==
  /\ config \in Config
  /\ pc \in [Request -> Stage]
  /\ route \in [Request -> Route]
  /\ bearer \in [Request -> BOOLEAN]
  /\ status \in [Request -> Code]

PageTypes ==
  /\ rows \in [Url -> Page \union {NoPage}]
  /\ idMap \in [Url -> Url \union {NoUrl}]
  /\ saves \subseteq Page
  /\ marked \subseteq Page \X {"original", "copy"}
  /\ todo \in [Request -> SUBSET Url]
  /\ missing \in [Request -> SUBSET Url]
  /\ got \in [Request -> SUBSET Page]
  /\ shown \in [Request -> SUBSET [page : Page, whole : BOOLEAN]]
  /\ gone \subseteq Url

SettingsTypes ==
  /\ table \in [Spelling -> Text \union {NoText, NoRow}]
  /\ domain \in [Request -> Spelling]
  /\ input \in [Request -> Settings]
  /\ output \in [Request -> Text \union {NoText}]
  /\ range \in [Request -> [offset : 0 .. MaxOffset, limit : Int]]
  /\ latest \in [Domain -> Settings \union {NoRow}]

\* Every variable keeps its type, and every page and status is a whole one.
APITypeOK == RequestTypes /\ PageTypes /\ SettingsTypes

\* Once there is a key, a request that brought no valid token gets 401 and
\* nothing else: it reads, fetches, stores and deletes nothing, on whichever
\* route and however it overlaps with requests that are let in.  Exempt are
\* health checks and the settings of a server that has none.
NothingWithoutToken ==
  \A r \in Request :
    config.key # NoKey /\ ~bearer[r] =>
      \/ pc[r] \in {"idle", "auth", "health", "unavailable"}
      \/ pc[r] = "done" /\ status[r] = 401
      \/ pc[r] = "done" /\ (route[r] = "health" \/ (route[r] \in SettingsRoute /\ ~config.settings))

\* An answer shows all fields of its pages, although a save that hides some of
\* them from the metadata may be going on with the same page.
AnswersAreWhole == \A r \in Request : \A s \in shown[r] : s.whole

\* The store never has a page whose fetch failed, nor a headless one: a later
\* request would take it for the content of the URL.
OnlyGoodPagesStored ==
  \A u \in Url : rows[u] # NoPage => rows[u].outcome = "ok" /\ rows[u].method = "direct"

\* A URL that was deleted has no row before a page with that canonical URL has
\* been fetched again, whatever lookups, mappings, failing fetches and saves of
\* other URLs there are.  This is all that Delete gives: a save of the URL that is
\* under way at the DELETE may bring its row back afterwards.
DeletedUntilFetched == \A u \in gone : rows[u] = NoPage

\* A status of success on extract means content, or an error of the site's
\* that the page tells; an error that the page may not tell has a status.
FailuresAreTold ==
  \A r \in Request :
    route[r] \in {"extract", "headless"} /\ pc[r] = "done" /\ status[r] = 200 =>
      \E s \in shown[r] : s.page.outcome \in {"ok", "http"}

\* A GET has what the last PUT for the domain wrote or, after a DELETE,
\* nothing, in whichever spelling each of them gave the domain.
GetsLatest ==
  [][\A r \in Request :
       pc[r] = "get" /\ pc'[r] = "done" /\ status'[r] # 500 =>
         IF latest[domain[r].name] = NoRow
         THEN status'[r] = 404
         ELSE status'[r] = 200 /\ output'[r] \in Marshalled(latest[domain[r].name])]_vars

\* Every request comes to an answer, whatever fails on the way; only feeds and
\* headless fetches may wait without end, and only a search with a negative
\* limit ends without an answer.
RequestsEnd ==
  \A r \in Request :
    pc[r] # "idle" ~>
      \/ pc[r] = "done" /\ status[r] # Unanswered
      \/ pc[r] \in {"feed", "headless"}
      \/ pc[r] = "died" /\ range[r].limit < 0

\* A bound on the steps a request still takes: at its pages each URL costs at
\* most a lookup, a fetch and an encoding; on the way there it depends on the
\* stage alone.
StageSteps(stage) ==
  LET whole == 3 * Cardinality(Url)
  IN IF stage \in Ended THEN 0
     ELSE IF stage \in {"body", "query"} THEN 2
     ELSE IF stage \in {"domain", "headless"} THEN 3
     ELSE IF stage = "feed" THEN whole + 2
     ELSE IF stage = "payload" THEN whole + 4
     ELSE IF stage = "auth" THEN whole + 5
     ELSE IF stage = "idle" THEN whole + 6
     ELSE 1

StepsLeft(r) ==
  IF pc[r] = "pages"
  THEN 3 * Cardinality(todo[r]) + 2 * Cardinality(missing[r]) + Cardinality(got[r]) + 1
  ELSE StageSteps(pc[r])

\* No request goes round in circles or makes another take longer: whatever fails
\* and however handlers and saves interleave, each of them is through after at
\* most 3 * Cardinality(Url) + 6 steps of its own, and so are the saves.
RequestStepsRunOut ==
  [][\/ \E r \in Request :
          /\ StepsLeft(r)' \in Nat /\ StepsLeft(r)' < StepsLeft(r)
          /\ \A q \in Request \ {r} : StepsLeft(q)' = StepsLeft(q)
     \/ /\ \A q \in Request : StepsLeft(q)' = StepsLeft(q)
        /\ IsFiniteSet(saves) /\ Cardinality(saves') < Cardinality(saves)]_vars
=============================================================================
