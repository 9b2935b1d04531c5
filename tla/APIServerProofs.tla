--------------------------- MODULE APIServerProofs --------------------------
(***************************************************************************)
(* Proofs about APIServer, for any requests, URLs, outcomes and settings.  *)
(***************************************************************************)
EXTENDS APIServer, FiniteSetTheorems, TLAPS

\* Where a request is says something of the route it came by.
StagesFit ==
  \A r \in Request :
    /\ pc[r] = "health" => route[r] = "health"
    /\ pc[r] = "unavailable" => route[r] \in SettingsRoute /\ ~config.settings
    /\ pc[r] = "auth" => route[r] # "health"
    /\ pc[r] \in {"payload", "headless", "feed", "pages", "delete"} => route[r] \in PageRoute
    /\ pc[r] \in {"domain", "query", "body", "get", "put", "remove", "search"} =>
         route[r] \in SettingsRoute

\* What is inductive about the requests alone.
RequestInv == RequestTypes /\ StagesFit /\ NothingWithoutToken

\* Saves never mark the page that a handler holds.
MarksAreCopies == \A m \in marked : m[2] = "copy"

SavesAreGood == \A page \in saves : page.outcome = "ok" /\ page.method = "direct"

\* Nobody saves a URL that is gone, for who begins to save it has fetched it.
GoneUnsaved == \A page \in saves : page.canonical \notin gone

LookedUpOnce ==
  \A r \in Request :
    /\ todo[r] \intersect missing[r] = {}
    /\ pc[r] \notin {"pages"} \union Ended => missing[r] = {}

\* What is inductive about the pages.
PageInv ==
  /\ PageTypes
  /\ MarksAreCopies /\ AnswersAreWhole
  /\ SavesAreGood /\ OnlyGoodPagesStored
  /\ GoneUnsaved /\ DeletedUntilFetched /\ LookedUpOnce

\* Statements use the domain of the path in lower case.
DomainsAreLower ==
  \A r \in Request : pc[r] \in {"body", "get", "put", "remove"} => domain[r] = Lower(domain[r])

TableTellsLatest ==
  \A d \in Domain :
    LET row == table[[name |-> d, upper |-> FALSE]]
    IN IF latest[d] = NoRow THEN row = NoRow ELSE row \in Marshalled(latest[d])

\* What is inductive about the settings.
SettingsInv == SettingsTypes /\ DomainsAreLower /\ TableTellsLatest

APIInv == RequestInv /\ PageInv /\ SettingsInv /\ FailuresAreTold

-----------------------------------------------------------------------------
\* The initial state has what the constants allow.
LEMMA RequestInitOK == RequestsInit => RequestInv
BY DEF RequestsInit, RequestInv, RequestTypes, StagesFit, NothingWithoutToken, Stage, Ended, Route,
       Code, Unanswered

LEMMA PageInitOK == RequestsInit /\ PagesInit => PageInv
<1> SUFFICES ASSUME RequestsInit, PagesInit PROVE PageInv
  OBVIOUS
<1> DEFINE Left(page, u) ==
      /\ page \in Page
      /\ page.by = Earlier /\ page.canonical = u
      /\ page.outcome = "ok" /\ page.method = "direct"
<1>1. /\ rows \in [Url -> Page \union {NoPage}]
      /\ idMap \in [Url -> Url \union {NoUrl}]
      /\ \A u \in Url : rows[u] # NoPage => Left(rows[u], u)
  <2>1. CASE rows = [u \in Url |-> NoPage] /\ idMap = [u \in Url |-> NoUrl]
    BY <2>1
  <2>2. ASSUME NEW s \in Stored,
               rows = [v \in Url |-> IF v = s[2] THEN Before(s[1], s[2]) ELSE NoPage],
               idMap = [v \in Url |-> IF v = s[1] THEN s[2] ELSE NoUrl]
        PROVE  <1>1
    <3>1. s[1] \in Url /\ s[2] \in Url
      BY PageAssumption
    <3>2. Left(Before(s[1], s[2]), s[2])
      BY <3>1, PageAssumption DEF Before, Page, Outcomes
    <3> HIDE DEF Left
    <3>3. \A u \in Url : rows[u] # NoPage => Left(rows[u], u)
      BY <2>2, <3>2
    <3>4. Before(s[1], s[2]) \in Page
      BY <3>2 DEF Left
    <3> QED
      BY <2>2, <3>1, <3>3, <3>4
  <2> QED
    BY <2>1, <2>2 DEF PagesInit
<1>2. /\ saves = {} /\ marked = {} /\ gone = {}
      /\ todo = [r \in Request |-> {}] /\ missing = [r \in Request |-> {}]
      /\ got = [r \in Request |-> {}] /\ shown = [r \in Request |-> {}]
  BY DEF PagesInit
<1>3. PageTypes
  BY <1>1, <1>2 DEF PageTypes
<1>4. MarksAreCopies /\ AnswersAreWhole /\ SavesAreGood /\ LookedUpOnce
  BY <1>2 DEF MarksAreCopies, AnswersAreWhole, SavesAreGood, LookedUpOnce
<1>5. OnlyGoodPagesStored
  BY <1>1 DEF OnlyGoodPagesStored
<1>6. GoneUnsaved /\ DeletedUntilFetched
  BY <1>2 DEF GoneUnsaved, DeletedUntilFetched
<1> QED
  BY <1>3, <1>4, <1>5, <1>6 DEF PageInv

LEMMA SettingsInitOK == RequestsInit /\ SettingsInit => SettingsInv
<1> SUFFICES ASSUME RequestsInit, SettingsInit PROVE SettingsInv
  OBVIOUS
<1>1. PICK x \in Spelling : domain = [r \in Request |-> x]
  <2>1. \E x \in Spelling : TRUE
    <3>1. PICK d \in Domain : TRUE
      BY SettingsAssumption
    <3>2. [name |-> d, upper |-> FALSE] \in Spelling
      BY DEF Spelling
    <3> QED
      BY <3>2
  <2> QED
    BY <2>1 DEF SettingsInit
<1>2. PICK s \in Settings : input = [r \in Request |-> s]
  <2>1. [canonical |-> NoText, other |-> NoText] \in Settings
    BY DEF Settings
  <2> QED
    BY <2>1 DEF SettingsInit
<1>3. latest \in [Domain -> [canonical : Text, other : {NoText}] \union {NoRow}]
  BY SettingsAssumption DEF SettingsInit
<1>4. \A d \in Domain :
        latest[d] = NoRow \/ (latest[d].canonical \in Text /\ latest[d].other = NoText /\ latest[d] \in Settings)
  BY <1>3 DEF Settings
<1>5. table = [y \in Spelling |->
         IF y.upper \/ latest[y.name] = NoRow THEN NoRow ELSE latest[y.name].canonical]
  BY DEF SettingsInit
<1>6. SettingsTypes
  <2>1. \A y \in Spelling : y.name \in Domain
    BY DEF Spelling
  <2>2. table \in [Spelling -> Text \union {NoText, NoRow}]
    BY <1>4, <1>5, <2>1
  <2>3. latest \in [Domain -> Settings \union {NoRow}]
    BY <1>3, <1>4
  <2>4. range \in [Request -> [offset : 0 .. MaxOffset, limit : Int]]
    BY SettingsAssumption DEF SettingsInit
  <2>5. output \in [Request -> Text \union {NoText}]
    BY DEF SettingsInit
  <2> QED
    BY <1>1, <1>2, <2>2, <2>3, <2>4, <2>5 DEF SettingsTypes
<1>7. DomainsAreLower
  BY DEF RequestsInit, DomainsAreLower
<1>8. TableTellsLatest
  <2> SUFFICES ASSUME NEW d \in Domain
               PROVE  LET row == table[[name |-> d, upper |-> FALSE]]
                      IN IF latest[d] = NoRow THEN row = NoRow ELSE row \in Marshalled(latest[d])
    BY DEF TableTellsLatest
  <2>1. [name |-> d, upper |-> FALSE] \in Spelling
    BY DEF Spelling
  <2>2. table[[name |-> d, upper |-> FALSE]] = IF latest[d] = NoRow THEN NoRow ELSE latest[d].canonical
    BY <1>5, <2>1
  <2>3. latest[d] # NoRow => latest[d].canonical \in Marshalled(latest[d])
    BY <1>4, SettingsAssumption DEF Marshalled
  <2> QED
    BY <2>2, <2>3
<1> QED
  BY <1>6, <1>7, <1>8 DEF SettingsInv

-----------------------------------------------------------------------------
\* A handler's request is not in front of the authorization any more.
PageStages == {"payload", "headless", "feed", "pages", "delete"}
SettingsStages == {"domain", "query", "body", "get", "put", "remove", "search"}
Served == PageStages \union SettingsStages

\* Where there is a key, a request that a handler has was let in.
LEMMA ServedIsAdmitted ==
  ASSUME RequestInv, NEW r \in Request, pc[r] \in Served
  PROVE  config.key = NoKey \/ bearer[r]
BY DEF RequestInv, NothingWithoutToken, Served, PageStages, SettingsStages

\* Handlers may go on to the stages of their own kind of route.
LEMMA GotoOK ==
  ASSUME RequestInv, NEW r \in Request, NEW stage, Goto(r, stage),
         \/ pc[r] \in PageStages /\ stage \in PageStages
         \/ pc[r] \in SettingsStages /\ stage \in SettingsStages \union {"died"}
  PROVE  RequestInv'
<1>1. pc[r] \in Served /\ stage \in Stage
  BY DEF Served, PageStages, SettingsStages, Stage, Ended
<1>2. config.key = NoKey \/ bearer[r]
  BY <1>1, ServedIsAdmitted
<1>3. /\ pc' = [pc EXCEPT ![r] = stage]
      /\ UNCHANGED <<config, route, bearer, status>>
  BY DEF Goto
<1>4. RequestTypes'
  BY <1>1, <1>3 DEF RequestInv, RequestTypes
<1>5. \A q \in Request : pc'[q] = IF q = r THEN stage ELSE pc[q]
  BY <1>3 DEF RequestInv, RequestTypes
<1>6. StagesFit'
  BY <1>3, <1>5 DEF RequestInv, StagesFit, PageStages, SettingsStages
<1>7. NothingWithoutToken'
  BY <1>2, <1>3, <1>5 DEF RequestInv, NothingWithoutToken
<1> QED
  BY <1>4, <1>6, <1>7 DEF RequestInv

LEMMA ReplyOK ==
  ASSUME RequestInv, NEW r \in Request, NEW code \in Code, Reply(r, code), pc[r] \in Served
  PROVE  RequestInv'
<1>1. config.key = NoKey \/ bearer[r]
  BY ServedIsAdmitted
<1>2. /\ pc' = [pc EXCEPT ![r] = "done"]
      /\ status' = [status EXCEPT ![r] = code]
      /\ UNCHANGED <<config, route, bearer>>
  BY DEF Reply
<1>3. RequestTypes'
  BY <1>2 DEF RequestInv, RequestTypes, Stage, Ended
<1>4. \A q \in Request : /\ pc'[q] = IF q = r THEN "done" ELSE pc[q]
                         /\ status'[q] = IF q = r THEN code ELSE status[q]
  BY <1>2 DEF RequestInv, RequestTypes
<1>5. StagesFit'
  BY <1>2, <1>4 DEF RequestInv, StagesFit
<1>6. NothingWithoutToken'
  BY <1>1, <1>2, <1>4 DEF RequestInv, NothingWithoutToken
<1> QED
  BY <1>3, <1>5, <1>6 DEF RequestInv

\* Every route has its entry, and only health and the settings of a server
\* without settings have one that asks for no token.
LEMMA ArriveOK ==
  ASSUME RequestInv, NEW r \in Request, NEW rt \in Route, Arrive(r, rt)
  PROVE  RequestInv'
<1>1. /\ pc' = [pc EXCEPT ![r] = Entry(rt)]
      /\ route' = [route EXCEPT ![r] = rt]
      /\ UNCHANGED <<config, bearer, status>>
  BY DEF Arrive
<1>2. /\ Entry(rt) \in {"health", "unavailable", "auth", "payload", "query", "domain"}
      /\ Entry(rt) = "health" <=> rt = "health"
      /\ Entry(rt) = "unavailable" => rt \in SettingsRoute /\ ~config.settings
      /\ Entry(rt) = "payload" => rt \in PageRoute
      /\ Entry(rt) \in {"query", "domain"} => rt \in SettingsRoute
      /\ config.key # NoKey => Entry(rt) \in {"health", "unavailable", "auth"}
  BY DEF Entry, FirstStage, Route, PageRoute, SettingsRoute
<1>3. RequestTypes'
  BY <1>1, <1>2 DEF RequestInv, RequestTypes, Stage, Ended
<1>4. \A q \in Request : /\ pc'[q] = IF q = r THEN Entry(rt) ELSE pc[q]
                         /\ route'[q] = IF q = r THEN rt ELSE route[q]
  BY <1>1 DEF RequestInv, RequestTypes
<1>5. StagesFit'
  BY <1>1, <1>2, <1>4 DEF RequestInv, StagesFit
<1>6. NothingWithoutToken'
  BY <1>1, <1>2, <1>4 DEF RequestInv, NothingWithoutToken
<1> QED
  BY <1>3, <1>5, <1>6 DEF RequestInv

\* The middleware lets nobody in without a token that verifies.
LEMMA AuthorizeOK ==
  ASSUME RequestInv, NEW r \in Request, NEW header, NEW cookie, Authorize(r, header, cookie)
  PROVE  RequestInv'
<1> DEFINE valid == \E t \in {header, cookie} : Verify(config.key, t, 0)
<1>1. /\ pc[r] = "auth"
      /\ bearer' = [bearer EXCEPT ![r] = valid]
      /\ UNCHANGED <<config, route>>
  BY DEF Authorize
<1>2. route[r] # "health" /\ route[r] \in Route
  BY <1>1 DEF RequestInv, RequestTypes, StagesFit
<1>3. /\ FirstStage(route[r]) \in {"payload", "query", "domain"}
      /\ FirstStage(route[r]) = "payload" => route[r] \in PageRoute
      /\ FirstStage(route[r]) # "payload" => route[r] \in SettingsRoute
  BY <1>2 DEF FirstStage, Route, PageRoute, SettingsRoute
<1>4. Authorized(config.key, header, cookie, 0) => config.key = NoKey \/ valid
  BY DEF Authorized, FirstToken
<1>5. valid \in BOOLEAN
  OBVIOUS
<1> HIDE DEF valid
<1>6. CASE Authorized(config.key, header, cookie, 0)
  <2>1. pc' = [pc EXCEPT ![r] = FirstStage(route[r])] /\ UNCHANGED status
    BY <1>6 DEF Authorize
  <2>2. RequestTypes'
    BY <1>1, <1>3, <1>5, <2>1 DEF RequestInv, RequestTypes, Stage, Ended
  <2>3. \A q \in Request : /\ pc'[q] = IF q = r THEN FirstStage(route[r]) ELSE pc[q]
                           /\ bearer'[q] = IF q = r THEN valid ELSE bearer[q]
    BY <1>1, <2>1 DEF RequestInv, RequestTypes
  <2>4. StagesFit'
    BY <1>1, <1>3, <2>1, <2>3 DEF RequestInv, StagesFit
  <2>5. NothingWithoutToken'
    BY <1>1, <1>4, <1>6, <2>1, <2>3 DEF RequestInv, NothingWithoutToken
  <2> QED
    BY <2>2, <2>4, <2>5 DEF RequestInv
<1>7. CASE ~Authorized(config.key, header, cookie, 0)
  <2>1. pc' = [pc EXCEPT ![r] = "done"] /\ status' = [status EXCEPT ![r] = 401]
    BY <1>7 DEF Authorize
  <2>2. RequestTypes'
    BY <1>1, <1>5, <2>1 DEF RequestInv, RequestTypes, Stage, Ended, Code
  <2>3. \A q \in Request : /\ pc'[q] = IF q = r THEN "done" ELSE pc[q]
                           /\ status'[q] = IF q = r THEN 401 ELSE status[q]
                           /\ q # r => bearer'[q] = bearer[q]
    BY <1>1, <2>1 DEF RequestInv, RequestTypes
  <2>4. StagesFit'
    BY <1>1, <2>1, <2>3 DEF RequestInv, StagesFit
  <2>5. NothingWithoutToken'
    BY <1>1, <2>1, <2>3 DEF RequestInv, NothingWithoutToken
  <2> QED
    BY <2>2, <2>4, <2>5 DEF RequestInv
<1> QED
  BY <1>6, <1>7

\* The two open handlers answer for their own routes only.
LEMMA OpenReplyOK ==
  ASSUME RequestInv, NEW r \in Request, Health(r) \/ Unavailable(r)
  PROVE  RequestInv'
<1>1. PICK code \in {200, 503} : Reply(r, code)
  BY DEF Health, Unavailable
<1>2. route[r] = "health" \/ (route[r] \in SettingsRoute /\ ~config.settings)
  BY DEF RequestInv, StagesFit, Health, Unavailable
<1>3. /\ pc' = [pc EXCEPT ![r] = "done"]
      /\ status' = [status EXCEPT ![r] = code]
      /\ UNCHANGED <<config, route, bearer>>
  BY <1>1 DEF Reply
<1>4. RequestTypes'
  BY <1>3 DEF RequestInv, RequestTypes, Stage, Ended, Code
<1>5. \A q \in Request : pc'[q] = (IF q = r THEN "done" ELSE pc[q]) /\ (q # r => status'[q] = status[q])
  BY <1>3 DEF RequestInv, RequestTypes
<1>6. StagesFit'
  BY <1>3, <1>5 DEF RequestInv, StagesFit
<1>7. NothingWithoutToken'
  BY <1>2, <1>3, <1>5 DEF RequestInv, NothingWithoutToken
<1> QED
  BY <1>4, <1>6, <1>7 DEF RequestInv

-----------------------------------------------------------------------------
\* What the steps of the handlers do to the requests.
Moves(r, stages, next) ==
  /\ pc[r] \in stages
  /\ \/ \E stage \in next : Goto(r, stage)
     \/ \E code \in Code : Reply(r, code)

LEMMA PageMoves ==
  ASSUME RequestInv, NEW r \in Request, PageStep(r) \/ RemoteStep(r)
  PROVE  Moves(r, PageStages, PageStages)
<1> DEFINE Moved == Moves(r, PageStages, PageStages)
<1>1. ASSUME RejectPayload(r) \/ FeedFails(r) \/ DeleteFails(r) PROVE Moved
  BY <1>1 DEF RejectPayload, FeedFails, DeleteFails, Moves, PageStages, Code
<1>2. ASSUME NEW urls, StartBatch(r, urls), pc[r] \in {"payload", "feed"} PROVE Moved
  BY <1>2 DEF StartBatch, Moves, PageStages, Code
<1>3. ASSUME NEW urls, AcceptURLs(r, urls) \/ FetchFeed(r, urls) PROVE Moved
  BY <1>2, <1>3 DEF AcceptURLs, FetchFeed
<1>4. ASSUME NEW u, AcceptURL(r, u) PROVE Moved
  <2>1. pc[r] = "payload" /\ route[r] \in PageRoute \ {"batch"}
    BY <1>4 DEF AcceptURL, RequestInv, StagesFit
  <2>2. (\E stage \in {"pages", "headless", "feed", "delete"} : Goto(r, stage)) \/ Reply(r, 503)
    BY <1>4, <2>1 DEF AcceptURL, PageRoute
  <2> QED
    BY <2>1, <2>2 DEF Moves, PageStages, Code
<1>5. ASSUME NEW u, LookupHits(r, u) \/ LookupMisses(r, u) \/ LookupFails(r, u) PROVE Moved
  BY <1>5 DEF LookupHits, LookupMisses, LookupFails, Moves, PageStages
<1>6. ASSUME NEW u, NEW c, NEW outcome, FetchPage(r, u, c, outcome) \/ FetchUnstored(r, u, c, outcome)
                 \/ FetchHeadless(r, u, c, outcome)
      PROVE  Moved
  BY <1>6 DEF FetchPage, FetchUnstored, Obtain, FetchHeadless, Moves, PageStages
<1>7. ASSUME NEW page, EncodePage(r, page) PROVE Moved
  BY <1>7 DEF EncodePage, Moves, PageStages
<1>8. ASSUME Answer(r) PROVE Moved
  BY <1>8 DEF Answer, ExtractStatus, Moves, PageStages, Code
<1>9. ASSUME NEW u, DeletePage(r, u) PROVE Moved
  BY <1>9 DEF DeletePage, Moves, PageStages, Code
<1> QED
  BY <1>1, <1>3, <1>4, <1>5, <1>6, <1>7, <1>8, <1>9 DEF PageStep, RemoteStep

LEMMA SettingsMoves ==
  ASSUME NEW r \in Request, SettingsStep(r)
  PROVE  Moves(r, SettingsStages, SettingsStages \union {"died"})
<1> DEFINE Moved == Moves(r, SettingsStages, SettingsStages \union {"died"})
<1>1. ASSUME RejectSettings(r) \/ SettingsFail(r) PROVE Moved
  BY <1>1 DEF RejectSettings, SettingsFail, Moves, SettingsStages, Code
<1>2. ASSUME NEW x, AcceptDomain(r, x) PROVE Moved
  <2>1. PICK stage \in {"get", "body", "remove"} : Goto(r, stage)
    BY <1>2 DEF AcceptDomain
  <2> QED
    BY <1>2, <2>1 DEF AcceptDomain, Moves, SettingsStages
<1>3. ASSUME NEW s, AcceptSettings(r, s) PROVE Moved
  BY <1>3 DEF AcceptSettings, Moves, SettingsStages
<1>4. ASSUME GetSettings(r) \/ PutSettings(r) \/ RemoveSettings(r) PROVE Moved
  BY <1>4 DEF GetSettings, PutSettings, RemoveSettings, Moves, SettingsStages, Code
<1>5. ASSUME NEW offset, NEW limit, AcceptQuery(r, offset, limit) PROVE Moved
  BY <1>5 DEF AcceptQuery, Moves, SettingsStages
<1>6. ASSUME Search(r) \/ SearchPanics(r) PROVE Moved
  BY <1>6 DEF Search, SearchPanics, Moves, SettingsStages, Code
<1> QED
  BY <1>1, <1>2, <1>3, <1>4, <1>5, <1>6 DEF SettingsStep

LEMMA MovesOK ==
  ASSUME RequestInv, NEW r \in Request,
         \/ Moves(r, PageStages, PageStages)
         \/ Moves(r, SettingsStages, SettingsStages \union {"died"})
  PROVE  RequestInv'
<1>1. pc[r] \in Served
  BY DEF Moves, Served
<1> QED
  BY <1>1, GotoOK, ReplyOK DEF Moves

\* A move is of one request.
LEMMA MovesOne ==
  ASSUME RequestTypes, NEW r \in Request, NEW stages, NEW next, Moves(r, stages, next)
  PROVE  /\ \A q \in Request \ {r} : pc'[q] = pc[q] /\ status'[q] = status[q]
         /\ pc'[r] \in next \union {"done"}
         /\ UNCHANGED <<config, route, bearer>>
BY DEF Moves, Goto, Reply, RequestTypes

-----------------------------------------------------------------------------
\* A request gets its status for its own pages only: those of an extract that
\* is done do not change, and a status of success comes from Answer alone.
LEMMA ToldFrame ==
  ASSUME FailuresAreTold, NEW r \in Request,
         \A q \in Request \ {r} :
           pc'[q] = pc[q] /\ status'[q] = status[q] /\ route'[q] = route[q] /\ shown'[q] = shown[q],
         \/ pc'[r] # "done"
         \/ status'[r] # 200
         \/ route'[r] \notin {"extract", "headless"}
         \/ \E s \in shown'[r] : s.page.outcome \in {"ok", "http"}
  PROVE  FailuresAreTold'
<1> SUFFICES ASSUME NEW q \in Request, route'[q] \in {"extract", "headless"},
                    pc'[q] = "done", status'[q] = 200
             PROVE  \E s \in shown'[q] : s.page.outcome \in {"ok", "http"}
  BY DEF FailuresAreTold
<1>1. CASE q = r
  BY <1>1
<1>2. CASE q # r
  BY <1>2 DEF FailuresAreTold
<1> QED
  BY <1>1, <1>2

\* The status of success needs a page with content or a site's own error.
LEMMA AnswerTold ==
  ASSUME RequestInv, PageTypes, FailuresAreTold, NEW r \in Request, Answer(r)
  PROVE  FailuresAreTold'
<1>1. UNCHANGED shown /\ pc[r] = "pages"
  BY DEF Answer, pageVars
<1> DEFINE Told(code) ==
      /\ Reply(r, code)
      /\ \/ route[r] \in Batched
         \/ code # 200
         \/ \E s \in shown[r] : s.page.outcome \in {"ok", "http"}
<1>2. PICK code \in Code : Told(code)
  <2>1. CASE route[r] \in Batched
    BY <2>1 DEF Answer, Code
  <2>2. CASE route[r] \notin Batched /\ Reply(r, 422)
    BY <2>2 DEF Code
  <2>3. ASSUME NEW s \in shown[r], Reply(r, ExtractStatus(s.page.outcome))
        PROVE  \E code \in Code : Told(code)
    <3>1. s.page.outcome \in Outcomes
      BY DEF PageTypes, Page
    <3>2. /\ ExtractStatus(s.page.outcome) \in Code
          /\ ExtractStatus(s.page.outcome) # 200 \/ s.page.outcome \in {"ok", "http"}
      BY <3>1 DEF ExtractStatus, Outcomes, Code
    <3> QED
      BY <2>3, <3>2
  <2> QED
    BY <2>1, <2>2, <2>3 DEF Answer
<1>3. /\ pc' = [pc EXCEPT ![r] = "done"]
      /\ status' = [status EXCEPT ![r] = code]
      /\ UNCHANGED <<config, route, bearer>>
  BY <1>2 DEF Reply
<1>4. \A q \in Request \ {r} : pc'[q] = pc[q] /\ status'[q] = status[q]
  BY <1>3 DEF RequestInv, RequestTypes
<1>5. status'[r] = code
  BY <1>3 DEF RequestInv, RequestTypes
<1> QED
  BY <1>1, <1>2, <1>3, <1>4, <1>5, ToldFrame DEF Batched

\* No other handler of pages answers 200.
LEMMA PageTold ==
  ASSUME RequestInv, PageTypes, FailuresAreTold, NEW r \in Request, PageStep(r) \/ RemoteStep(r)
  PROVE  FailuresAreTold'
<1>1. RequestTypes
  BY DEF RequestInv
<1>2. CASE Answer(r)
  BY <1>2, AnswerTold
<1>3. CASE ~Answer(r)
  <2>1. /\ \A q \in Request \ {r} : pc'[q] = pc[q] /\ status'[q] = status[q]
        /\ UNCHANGED route
    BY <1>1, PageMoves, MovesOne
  <2>2. \A q \in Request \ {r} : shown'[q] = shown[q]
    <3>1. ASSUME NEW u, NEW c, NEW outcome,
                 FetchPage(r, u, c, outcome) \/ FetchUnstored(r, u, c, outcome)
          PROVE  <2>2
      BY <3>1 DEF FetchPage, FetchUnstored, Obtain
    <3>2. ASSUME NEW page, EncodePage(r, page) PROVE <2>2
      BY <3>2 DEF EncodePage, PageTypes
    <3> QED
      BY <1>3, <3>1, <3>2 DEF PageStep, RemoteStep, RejectPayload, FeedFails, DeleteFails,
         AcceptURL, AcceptURLs, FetchFeed, StartBatch, LookupHits, LookupMisses, LookupFails,
         FetchHeadless, DeletePage, pageVars
  <2>3. (\E stage \in PageStages : Goto(r, stage)) \/ (\E code \in Code \ {200} : Reply(r, code))
    <3>1. ASSUME RejectPayload(r) \/ FeedFails(r) \/ DeleteFails(r) PROVE <2>3
      BY <3>1 DEF RejectPayload, FeedFails, DeleteFails, Code
    <3>2. ASSUME NEW urls, AcceptURLs(r, urls) \/ FetchFeed(r, urls) PROVE <2>3
      BY <3>2 DEF AcceptURLs, FetchFeed, StartBatch, PageStages, Code
    <3>3. ASSUME NEW u, AcceptURL(r, u) PROVE <2>3
      <4>1. route[r] \in PageRoute \ {"batch"}
        BY <3>3 DEF AcceptURL, RequestInv, StagesFit
      <4>2. (\E stage \in {"pages", "headless", "feed", "delete"} : Goto(r, stage)) \/ Reply(r, 503)
        BY <3>3, <4>1 DEF AcceptURL, PageRoute
      <4> QED
        BY <4>2 DEF PageStages, Code
    <3>4. ASSUME NEW u, LookupHits(r, u) \/ LookupMisses(r, u) \/ LookupFails(r, u) PROVE <2>3
      BY <3>4 DEF LookupHits, LookupMisses, LookupFails, PageStages
    <3>5. ASSUME NEW u, NEW c, NEW outcome,
                 \/ FetchPage(r, u, c, outcome) \/ FetchUnstored(r, u, c, outcome)
                 \/ FetchHeadless(r, u, c, outcome)
          PROVE  <2>3
      BY <3>5 DEF FetchPage, FetchUnstored, Obtain, FetchHeadless, PageStages
    <3>6. ASSUME NEW page, EncodePage(r, page) PROVE <2>3
      BY <3>6 DEF EncodePage, PageStages
    <3>7. ASSUME NEW u, DeletePage(r, u) PROVE <2>3
      BY <3>7 DEF DeletePage, Code
    <3> QED
      BY <1>3, <3>1, <3>2, <3>3, <3>4, <3>5, <3>6, <3>7 DEF PageStep, RemoteStep
  <2>4. pc'[r] # "done" \/ status'[r] # 200
    BY <1>1, <2>3 DEF Goto, Reply, RequestTypes, PageStages
  <2> QED
    BY <2>1, <2>2, <2>4, ToldFrame
<1> QED
  BY <1>2, <1>3

\* The other steps are of other routes, or answer nothing but 401 and 503.
LEMMA OtherTold ==
  ASSUME RequestInv, FailuresAreTold, NEW r \in Request, UNCHANGED pageVars,
         \/ SettingsStep(r)
         \/ RequestStep(r)
         \/ \E rt \in Route : Arrive(r, rt)
  PROVE  FailuresAreTold'
<1>1. RequestTypes /\ shown' = shown
  BY DEF RequestInv, pageVars
<1>2. CASE SettingsStep(r)
  <2>1. Moves(r, SettingsStages, SettingsStages \union {"died"})
    BY <1>2, SettingsMoves
  <2>2. /\ \A q \in Request \ {r} : pc'[q] = pc[q] /\ status'[q] = status[q]
        /\ route' = route
    BY <1>1, <2>1, MovesOne
  <2>3. route[r] \in SettingsRoute
    BY <2>1 DEF Moves, SettingsStages, RequestInv, StagesFit
  <2>4. route'[r] \notin {"extract", "headless"}
    BY <2>2, <2>3 DEF SettingsRoute
  <2> QED
    BY <1>1, <2>2, <2>4, ToldFrame
<1>3. CASE Health(r) \/ Unavailable(r)
  <2>1. PICK code \in {200, 503} : Reply(r, code)
    BY <1>3 DEF Health, Unavailable
  <2>2. /\ \A q \in Request \ {r} : pc'[q] = pc[q] /\ status'[q] = status[q]
        /\ route' = route
    BY <1>1, <2>1 DEF Reply, RequestTypes
  <2>3. route[r] = "health" \/ route[r] \in SettingsRoute
    BY <1>3 DEF Health, Unavailable, RequestInv, StagesFit
  <2>4. route'[r] \notin {"extract", "headless"}
    BY <2>2, <2>3 DEF SettingsRoute
  <2> QED
    BY <1>1, <2>2, <2>4, ToldFrame
<1>4. ASSUME NEW header, NEW cookie, Authorize(r, header, cookie) PROVE FailuresAreTold'
  <2>1. /\ \A q \in Request \ {r} : pc'[q] = pc[q] /\ status'[q] = status[q]
        /\ route' = route
        /\ pc'[r] # "done" \/ status'[r] = 401
    BY <1>1, <1>4 DEF Authorize, RequestTypes, FirstStage
  <2> QED
    BY <1>1, <2>1, ToldFrame
<1>5. ASSUME NEW rt \in Route, Arrive(r, rt) PROVE FailuresAreTold'
  <2>1. /\ \A q \in Request \ {r} : pc'[q] = pc[q] /\ status'[q] = status[q] /\ route'[q] = route[q]
        /\ pc'[r] # "done"
    BY <1>1, <1>5 DEF Arrive, RequestTypes, Entry, FirstStage
  <2> QED
    BY <1>1, <2>1, ToldFrame
<1> QED
  BY <1>2, <1>3, <1>4, <1>5 DEF RequestStep

-----------------------------------------------------------------------------
\* Nothing is known of a request that ends or is not at its pages yet.
LEMMA PageFrame ==
  ASSUME PageInv, UNCHANGED pageVars,
         \A q \in Request :
           \/ pc'[q] = pc[q]
           \/ pc'[q] \in Ended
           \/ pc[q] \notin {"pages"} \union Ended
  PROVE  PageInv'
<1>1. UNCHANGED <<rows, idMap, saves, marked, todo, missing, got, shown, gone>>
  BY DEF pageVars
<1>2. LookedUpOnce'
  BY <1>1 DEF PageInv, LookedUpOnce, Ended
<1>3. PageTypes' /\ MarksAreCopies' /\ AnswersAreWhole' /\ SavesAreGood' /\ OnlyGoodPagesStored'
  BY <1>1 DEF PageInv, PageTypes, MarksAreCopies, AnswersAreWhole, SavesAreGood, OnlyGoodPagesStored
<1>4. GoneUnsaved' /\ DeletedUntilFetched'
  BY <1>1 DEF PageInv, GoneUnsaved, DeletedUntilFetched
<1> QED
  BY <1>2, <1>3, <1>4 DEF PageInv

\* Steps on what a request has yet to do, and on its pages, leave the store
\* alone.
Working(r) ==
  /\ UNCHANGED <<rows, idMap, saves, marked, gone>>
  /\ \A q \in Request \ {r} :
       /\ pc'[q] = pc[q] /\ todo'[q] = todo[q] /\ missing'[q] = missing[q]
       /\ shown'[q] = shown[q]

LEMMA WorkingOK ==
  ASSUME PageInv, PageTypes', NEW r \in Request, Working(r),
         todo'[r] \intersect missing'[r] = {},
         pc[r] \in PageStages, pc'[r] \in PageStages \union {"done"},
         pc'[r] # "pages" => missing'[r] = {} \/ pc'[r] = "done",
         \A s \in shown'[r] : s.whole
  PROVE  PageInv'
<1>1. UNCHANGED <<rows, idMap, saves, marked, gone>>
  BY DEF Working
<1>2. LookedUpOnce'
  BY DEF PageInv, LookedUpOnce, Working, PageStages, Ended
<1>3. AnswersAreWhole'
  BY DEF PageInv, AnswersAreWhole, Working
<1>4. MarksAreCopies' /\ SavesAreGood' /\ OnlyGoodPagesStored'
  BY <1>1 DEF PageInv, MarksAreCopies, SavesAreGood, OnlyGoodPagesStored
<1>5. GoneUnsaved' /\ DeletedUntilFetched'
  BY <1>1 DEF PageInv, GoneUnsaved, DeletedUntilFetched
<1> QED
  BY <1>2, <1>3, <1>4, <1>5 DEF PageInv

\* The steps up to the pages, and the lookups.
LEMMA StartOK ==
  ASSUME RequestInv, PageInv, NEW r \in Request,
         \/ \E urls \in Lists : AcceptURLs(r, urls) \/ FetchFeed(r, urls)
         \/ \E u \in Url : AcceptURL(r, u)
  PROVE  PageInv'
<1>1. /\ PageStep(r) \/ RemoteStep(r)
      /\ pc[r] \in {"payload", "feed"}
  BY DEF PageStep, RemoteStep, AcceptURL, AcceptURLs, FetchFeed
<1>2. Moves(r, PageStages, PageStages) /\ RequestTypes
  BY <1>1, PageMoves DEF RequestInv
<1>3. /\ \A q \in Request \ {r} : pc'[q] = pc[q]
      /\ pc'[r] \in PageStages \union {"done"}
  BY <1>2, MovesOne
<1>4. PICK urls \in SUBSET Url : todo' = [todo EXCEPT ![r] = urls]
  BY PageAssumption DEF AcceptURL, AcceptURLs, FetchFeed, StartBatch
<1>5. UNCHANGED <<rows, idMap, saves, marked, missing, got, shown, gone>>
  BY DEF AcceptURL, AcceptURLs, FetchFeed, StartBatch
<1>6. PageTypes'
  BY <1>4, <1>5 DEF PageInv, PageTypes
<1>7. missing[r] = {}
  BY <1>1 DEF PageInv, LookedUpOnce, Ended
<1>8. Working(r)
  BY <1>3, <1>4, <1>5 DEF Working, PageInv, PageTypes
<1>9. \A s \in shown'[r] : s.whole
  BY <1>5 DEF PageInv, AnswersAreWhole
<1> QED
  BY <1>1, <1>3, <1>5, <1>6, <1>7, <1>8, <1>9, WorkingOK DEF PageStages

LEMMA LookupOK ==
  ASSUME RequestInv, PageInv, NEW r \in Request, NEW u \in Url,
         LookupHits(r, u) \/ LookupMisses(r, u) \/ LookupFails(r, u)
  PROVE  PageInv'
<1>1. pc[r] = "pages" /\ u \in todo[r] /\ Goto(r, "pages")
  BY DEF LookupHits, LookupMisses, LookupFails
<1>2. pc' = pc
  BY <1>1 DEF Goto, RequestInv, RequestTypes
<1>3. /\ todo' = [todo EXCEPT ![r] = @ \ {u}]
      /\ missing' \in {missing, [missing EXCEPT ![r] = @ \union {u}]}
      /\ UNCHANGED <<rows, idMap, saves, marked, shown, gone>>
  BY DEF LookupHits, LookupMisses, LookupFails
<1>4. StoredPage(u) \in Page \union {NoPage}
  BY DEF StoredPage, PageInv, PageTypes
<1>5. got' \in [Request -> SUBSET Page]
  BY <1>4 DEF PageInv, PageTypes, LookupHits, LookupMisses, LookupFails
<1>6. PageTypes'
  <2>1. missing' \in [Request -> SUBSET Url] /\ todo' \in [Request -> SUBSET Url]
    <3>1. missing \in [Request -> SUBSET Url] /\ todo \in [Request -> SUBSET Url]
      BY DEF PageInv, PageTypes
    <3>2. [missing EXCEPT ![r] = @ \union {u}] \in [Request -> SUBSET Url]
      BY <3>1
    <3> QED
      BY <1>3, <3>1, <3>2
  <2> QED
    BY <1>3, <1>5, <2>1 DEF PageInv, PageTypes
<1>7. /\ todo[r] \intersect missing[r] = {}
      /\ todo'[r] = todo[r] \ {u}
      /\ missing'[r] \in {missing[r], missing[r] \union {u}}
  BY <1>3 DEF PageInv, PageTypes, LookedUpOnce
<1>8. Working(r)
  BY <1>2, <1>3 DEF Working, PageInv, PageTypes
<1>9. \A s \in shown'[r] : s.whole
  BY <1>3 DEF PageInv, AnswersAreWhole
<1> QED
  BY <1>1, <1>2, <1>6, <1>7, <1>8, <1>9, WorkingOK DEF PageStages

\* A headless fetch, and the encoding of a page that no save marks.
LEMMA HeadlessOK ==
  ASSUME RequestInv, PageInv, NEW r \in Request, NEW u \in Url, NEW c \in Url,
         NEW outcome \in Outcome, FetchHeadless(r, u, c, outcome)
  PROVE  PageInv'
<1>1. pc[r] = "headless" /\ Goto(r, "pages")
  BY DEF FetchHeadless
<1>2. pc' = [pc EXCEPT ![r] = "pages"]
  BY <1>1 DEF Goto
<1>3. /\ todo' = [todo EXCEPT ![r] = {}]
      /\ got' = [got EXCEPT ![r] = {Fetched(r, u, c, outcome, "headless")}]
      /\ UNCHANGED <<rows, idMap, saves, marked, missing, shown, gone>>
  BY DEF FetchHeadless
<1>4. Fetched(r, u, c, outcome, "headless") \in Page
  BY PageAssumption DEF Fetched, Page
<1>5. PageTypes'
  BY <1>3, <1>4 DEF PageInv, PageTypes
<1>6. missing[r] = {}
  BY <1>1 DEF PageInv, LookedUpOnce, Ended
<1>7. Working(r)
  BY <1>2, <1>3 DEF Working, PageInv, PageTypes, RequestInv, RequestTypes
<1>8. \A s \in shown'[r] : s.whole
  BY <1>3 DEF PageInv, AnswersAreWhole
<1>9. pc'[r] = "pages"
  BY <1>2 DEF RequestInv, RequestTypes
<1> QED
  BY <1>1, <1>3, <1>5, <1>6, <1>7, <1>8, <1>9, WorkingOK DEF PageStages

LEMMA EncodeOK ==
  ASSUME RequestInv, PageInv, NEW r \in Request, NEW page \in got[r], EncodePage(r, page)
  PROVE  PageInv'
<1>1. pc[r] = "pages" /\ Goto(r, "pages")
  BY DEF EncodePage
<1>2. pc' = pc
  BY <1>1 DEF Goto, RequestInv, RequestTypes
<1> DEFINE new == [page |-> page,
                   whole |-> route[r] \in Batched \/ <<page, "original">> \notin marked]
<1>3. /\ got' = [got EXCEPT ![r] = @ \ {page}]
      /\ shown' = [shown EXCEPT ![r] = @ \union {new}]
      /\ UNCHANGED <<rows, idMap, saves, marked, todo, missing, gone>>
  BY DEF EncodePage
<1>4. page \in Page
  BY DEF PageInv, PageTypes
<1>5. new \in [page : Page, whole : BOOLEAN]
  BY <1>4
<1>6. new.whole
  BY DEF PageInv, MarksAreCopies
<1> HIDE DEF new
<1>7. PageTypes'
  BY <1>3, <1>5 DEF PageInv, PageTypes
<1>8. Working(r)
  BY <1>2, <1>3 DEF Working, PageInv, PageTypes
<1>9. \A s \in shown'[r] : s.whole
  BY <1>3, <1>6 DEF PageInv, PageTypes, AnswersAreWhole
<1>10. todo'[r] \intersect missing'[r] = {} /\ todo'[r] = todo[r] /\ missing'[r] = missing[r]
  BY <1>3 DEF PageInv, LookedUpOnce
<1> QED
  BY <1>1, <1>2, <1>7, <1>8, <1>9, <1>10, WorkingOK DEF PageStages

\* A page that is fetched leads to one save more if it has content, and then
\* its canonical URL is no longer gone.
LEMMA FetchOK ==
  ASSUME RequestInv, PageInv, NEW r \in Request, NEW u \in Url, NEW c \in Url,
         NEW outcome \in Outcome,
         FetchPage(r, u, c, outcome) \/ FetchUnstored(r, u, c, outcome)
  PROVE  PageInv'
<1> DEFINE page == Fetched(r, u, c, outcome, "direct")
<1>1. pc[r] = "pages" /\ u \in missing[r] /\ Goto(r, "pages")
  BY DEF FetchPage, FetchUnstored, Obtain
<1>2. pc' = pc
  BY <1>1 DEF Goto, RequestInv, RequestTypes
<1>3. /\ missing' = [missing EXCEPT ![r] = @ \ {u}]
      /\ got' = [got EXCEPT ![r] = @ \union {page}]
      /\ UNCHANGED <<rows, idMap, marked, todo, shown>>
  BY DEF FetchPage, FetchUnstored, Obtain
<1>4. \/ outcome = "ok" /\ saves' = saves \union {page} /\ gone' = gone \ {page.canonical}
      \/ UNCHANGED <<saves, gone>>
  BY DEF FetchPage, FetchUnstored, BeginSave
<1>5. /\ page \in Page
      /\ page.outcome = outcome /\ page.method = "direct"
  BY PageAssumption DEF Fetched, Page
<1> HIDE DEF page
<1>6. PageTypes'
  BY <1>3, <1>4, <1>5 DEF PageInv, PageTypes
<1>7. missing'[r] = missing[r] \ {u} /\ \A q \in Request \ {r} : missing'[q] = missing[q]
  BY <1>3 DEF PageInv, PageTypes
<1>8. LookedUpOnce'
  BY <1>1, <1>2, <1>3, <1>7 DEF PageInv, LookedUpOnce
<1>9. AnswersAreWhole' /\ MarksAreCopies' /\ OnlyGoodPagesStored'
  BY <1>3 DEF PageInv, AnswersAreWhole, MarksAreCopies, OnlyGoodPagesStored
<1>10. SavesAreGood'
  BY <1>4, <1>5 DEF PageInv, SavesAreGood
<1>11. GoneUnsaved' /\ DeletedUntilFetched'
  BY <1>3, <1>4 DEF PageInv, GoneUnsaved, DeletedUntilFetched
<1> QED
  BY <1>6, <1>8, <1>9, <1>10, <1>11 DEF PageInv

\* A save moves its page from the saves to the row of its canonical URL, or
\* drops it.
LEMMA SaveOK ==
  ASSUME PageInv, NEW page \in saves, Save(page) \/ SaveFails(page)
  PROVE  PageInv'
<1>1. /\ saves' = saves \ {page}
      /\ marked' = marked \union {<<page, "copy">>}
      /\ rows' \in {rows, [rows EXCEPT ![page.canonical] = page]}
      /\ UNCHANGED <<requestVars, todo, missing, got, shown, gone>>
  BY DEF Save, SaveFails
<1>2. /\ page \in Page
      /\ page.canonical \in Url /\ page.url \in Url
  BY DEF PageInv, PageTypes, Page
<1>3. idMap' \in [Url -> Url \union {NoUrl}]
  BY <1>2 DEF Save, SaveFails, PageInv, PageTypes
<1>4. rows' \in [Url -> Page \union {NoPage}]
  <2>1. rows \in [Url -> Page \union {NoPage}]
    BY DEF PageInv, PageTypes
  <2>2. [rows EXCEPT ![page.canonical] = page] \in [Url -> Page \union {NoPage}]
    BY <1>2, <2>1
  <2> QED
    BY <1>1, <2>1, <2>2
<1>5. PageTypes'
  BY <1>1, <1>2, <1>3, <1>4 DEF PageInv, PageTypes
<1>6. \A u \in Url : rows'[u] = rows[u] \/ (u = page.canonical /\ rows'[u] = page)
  <2>1. rows \in [Url -> Page \union {NoPage}]
    BY DEF PageInv, PageTypes
  <2>2. CASE rows' = rows
    BY <2>2
  <2>3. CASE rows' = [rows EXCEPT ![page.canonical] = page]
    BY <2>1, <2>3
  <2> QED
    BY <1>1, <2>2, <2>3
<1>7. UNCHANGED <<pc, todo, missing, shown, gone>>
  BY <1>1 DEF requestVars
<1>8. LookedUpOnce' /\ AnswersAreWhole'
  BY <1>7 DEF PageInv, LookedUpOnce, AnswersAreWhole
<1>9. MarksAreCopies' /\ SavesAreGood'
  BY <1>1 DEF PageInv, MarksAreCopies, SavesAreGood
<1>10. page.outcome = "ok" /\ page.method = "direct" /\ page.canonical \notin gone
  BY DEF PageInv, SavesAreGood, GoneUnsaved
<1>11. OnlyGoodPagesStored'
  BY <1>6, <1>10 DEF PageInv, OnlyGoodPagesStored
<1>12. GoneUnsaved'
  BY <1>1, <1>7 DEF PageInv, GoneUnsaved
<1>13. DeletedUntilFetched'
  BY <1>6, <1>7, <1>10 DEF PageInv, PageTypes, DeletedUntilFetched
<1> QED
  BY <1>5, <1>8, <1>9, <1>11, <1>12, <1>13 DEF PageInv

\* The row of the URL goes, and the URL is gone unless somebody is saving it.
LEMMA DeletePageOK ==
  ASSUME RequestInv, PageInv, NEW r \in Request, NEW u \in Url, DeletePage(r, u)
  PROVE  PageInv'
<1>1. pc[r] = "delete" /\ \E code \in {204, 410} : Reply(r, code)
  BY DEF DeletePage
<1>2. pc' = [pc EXCEPT ![r] = "done"]
  BY <1>1 DEF Reply
<1>3. \A q \in Request : pc'[q] = IF q = r THEN "done" ELSE pc[q]
  BY <1>2 DEF RequestInv, RequestTypes
<1>4. /\ rows' = [rows EXCEPT ![u] = NoPage]
      /\ gone' = gone \/ (~BeingSaved(u) /\ gone' = gone \union {u})
      /\ UNCHANGED <<idMap, saves, marked, todo, missing, got, shown>>
  BY DEF DeletePage
<1>5. rows \in [Url -> Page \union {NoPage}] /\ gone \subseteq Url
  BY DEF PageInv, PageTypes
<1>6. \A v \in Url : rows'[v] = IF v = u THEN NoPage ELSE rows[v]
  BY <1>4, <1>5
<1>7. PageTypes'
  BY <1>4, <1>5 DEF PageInv, PageTypes
<1>8. LookedUpOnce'
  BY <1>3, <1>4 DEF PageInv, LookedUpOnce, Ended
<1>9. AnswersAreWhole' /\ MarksAreCopies' /\ SavesAreGood'
  BY <1>4 DEF PageInv, AnswersAreWhole, MarksAreCopies, SavesAreGood
<1>10. OnlyGoodPagesStored'
  BY <1>6 DEF PageInv, OnlyGoodPagesStored
<1>11. GoneUnsaved'
  BY <1>4 DEF PageInv, GoneUnsaved, BeingSaved
<1>12. DeletedUntilFetched'
  BY <1>4, <1>5, <1>6 DEF PageInv, DeletedUntilFetched
<1> QED
  BY <1>7, <1>8, <1>9, <1>10, <1>11, <1>12 DEF PageInv

\* All steps of the handlers of pages.
LEMMA PageStepOK ==
  ASSUME RequestInv, PageInv, NEW r \in Request, PageStep(r) \/ RemoteStep(r)
  PROVE  PageInv'
<1>1. ASSUME RejectPayload(r) \/ FeedFails(r) \/ DeleteFails(r) \/ Answer(r) PROVE PageInv'
  <2>1. UNCHANGED pageVars /\ \E code : Reply(r, code)
    BY <1>1 DEF RejectPayload, FeedFails, DeleteFails, Answer
  <2>2. \A q \in Request : pc'[q] = pc[q] \/ pc'[q] \in Ended
    BY <2>1 DEF Reply, RequestInv, RequestTypes, Ended
  <2> QED
    BY <2>1, <2>2, PageFrame
<1> QED
  BY <1>1, StartOK, LookupOK, HeadlessOK, EncodeOK, FetchOK, DeletePageOK
  DEF PageStep, RemoteStep

-----------------------------------------------------------------------------
\* A domain in lower case is told by its name.
LEMMA LowerIs ==
  ASSUME NEW x \in Spelling
  PROVE  /\ Lower(x) \in Spelling
         /\ Lower(x) = [name |-> x.name, upper |-> FALSE]
         /\ x.name \in Domain
         /\ Lower(Lower(x)) = Lower(x)
BY DEF Lower, Spelling

\* Marshalled headers are a text, or the mark of none.
LEMMA MarshalledIs ==
  ASSUME NEW s \in Settings
  PROVE  Marshalled(s) \subseteq Text \union {NoText}
BY DEF Marshalled, Settings

\* No statement begins without an accepted domain.
LEMMA SettingsFrame ==
  ASSUME SettingsInv, UNCHANGED <<table, domain, latest>>, SettingsTypes',
         \A q \in Request : pc'[q] \in {"body", "get", "put", "remove"} =>
           pc[q] \in {"body", "get", "put", "remove"}
  PROVE  SettingsInv'
<1>1. DomainsAreLower'
  BY DEF SettingsInv, DomainsAreLower
<1>2. TableTellsLatest'
  BY DEF SettingsInv, TableTellsLatest
<1> QED
  BY <1>1, <1>2 DEF SettingsInv

LEMMA AcceptDomainOK ==
  ASSUME RequestInv, SettingsInv, NEW r \in Request, NEW x \in Spelling, AcceptDomain(r, x)
  PROVE  SettingsInv'
<1>1. /\ domain' = [domain EXCEPT ![r] = Lower(x)]
      /\ UNCHANGED <<table, input, output, range, latest>>
  BY DEF AcceptDomain, PathDomain
<1>2. \E stage : Goto(r, stage)
  BY DEF AcceptDomain
<1>3. \A q \in Request \ {r} : pc'[q] = pc[q]
  BY <1>2 DEF Goto, RequestInv, RequestTypes
<1>4. SettingsTypes'
  BY <1>1, LowerIs DEF SettingsInv, SettingsTypes
<1>5. \A q \in Request : domain'[q] = IF q = r THEN Lower(x) ELSE domain[q]
  BY <1>1 DEF SettingsInv, SettingsTypes
<1>6. DomainsAreLower'
  BY <1>3, <1>5, LowerIs DEF SettingsInv, DomainsAreLower
<1>7. TableTellsLatest'
  BY <1>1 DEF SettingsInv, TableTellsLatest
<1> QED
  BY <1>4, <1>6, <1>7 DEF SettingsInv

LEMMA PutSettingsOK ==
  ASSUME RequestInv, SettingsInv, NEW r \in Request, PutSettings(r)
  PROVE  SettingsInv'
<1>1. PICK stored \in Marshalled(input[r]), answered \in Marshalled(input[r]) :
        /\ table' = [table EXCEPT ![Lower(domain[r])] = stored]
        /\ output' = [output EXCEPT ![r] = answered]
  BY DEF PutSettings
<1>2. /\ latest' = [latest EXCEPT ![domain[r].name] = input[r]]
      /\ UNCHANGED <<domain, input, range>>
      /\ Reply(r, 200)
  BY DEF PutSettings
<1>3. /\ input[r] \in Settings /\ domain[r] \in Spelling
      /\ stored \in Text \union {NoText} /\ answered \in Text \union {NoText}
  BY <1>1, MarshalledIs DEF SettingsInv, SettingsTypes
<1>4. /\ Lower(domain[r]) \in Spelling
      /\ Lower(domain[r]) = [name |-> domain[r].name, upper |-> FALSE]
      /\ domain[r].name \in Domain
  BY <1>3, LowerIs
<1>5. SettingsTypes'
  BY <1>1, <1>2, <1>3, <1>4 DEF SettingsInv, SettingsTypes
<1>6. \A q \in Request : pc'[q] = pc[q] \/ pc'[q] = "done"
  BY <1>2 DEF Reply, RequestInv, RequestTypes
<1>7. DomainsAreLower'
  BY <1>2, <1>6 DEF SettingsInv, DomainsAreLower
<1>8. TableTellsLatest'
  <2> SUFFICES ASSUME NEW d \in Domain
               PROVE  LET row == table'[[name |-> d, upper |-> FALSE]]
                      IN IF latest'[d] = NoRow THEN row = NoRow ELSE row \in Marshalled(latest'[d])
    BY DEF TableTellsLatest
  <2>1. [name |-> d, upper |-> FALSE] \in Spelling
    BY DEF Spelling
  <2>2. CASE d = domain[r].name
    <3>1. latest'[d] = input[r] /\ input[r] # NoRow
      BY <1>2, <1>3, <1>4, <2>2, SettingsAssumption DEF SettingsInv, SettingsTypes
    <3>2. table'[[name |-> d, upper |-> FALSE]] = stored
      BY <1>1, <1>4, <2>1, <2>2 DEF SettingsInv, SettingsTypes
    <3> QED
      BY <1>1, <3>1, <3>2
  <2>3. CASE d # domain[r].name
    <3>1. latest'[d] = latest[d]
      BY <1>2, <2>3 DEF SettingsInv, SettingsTypes
    <3>2. [name |-> d, upper |-> FALSE] # Lower(domain[r])
      BY <1>4, <2>3
    <3>3. table'[[name |-> d, upper |-> FALSE]] = table[[name |-> d, upper |-> FALSE]]
      BY <1>1, <2>1, <3>2 DEF SettingsInv, SettingsTypes
    <3> QED
      BY <3>1, <3>3 DEF SettingsInv, TableTellsLatest
  <2> QED
    BY <2>2, <2>3
<1> QED
  BY <1>5, <1>7, <1>8 DEF SettingsInv

LEMMA RemoveSettingsOK ==
  ASSUME RequestInv, SettingsInv, NEW r \in Request, RemoveSettings(r)
  PROVE  SettingsInv'
<1>1. /\ table' = [x \in Spelling |-> IF Lower(x) = Lower(domain[r]) THEN NoRow ELSE table[x]]
      /\ latest' = [latest EXCEPT ![domain[r].name] = NoRow]
      /\ UNCHANGED <<domain, input, output, range>>
      /\ Reply(r, 204)
  BY DEF RemoveSettings
<1>2. domain[r] \in Spelling
  BY DEF SettingsInv, SettingsTypes
<1>3. /\ Lower(domain[r]) = [name |-> domain[r].name, upper |-> FALSE]
      /\ domain[r].name \in Domain
  BY <1>2, LowerIs
<1>4. SettingsTypes'
  BY <1>1, <1>3 DEF SettingsInv, SettingsTypes
<1>5. \A q \in Request : pc'[q] = pc[q] \/ pc'[q] = "done"
  BY <1>1 DEF Reply, RequestInv, RequestTypes
<1>6. DomainsAreLower'
  BY <1>1, <1>5 DEF SettingsInv, DomainsAreLower
<1>7. TableTellsLatest'
  <2> SUFFICES ASSUME NEW d \in Domain
               PROVE  LET row == table'[[name |-> d, upper |-> FALSE]]
                      IN IF latest'[d] = NoRow THEN row = NoRow ELSE row \in Marshalled(latest'[d])
    BY DEF TableTellsLatest
  <2> DEFINE x == [name |-> d, upper |-> FALSE]
  <2>1. x \in Spelling /\ Lower(x) = x
    <3>1. x \in Spelling /\ x.name = d
      BY DEF Spelling
    <3> QED
      BY <3>1, LowerIs
  <2>2. CASE d = domain[r].name
    <3>1. latest'[d] = NoRow
      BY <1>1, <1>3, <2>2 DEF SettingsInv, SettingsTypes
    <3>2. table'[x] = NoRow
      BY <1>1, <1>3, <2>1, <2>2
    <3> QED
      BY <3>1, <3>2
  <2>3. CASE d # domain[r].name
    <3>1. latest'[d] = latest[d]
      BY <1>1, <2>3 DEF SettingsInv, SettingsTypes
    <3>2. table'[x] = table[x]
      BY <1>1, <1>3, <2>1, <2>3
    <3> QED
      BY <3>1, <3>2 DEF SettingsInv, TableTellsLatest
  <2> QED
    BY <2>2, <2>3
<1> QED
  BY <1>4, <1>6, <1>7 DEF SettingsInv

\* The steps that write nothing.
LEMMA SettingsRestOK ==
  ASSUME RequestInv, SettingsInv, NEW r \in Request,
         \/ RejectSettings(r) \/ SettingsFail(r) \/ GetSettings(r) \/ Search(r) \/ SearchPanics(r)
         \/ \E s \in Body : AcceptSettings(r, s)
         \/ \E offset \in 0 .. MaxOffset, limit \in -1 .. MaxBatch + 1 : AcceptQuery(r, offset, limit)
  PROVE  SettingsInv'
<1>1. UNCHANGED <<table, domain, latest>>
  BY DEF RejectSettings, SettingsFail, GetSettings, Search, SearchPanics, AcceptSettings,
     AcceptQuery, settingsVars
<1>2. pc[r] \in {"domain", "body", "query", "search", "get", "put", "remove"}
  BY DEF RejectSettings, SettingsFail, GetSettings, Search, SearchPanics, AcceptSettings, AcceptQuery
<1>3. \/ \E code : Reply(r, code)
      \/ Goto(r, "search") \/ Goto(r, "died")
      \/ Goto(r, "put") /\ pc[r] = "body"
  BY DEF RejectSettings, SettingsFail, GetSettings, Search, SearchPanics, AcceptSettings, AcceptQuery
<1>4. \A q \in Request : \/ pc'[q] = pc[q]
                         \/ pc'[q] \in {"done", "died", "search"}
                         \/ pc'[q] = "put" /\ pc[q] = "body"
  BY <1>3 DEF Reply, Goto, RequestInv, RequestTypes
<1>5. input' \in [Request -> Settings]
  BY SettingsAssumption DEF RejectSettings, SettingsFail, GetSettings, Search, SearchPanics,
     AcceptSettings, AcceptQuery, settingsVars, SettingsInv, SettingsTypes
<1>6. output' \in [Request -> Text \union {NoText}]
  <2>1. output \in [Request -> Text \union {NoText}] /\ domain[r] \in Spelling
    BY DEF SettingsInv, SettingsTypes
  <2>2. CASE output' = output
    BY <2>1, <2>2
  <2>3. CASE table[domain[r]] # NoRow /\ output' = [output EXCEPT ![r] = table[domain[r]]]
    BY <2>1, <2>3 DEF SettingsInv, SettingsTypes
  <2> QED
    BY <2>2, <2>3 DEF RejectSettings, SettingsFail, GetSettings, Search, SearchPanics,
       AcceptSettings, AcceptQuery, settingsVars
<1>7. range' \in [Request -> [offset : 0 .. MaxOffset, limit : Int]]
  <2>1. range \in [Request -> [offset : 0 .. MaxOffset, limit : Int]] /\ MaxBatch \in Nat
    BY SettingsAssumption DEF SettingsInv, SettingsTypes
  <2>2. CASE range' = range
    BY <2>1, <2>2
  <2>3. ASSUME NEW offset \in 0 .. MaxOffset, NEW limit \in -1 .. MaxBatch + 1,
               AcceptQuery(r, offset, limit)
        PROVE  <1>7
    <3>1. limit \in Int
      BY <2>1
    <3> QED
      BY <2>1, <2>3, <3>1 DEF AcceptQuery
  <2> QED
    BY <2>2, <2>3 DEF RejectSettings, SettingsFail, GetSettings, Search, SearchPanics,
       AcceptSettings, settingsVars
<1>8. SettingsTypes'
  BY <1>1, <1>5, <1>6, <1>7 DEF SettingsInv, SettingsTypes
<1> QED
  BY <1>1, <1>4, <1>8, SettingsFrame

\* All steps of the settings handlers.
LEMMA SettingsStepOK ==
  ASSUME RequestInv, SettingsInv, NEW r \in Request, SettingsStep(r)
  PROVE  SettingsInv'
BY AcceptDomainOK, PutSettingsOK, RemoveSettingsOK, SettingsRestOK DEF SettingsStep

-----------------------------------------------------------------------------
\* Steps that are not of the settings handlers leave the settings alone.
LEMMA SettingsKept ==
  ASSUME SettingsInv, UNCHANGED settingsVars,
         \A q \in Request : pc'[q] \in {"body", "get", "put", "remove"} =>
           pc[q] \in {"body", "get", "put", "remove"}
  PROVE  SettingsInv'
<1>1. UNCHANGED <<table, domain, input, output, range, latest>>
  BY DEF settingsVars
<1>2. SettingsTypes'
  BY <1>1 DEF SettingsInv, SettingsTypes
<1> QED
  BY <1>1, <1>2, SettingsFrame

LEMMA APIInitOK == APIInit => APIInv
<1> SUFFICES ASSUME APIInit PROVE APIInv
  OBVIOUS
<1>1. RequestInv /\ PageInv /\ SettingsInv
  BY RequestInitOK, PageInitOK, SettingsInitOK DEF APIInit
<1>2. FailuresAreTold
  BY DEF APIInit, RequestsInit, FailuresAreTold
<1> QED
  BY <1>1, <1>2 DEF APIInv

\* Every step keeps every part.
LEMMA APINextOK == APIInv /\ [APINext]_vars => APIInv'
<1> SUFFICES ASSUME APIInv, [APINext]_vars PROVE APIInv'
  OBVIOUS
<1>1. RequestInv /\ PageInv /\ SettingsInv /\ FailuresAreTold /\ RequestTypes /\ PageTypes
  BY DEF APIInv, RequestInv, PageInv
<1>2. ASSUME NEW r \in Request, NEW rt \in Route, Arrive(r, rt), UNCHANGED <<pageVars, settingsVars>>
      PROVE  APIInv'
  <2>1. RequestInv' /\ FailuresAreTold'
    BY <1>1, <1>2, ArriveOK, OtherTold
  <2>2. \A q \in Request :
          \/ pc'[q] = pc[q]
          \/ pc[q] = "idle" /\ pc'[q] \notin {"body", "get", "put", "remove"}
    BY <1>1, <1>2 DEF Arrive, Entry, FirstStage, RequestTypes
  <2>3. PageInv' /\ SettingsInv'
    BY <1>1, <1>2, <2>2, PageFrame, SettingsKept DEF Ended
  <2> QED
    BY <2>1, <2>3 DEF APIInv
<1>3. ASSUME NEW r \in Request, RequestStep(r), UNCHANGED <<pageVars, settingsVars>>
      PROVE  APIInv'
  <2>1. RequestInv' /\ FailuresAreTold'
    BY <1>1, <1>3, AuthorizeOK, OpenReplyOK, OtherTold DEF RequestStep
  <2>2. \A q \in Request :
          \/ pc'[q] = pc[q]
          \/ /\ pc[q] \in {"auth", "health", "unavailable"}
             /\ pc'[q] \notin {"body", "get", "put", "remove"}
    BY <1>1, <1>3 DEF RequestStep, Authorize, Health, Unavailable, Reply, FirstStage, RequestTypes
  <2>3. PageInv' /\ SettingsInv'
    BY <1>1, <1>3, <2>2, PageFrame, SettingsKept DEF Ended
  <2> QED
    BY <2>1, <2>3 DEF APIInv
<1>4. ASSUME NEW r \in Request, PageStep(r) \/ RemoteStep(r), UNCHANGED settingsVars
      PROVE  APIInv'
  <2>1. Moves(r, PageStages, PageStages)
    BY <1>1, <1>4, PageMoves
  <2>2. \A q \in Request : pc'[q] = pc[q] \/ pc'[q] \in PageStages \union {"done"}
    BY <1>1, <2>1, MovesOne
  <2>3. SettingsInv'
    BY <1>1, <1>4, <2>2, SettingsKept DEF PageStages
  <2> QED
    BY <1>1, <1>4, <2>1, <2>3, MovesOK, PageTold, PageStepOK DEF APIInv
<1>5. ASSUME NEW r \in Request, SettingsStep(r), UNCHANGED pageVars
      PROVE  APIInv'
  <2>1. Moves(r, SettingsStages, SettingsStages \union {"died"})
    BY <1>5, SettingsMoves
  <2>2. /\ \A q \in Request \ {r} : pc'[q] = pc[q]
        /\ pc[r] \in SettingsStages
    BY <1>1, <2>1, MovesOne DEF Moves
  <2>3. PageInv'
    BY <1>1, <1>5, <2>2, PageFrame DEF SettingsStages, Ended
  <2> QED
    BY <1>1, <1>5, <2>1, <2>3, MovesOK, OtherTold, SettingsStepOK DEF APIInv
<1>6. ASSUME SaveStep, UNCHANGED settingsVars
      PROVE  APIInv'
  <2>1. UNCHANGED <<requestVars, shown>> /\ PageInv'
    BY <1>1, <1>6, SaveOK DEF SaveStep, Save, SaveFails
  <2>2. UNCHANGED <<config, pc, route, bearer, status, shown>>
    BY <2>1 DEF requestVars
  <2>3. RequestInv' /\ FailuresAreTold'
    BY <1>1, <2>2 DEF RequestInv, RequestTypes, StagesFit, NothingWithoutToken, FailuresAreTold
  <2>4. SettingsInv'
    BY <1>1, <1>6, <2>2, SettingsKept
  <2> QED
    BY <2>1, <2>3, <2>4 DEF APIInv
<1>7. ASSUME UNCHANGED vars PROVE APIInv'
  <2>1. UNCHANGED <<requestVars, pageVars, settingsVars>>
    BY <1>7 DEF vars
  <2>2. UNCHANGED <<config, pc, route, bearer, status>>
    BY <2>1 DEF requestVars
  <2>3. RequestInv' /\ FailuresAreTold'
    BY <1>1, <2>1, <2>2 DEF RequestInv, RequestTypes, StagesFit, NothingWithoutToken,
       FailuresAreTold, pageVars
  <2>4. PageInv' /\ SettingsInv'
    BY <1>1, <2>1, <2>2, PageFrame, SettingsKept
  <2> QED
    BY <2>3, <2>4 DEF APIInv
<1> QED
  BY <1>2, <1>3, <1>4, <1>5, <1>6, <1>7 DEF APINext, Serve

LEMMA APIInvariance == APISpec => []APIInv
<1> QED
  BY APIInitOK, APINextOK, PTL DEF APISpec

\* Every variable of the API keeps its type (APITypeOK), whatever requests
\* come in and however their handlers and the saves interleave.
THEOREM APITypeCorrect == APISpec => []APITypeOK
<1>1. APIInv => APITypeOK
  BY DEF APIInv, RequestInv, PageInv, SettingsInv, APITypeOK
<1> QED
  BY <1>1, APIInvariance, PTL

\* Behind a key nothing happens for a request without a valid token
\* (withAuthIfEnabled on every route of InitMux that is not open).
THEOREM RequestsNeedTokens == APISpec => []NothingWithoutToken
<1>1. APIInv => NothingWithoutToken
  BY DEF APIInv, RequestInv
<1> QED
  BY <1>1, APIInvariance, PTL

\* No answer loses fields of a page to the save that runs beside it
\* (URLDataStore.Save marks a copy).
THEOREM AnswersLoseNothing == APISpec => []AnswersAreWhole
<1>1. APIInv => AnswersAreWhole
  BY DEF APIInv, PageInv
<1> QED
  BY <1>1, APIInvariance, PTL

\* Only pages with content, fetched directly, get into the store
\* (StorageBackedFetcher.Fetch returns before the save when there is an error).
THEOREM StoreHasGoodPages == APISpec => []OnlyGoodPagesStored
<1>1. APIInv => OnlyGoodPagesStored
  BY DEF APIInv, PageInv
<1> QED
  BY <1>1, APIInvariance, PTL

\* After a DELETE that no save of the URL overlaps, only a new fetch brings a row
\* of the URL back (URLDataStore.Delete and Save).
THEOREM DeletesLast == APISpec => []DeletedUntilFetched
<1>1. APIInv => DeletedUntilFetched
  BY DEF APIInv, PageInv
<1> QED
  BY <1>1, APIInvariance, PTL

\* An extract that says success has content or tells the site's error
\* (Server.extract, extractWithFetcher).
THEOREM SuccessIsTrue == APISpec => []FailuresAreTold
<1>1. APIInv => FailuresAreTold
  BY DEF APIInv
<1> QED
  BY <1>1, APIInvariance, PTL

\* A GET that answers has the latest settings (extractDomainFromPath and
\* DomainSettingsStorage agree on the spelling of the domain).
LEMMA GetIsLatest ==
  ASSUME APIInv, [APINext]_vars, NEW r \in Request,
         pc[r] = "get", pc'[r] = "done", status'[r] # 500
  PROVE  IF latest[domain[r].name] = NoRow
         THEN status'[r] = 404
         ELSE status'[r] = 200 /\ output'[r] \in Marshalled(latest[domain[r].name])
<1>1. RequestInv /\ SettingsInv /\ RequestTypes /\ SettingsTypes
  BY DEF APIInv, RequestInv, SettingsInv
<1>2. ASSUME NEW q \in Request, Moves(q, PageStages, PageStages)
                             \/ (SettingsStep(q) /\ q # r)
                             \/ (\E rt \in Route : Arrive(q, rt)) \/ RequestStep(q)
      PROVE  pc'[r] = pc[r]
  <2>1. CASE q = r
    BY <1>2, <2>1 DEF Moves, PageStages, Arrive, RequestStep, Authorize, Health, Unavailable
  <2>2. CASE q # r
    <3>1. CASE Moves(q, PageStages, PageStages) \/ SettingsStep(q)
      BY <1>1, <2>2, <3>1, SettingsMoves, MovesOne
    <3>2. CASE (\E rt \in Route : Arrive(q, rt)) \/ RequestStep(q)
      BY <1>1, <2>2, <3>2 DEF Arrive, RequestStep, Authorize, Health, Unavailable, Reply, RequestTypes
    <3> QED
      BY <1>2, <3>1, <3>2
  <2> QED
    BY <2>1, <2>2
<1>3. ASSUME SaveStep \/ UNCHANGED vars PROVE pc'[r] = pc[r]
  BY <1>3 DEF SaveStep, Save, SaveFails, vars, requestVars
<1>4. SettingsStep(r)
  BY <1>1, <1>2, <1>3, PageMoves DEF APINext, Serve
<1>5. GetSettings(r)
  <2>1. status'[r] # 500 => ~SettingsFail(r)
    BY <1>1 DEF SettingsFail, Reply, RequestTypes
  <2> QED
    BY <1>4, <2>1 DEF SettingsStep, RejectSettings, AcceptDomain, AcceptSettings, PutSettings,
       RemoveSettings, AcceptQuery, Search, SearchPanics
<1>6. domain[r] \in Spelling /\ domain[r] = Lower(domain[r])
  BY <1>1 DEF SettingsTypes, SettingsInv, DomainsAreLower
<1>7. domain[r] = [name |-> domain[r].name, upper |-> FALSE] /\ domain[r].name \in Domain
  <2> DEFINE d == domain[r]
  <2> HIDE DEF d
  <2>1. d \in Spelling /\ d = Lower(d)
    BY <1>6 DEF d
  <2>2. Lower(d) = [name |-> d.name, upper |-> FALSE] /\ d.name \in Domain
    BY <2>1, LowerIs
  <2> QED
    BY <2>1, <2>2 DEF d
<1>8. IF latest[domain[r].name] = NoRow
      THEN table[domain[r]] = NoRow
      ELSE table[domain[r]] \in Marshalled(latest[domain[r].name])
  BY <1>1, <1>7 DEF SettingsInv, TableTellsLatest
<1>9. CASE latest[domain[r].name] = NoRow
  <2>1. Reply(r, 404)
    BY <1>5, <1>8, <1>9 DEF GetSettings
  <2> QED
    BY <1>1, <1>9, <2>1 DEF Reply, RequestTypes
<1>10. CASE latest[domain[r].name] # NoRow
  <2>1. latest[domain[r].name] \in Settings
    BY <1>1, <1>7, <1>10 DEF SettingsTypes
  <2>2. table[domain[r]] # NoRow
    BY <1>8, <1>10, <2>1, MarshalledIs, SettingsAssumption
  <2>3. Reply(r, 200) /\ output' = [output EXCEPT ![r] = table[domain[r]]]
    BY <1>5, <2>2 DEF GetSettings
  <2>4. status'[r] = 200 /\ output'[r] = table[domain[r]]
    BY <1>1, <2>3 DEF Reply, RequestTypes, SettingsTypes
  <2> QED
    BY <1>8, <1>10, <2>4
<1> QED
  BY <1>9, <1>10

\* GetsLatest: a GET has what the last PUT or DELETE for the domain left, in
\* whichever spelling each of them came.
THEOREM SettingsReadLatest == APISpec => GetsLatest
<1>1. APIInv /\ [APINext]_vars =>
        [\A r \in Request :
           pc[r] = "get" /\ pc'[r] = "done" /\ status'[r] # 500 =>
             IF latest[domain[r].name] = NoRow
             THEN status'[r] = 404
             ELSE status'[r] = 200 /\ output'[r] \in Marshalled(latest[domain[r].name])]_vars
  BY GetIsLatest
<1> QED
  BY <1>1, APIInvariance, PTL DEF APISpec, GetsLatest

-----------------------------------------------------------------------------
(***************************************************************************)
(* What is left of RequestsEnd without fairness: no step of a request is   *)
(* taken in vain, so that none of them can go on for ever.                 *)
(***************************************************************************)
\* The bound counts pages to encode and saves, so they have to be finite; and
\* only a request that is at its pages has any.
ProgressInv ==
  /\ \A r \in Request : IsFiniteSet(got[r])
  /\ \A r \in Request : pc[r] # "pages" => got[r] = {}
  /\ IsFiniteSet(saves)

\* One request comes nearer to its end, the others stay where they are.
Advances(r) ==
  /\ StepsLeft(r)' \in Nat /\ StepsLeft(r)' < StepsLeft(r)
  /\ \A q \in Request \ {r} : StepsLeft(q)' = StepsLeft(q)

\* Sets of URLs have at most as many elements as there are URLs.
LEMMA URLsCounted ==
  ASSUME NEW S \in SUBSET Url
  PROVE  /\ Cardinality(Url) \in Nat
         /\ IsFiniteSet(S) /\ Cardinality(S) \in Nat /\ Cardinality(S) <= Cardinality(Url)
BY URLAssumption, FS_Subset, FS_CardinalityType

\* The stages get cheaper from one to the next.
LEMMA StagesGoDown ==
  /\ Cardinality(Url) \in Nat
  /\ \A stage : StageSteps(stage) \in Nat
  /\ \A stage \in Stage \ (Ended \union {"pages"}) : StageSteps(stage) > 0
  /\ \A stage \in Ended : StageSteps(stage) = 0
  /\ \A stage : StageSteps(stage) < StageSteps("idle") \/ stage = "idle"
  /\ \A stage \in {"payload", "query", "domain"} : StageSteps(stage) < StageSteps("auth")
  /\ \A stage \in {"headless", "feed", "delete"} : StageSteps(stage) < StageSteps("payload")
  /\ \A stage \in {"get", "body", "remove"} : StageSteps(stage) < StageSteps("domain")
  /\ StageSteps("put") < StageSteps("body") /\ StageSteps("search") < StageSteps("query")
  /\ StageSteps("payload") > 3 * Cardinality(Url) + 1
  /\ StageSteps("feed") > 3 * Cardinality(Url) + 1
  /\ StageSteps("headless") > 2
<1>1. Cardinality(Url) \in Nat
  BY URLsCounted
<1> QED
  BY <1>1 DEF StageSteps, Stage, Ended

\* StepsLeft of the next state.
LEMMA StepsThen ==
  ASSUME NEW r \in Request
  PROVE  StepsLeft(r)' =
           IF pc'[r] = "pages"
           THEN 3 * Cardinality(todo'[r]) + 2 * Cardinality(missing'[r]) + Cardinality(got'[r]) + 1
           ELSE StageSteps(pc'[r])
BY DEF StepsLeft, StageSteps

\* A step is of one request if it changes no other's stage, URLs and pages.
LEMMA OneAdvances ==
  ASSUME ProgressInv, NEW r \in Request,
         \A q \in Request \ {r} : /\ pc'[q] = pc[q] /\ got'[q] = got[q]
                                  /\ todo'[q] = todo[q] /\ missing'[q] = missing[q],
         IsFiniteSet(saves'), IsFiniteSet(got'[r]), pc'[r] # "pages" => got'[r] = {},
         StepsLeft(r)' \in Nat, StepsLeft(r)' < StepsLeft(r)
  PROVE  ProgressInv' /\ Advances(r)
<1>1. ProgressInv'
  BY DEF ProgressInv
<1>2. \A q \in Request \ {r} : StepsLeft(q)' = StepsLeft(q)
  BY StepsThen DEF StepsLeft
<1> QED
  BY <1>1, <1>2 DEF Advances

\* A request goes to a cheaper stage, with its pages as they are.
LEMMA MoveAdvances ==
  ASSUME RequestTypes, ProgressInv, NEW r \in Request, NEW stage,
         pc' = [pc EXCEPT ![r] = stage], stage # "pages", got[r] = {},
         StageSteps(stage) < StepsLeft(r), UNCHANGED <<todo, missing, got, saves>>
  PROVE  ProgressInv' /\ Advances(r)
<1>1. pc'[r] = stage /\ \A q \in Request \ {r} : pc'[q] = pc[q]
  BY DEF RequestTypes
<1>2. StepsLeft(r)' = StageSteps(stage) /\ StageSteps(stage) \in Nat
  BY <1>1, StepsThen, StagesGoDown
<1>3. IsFiniteSet(saves') /\ IsFiniteSet(got'[r])
  BY DEF ProgressInv
<1> QED
  BY <1>1, <1>2, <1>3, OneAdvances

\* A reply ends its request, wherever it is but at the very start.
LEMMA ReplyAdvances ==
  ASSUME RequestTypes, ProgressInv, NEW r \in Request, NEW code, Reply(r, code),
         pc[r] \notin Ended \union {"pages"}, UNCHANGED <<todo, missing, got, saves>>
  PROVE  ProgressInv' /\ Advances(r)
<1>1. got[r] = {} /\ pc[r] \in Stage
  BY DEF ProgressInv, RequestTypes, Ended
<1>2. StageSteps("done") < StepsLeft(r)
  BY <1>1, StagesGoDown DEF StepsLeft, Ended
<1> QED
  BY <1>1, <1>2, MoveAdvances DEF Reply, Ended

\* Entry, authorization and the two open handlers.
LEMMA EntryAdvances ==
  ASSUME RequestInv, ProgressInv, NEW r \in Request,
         (\E rt \in Route : Arrive(r, rt)) \/ RequestStep(r),
         UNCHANGED <<todo, missing, got, saves>>
  PROVE  ProgressInv' /\ Advances(r)
<1>1. RequestTypes /\ StagesFit
  BY DEF RequestInv
<1>2. ASSUME NEW rt \in Route, Arrive(r, rt) PROVE ProgressInv' /\ Advances(r)
  <2>1. Entry(rt) \in {"health", "unavailable", "auth", "payload", "query", "domain"}
    BY <1>2 DEF Entry, FirstStage
  <2>2. pc[r] = "idle" /\ pc' = [pc EXCEPT ![r] = Entry(rt)]
    BY <1>2 DEF Arrive
  <2>3. StageSteps(Entry(rt)) < StepsLeft(r) /\ Entry(rt) # "pages" /\ got[r] = {}
    BY <2>1, <2>2, StagesGoDown DEF StepsLeft, ProgressInv
  <2> QED
    BY <1>1, <2>2, <2>3, MoveAdvances
<1>3. ASSUME NEW header, NEW cookie, Authorize(r, header, cookie) PROVE ProgressInv' /\ Advances(r)
  <2>1. FirstStage(route[r]) \in {"payload", "query", "domain"}
    BY DEF FirstStage
  <2>2. /\ pc[r] = "auth"
        /\ \E stage \in {FirstStage(route[r]), "done"} : pc' = [pc EXCEPT ![r] = stage]
    BY <1>3 DEF Authorize
  <2>3. PICK stage \in {"payload", "query", "domain", "done"} : pc' = [pc EXCEPT ![r] = stage]
    BY <2>1, <2>2
  <2>4. StageSteps(stage) < StepsLeft(r) /\ got[r] = {}
    BY <2>2, <2>3, StagesGoDown DEF StepsLeft, ProgressInv, Stage, Ended
  <2> QED
    BY <1>1, <2>3, <2>4, MoveAdvances
<1>4. ASSUME Health(r) \/ Unavailable(r) PROVE ProgressInv' /\ Advances(r)
  BY <1>1, <1>4, ReplyAdvances DEF Health, Unavailable, Ended
<1> QED
  BY <1>2, <1>3, <1>4 DEF RequestStep

\* The settings' handlers have a fixed number of stages.
LEMMA SettingsAdvance ==
  ASSUME RequestInv, ProgressInv, NEW r \in Request, SettingsStep(r), UNCHANGED pageVars
  PROVE  ProgressInv' /\ Advances(r)
<1>1. RequestTypes /\ UNCHANGED <<todo, missing, got, saves>>
  BY DEF RequestInv, pageVars
<1>2. ASSUME pc[r] # "pages" PROVE got[r] = {} /\ StepsLeft(r) = StageSteps(pc[r])
  BY <1>2 DEF ProgressInv, StepsLeft
<1>3. ASSUME NEW stage, Goto(r, stage), stage # "pages", pc[r] # "pages",
             StageSteps(stage) < StageSteps(pc[r])
      PROVE  ProgressInv' /\ Advances(r)
  BY <1>1, <1>2, <1>3, MoveAdvances DEF Goto
<1>4. ASSUME NEW code, Reply(r, code), pc[r] \in SettingsStages PROVE ProgressInv' /\ Advances(r)
  BY <1>1, <1>4, ReplyAdvances DEF SettingsStages, Ended
<1>5. ASSUME RejectSettings(r) \/ SettingsFail(r) \/ GetSettings(r) \/ PutSettings(r)
               \/ RemoveSettings(r) \/ Search(r)
      PROVE  ProgressInv' /\ Advances(r)
  BY <1>4, <1>5 DEF RejectSettings, SettingsFail, GetSettings, PutSettings, RemoveSettings, Search,
     SettingsStages
<1>6. ASSUME NEW x, AcceptDomain(r, x) PROVE ProgressInv' /\ Advances(r)
  <2>1. pc[r] = "domain" /\ \E stage \in {"get", "body", "remove"} : Goto(r, stage)
    BY <1>6 DEF AcceptDomain
  <2> QED
    BY <1>3, <2>1, StagesGoDown
<1>7. ASSUME NEW s, AcceptSettings(r, s) PROVE ProgressInv' /\ Advances(r)
  BY <1>3, <1>7, StagesGoDown DEF AcceptSettings
<1>8. ASSUME NEW offset, NEW limit, AcceptQuery(r, offset, limit) PROVE ProgressInv' /\ Advances(r)
  BY <1>3, <1>8, StagesGoDown DEF AcceptQuery
<1>9. ASSUME SearchPanics(r) PROVE ProgressInv' /\ Advances(r)
  <2>1. StageSteps("died") < StageSteps("search")
    BY StagesGoDown DEF Stage, Ended
  <2> QED
    BY <1>3, <1>9, <2>1 DEF SearchPanics
<1> QED
  BY <1>5, <1>6, <1>7, <1>8, <1>9 DEF SettingsStep

\* What a request has to look up, to fetch and to encode.
Counted(r) ==
  /\ IsFiniteSet(todo[r]) /\ Cardinality(todo[r]) \in Nat
  /\ Cardinality(todo[r]) <= Cardinality(Url)
  /\ IsFiniteSet(missing[r]) /\ Cardinality(missing[r]) \in Nat
  /\ IsFiniteSet(got[r]) /\ Cardinality(got[r]) \in Nat

LEMMA AllCounted ==
  ASSUME PageTypes, NEW r \in Request, IsFiniteSet(got[r])
  PROVE  Counted(r)
<1>1. todo[r] \in SUBSET Url /\ missing[r] \in SUBSET Url
  BY DEF PageTypes
<1> QED
  BY <1>1, URLsCounted, FS_CardinalityType DEF Counted

\* One more or one less.
LEMMA OneMore ==
  ASSUME NEW S, NEW x, IsFiniteSet(S)
  PROVE  /\ IsFiniteSet(S \union {x}) /\ Cardinality(S \union {x}) <= Cardinality(S) + 1
         /\ Cardinality(S \union {x}) \in Nat /\ Cardinality(S) \in Nat
BY FS_AddElement, FS_CardinalityType

LEMMA OneLess ==
  ASSUME NEW S, NEW x \in S, IsFiniteSet(S)
  PROVE  /\ IsFiniteSet(S \ {x}) /\ Cardinality(S \ {x}) = Cardinality(S) - 1
         /\ Cardinality(S \ {x}) \in Nat /\ Cardinality(S) \in Nat
BY FS_RemoveElement, FS_CardinalityType

LEMMA Nothing == IsFiniteSet({}) /\ Cardinality({}) = 0
BY FS_EmptySet

\* At its pages a request advances when the sum of its work gets smaller.
LEMMA PagesAdvance ==
  ASSUME RequestTypes, PageTypes, PageTypes', ProgressInv, NEW r \in Request,
         pc[r] = "pages", Goto(r, "pages"), IsFiniteSet(saves'), IsFiniteSet(got'[r]),
         \A q \in Request \ {r} : got'[q] = got[q] /\ todo'[q] = todo[q] /\ missing'[q] = missing[q],
         3 * Cardinality(todo'[r]) + 2 * Cardinality(missing'[r]) + Cardinality(got'[r])
           < 3 * Cardinality(todo[r]) + 2 * Cardinality(missing[r]) + Cardinality(got[r])
  PROVE  ProgressInv' /\ Advances(r)
<1>1. pc' = pc
  BY DEF Goto, RequestTypes
<1>2. Counted(r)
  BY AllCounted DEF ProgressInv
<1>3. /\ Cardinality(todo'[r]) \in Nat /\ Cardinality(missing'[r]) \in Nat
      /\ Cardinality(got'[r]) \in Nat
  <2>1. todo'[r] \in SUBSET Url /\ missing'[r] \in SUBSET Url
    BY DEF PageTypes
  <2> QED
    BY <2>1, URLsCounted, FS_CardinalityType
<1> DEFINE before == 3 * Cardinality(todo[r]) + 2 * Cardinality(missing[r]) + Cardinality(got[r])
           after == 3 * Cardinality(todo'[r]) + 2 * Cardinality(missing'[r]) + Cardinality(got'[r])
<1>4. before \in Nat /\ after \in Nat /\ after < before
  BY <1>2, <1>3 DEF Counted
<1>5. StepsLeft(r) = before + 1
  BY DEF StepsLeft
<1>6. StepsLeft(r)' = after + 1
  BY <1>1, StepsThen
<1> HIDE DEF before, after
<1>7. StepsLeft(r)' \in Nat /\ StepsLeft(r)' < StepsLeft(r)
  BY <1>4, <1>5, <1>6
<1> QED
  BY <1>1, <1>7, OneAdvances

\* A lookup takes its URL off the list and adds a page or a URL to fetch at most.
LEMMA LookupAdvances ==
  ASSUME RequestTypes, PageTypes, PageTypes', ProgressInv, NEW r \in Request, NEW u,
         LookupHits(r, u) \/ LookupMisses(r, u) \/ LookupFails(r, u)
  PROVE  ProgressInv' /\ Advances(r)
<1>1. pc[r] = "pages" /\ u \in todo[r] /\ Goto(r, "pages") /\ saves' = saves
  BY DEF LookupHits, LookupMisses, LookupFails
<1>2. Counted(r) /\ IsFiniteSet(saves')
  BY <1>1, AllCounted DEF ProgressInv
<1>3. /\ todo' = [todo EXCEPT ![r] = @ \ {u}]
      /\ todo'[r] = todo[r] \ {u}
      /\ Cardinality(todo'[r]) = Cardinality(todo[r]) - 1
  <2>1. todo' = [todo EXCEPT ![r] = @ \ {u}] /\ todo'[r] = todo[r] \ {u}
    BY DEF PageTypes, LookupHits, LookupMisses, LookupFails
  <2> QED
    BY <1>1, <1>2, <2>1, OneLess DEF Counted
<1>4. CASE LookupHits(r, u)
  <2>1. /\ missing' = missing
        /\ got' = [got EXCEPT ![r] = @ \union {StoredPage(u)}]
        /\ got'[r] = got[r] \union {StoredPage(u)}
    BY <1>4 DEF LookupHits, PageTypes
  <2>2. IsFiniteSet(got'[r]) /\ Cardinality(got'[r]) \in Nat /\ Cardinality(got'[r]) <= Cardinality(got[r]) + 1
    <3>1. IsFiniteSet(got[r])
      BY <1>2 DEF Counted
    <3> QED
      BY <2>1, <3>1, OneMore
  <2>3. \A q \in Request \ {r} : got'[q] = got[q] /\ todo'[q] = todo[q] /\ missing'[q] = missing[q]
    BY <1>3, <2>1 DEF PageTypes
  <2>4. 3 * Cardinality(todo'[r]) + 2 * Cardinality(missing'[r]) + Cardinality(got'[r])
          < 3 * Cardinality(todo[r]) + 2 * Cardinality(missing[r]) + Cardinality(got[r])
    BY <1>2, <1>3, <2>1, <2>2 DEF Counted
  <2> QED
    BY <1>1, <1>2, <2>2, <2>3, <2>4, PagesAdvance
<1>5. CASE LookupMisses(r, u) \/ LookupFails(r, u)
  <2>1. got' = got /\ missing' \in {missing, [missing EXCEPT ![r] = @ \union {u}]}
    BY <1>5 DEF LookupMisses, LookupFails
  <2>2. missing'[r] \in {missing[r], missing[r] \union {u}}
    BY <2>1 DEF PageTypes
  <2>3. Cardinality(missing'[r]) \in Nat /\ Cardinality(missing'[r]) <= Cardinality(missing[r]) + 1
    <3>1. IsFiniteSet(missing[r])
      BY <1>2 DEF Counted
    <3>2. /\ Cardinality(missing[r]) \in Nat /\ Cardinality(missing[r] \union {u}) \in Nat
          /\ Cardinality(missing[r] \union {u}) <= Cardinality(missing[r]) + 1
      BY <3>1, OneMore
    <3> QED
      BY <2>2, <3>2
  <2>4. \A q \in Request \ {r} : got'[q] = got[q] /\ todo'[q] = todo[q] /\ missing'[q] = missing[q]
    BY <1>3, <2>1 DEF PageTypes
  <2>5. 3 * Cardinality(todo'[r]) + 2 * Cardinality(missing'[r]) + Cardinality(got'[r])
          < 3 * Cardinality(todo[r]) + 2 * Cardinality(missing[r]) + Cardinality(got[r])
    BY <1>2, <1>3, <2>1, <2>3 DEF Counted
  <2>6. IsFiniteSet(got'[r])
    BY <1>2, <2>1 DEF Counted
  <2> QED
    BY <1>1, <1>2, <2>4, <2>5, <2>6, PagesAdvance
<1> QED
  BY <1>4, <1>5

\* A fetch makes a page out of a URL that was missing.
LEMMA FetchAdvances ==
  ASSUME RequestTypes, PageTypes, PageTypes', ProgressInv, NEW r \in Request, NEW u, NEW c,
         NEW outcome, FetchPage(r, u, c, outcome) \/ FetchUnstored(r, u, c, outcome)
  PROVE  ProgressInv' /\ Advances(r)
<1> DEFINE page == Fetched(r, u, c, outcome, "direct")
<1>1. /\ pc[r] = "pages" /\ u \in missing[r] /\ Goto(r, "pages")
      /\ missing' = [missing EXCEPT ![r] = @ \ {u}]
      /\ got' = [got EXCEPT ![r] = @ \union {page}]
      /\ saves' \in {saves, saves \union {page}}
      /\ todo' = todo
  BY DEF FetchPage, FetchUnstored, Obtain, BeginSave
<1> HIDE DEF page
<1>2. Counted(r) /\ IsFiniteSet(saves)
  BY AllCounted DEF ProgressInv
<1>3. missing'[r] = missing[r] \ {u} /\ got'[r] = got[r] \union {page}
  BY <1>1 DEF PageTypes
<1>4. Cardinality(missing'[r]) = Cardinality(missing[r]) - 1
  BY <1>1, <1>2, <1>3, OneLess DEF Counted
<1>5. IsFiniteSet(got'[r]) /\ Cardinality(got'[r]) \in Nat /\ Cardinality(got'[r]) <= Cardinality(got[r]) + 1
  <2>1. IsFiniteSet(got[r])
    BY <1>2 DEF Counted
  <2>2. /\ IsFiniteSet(got[r] \union {page}) /\ Cardinality(got[r] \union {page}) \in Nat
        /\ Cardinality(got[r] \union {page}) <= Cardinality(got[r]) + 1
    BY <2>1, OneMore
  <2> QED
    BY <1>3, <2>2
<1>6. IsFiniteSet(saves')
  BY <1>1, <1>2, OneMore
<1>7. \A q \in Request \ {r} : got'[q] = got[q] /\ todo'[q] = todo[q] /\ missing'[q] = missing[q]
  BY <1>1 DEF PageTypes
<1>8. 3 * Cardinality(todo'[r]) + 2 * Cardinality(missing'[r]) + Cardinality(got'[r])
        < 3 * Cardinality(todo[r]) + 2 * Cardinality(missing[r]) + Cardinality(got[r])
  BY <1>1, <1>2, <1>4, <1>5 DEF Counted
<1> QED
  BY <1>1, <1>5, <1>6, <1>7, <1>8, PagesAdvance

\* A page is encoded once.
LEMMA EncodeAdvances ==
  ASSUME RequestTypes, PageTypes, PageTypes', ProgressInv, NEW r \in Request, NEW page,
         EncodePage(r, page)
  PROVE  ProgressInv' /\ Advances(r)
<1>1. /\ pc[r] = "pages" /\ page \in got[r] /\ Goto(r, "pages")
      /\ got' = [got EXCEPT ![r] = @ \ {page}]
      /\ UNCHANGED <<saves, todo, missing>>
  BY DEF EncodePage
<1>2. Counted(r) /\ IsFiniteSet(saves')
  BY <1>1, AllCounted DEF ProgressInv
<1>3. got'[r] = got[r] \ {page}
  BY <1>1 DEF PageTypes
<1>4. IsFiniteSet(got'[r]) /\ Cardinality(got'[r]) = Cardinality(got[r]) - 1
  BY <1>1, <1>2, <1>3, OneLess DEF Counted
<1>5. \A q \in Request \ {r} : got'[q] = got[q] /\ todo'[q] = todo[q] /\ missing'[q] = missing[q]
  BY <1>1 DEF PageTypes
<1>6. 3 * Cardinality(todo'[r]) + 2 * Cardinality(missing'[r]) + Cardinality(got'[r])
        < 3 * Cardinality(todo[r]) + 2 * Cardinality(missing[r]) + Cardinality(got[r])
  BY <1>1, <1>2, <1>4 DEF Counted
<1> QED
  BY <1>1, <1>2, <1>4, <1>5, <1>6, PagesAdvance

\* A request that gets its URLs has no more of them than there are.
LEMMA StartAdvances ==
  ASSUME PageTypes', LookedUpOnce, ProgressInv, NEW r \in Request, pc[r] \in {"payload", "feed"},
         \A q \in Request \ {r} : pc'[q] = pc[q] /\ todo'[q] = todo[q],
         pc'[r] = "pages" \/ StageSteps(pc'[r]) < StageSteps(pc[r]),
         UNCHANGED <<missing, got, saves>>
  PROVE  ProgressInv' /\ Advances(r)
<1>1. missing'[r] = {} /\ got'[r] = {} /\ IsFiniteSet(saves') /\ IsFiniteSet(got'[r])
  BY Nothing DEF ProgressInv, LookedUpOnce, Ended
<1>2. StepsLeft(r) = StageSteps(pc[r])
  BY DEF StepsLeft
<1>3. StepsLeft(r)' \in Nat /\ StepsLeft(r)' < StepsLeft(r)
  <2>1. CASE pc'[r] = "pages"
    <3>1. StepsLeft(r)' = 3 * Cardinality(todo'[r]) + 2 * 0 + 0 + 1
      BY <1>1, <2>1, StepsThen, Nothing
    <3>2. /\ Cardinality(Url) \in Nat /\ Cardinality(todo'[r]) \in Nat
          /\ Cardinality(todo'[r]) <= Cardinality(Url)
      <4>1. todo'[r] \in SUBSET Url
        BY DEF PageTypes
      <4> QED
        BY <4>1, URLsCounted
    <3>3. StageSteps(pc[r]) \in Nat /\ StageSteps(pc[r]) > 3 * Cardinality(Url) + 1
      BY StagesGoDown
    <3> QED
      BY <1>2, <3>1, <3>2, <3>3
  <2>2. CASE pc'[r] # "pages"
    <3>1. StepsLeft(r)' = StageSteps(pc'[r])
      BY <2>2, StepsThen
    <3> QED
      BY <1>2, <2>2, <3>1, StagesGoDown
  <2> QED
    BY <2>1, <2>2
<1> QED
  BY <1>1, <1>3, OneAdvances

\* The payload, with one URL or several, and the links of a feed.
LEMMA AcceptAdvances ==
  ASSUME RequestInv, PageTypes, PageTypes', LookedUpOnce, ProgressInv, NEW r \in Request,
         \/ \E urls \in Lists : AcceptURLs(r, urls) \/ FetchFeed(r, urls)
         \/ \E u \in Url : AcceptURL(r, u)
  PROVE  ProgressInv' /\ Advances(r)
<1> DEFINE Later == {"pages", "headless", "feed", "delete", "done"}
<1>1. \/ pc[r] = "payload" /\ \E stage \in Later : pc' = [pc EXCEPT ![r] = stage]
      \/ pc[r] = "feed" /\ \E stage \in {"pages", "done"} : pc' = [pc EXCEPT ![r] = stage]
  <2>1. ASSUME NEW urls \in Lists, AcceptURLs(r, urls) \/ FetchFeed(r, urls)
        PROVE  <1>1
    BY <2>1 DEF AcceptURLs, FetchFeed, StartBatch, Goto, Reply
  <2>2. ASSUME NEW u \in Url, AcceptURL(r, u)
        PROVE  <1>1
    <3>1. route[r] \in PageRoute \ {"batch"}
      BY <2>2 DEF AcceptURL, RequestInv, StagesFit
    <3>2. (\E stage \in {"pages", "headless", "feed", "delete"} : Goto(r, stage)) \/ Reply(r, 503)
      BY <2>2, <3>1 DEF AcceptURL, PageRoute
    <3> QED
      BY <2>2, <3>2 DEF AcceptURL, Goto, Reply
  <2> QED
    BY <2>1, <2>2
<1>2. /\ \E urls : todo' = [todo EXCEPT ![r] = urls]
      /\ UNCHANGED <<missing, got, saves>>
  BY DEF AcceptURLs, FetchFeed, StartBatch, AcceptURL
<1>3. \A q \in Request \ {r} : pc'[q] = pc[q] /\ todo'[q] = todo[q]
  BY <1>1, <1>2 DEF RequestInv, RequestTypes, PageTypes
<1>4. \/ pc[r] = "payload" /\ pc'[r] \in Later
      \/ pc[r] = "feed" /\ pc'[r] \in {"pages", "done"}
  BY <1>1 DEF RequestInv, RequestTypes
<1>5. pc'[r] = "pages" \/ StageSteps(pc'[r]) < StageSteps(pc[r])
  BY <1>4, StagesGoDown DEF Stage, Ended
<1> QED
  BY <1>2, <1>3, <1>4, <1>5, StartAdvances

\* A headless request comes back with its page.
LEMMA HeadlessAdvances ==
  ASSUME RequestTypes, PageTypes, LookedUpOnce, ProgressInv, NEW r \in Request, NEW u, NEW c,
         NEW outcome, FetchHeadless(r, u, c, outcome)
  PROVE  ProgressInv' /\ Advances(r)
<1> DEFINE page == Fetched(r, u, c, outcome, "headless")
<1>1. /\ pc[r] = "headless" /\ pc' = [pc EXCEPT ![r] = "pages"]
      /\ todo' = [todo EXCEPT ![r] = {}] /\ got' = [got EXCEPT ![r] = {page}]
      /\ UNCHANGED <<missing, saves>>
  BY DEF FetchHeadless, Goto
<1> HIDE DEF page
<1>2. pc'[r] = "pages" /\ todo'[r] = {} /\ missing'[r] = {} /\ got'[r] = {page}
  BY <1>1 DEF RequestTypes, PageTypes, LookedUpOnce, Ended
<1>3. \A q \in Request \ {r} : /\ pc'[q] = pc[q] /\ got'[q] = got[q]
                               /\ todo'[q] = todo[q] /\ missing'[q] = missing[q]
  BY <1>1 DEF RequestTypes, PageTypes
<1>4. IsFiniteSet({page}) /\ Cardinality({page}) = 1
  BY FS_Singleton
<1>5. StepsLeft(r)' = 3 * 0 + 2 * 0 + 1 + 1
  BY <1>2, <1>4, StepsThen, Nothing
<1>6. StepsLeft(r) = StageSteps("headless")
  BY <1>1 DEF StepsLeft
<1>7. StepsLeft(r)' \in Nat /\ StepsLeft(r)' < StepsLeft(r)
  BY <1>5, <1>6, StagesGoDown
<1> QED
  BY <1>1, <1>2, <1>3, <1>4, <1>7, OneAdvances DEF ProgressInv

\* Replies: of a handler with nothing left to do, of a delete and of an error.
LEMMA EndAdvances ==
  ASSUME RequestTypes, ProgressInv, NEW r \in Request,
         \/ RejectPayload(r) \/ FeedFails(r) \/ DeleteFails(r) \/ Answer(r)
         \/ \E u \in Url : DeletePage(r, u)
  PROVE  ProgressInv' /\ Advances(r)
<1>1. ASSUME RejectPayload(r) \/ FeedFails(r) \/ DeleteFails(r) \/ \E u \in Url : DeletePage(r, u)
      PROVE  ProgressInv' /\ Advances(r)
  <2>1. /\ pc[r] \in {"payload", "feed", "delete"} /\ \E code : Reply(r, code)
        /\ UNCHANGED <<todo, missing, got, saves>>
    BY <1>1 DEF RejectPayload, FeedFails, DeleteFails, DeletePage, pageVars
  <2> QED
    BY <2>1, ReplyAdvances DEF Ended
<1>2. ASSUME Answer(r) PROVE ProgressInv' /\ Advances(r)
  <2>1. /\ pc[r] = "pages" /\ todo[r] = {} /\ missing[r] = {} /\ got[r] = {}
        /\ \E code : Reply(r, code)
        /\ UNCHANGED <<todo, missing, got, saves>>
    BY <1>2 DEF Answer, pageVars
  <2>2. StepsLeft(r) = 3 * 0 + 2 * 0 + 0 + 1
    BY <2>1, Nothing DEF StepsLeft
  <2>3. StageSteps("done") < StepsLeft(r)
    BY <2>2, StagesGoDown DEF Ended
  <2> QED
    BY <2>1, <2>3, MoveAdvances DEF Reply
<1> QED
  BY <1>1, <1>2

LEMMA PagesRunOut ==
  ASSUME APIInv, APIInv', ProgressInv, NEW r \in Request, PageStep(r) \/ RemoteStep(r)
  PROVE  ProgressInv' /\ Advances(r)
<1>1. RequestInv /\ RequestTypes /\ PageTypes /\ PageTypes' /\ LookedUpOnce
  BY DEF APIInv, RequestInv, PageInv
<1>2. ASSUME \/ \E urls \in Lists : AcceptURLs(r, urls) \/ FetchFeed(r, urls)
             \/ \E u \in Url : AcceptURL(r, u)
      PROVE  ProgressInv' /\ Advances(r)
  BY <1>1, <1>2, AcceptAdvances
<1>3. ASSUME NEW u \in Url, LookupHits(r, u) \/ LookupMisses(r, u) \/ LookupFails(r, u)
      PROVE  ProgressInv' /\ Advances(r)
  BY <1>1, <1>3, LookupAdvances
<1>4. ASSUME NEW u \in Url, NEW c \in Url, NEW outcome \in Outcome,
             FetchPage(r, u, c, outcome) \/ FetchUnstored(r, u, c, outcome)
      PROVE  ProgressInv' /\ Advances(r)
  BY <1>1, <1>4, FetchAdvances
<1>5. ASSUME NEW u \in Url, NEW c \in Url, NEW outcome \in Outcome, FetchHeadless(r, u, c, outcome)
      PROVE  ProgressInv' /\ Advances(r)
  BY <1>1, <1>5, HeadlessAdvances
<1>6. ASSUME NEW page \in got[r], EncodePage(r, page) PROVE ProgressInv' /\ Advances(r)
  BY <1>1, <1>6, EncodeAdvances
<1>7. ASSUME \/ RejectPayload(r) \/ FeedFails(r) \/ DeleteFails(r) \/ Answer(r)
             \/ \E u \in Url : DeletePage(r, u)
      PROVE  ProgressInv' /\ Advances(r)
  BY <1>1, <1>7, EndAdvances
<1> QED
  BY <1>2, <1>3, <1>4, <1>5, <1>6, <1>7 DEF PageStep, RemoteStep

\* Saves are of no request; there is one less of them.
SavesAdvance ==
  /\ \A q \in Request : StepsLeft(q)' = StepsLeft(q)
  /\ IsFiniteSet(saves) /\ Cardinality(saves') < Cardinality(saves)

LEMMA SavesRunOut ==
  ASSUME ProgressInv, SaveStep
  PROVE  ProgressInv' /\ SavesAdvance
<1>1. PICK page \in saves :
        saves' = saves \ {page} /\ UNCHANGED <<requestVars, todo, missing, got>>
  BY DEF SaveStep, Save, SaveFails
<1>2. UNCHANGED <<pc, todo, missing, got>>
  BY <1>1 DEF requestVars
<1>3. /\ IsFiniteSet(saves') /\ Cardinality(saves) \in Nat
      /\ Cardinality(saves') = Cardinality(saves) - 1
  <2>1. IsFiniteSet(saves)
    BY DEF ProgressInv
  <2> QED
    BY <1>1, <2>1, OneLess
<1>4. \A q \in Request : StepsLeft(q)' = StepsLeft(q)
  BY <1>2, StepsThen DEF StepsLeft
<1> QED
  BY <1>2, <1>3, <1>4 DEF ProgressInv, SavesAdvance

LEMMA ProgressNext ==
  ASSUME APIInv, APIInv', ProgressInv, [APINext]_vars
  PROVE  /\ ProgressInv'
         /\ [(\E r \in Request : Advances(r)) \/ SavesAdvance]_vars
<1>1. CASE UNCHANGED vars
  <2>1. UNCHANGED <<pc, got, saves>>
    BY <1>1 DEF vars, requestVars, pageVars
  <2> QED
    BY <1>1, <2>1 DEF ProgressInv
<1>2. ASSUME NEW r \in Request,
             \/ \E rt \in Route : Arrive(r, rt) /\ UNCHANGED <<pageVars, settingsVars>>
             \/ RequestStep(r) /\ UNCHANGED <<pageVars, settingsVars>>
      PROVE  ProgressInv' /\ Advances(r)
  <2>1. UNCHANGED <<todo, missing, got, saves>> /\ RequestInv
    BY <1>2 DEF pageVars, APIInv
  <2> QED
    BY <1>2, <2>1, EntryAdvances
<1>3. ASSUME NEW r \in Request, PageStep(r) \/ RemoteStep(r) PROVE ProgressInv' /\ Advances(r)
  BY <1>3, PagesRunOut
<1>4. ASSUME NEW r \in Request, SettingsStep(r), UNCHANGED pageVars PROVE ProgressInv' /\ Advances(r)
  BY <1>4, SettingsAdvance DEF APIInv
<1>5. CASE SaveStep
  BY <1>5, SavesRunOut
<1> QED
  BY <1>1, <1>2, <1>3, <1>4, <1>5 DEF APINext, Serve

\* RequestStepsRunOut: every handler gets through, in a number of steps that the
\* route and the number of URLs bound, and every save comes to an end.
THEOREM RequestsRunOut == APISpec => RequestStepsRunOut
<1>1. APIInit => ProgressInv
  <2> SUFFICES ASSUME APIInit PROVE ProgressInv
    OBVIOUS
  <2>1. saves = {} /\ got = [r \in Request |-> {}]
    BY DEF APIInit, PagesInit
  <2> QED
    BY <2>1, Nothing DEF ProgressInv
<1>2. APIInv /\ APIInv' /\ ProgressInv /\ [APINext]_vars => ProgressInv'
  BY ProgressNext
<1>3. ASSUME APIInv, APIInv', ProgressInv, [APINext]_vars
      PROVE  [\/ \E r \in Request :
                   /\ StepsLeft(r)' \in Nat /\ StepsLeft(r)' < StepsLeft(r)
                   /\ \A q \in Request \ {r} : StepsLeft(q)' = StepsLeft(q)
              \/ /\ \A q \in Request : StepsLeft(q)' = StepsLeft(q)
                 /\ IsFiniteSet(saves) /\ Cardinality(saves') < Cardinality(saves)]_vars
  BY <1>3, ProgressNext DEF Advances, SavesAdvance
<1> QED
  BY <1>1, <1>2, <1>3, APIInvariance, PTL DEF APISpec, RequestStepsRunOut
=============================================================================
