----------------------------- MODULE PageAnswers ----------------------------
(***************************************************************************)
(* Requests for pages: extract, its headless variant, batch, feed and      *)
(* delete.  A page is looked up in the store, fetched when it is not       *)
(* there, and saved by a goroutine of its own while the handler encodes    *)
(* the very same object.  Fetch, Save and Delete of the store are one step *)
(* each; URLDataStore has their statements, Batch the goroutines of batch. *)
(***************************************************************************)
EXTENDS Requests

CONSTANTS
  Url,     \* URLs, after CleanURL
  NoUrl,   \* no id mapping
  NoPage,  \* no row
  Earlier, \* whoever fetched the pages that are in the store at the start
  Stored,  \* requested and canonical URLs of the pages that may be there
  Outcome, \* outcomes of a fetch to consider
  Lists    \* sets of URLs that a batch or a feed may have

\* How a fetch ends: with content; with HTTP status 400 or more, 415 apart;
\* without an answer in time, or with status 504; with a content type that is
\* not supported; with another network error; with no text that the extractor
\* could find.
Outcomes == {"ok", "http", "http415", "timeout", "unsupported", "network", "notext"}

Page == [by : Request \union {Earlier}, url : Url, canonical : Url,
         outcome : Outcomes, method : {"direct", "headless"}]

ASSUME PageAssumption ==
  /\ NoUrl \notin Url
  /\ NoPage \notin Page
  /\ Earlier \notin Request
  /\ Stored \subseteq Url \X Url
  /\ Outcome \subseteq Outcomes
  /\ Lists \subseteq SUBSET Url

VARIABLES
  rows,     \* the store's pages by canonical URL
  idMap,    \* the store's mapping from requested to canonical URL
  saves,    \* pages whose save has begun
  marked,   \* page objects with a skipMap: the original, or Save's copy
  todo,     \* per request: URLs to look up; for delete and feed, the URL
  missing,  \* per request: URLs to fetch
  got,      \* per request: pages to encode
  shown,    \* per request: pages in the answer, and whether all fields were
  gone      \* history: URLs deleted with no save of theirs under way, not fetched since

pageVars == <<rows, idMap, saves, marked, todo, missing, got, shown, gone>>

\* The store holds what earlier requests left in it.
Before(u, c) ==
  [by |-> Earlier, url |-> u, canonical |-> c, outcome |-> "ok", method |-> "direct"]

PagesInit ==
  /\ \/ rows = [u \in Url |-> NoPage] /\ idMap = [u \in Url |-> NoUrl]
     \/ \E s \in Stored :
          /\ rows = [v \in Url |-> IF v = s[2] THEN Before(s[1], s[2]) ELSE NoPage]
          /\ idMap = [v \in Url |-> IF v = s[1] THEN s[2] ELSE NoUrl]
  /\ saves = {}
  /\ marked = {}
  /\ todo = [r \in Request |-> {}]
  /\ missing = [r \in Request |-> {}]
  /\ got = [r \in Request |-> {}]
  /\ shown = [r \in Request |-> {}]
  /\ gone = {}

\* The routes that answer with Server.batch.
Batched == {"batch", "feed"}

\* parseSinglePayload and DecodeJSONBody: 413 when JSON goes over MaxBytes,
\* 400 for what cannot be parsed; a form that is too large has no URL.
RejectPayload(r) ==
  /\ pc[r] = "payload"
  /\ Reply(r, 400) \/ Reply(r, 413)
  /\ UNCHANGED pageVars

\* Without a headless client ExtractHeadless answers 503, with the URL parsed.
AcceptURL(r, u) ==
  /\ pc[r] = "payload" /\ route[r] # "batch"
  /\ todo' = [todo EXCEPT ![r] = {u}]
  /\ CASE route[r] = "extract" -> Goto(r, "pages")
       [] route[r] = "headless" -> IF config.headless THEN Goto(r, "headless") ELSE Reply(r, 503)
       [] route[r] = "feed" -> Goto(r, "feed")
       [] route[r] = "delete" -> Goto(r, "delete")
  /\ UNCHANGED <<rows, idMap, saves, marked, missing, got, shown, gone>>

\* Server.batch, for the URLs of a batch or of a feed.
StartBatch(r, urls) ==
  /\ todo' = [todo EXCEPT ![r] = urls]
  /\ IF urls = {} THEN Reply(r, 422) ELSE Goto(r, "pages")
  /\ UNCHANGED <<rows, idMap, saves, marked, missing, got, shown, gone>>

AcceptURLs(r, urls) ==
  /\ pc[r] = "payload" /\ route[r] = "batch"
  /\ StartBatch(r, urls)

\* The feed's own request runs with the client's context, which has no deadline.
FetchFeed(r, links) ==
  /\ pc[r] = "feed"
  /\ StartBatch(r, links)

\* A deadline on the way, such as that of connecting, is a gateway timeout.
FeedFails(r) ==
  /\ pc[r] = "feed"
  /\ Reply(r, 422) \/ Reply(r, 504)
  /\ UNCHANGED pageVars

-----------------------------------------------------------------------------
\* The page that the store has for a URL: its own or the one it is mapped to.
StoredPage(u) == IF idMap[u] = NoUrl THEN rows[u] ELSE rows[idMap[u]]

LookupHits(r, u) ==
  /\ pc[r] = "pages" /\ u \in todo[r]
  /\ StoredPage(u) # NoPage
  /\ got' = [got EXCEPT ![r] = @ \union {StoredPage(u)}]
  /\ todo' = [todo EXCEPT ![r] = @ \ {u}]
  /\ Goto(r, "pages")
  /\ UNCHANGED <<rows, idMap, saves, marked, missing, shown, gone>>

\* Mutant: a missing URL is not taken off the list.
LookupMissesKept(r, u) ==
  /\ pc[r] = "pages" /\ u \in todo[r]
  /\ missing' = [missing EXCEPT ![r] = @ \union {u}]
  /\ Goto(r, "pages")
  /\ UNCHANGED <<rows, idMap, saves, marked, todo, got, shown, gone>>

\* There is no row, or it has expired.
LookupMisses(r, u) ==
  /\ pc[r] = "pages" /\ u \in todo[r]
  /\ missing' = [missing EXCEPT ![r] = @ \union {u}]
  /\ todo' = [todo EXCEPT ![r] = @ \ {u}]
  /\ Goto(r, "pages")
  /\ UNCHANGED <<rows, idMap, saves, marked, got, shown, gone>>

\* The store fails: Fetch returns no page at all, loadBatch only logs it.
LookupFails(r, u) ==
  /\ pc[r] = "pages" /\ u \in todo[r]
  /\ todo' = [todo EXCEPT ![r] = @ \ {u}]
  /\ Goto(r, "pages")
  /\ UNCHANGED <<rows, idMap, saves, marked, missing, got, shown, gone>>

\* Mutant: a page without content has no canonical URL.
FetchedBare(r, u, c, outcome, method) ==
  [by |-> r, url |-> u, canonical |-> IF outcome = "ok" THEN c ELSE NoUrl,
   outcome |-> outcome, method |-> method]

\* TrafilaturaFetcher.Fetch: only a page with content says what its canonical
\* URL is, and only it is complete.
Fetched(r, u, c, outcome, method) ==
  [by |-> r, url |-> u, canonical |-> IF outcome = "ok" THEN c ELSE u,
   outcome |-> outcome, method |-> method]

\* The handler has a page for a URL that was missing.
Obtain(r, u, page) ==
  /\ pc[r] = "pages" /\ u \in missing[r]
  /\ missing' = [missing EXCEPT ![r] = @ \ {u}]
  /\ got' = [got EXCEPT ![r] = @ \union {page}]
  /\ Goto(r, "pages")
  /\ UNCHANGED <<rows, idMap, marked, todo, shown>>

\* A goroutine begins to save it.
BeginSave(page) ==
  /\ saves' = saves \union {page}
  /\ gone' = gone \ {page.canonical}

\* Mutant: the save starts before the fetch's error is looked at.
FetchSavesAll(r, u, c, outcome) ==
  LET page == Fetched(r, u, c, outcome, "direct")
  IN route[r] = "extract" /\ Obtain(r, u, page) /\ BeginSave(page)

\* Fetch returns before the save if there was an error.
FetchPage(r, u, c, outcome) ==
  LET page == Fetched(r, u, c, outcome, "direct")
  IN /\ route[r] = "extract"
     /\ Obtain(r, u, page)
     /\ IF outcome = "ok" THEN BeginSave(page) ELSE UNCHANGED <<saves, gone>>

\* fetchUnstored sends a copy of the page and saves the page if there was none.
FetchUnstored(r, u, c, outcome) ==
  LET page == Fetched(r, u, c, outcome, "direct")
  IN /\ route[r] \in Batched
     /\ Obtain(r, u, page)
     /\ IF outcome = "ok" THEN BeginSave(page) ELSE UNCHANGED <<saves, gone>>

\* The headless fetcher is not backed by the store.
FetchHeadless(r, u, c, outcome) ==
  /\ pc[r] = "headless" /\ u \in todo[r]
  /\ todo' = [todo EXCEPT ![r] = {}]
  /\ got' = [got EXCEPT ![r] = {Fetched(r, u, c, outcome, "headless")}]
  /\ Goto(r, "pages")
  /\ UNCHANGED <<rows, idMap, saves, marked, missing, shown, gone>>

-----------------------------------------------------------------------------
\* Mutant: SkipWhenMarshaling without the copy.
SaveInPlace(page) ==
  /\ page \in saves
  /\ saves' = saves \ {page}
  /\ marked' = marked \union {<<page, "original">>}
  /\ rows' = [rows EXCEPT ![page.canonical] = page]
  /\ idMap' = [idMap EXCEPT ![page.url] = page.canonical]
  /\ UNCHANGED <<requestVars, todo, missing, got, shown, gone>>

\* Mutant: the row goes under the requested URL.
SaveAsRequested(page) ==
  /\ page \in saves
  /\ saves' = saves \ {page}
  /\ marked' = marked \union {<<page, "copy">>}
  /\ rows' = [rows EXCEPT ![page.url] = page]
  /\ UNCHANGED <<requestVars, idMap, todo, missing, got, shown, gone>>

\* URLDataStore.Save marks a copy of the page, so that the metadata has only
\* the fields without a column, then writes the row and the mapping.
Save(page) ==
  /\ page \in saves
  /\ saves' = saves \ {page}
  /\ marked' = marked \union {<<page, "copy">>}
  /\ rows' = [rows EXCEPT ![page.canonical] = page]
  /\ idMap' = [idMap EXCEPT ![page.url] = page.canonical]
  /\ UNCHANGED <<requestVars, todo, missing, got, shown, gone>>

\* It fails on the row, or on the mapping when the row is there.
SaveFails(page) ==
  /\ page \in saves
  /\ saves' = saves \ {page}
  /\ marked' = marked \union {<<page, "copy">>}
  /\ rows' \in {rows, [rows EXCEPT ![page.canonical] = page]}
  /\ UNCHANGED <<requestVars, idMap, todo, missing, got, shown, gone>>

\* MarshalJSON of the object that the handler holds: the one that is being saved,
\* or a batch's copy of it.
EncodePage(r, page) ==
  /\ pc[r] = "pages" /\ page \in got[r]
  /\ got' = [got EXCEPT ![r] = @ \ {page}]
  /\ shown' = [shown EXCEPT ![r] =
       @ \union {[page |-> page,
                  whole |-> route[r] \in Batched \/ <<page, "original">> \notin marked]}]
  /\ Goto(r, "pages")
  /\ UNCHANGED <<rows, idMap, saves, marked, todo, missing, gone>>

\* Mutant: an error that is no HttpError is logged and nothing more.
ExtractStatusLax(outcome) ==
  CASE outcome = "http415" -> 415
    [] outcome = "timeout" -> 504
    [] OTHER -> 200

\* The switch of extract: an unsupported content type is no HttpError, and
\* other HTTP errors keep the status of success.
ExtractStatus(outcome) ==
  CASE outcome = "http415" -> 415
    [] outcome = "timeout" -> 504
    [] outcome \in {"unsupported", "network", "notext"} -> 422
    [] OTHER -> 200

Answer(r) ==
  /\ pc[r] = "pages"
  /\ todo[r] = {} /\ missing[r] = {} /\ got[r] = {}
  /\ IF route[r] \in Batched
     THEN Reply(r, 200)
     ELSE \/ shown[r] = {} /\ Reply(r, 422)
          \/ \E s \in shown[r] : Reply(r, ExtractStatus(s.page.outcome))
  /\ UNCHANGED pageVars

BeingSaved(u) == \E page \in saves : page.canonical = u

\* Only the row whose canonical URL this is; mappings stay, and so do saves that
\* are under way: one of them may write the row again.
DeletePage(r, u) ==
  /\ pc[r] = "delete" /\ u \in todo[r]
  /\ rows' = [rows EXCEPT ![u] = NoPage]
  /\ gone' = IF BeingSaved(u) THEN gone ELSE gone \union {u}
  /\ Reply(r, IF rows[u] # NoPage THEN 204 ELSE 410)
  /\ UNCHANGED <<idMap, saves, marked, todo, missing, got, shown>>

DeleteFails(r) ==
  /\ pc[r] = "delete"
  /\ Reply(r, 500)
  /\ UNCHANGED pageVars

\* The steps that end: the client of the fetcher has a timeout, statements
\* return.  The feed's and the headless client's requests have no deadline.
PageStep(r) ==
  \/ RejectPayload(r)
  \/ \E urls \in Lists : AcceptURLs(r, urls)
  \/ \E u \in Url :
       \/ AcceptURL(r, u)
       \/ LookupHits(r, u) \/ LookupMisses(r, u) \/ LookupFails(r, u)
       \/ \E c \in Url, outcome \in Outcome :
            FetchPage(r, u, c, outcome) \/ FetchUnstored(r, u, c, outcome)
       \/ DeletePage(r, u)
  \/ \E page \in got[r] : EncodePage(r, page)
  \/ Answer(r)
  \/ DeleteFails(r)

RemoteStep(r) ==
  \/ FeedFails(r)
  \/ \E links \in Lists : FetchFeed(r, links)
  \/ \E u, c \in Url, outcome \in Outcome : FetchHeadless(r, u, c, outcome)

SaveStep == \E page \in saves : Save(page) \/ SaveFails(page)
=============================================================================
