-------------------------------- MODULE Batch --------------------------------
(***************************************************************************)
(* StorageBackedFetcher.Batch (internal/scrape.go): loadBatch looks the    *)
(* URLs up one by one, fetchUnstored fetches those that are not stored,    *)
(* both answer on the buffered channel rchan, and a third goroutine closes *)
(* it when the other two are done.  The caller ranges over rchan and may   *)
(* leave when it cannot pass a page on.  Pages are saved in goroutines of  *)
(* their own.  A URL is its position in the list; what storage and the web *)
(* answer is chosen at each step.                                          *)
(***************************************************************************)
EXTENDS Naturals, Sequences, FiniteSets

CONSTANT N  \* how many URLs the list has

ASSUME LengthAssumption == N \in Nat

VARIABLES
  next,      \* the position loadBatch works on
  loader,    \* loadBatch: "lookup", "found" or "missing" (about to send), "leaving", "done"
  fetcher,   \* fetchUnstored: "receive", "fetching", "page" or "error" (about to send), "done"
  fetching,  \* the position it works on
  unstored,  \* is unstoredChan open? It has no buffer, so it never holds anything
  wg,        \* the WaitGroup's counter
  closed,    \* is rchan closed?
  sent,      \* the positions sent on rchan so far
  taken,     \* how many of them the caller has received
  caller,    \* "ranging", "left" or "finished"
  saving,    \* positions with a save goroutine under way
  dropped    \* history: positions that storage failed on

vars == <<next, loader, fetcher, fetching, unstored, wg, closed, sent, taken,
          caller, saving, dropped>>
loadVars == <<next, loader>>
fetchVars == <<fetcher, fetching>>
endVars == <<unstored, wg, closed>>
callerVars == <<taken, caller>>

\* Mutant: rchan has no buffer.
Unbuffered == 0

\* rchan has room for an answer to each URL; the WaitGroup counts the loader and
\* the fetcher.
Capacity == N

Goroutines == 2

Init ==
  /\ next = 1
  /\ loader = "lookup"
  /\ fetcher = "receive"
  /\ fetching = 0
  /\ unstored = TRUE
  /\ wg = Goroutines
  /\ closed = FALSE
  /\ sent = <<>>
  /\ taken = 0
  /\ caller = "ranging"
  /\ saving = {}
  /\ dropped = {}

\* Does a send on rchan go through? A send on the closed channel panics.
Room == ~closed /\ Len(sent) - taken < Capacity

-----------------------------------------------------------------------------
\* Mutant: a URL that storage fails on is tried again.
LoadAgain ==
  /\ loader = "lookup"
  /\ next <= N
  /\ \/ loader' \in {"found", "missing"} /\ UNCHANGED dropped
     \/ dropped' = dropped \union {next} /\ UNCHANGED loader
  /\ UNCHANGED <<next, fetchVars, endVars, sent, callerVars, saving>>

\* An unparsable URL is answered with its error, a stored one with its page; a
\* missing one is passed on, and one that storage fails on is only logged.
LoadURL ==
  /\ loader = "lookup"
  /\ next <= N
  /\ \/ loader' \in {"found", "missing"} /\ UNCHANGED <<next, dropped>>
     \/ dropped' = dropped \union {next} /\ next' = next + 1 /\ UNCHANGED loader
  /\ UNCHANGED <<fetchVars, endVars, sent, callerVars, saving>>

\* Mutant: no "continue" after the answer to an unparsable URL.
SendFoundNoContinue ==
  /\ loader = "found"
  /\ Room
  /\ sent' = Append(sent, next)
  /\ \/ next' = next + 1 /\ loader' = "lookup"
     \/ loader' = "missing" /\ UNCHANGED next
  /\ UNCHANGED <<fetchVars, endVars, callerVars, saving, dropped>>

SendFound ==
  /\ loader = "found"
  /\ Room
  /\ sent' = Append(sent, next)
  /\ next' = next + 1
  /\ loader' = "lookup"
  /\ UNCHANGED <<fetchVars, endVars, callerVars, saving, dropped>>

\* notFoundChan <- msg meets the receive of fetchUnstored's range.
HandOver ==
  /\ loader = "missing"
  /\ fetcher = "receive"
  /\ fetching' = next
  /\ fetcher' = "fetching"
  /\ next' = next + 1
  /\ loader' = "lookup"
  /\ UNCHANGED <<endVars, sent, callerVars, saving, dropped>>

\* Mutant: loadBatch returns without closing notFoundChan.
LoadEndsOpen ==
  /\ loader = "lookup"
  /\ next > N
  /\ loader' = "leaving"
  /\ UNCHANGED <<next, fetchVars, endVars, sent, callerVars, saving, dropped>>

LoadEnds ==
  /\ loader = "lookup"
  /\ next > N
  /\ unstored' = FALSE
  /\ loader' = "leaving"
  /\ UNCHANGED <<next, fetchVars, wg, closed, sent, callerVars, saving, dropped>>

LoaderDone ==
  /\ loader = "leaving"
  /\ loader' = "done"
  /\ wg' = wg - 1
  /\ UNCHANGED <<next, fetchVars, unstored, closed, sent, callerVars, saving, dropped>>

-----------------------------------------------------------------------------
FetchURL ==
  /\ fetcher = "fetching"
  /\ fetcher' \in {"page", "error"}
  /\ UNCHANGED <<loadVars, fetching, endVars, sent, callerVars, saving, dropped>>

\* The page goes out first; then, if there was no error, it is saved.
SendFetched ==
  /\ fetcher \in {"page", "error"}
  /\ Room
  /\ sent' = Append(sent, fetching)
  /\ saving' = IF fetcher = "page" THEN saving \union {fetching} ELSE saving
  /\ fetcher' = "receive"
  /\ UNCHANGED <<loadVars, fetching, endVars, callerVars, dropped>>

SaveEnds(u) ==
  /\ u \in saving
  /\ saving' = saving \ {u}
  /\ UNCHANGED <<loadVars, fetchVars, endVars, sent, callerVars, dropped>>

\* The range over unstoredChan ends, then wg.Done.
\* Mutant: no wg.Done at the end.
FetchEndsNoDone ==
  /\ fetcher = "receive"
  /\ ~unstored
  /\ fetcher' = "done"
  /\ UNCHANGED <<loadVars, fetching, unstored, wg, closed, sent, callerVars, saving, dropped>>

FetchEnds ==
  /\ fetcher = "receive"
  /\ ~unstored
  /\ fetcher' = "done"
  /\ wg' = wg - 1
  /\ UNCHANGED <<loadVars, fetching, unstored, closed, sent, callerVars, saving, dropped>>

CloseResults ==
  /\ wg = 0
  /\ ~closed
  /\ closed' = TRUE
  /\ UNCHANGED <<loadVars, fetchVars, unstored, wg, sent, callerVars, saving, dropped>>

-----------------------------------------------------------------------------
\* The handler encodes each page and breaks out of the loop on an error.
Receive ==
  /\ caller = "ranging"
  /\ taken < Len(sent)
  /\ taken' = taken + 1
  /\ caller' \in {"ranging", "left"}
  /\ UNCHANGED <<loadVars, fetchVars, endVars, sent, saving, dropped>>

\* Channel closed and drained: the range is over.
RangeEnds ==
  /\ caller = "ranging"
  /\ taken = Len(sent)
  /\ closed
  /\ caller' = "finished"
  /\ UNCHANGED <<loadVars, fetchVars, endVars, sent, taken, saving, dropped>>

Loader == LoadURL \/ SendFound \/ HandOver \/ LoadEnds \/ LoaderDone
Fetcher == FetchURL \/ SendFetched \/ FetchEnds
Reader == Receive \/ RangeEnds

Next ==
  \/ Loader
  \/ Fetcher
  \/ \E u \in 1..N : SaveEnds(u)
  \/ CloseResults
  \/ Reader

Spec == Init /\ [][Next]_vars

(***************************************************************************)
(* Goroutines run; storage and the web answer or time out, and so does     *)
(* writing the response (the server's WriteTimeout).                       *)
(***************************************************************************)
Fairness ==
  /\ WF_vars(Loader)
  /\ WF_vars(Fetcher)
  /\ \A u \in 1..N : WF_vars(SaveEnds(u))
  /\ WF_vars(CloseResults)
  /\ WF_vars(Reader)

FairSpec == Spec /\ Fairness

-----------------------------------------------------------------------------
\* Every variable keeps its type; the WaitGroup's counter is never negative.
TypeOK ==
  /\ next \in 1..N + 1
  /\ loader \in {"lookup", "found", "missing", "leaving", "done"}
  /\ fetcher \in {"receive", "fetching", "page", "error", "done"}
  /\ fetching \in 0..N
  /\ unstored \in BOOLEAN
  /\ wg \in Nat
  /\ closed \in BOOLEAN
  /\ sent \in Seq(1..N)
  /\ taken \in 0..Len(sent)
  /\ caller \in {"ranging", "left", "finished"}
  /\ saving \subseteq 1..N
  /\ dropped \subseteq 1..N

\* rchan's buffer holds an answer for every URL, so neither goroutine ever waits
\* for the caller, who may have left, nor sends on a closed channel.
SendsNeverBlock ==
  loader = "found" \/ fetcher \in {"page", "error"} => Room

\* The channel that Batch returns keeps the promise of BatchResults.
Results == INSTANCE BatchResults WITH ended <- closed
Promise == Results!Spec

\* A caller that ranges to the end has seen every URL storage did not fail on.
ReaderSeesAll ==
  caller = "finished" => taken = Len(sent) /\ Results!Settled = 1..N

\* Everyone is through: Batch, its saves and its caller.
Over ==
  closed /\ loader = "done" /\ fetcher = "done" /\ saving = {} /\ caller # "ranging"

\* No state in between in which every goroutine waits for another.
NeverStuck ==
  \/ Over
  \/ loader \in {"lookup", "leaving"}
  \/ loader = "found" /\ Room
  \/ loader = "missing" /\ fetcher = "receive"
  \/ fetcher = "fetching"
  \/ fetcher \in {"page", "error"} /\ Room
  \/ fetcher = "receive" /\ ~unstored
  \/ wg = 0 /\ ~closed
  \/ caller = "ranging" /\ (taken < Len(sent) \/ closed)
  \/ saving # {}

\* A bound on the steps still to come: a URL costs at most a lookup, a hand-over,
\* a fetch, an answer, its reception and a save.
LoaderSteps == IF loader = "lookup" THEN 2 ELSE IF loader = "done" THEN 0 ELSE 1
FetcherSteps ==
  IF fetcher = "receive" THEN 1
  ELSE IF fetcher = "fetching" THEN 5
  ELSE IF fetcher = "done" THEN 0 ELSE 4
EndSteps == (IF closed THEN 0 ELSE 1) + (IF caller = "ranging" THEN 1 ELSE 0)
StepsLeft ==
  6 * (N + 1 - next) + LoaderSteps + FetcherSteps + Cardinality(saving)
    + (Len(sent) - taken) + EndSteps

\* Every step of anybody brings the end nearer, so that a batch of N URLs ends
\* within 6 * N + 5 steps however its goroutines interleave.
StepsRunOut == [][StepsLeft' \in Nat /\ StepsLeft' < StepsLeft]_vars

\* Batch leaves no goroutine behind, also when its caller leaves early.
BatchEnds ==
  <>Over

(***************************************************************************)
(* Why these hold: the parts of an inductive invariant.                    *)
(***************************************************************************)
Elements(s) == {s[i] : i \in 1..Len(s)}
Busy == fetcher \in {"fetching", "page", "error"}
InFlight == IF Busy THEN {fetching} ELSE {}

\* Each position before next is answered, dropped or in flight, and only one of it.
PositionInv ==
  /\ Elements(sent) \union dropped \union InFlight = 1..next - 1
  /\ Elements(sent) \cap dropped = {}
  /\ InFlight \cap (Elements(sent) \union dropped) = {}
  /\ Len(sent) + (IF Busy THEN 1 ELSE 0) < next
  /\ loader \in {"found", "missing"} => next <= N
  /\ Busy => fetching \in 1..N

\* Who has finished, as the WaitGroup and the channels show it.
EndInv ==
  /\ wg = (IF loader = "done" THEN 0 ELSE 1) + (IF fetcher = "done" THEN 0 ELSE 1)
  /\ unstored <=> loader \notin {"leaving", "done"}
  /\ ~unstored => next = N + 1
  /\ fetcher = "done" => ~unstored
  /\ closed => loader = "done" /\ fetcher = "done"
  /\ caller = "finished" => closed /\ taken = Len(sent)

BatchInv == TypeOK /\ PositionInv /\ EndInv
=============================================================================
