----------------------------- MODULE BatchProofs -----------------------------
(***************************************************************************)
(* Proofs about Batch: the inductive invariant BatchInv, that no goroutine *)
(* ever waits for the caller, and the refinement of BatchResults.          *)
(***************************************************************************)
EXTENDS Batch, SequenceTheorems, FiniteSetTheorems, TLAPS

USE LengthAssumption
USE DEF loadVars, fetchVars, endVars, callerVars, Capacity, Goroutines, Room, Busy, InFlight

\* A send adds one position to those answered.
LEMMA AppendElements ==
  ASSUME NEW S, NEW s \in Seq(S), NEW e \in S
  PROVE  /\ Elements(Append(s, e)) = Elements(s) \union {e}
         /\ Append(s, e) \in Seq(S)
         /\ Len(Append(s, e)) = Len(s) + 1
<1>1. /\ Len(s) \in Nat
      /\ Append(s, e) \in Seq(S)
      /\ Len(Append(s, e)) = Len(s) + 1
      /\ \A i \in 1..Len(s) : Append(s, e)[i] = s[i]
      /\ Append(s, e)[Len(s) + 1] = e
  BY LenProperties, AppendProperties
<1>2. \A i \in 1..Len(s) + 1 : i \in 1..Len(s) \/ i = Len(s) + 1
  BY <1>1
<1>3. Len(s) + 1 \in 1..Len(s) + 1 /\ \A i \in 1..Len(s) : i \in 1..Len(s) + 1
  BY <1>1
<1> QED
  BY <1>1, <1>2, <1>3 DEF Elements

\* loadBatch moves on by one position.
LEMMA NextPosition ==
  ASSUME NEW n \in 1..N + 1, n <= N
  PROVE  /\ n + 1 \in 1..N + 1
         /\ 1..(n + 1) - 1 = (1..n - 1) \union {n}
         /\ n \notin 1..n - 1
         /\ n \in 1..N
  OBVIOUS

LEMMA InvInit == Init => BatchInv
<1> SUFFICES ASSUME Init PROVE BatchInv
  OBVIOUS
<1>1. Len(sent) = 0 /\ sent \in Seq(1..N) /\ Elements(sent) = {}
  BY EmptySeq DEF Init, Elements
<1>2. TypeOK
  <2>1. next \in 1..N + 1 /\ fetching \in 0..N
    BY DEF Init
  <2>2. taken \in 0..Len(sent)
    BY <1>1 DEF Init
  <2> QED
    BY <1>1, <2>1, <2>2 DEF Init, TypeOK
<1>3. PositionInv
  BY <1>1 DEF Init, PositionInv
<1> QED
  BY <1>2, <1>3 DEF Init, BatchInv, EndInv

\* With the invariant, the channel has room for whoever is about to send.
LEMMA RoomToSend == BatchInv => SendsNeverBlock
<1> SUFFICES ASSUME BatchInv, loader = "found" \/ fetcher \in {"page", "error"}
             PROVE  Room
  BY DEF SendsNeverBlock
<1>1. Len(sent) \in Nat /\ taken \in 0..Len(sent) /\ next \in 1..N + 1
  BY LenProperties DEF BatchInv, TypeOK
<1>2. Len(sent) < N
  BY <1>1 DEF BatchInv, PositionInv
<1> QED
  BY <1>1, <1>2 DEF BatchInv, EndInv

LEMMA InvNext == BatchInv /\ [Next]_vars => BatchInv'
<1> SUFFICES ASSUME BatchInv, [Next]_vars PROVE BatchInv'
  OBVIOUS
<1> USE DEF BatchInv
<1>0. Len(sent) \in Nat
  BY LenProperties DEF TypeOK
<1>1. CASE LoadURL
  <2>1. CASE dropped' = dropped \union {next} /\ next' = next + 1
    <3>1. TypeOK'
      BY <1>1, <2>1, NextPosition DEF LoadURL, TypeOK
    <3>2. PositionInv'
      <4>1. /\ next' - 1 = next /\ 1..next' - 1 = (1..next - 1) \union {next}
            /\ next \notin 1..next - 1
        BY <1>1, <2>1, NextPosition DEF LoadURL, TypeOK
      <4>2. UNCHANGED <<sent, loader, fetcher, fetching>>
        BY <1>1, <2>1 DEF LoadURL
      <4>3. Elements(sent)' = Elements(sent)
        BY <4>2 DEF Elements
      <4>4. /\ loader' = "lookup" /\ Len(sent) + (IF Busy THEN 1 ELSE 0) < next'
        BY <1>0, <1>1, <2>1, <4>2 DEF LoadURL, PositionInv, TypeOK
      <4> QED
        BY <2>1, <4>1, <4>2, <4>3, <4>4 DEF PositionInv
    <3>3. EndInv'
      BY <1>1, <2>1 DEF LoadURL, EndInv
    <3> QED
      BY <3>1, <3>2, <3>3
  <2>2. CASE loader' \in {"found", "missing"} /\ UNCHANGED <<next, dropped>>
    <3>1. TypeOK'
      BY <1>1, <2>2 DEF LoadURL, TypeOK
    <3>2. PositionInv'
      BY <1>1, <2>2 DEF LoadURL, PositionInv, Elements
    <3>3. EndInv'
      BY <1>1, <2>2 DEF LoadURL, EndInv
    <3> QED
      BY <3>1, <3>2, <3>3
  <2> QED
    BY <1>1, <2>1, <2>2 DEF LoadURL
<1>2. CASE SendFound
  <2>1. /\ next \in 1..N /\ 1..next' - 1 = (1..next - 1) \union {next}
        /\ next \notin 1..next - 1 /\ next' \in 1..N + 1
    BY <1>2, NextPosition DEF SendFound, TypeOK, PositionInv
  <2>2. /\ Elements(sent') = Elements(sent) \union {next}
        /\ sent' \in Seq(1..N) /\ Len(sent') = Len(sent) + 1
    BY <1>2, <2>1, AppendElements DEF SendFound, TypeOK
  <2>3. TypeOK'
    BY <1>0, <1>2, <2>1, <2>2 DEF SendFound, TypeOK
  <2>4. PositionInv'
    <3>1. UNCHANGED <<dropped, fetcher, fetching>> /\ loader' = "lookup"
      BY <1>2 DEF SendFound
    <3>2. Len(sent') + (IF Busy THEN 1 ELSE 0) < next'
      BY <1>0, <1>2, <2>1, <2>2 DEF SendFound, PositionInv
    <3>3. Elements(sent)' = Elements(sent) \union {next}
      BY <2>2 DEF Elements
    <3> QED
      BY <2>1, <3>1, <3>2, <3>3 DEF PositionInv
  <2>5. EndInv'
    BY <1>2 DEF SendFound, EndInv
  <2> QED
    BY <2>3, <2>4, <2>5
<1>3. CASE HandOver
  <2>1. /\ next \in 1..N /\ 1..next' - 1 = (1..next - 1) \union {next}
        /\ next \notin 1..next - 1 /\ next' \in 1..N + 1
    BY <1>3, NextPosition DEF HandOver, TypeOK, PositionInv
  <2>2. TypeOK'
    BY <1>3, <2>1 DEF HandOver, TypeOK
  <2>3. PositionInv'
    <3>1. UNCHANGED <<dropped, sent>> /\ loader' = "lookup"
      BY <1>3 DEF HandOver
    <3>2. fetcher = "receive" /\ fetcher' = "fetching" /\ fetching' = next
      BY <1>3 DEF HandOver
    <3>3. Len(sent) + 1 < next'
      BY <1>0, <1>3, <2>1 DEF HandOver, PositionInv
    <3>4. Elements(sent)' = Elements(sent)
      BY <3>1 DEF Elements
    <3> QED
      BY <2>1, <3>1, <3>2, <3>3, <3>4 DEF PositionInv
  <2>4. EndInv'
    BY <1>3 DEF HandOver, EndInv
  <2> QED
    BY <2>2, <2>3, <2>4
<1>4. CASE LoadEnds
  <2>1. TypeOK'
    BY <1>4 DEF LoadEnds, TypeOK
  <2>2. PositionInv'
    BY <1>4 DEF LoadEnds, PositionInv, Elements
  <2>3. EndInv'
    BY <1>4 DEF LoadEnds, EndInv, TypeOK
  <2> QED
    BY <2>1, <2>2, <2>3
<1>5. CASE LoaderDone
  <2>1. TypeOK'
    BY <1>5 DEF LoaderDone, TypeOK, EndInv
  <2>2. PositionInv'
    BY <1>5 DEF LoaderDone, PositionInv, Elements
  <2>3. EndInv'
    BY <1>5 DEF LoaderDone, EndInv, TypeOK
  <2> QED
    BY <2>1, <2>2, <2>3
<1>6. CASE FetchURL
  <2>1. TypeOK'
    BY <1>6 DEF FetchURL, TypeOK
  <2>2. PositionInv'
    BY <1>6 DEF FetchURL, PositionInv, Elements
  <2>3. EndInv'
    BY <1>6 DEF FetchURL, EndInv
  <2> QED
    BY <2>1, <2>2, <2>3
<1>7. CASE SendFetched
  <2>1. fetching \in 1..N
    BY <1>7 DEF SendFetched, PositionInv
  <2>2. /\ Elements(sent') = Elements(sent) \union {fetching}
        /\ sent' \in Seq(1..N) /\ Len(sent') = Len(sent) + 1
    <3>1. sent \in Seq(1..N) /\ sent' = Append(sent, fetching)
      BY <1>7 DEF SendFetched, TypeOK
    <3> QED
      BY <2>1, <3>1, AppendElements
  <2>3. TypeOK'
    BY <1>0, <1>7, <2>1, <2>2 DEF SendFetched, TypeOK
  <2>4. PositionInv'
    <3>1. UNCHANGED <<dropped, next, loader, fetching>> /\ fetcher' = "receive"
      BY <1>7 DEF SendFetched
    <3>2. Len(sent') < next
      BY <1>0, <1>7, <2>2 DEF SendFetched, PositionInv, TypeOK
    <3>3. Elements(sent)' = Elements(sent) \union {fetching}
      BY <2>2 DEF Elements
    <3>4. fetcher \in {"page", "error"}
      BY <1>7 DEF SendFetched
    <3>5. Len(sent') + 0 < next
      BY <1>0, <2>2, <3>2
    <3> QED
      BY <3>1, <3>3, <3>4, <3>5 DEF PositionInv
  <2>5. EndInv'
    BY <1>7 DEF SendFetched, EndInv
  <2> QED
    BY <2>3, <2>4, <2>5
<1>8. CASE FetchEnds
  <2>1. TypeOK'
    BY <1>8 DEF FetchEnds, TypeOK, EndInv
  <2>2. PositionInv'
    BY <1>8 DEF FetchEnds, PositionInv, Elements
  <2>3. EndInv'
    BY <1>8 DEF FetchEnds, EndInv, TypeOK
  <2> QED
    BY <2>1, <2>2, <2>3
<1>9. ASSUME NEW u \in 1..N, SaveEnds(u) PROVE BatchInv'
  <2>1. TypeOK'
    BY <1>9 DEF SaveEnds, TypeOK
  <2>2. PositionInv'
    BY <1>9 DEF SaveEnds, PositionInv, Elements
  <2> QED
    BY <1>9, <2>1, <2>2 DEF SaveEnds, EndInv
<1>10. CASE CloseResults
  <2>1. TypeOK'
    BY <1>10 DEF CloseResults, TypeOK
  <2>2. PositionInv'
    BY <1>10 DEF CloseResults, PositionInv, Elements
  <2> QED
    BY <1>10, <2>1, <2>2 DEF CloseResults, EndInv
<1>11. CASE Receive
  <2>1. TypeOK'
    BY <1>0, <1>11 DEF Receive, TypeOK
  <2>2. PositionInv'
    BY <1>11 DEF Receive, PositionInv, Elements
  <2> QED
    BY <1>11, <2>1, <2>2 DEF Receive, EndInv
<1>12. CASE RangeEnds
  <2>1. TypeOK'
    BY <1>12 DEF RangeEnds, TypeOK
  <2>2. PositionInv'
    BY <1>12 DEF RangeEnds, PositionInv, Elements
  <2> QED
    BY <1>12, <2>1, <2>2 DEF RangeEnds, EndInv
<1>13. CASE UNCHANGED vars
  BY <1>13 DEF vars, TypeOK, PositionInv, EndInv, Elements
<1> QED
  BY <1>1, <1>2, <1>3, <1>4, <1>5, <1>6, <1>7, <1>8, <1>9, <1>10, <1>11, <1>12, <1>13
     DEF Next, Loader, Fetcher, Reader

-----------------------------------------------------------------------------
\* Positions, the WaitGroup and the channels agree in every reachable state.
THEOREM Invariance == Spec => []BatchInv
  BY InvInit, InvNext, PTL DEF Spec

\* Every variable of Batch keeps its type for a list of any length.
THEOREM TypeCorrect == Spec => []TypeOK
<1>1. BatchInv => TypeOK
  BY DEF BatchInv
<1> QED
  BY <1>1, Invariance, PTL

\* The buffer of len(urls) suffices: no send waits for the caller or panics.
THEOREM NoSendBlocks == Spec => []SendsNeverBlock
  BY RoomToSend, Invariance, PTL

\* What the abstract module calls settled.
LEMMA SettledPositions == Results!Settled = Elements(sent) \union dropped
  BY DEF Results!Settled, Elements

\* All positions are settled once rchan is closed.
LEMMA AllSettled ==
  ASSUME BatchInv, loader = "done", fetcher = "done"
  PROVE  Results!Settled = 1..N
<1>1. next = N + 1
  BY DEF BatchInv, EndInv
<1>2. 1..next - 1 = 1..N
  BY <1>1
<1> QED
  BY <1>2, SettledPositions DEF BatchInv, PositionInv

\* A caller that ranges to the end has every answer.
THEOREM ReaderIsServed == Spec => []ReaderSeesAll
<1>1. BatchInv => ReaderSeesAll
  BY AllSettled DEF BatchInv, EndInv, ReaderSeesAll
<1> QED
  BY <1>1, Invariance, PTL

LEMMA ResultsNext ==
  ASSUME BatchInv, [Next]_vars
  PROVE  [Results!Next]_(Results!vars)
<1> SUFFICES ASSUME Next PROVE UNCHANGED <<sent, dropped, closed>> \/ Results!Next
  BY DEF vars, Results!vars
<1> USE DEF BatchInv
<1>1. CASE LoadURL
  <2>1. CASE dropped' = dropped
    BY <1>1, <2>1 DEF LoadURL
  <2>2. CASE dropped' = dropped \union {next}
    <3>1. ~closed /\ next \in 1..N
      BY <1>1, NextPosition DEF LoadURL, EndInv, TypeOK
    <3>2. next \notin Results!Settled
      <4>1. next \notin 1..next - 1
        BY <1>1, NextPosition DEF LoadURL, TypeOK
      <4> QED
        BY <4>1, SettledPositions DEF PositionInv
    <3>3. Results!GiveUp(next)
      BY <1>1, <2>2, <3>1, <3>2 DEF LoadURL, Results!GiveUp
    <3> QED
      BY <3>1, <3>3 DEF Results!Next
  <2> QED
    BY <1>1, <2>1, <2>2 DEF LoadURL
<1>2. CASE SendFound
  <2>1. ~closed /\ next \in 1..N
    BY <1>2, NextPosition DEF SendFound, PositionInv, TypeOK
  <2>2. next \notin Results!Settled
    <3>1. next \notin 1..next - 1
      BY <2>1
    <3> QED
      BY <3>1, SettledPositions DEF PositionInv
  <2>3. Results!Answer(next)
    BY <1>2, <2>1, <2>2 DEF SendFound, Results!Answer
  <2> QED
    BY <2>1, <2>3 DEF Results!Next
<1>3. CASE SendFetched
  <2>1. ~closed /\ fetching \in 1..N
    BY <1>3 DEF SendFetched, PositionInv
  <2>2. fetching \notin Results!Settled
    BY <1>3, SettledPositions DEF SendFetched, PositionInv
  <2>3. Results!Answer(fetching)
    BY <1>3, <2>1, <2>2 DEF SendFetched, Results!Answer
  <2> QED
    BY <2>1, <2>3 DEF Results!Next
<1>4. CASE CloseResults
  <2>1. loader = "done" /\ fetcher = "done"
    BY <1>4 DEF CloseResults, EndInv, TypeOK
  <2>2. Results!End
    BY <1>4, <2>1, AllSettled DEF CloseResults, Results!End
  <2> QED
    BY <2>2 DEF Results!Next
<1>5. CASE HandOver \/ LoadEnds \/ LoaderDone \/ FetchURL \/ FetchEnds
  BY <1>5 DEF HandOver, LoadEnds, LoaderDone, FetchURL, FetchEnds
<1>6. CASE (\E u \in 1..N : SaveEnds(u)) \/ Receive \/ RangeEnds
  BY <1>6 DEF SaveEnds, Receive, RangeEnds
<1> QED
  BY <1>1, <1>2, <1>3, <1>4, <1>5, <1>6 DEF Next, Loader, Fetcher, Reader

\* Batch implements BatchResults: each URL is settled once, then the channel ends.
THEOREM KeepsPromise == Spec => Promise
<1>1. Init => Results!Init
  BY DEF Init, Results!Init
<1> QED
  BY <1>1, ResultsNext, Invariance, PTL DEF Spec, Promise, Results!Spec

-----------------------------------------------------------------------------
(***************************************************************************)
(* What is left of BatchEnds without fairness: somebody can always go on,  *)
(* and nobody goes on for ever.                                            *)
(***************************************************************************)
\* There is no cycle of goroutines that wait for each other.
THEOREM SomebodyGoesOn == Spec => []NeverStuck
<1>1. BatchInv => NeverStuck
  <2> SUFFICES ASSUME BatchInv PROVE NeverStuck
    OBVIOUS
  <2>1. loader = "found" \/ fetcher \in {"page", "error"} => Room
    BY RoomToSend DEF SendsNeverBlock
  <2>2. CASE loader \in {"lookup", "leaving", "found"} \/ fetcher \in {"fetching", "page", "error"}
    BY <2>1, <2>2, Zenon DEF NeverStuck
  <2>3. CASE loader = "missing" /\ fetcher \in {"receive", "done"}
    BY <2>3 DEF BatchInv, EndInv, NeverStuck
  <2>4. CASE loader = "done" /\ fetcher = "receive"
    BY <2>4 DEF BatchInv, EndInv, NeverStuck
  <2>5. CASE loader = "done" /\ fetcher = "done"
    <3>1. wg = 0
      BY <2>5 DEF BatchInv, EndInv
    <3> QED
      BY <2>5, <3>1 DEF NeverStuck, Over
  <2> QED
    BY <2>2, <2>3, <2>4, <2>5 DEF BatchInv, TypeOK
<1> QED
  BY <1>1, Invariance, PTL

\* The parts of the bound StepsLeft, which are natural numbers.
Ahead == 6 * (N + 1 - next)
Saves == Cardinality(saving)
Unread == Len(sent) - taken
StepsSplit ==
  /\ Ahead \in Nat /\ LoaderSteps \in Nat /\ FetcherSteps \in Nat
  /\ Saves \in Nat /\ Unread \in Nat /\ EndSteps \in Nat
  /\ StepsLeft = Ahead + LoaderSteps + FetcherSteps + Saves + Unread + EndSteps

LEMMA SavingFinite == ASSUME BatchInv PROVE IsFiniteSet(saving)
<1>1. IsFiniteSet(1..N)
  BY FS_Interval, LengthAssumption
<1>2. saving \subseteq 1..N
  BY DEF BatchInv, TypeOK
<1> QED
  BY <1>1, <1>2, FS_Subset

LEMMA StepsAddUp == BatchInv => StepsSplit
<1> SUFFICES ASSUME BatchInv PROVE StepsSplit
  OBVIOUS
<1>1. /\ N \in Nat /\ next \in Nat /\ next <= N + 1
      /\ Len(sent) \in Nat /\ taken \in Nat /\ taken <= Len(sent)
  BY LengthAssumption, LenProperties DEF BatchInv, TypeOK
<1>2. LoaderSteps \in Nat /\ FetcherSteps \in Nat /\ EndSteps \in Nat
  BY DEF BatchInv, TypeOK, LoaderSteps, FetcherSteps, EndSteps
<1>3. Saves \in Nat
  BY SavingFinite, FS_CardinalityType DEF Saves
<1>4. Ahead \in Nat /\ Unread \in Nat
  BY <1>1 DEF Ahead, Unread
<1>5. StepsLeft = Ahead + LoaderSteps + FetcherSteps + Saves + Unread + EndSteps
  BY DEF StepsLeft, Ahead, Saves, Unread
<1> QED
  BY <1>2, <1>3, <1>4, <1>5 DEF StepsSplit

\* What the counts do when a URL, an answer or a save comes or goes.
LEMMA CountsMove ==
  ASSUME BatchInv
  PROVE  /\ next' = next => Ahead' = Ahead
         /\ next' = next + 1 => Ahead' = Ahead - 6
         /\ UNCHANGED <<sent, taken>> => Unread' = Unread
         /\ taken' = taken /\ Len(sent') = Len(sent) + 1 => Unread' = Unread + 1
         /\ sent' = sent /\ taken' = taken + 1 => Unread' = Unread - 1
         /\ saving' = saving => Saves' = Saves
<1>1. N \in Nat /\ next \in Nat /\ Len(sent) \in Nat /\ taken \in Nat
  BY LengthAssumption, LenProperties DEF BatchInv, TypeOK
<1>2. (next' = next => Ahead' = Ahead) /\ (next' = next + 1 => Ahead' = Ahead - 6)
  BY <1>1 DEF Ahead
<1>3. /\ UNCHANGED <<sent, taken>> => Unread' = Unread
      /\ taken' = taken /\ Len(sent') = Len(sent) + 1 => Unread' = Unread + 1
      /\ sent' = sent /\ taken' = taken + 1 => Unread' = Unread - 1
  BY <1>1 DEF Unread
<1> QED
  BY <1>2, <1>3 DEF Saves

\* Who moves on lowers his own part by more than he adds to the others'.
LEMMA StepDecreases ==
  ASSUME BatchInv, BatchInv', StepsSplit, StepsSplit', Next
  PROVE  StepsLeft' \in Nat /\ StepsLeft' < StepsLeft
<1> USE DEF StepsSplit
<1>1. CASE LoadURL
  <2>1. FetcherSteps' = FetcherSteps /\ EndSteps' = EndSteps /\ Saves' = Saves /\ Unread' = Unread
    BY <1>1, CountsMove DEF LoadURL, FetcherSteps, EndSteps
  <2>2. \/ Ahead' = Ahead /\ LoaderSteps = 2 /\ LoaderSteps' = 1
        \/ Ahead' = Ahead - 6 /\ LoaderSteps' = LoaderSteps
    BY <1>1, CountsMove DEF LoadURL, LoaderSteps
  <2>3. CASE Ahead' = Ahead /\ LoaderSteps = 2 /\ LoaderSteps' = 1
    BY <2>1, <2>3
  <2>4. CASE Ahead' = Ahead - 6 /\ LoaderSteps' = LoaderSteps
    BY <2>1, <2>4
  <2> QED
    BY <2>2, <2>3, <2>4
<1>2. CASE SendFound
  <2>1. FetcherSteps' = FetcherSteps /\ EndSteps' = EndSteps /\ Saves' = Saves
    BY <1>2, CountsMove DEF SendFound, FetcherSteps, EndSteps
  <2>2. Ahead' = Ahead - 6 /\ LoaderSteps = 1 /\ LoaderSteps' = 2
    BY <1>2, CountsMove DEF SendFound, LoaderSteps
  <2>3. Len(sent') = Len(sent) + 1
    BY <1>2 DEF SendFound, BatchInv, TypeOK
  <2>4. Unread' = Unread + 1
    BY <1>2, <2>3, CountsMove DEF SendFound
  <2> QED
    BY <2>1, <2>2, <2>4
<1>3. CASE HandOver
  <2>1. EndSteps' = EndSteps /\ Saves' = Saves /\ Unread' = Unread
    BY <1>3, CountsMove DEF HandOver, EndSteps
  <2>2. Ahead' = Ahead - 6 /\ LoaderSteps = 1 /\ LoaderSteps' = 2
    BY <1>3, CountsMove DEF HandOver, LoaderSteps
  <2>3. FetcherSteps = 1 /\ FetcherSteps' = 5
    BY <1>3 DEF HandOver, FetcherSteps
  <2> QED
    BY <2>1, <2>2, <2>3
<1>4. CASE LoadEnds \/ LoaderDone
  <2>1. /\ FetcherSteps' = FetcherSteps /\ EndSteps' = EndSteps /\ Ahead' = Ahead
        /\ Saves' = Saves /\ Unread' = Unread
    BY <1>4, CountsMove DEF LoadEnds, LoaderDone, FetcherSteps, EndSteps
  <2>2. LoaderSteps' = LoaderSteps - 1
    BY <1>4 DEF LoadEnds, LoaderDone, LoaderSteps
  <2> QED
    BY <2>1, <2>2
<1>5. CASE FetchURL \/ FetchEnds
  <2>1. /\ LoaderSteps' = LoaderSteps /\ EndSteps' = EndSteps /\ Ahead' = Ahead
        /\ Saves' = Saves /\ Unread' = Unread
    BY <1>5, CountsMove DEF FetchURL, FetchEnds, LoaderSteps, EndSteps, loadVars, endVars, callerVars
  <2>2. FetcherSteps' = FetcherSteps - 1
    BY <1>5 DEF FetchURL, FetchEnds, FetcherSteps
  <2> QED
    BY <2>1, <2>2
<1>6. CASE SendFetched
  <2>1. LoaderSteps' = LoaderSteps /\ EndSteps' = EndSteps /\ Ahead' = Ahead
    BY <1>6, CountsMove DEF SendFetched, LoaderSteps, EndSteps
  <2>2. FetcherSteps = 4 /\ FetcherSteps' = 1
    BY <1>6 DEF SendFetched, FetcherSteps
  <2>3. Len(sent') = Len(sent) + 1
    BY <1>6 DEF SendFetched, BatchInv, TypeOK, PositionInv
  <2>4. Unread' = Unread + 1
    BY <1>6, <2>3, CountsMove DEF SendFetched
  <2>5. Saves' = Saves \/ Saves' = Saves + 1
    <3>1. IsFiniteSet(saving)
      BY SavingFinite
    <3>2. saving' = saving \/ saving' = saving \union {fetching}
      BY <1>6 DEF SendFetched
    <3>3. Cardinality(saving \union {fetching}) \in {Cardinality(saving), Cardinality(saving) + 1}
      BY <3>1, FS_AddElement
    <3> QED
      BY <3>2, <3>3 DEF Saves
  <2>6. CASE Saves' = Saves
    BY <2>1, <2>2, <2>4, <2>6
  <2>7. CASE Saves' = Saves + 1
    BY <2>1, <2>2, <2>4, <2>7
  <2> QED
    BY <2>5, <2>6, <2>7
<1>7. ASSUME NEW u \in 1..N, SaveEnds(u)
      PROVE  StepsLeft' \in Nat /\ StepsLeft' < StepsLeft
  <2>1. /\ LoaderSteps' = LoaderSteps /\ FetcherSteps' = FetcherSteps /\ EndSteps' = EndSteps
        /\ Ahead' = Ahead /\ Unread' = Unread
    BY <1>7, CountsMove DEF SaveEnds, LoaderSteps, FetcherSteps, EndSteps
  <2>2. Saves' = Saves - 1
    <3>1. IsFiniteSet(saving)
      BY SavingFinite
    <3> QED
      BY <1>7, <3>1, FS_RemoveElement DEF SaveEnds, Saves
  <2> QED
    BY <2>1, <2>2
<1>8. CASE CloseResults \/ RangeEnds
  <2>1. /\ LoaderSteps' = LoaderSteps /\ FetcherSteps' = FetcherSteps /\ Ahead' = Ahead
        /\ Saves' = Saves /\ Unread' = Unread
    BY <1>8, CountsMove DEF CloseResults, RangeEnds, LoaderSteps, FetcherSteps
  <2>2. CASE CloseResults
    <3>1. EndSteps = 1 + (IF caller = "ranging" THEN 1 ELSE 0)
          /\ EndSteps' = IF caller = "ranging" THEN 1 ELSE 0
      BY <2>2 DEF CloseResults, callerVars, EndSteps
    <3>2. EndSteps' = EndSteps - 1
      BY <3>1
    <3> QED
      BY <2>1, <3>2
  <2>3. CASE RangeEnds
    <3>1. EndSteps = 1 /\ EndSteps' = 0
      BY <2>3 DEF RangeEnds, endVars, EndSteps
    <3> QED
      BY <2>1, <3>1
  <2> QED
    BY <1>8, <2>2, <2>3
<1>9. CASE Receive
  <2>1. /\ LoaderSteps' = LoaderSteps /\ FetcherSteps' = FetcherSteps /\ Ahead' = Ahead
        /\ Saves' = Saves
    BY <1>9, CountsMove DEF Receive, LoaderSteps, FetcherSteps
  <2>2. Unread' = Unread - 1
    BY <1>9, CountsMove DEF Receive
  <2>3. EndSteps' = EndSteps \/ EndSteps' = EndSteps - 1
    BY <1>9 DEF Receive, EndSteps
  <2>4. CASE EndSteps' = EndSteps
    BY <2>1, <2>2, <2>4
  <2>5. CASE EndSteps' = EndSteps - 1
    BY <2>1, <2>2, <2>5
  <2> QED
    BY <2>3, <2>4, <2>5
<1> QED
  BY <1>1, <1>2, <1>3, <1>4, <1>5, <1>6, <1>7, <1>8, <1>9 DEF Next, Loader, Fetcher, Reader

\* A batch ends within 6 * N + 5 steps, whatever the order they come in.
THEOREM BatchStepsRunOut == Spec => StepsRunOut
<1>1. ASSUME BatchInv, BatchInv', StepsSplit, StepsSplit', [Next]_vars
      PROVE  [StepsLeft' \in Nat /\ StepsLeft' < StepsLeft]_vars
  BY <1>1, StepDecreases
<1> QED
  BY <1>1, StepsAddUp, Invariance, PTL DEF Spec, StepsRunOut

\* The bound at the start: how many steps a batch of N URLs takes at most.
THEOREM StepsAtStart == Init => StepsLeft = 6 * N + 5
<1>1. Cardinality({}) = 0
  BY FS_EmptySet
<1>2. Len(<<>>) = 0
  OBVIOUS
<1> QED
  BY <1>1, <1>2 DEF Init, StepsLeft, LoaderSteps, FetcherSteps, EndSteps
=============================================================================
