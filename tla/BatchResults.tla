---------------------------- MODULE BatchResults ----------------------------
(***************************************************************************)
(* What the channel returned by Batch promises to the one who reads it:    *)
(* each URL of the list is answered at most once, in any order, and the    *)
(* channel ends only when every URL was answered or given up.              *)
(***************************************************************************)
EXTENDS Naturals, Sequences

CONSTANT N  \* how many URLs

VARIABLES
  sent,     \* positions answered, in the order of their answers
  dropped,  \* positions given up
  ended     \* is the channel closed?

vars == <<sent, dropped, ended>>

Settled == {sent[i] : i \in 1..Len(sent)} \union dropped

Init ==
  /\ sent = <<>>
  /\ dropped = {}
  /\ ended = FALSE

Answer(u) ==
  /\ ~ended
  /\ u \notin Settled
  /\ sent' = Append(sent, u)
  /\ UNCHANGED <<dropped, ended>>

GiveUp(u) ==
  /\ ~ended
  /\ u \notin Settled
  /\ dropped' = dropped \union {u}
  /\ UNCHANGED <<sent, ended>>

End ==
  /\ ~ended
  /\ Settled = 1..N
  /\ ended' = TRUE
  /\ UNCHANGED <<sent, dropped>>

Next == (\E u \in 1..N : Answer(u) \/ GiveUp(u)) \/ End

Spec == Init /\ [][Next]_vars
=============================================================================
