-------------------------- MODULE HandleLifecycle --------------------------
(***************************************************************************)
(* What database.DBHandle promises to the rest of the program, without    *)
(* goroutines, mutex or channels: a handle goes once from new through open *)
(* and closing to closed; statements are cached only while it is open;     *)
(* every close listener it accepted is called exactly once, after the      *)
(* handle stopped accepting work and before the statements are dropped and *)
(* the connection goes away.                                               *)
(***************************************************************************)
CONSTANTS Key,      \* keys of the prepared statement cache
          Listener  \* close listeners

VARIABLES phase,       \* "new", "open", "closing" or "closed"
          cached,      \* keys of the statements the handle holds
          registered,  \* listeners AddCloseListener accepted
          notified     \* listeners Close has called

vars == <<phase, cached, registered, notified>>

Init ==
  /\ phase = "new"
  /\ cached = {}
  /\ registered = {}
  /\ notified = {}

Open ==
  /\ phase = "new"
  /\ phase' = "open"
  /\ UNCHANGED <<cached, registered, notified>>

Cache(k) ==
  /\ phase = "open"
  /\ k \notin cached
  /\ cached' = cached \union {k}
  /\ UNCHANGED <<phase, registered, notified>>

Register(l) ==
  /\ phase = "open"
  /\ l \notin registered
  /\ registered' = registered \union {l}
  /\ UNCHANGED <<phase, cached, notified>>

BeginClose ==
  /\ phase = "open"
  /\ phase' = "closing"
  /\ UNCHANGED <<cached, registered, notified>>

Notify(l) ==
  /\ phase = "closing"
  /\ l \in registered \ notified
  /\ notified' = notified \union {l}
  /\ UNCHANGED <<phase, cached, registered>>

DropStatements ==
  /\ phase = "closing"
  /\ notified = registered
  /\ cached' = {}
  /\ UNCHANGED <<phase, registered, notified>>

FinishClose ==
  /\ phase = "closing"
  /\ notified = registered
  /\ cached = {}
  /\ phase' = "closed"
  /\ UNCHANGED <<cached, registered, notified>>

Next ==
  \/ Open
  \/ BeginClose
  \/ DropStatements
  \/ FinishClose
  \/ \E k \in Key : Cache(k)
  \/ \E l \in Listener : Register(l) \/ Notify(l)

Spec == Init /\ [][Next]_vars
=============================================================================
