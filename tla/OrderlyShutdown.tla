-------------------------- MODULE OrderlyShutdown ---------------------------
(***************************************************************************)
(* What the server promises about the pages that Fetch returned, without   *)
(* handle, mutex, WaitGroup or statements: each is saved at most once,     *)
(* none starts being saved once the server drains, and the database goes   *)
(* away only when no save is under way.  A server that abandons its        *)
(* handlers promises nothing of the last two.                              *)
(***************************************************************************)
CONSTANT Request  \* URLs passed to Fetch

VARIABLES
  phase,   \* "up", "draining", "abandoned" or "down"
  saving,  \* requests whose page is being saved
  ended    \* requests whose save is over

shutdownVars == <<phase, saving, ended>>

ShutdownInit ==
  /\ phase = "up"
  /\ saving = {}
  /\ ended = {}

BeginSave(p) ==
  /\ phase \in {"up", "abandoned"}
  /\ p \notin saving \union ended
  /\ saving' = saving \union {p}
  /\ UNCHANGED <<phase, ended>>

EndSave(p) ==
  /\ p \in saving
  /\ saving' = saving \ {p}
  /\ ended' = ended \union {p}
  /\ UNCHANGED phase

Drain ==
  /\ phase = "up"
  /\ phase' \in {"draining", "abandoned"}
  /\ UNCHANGED <<saving, ended>>

GoDown ==
  /\ phase = "draining"
  /\ saving = {}
  /\ phase' = "down"
  /\ UNCHANGED <<saving, ended>>

ShutdownNext ==
  \/ \E p \in Request : BeginSave(p) \/ EndSave(p)
  \/ Drain
  \/ GoDown

ShutdownSpec == ShutdownInit /\ [][ShutdownNext]_shutdownVars
=============================================================================
