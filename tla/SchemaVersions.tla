--------------------------- MODULE SchemaVersions ---------------------------
(***************************************************************************)
(* What migrating promises of the version table of a database, whichever   *)
(* programs migrate it: the migrations recorded are always the first few,  *)
(* and they come and go one at a time.  Nothing is promised of a table     *)
(* that was once muddled.                                                  *)
(***************************************************************************)
EXTENDS Naturals

CONSTANT N  \* number of migrations

VARIABLES
  applied,  \* the migrations recorded
  muddled   \* an up and a reset have got into each other's way

versionVars == <<applied, muddled>>

VersionsInit == applied = {} /\ muddled = FALSE

\* The next migration is recorded.
Up == \E m \in 1 .. N : applied = 1 .. (m - 1) /\ applied' = 1 .. m

\* The last one is taken back.
Down == \E m \in 1 .. N : applied = 1 .. m /\ applied' = 1 .. (m - 1)

VersionsNext ==
  \/ ~muddled /\ UNCHANGED muddled /\ (Up \/ Down)
  \/ muddled' = TRUE /\ applied' \subseteq 1 .. N

VersionsSpec == VersionsInit /\ [][VersionsNext]_versionVars
=============================================================================
