----------------------------- MODULE MCDBHandle -----------------------------
(***************************************************************************)
(* Small instances of DBHandle for TLC.                                    *)
(***************************************************************************)
EXTENDS DBHandle, TLC

Symmetry == Permutations(Caller) \union Permutations(Key) \union Permutations(Listener)
=============================================================================
