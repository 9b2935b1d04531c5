--------------------------- MODULE MCURLDataStore ---------------------------
(***************************************************************************)
(* Small instances of URLDataStore for TLC.                                *)
(***************************************************************************)
EXTENDS URLDataStore, TLC

Symmetry == Permutations(Client) \union Permutations(URL)
=============================================================================
