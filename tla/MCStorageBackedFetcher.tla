----------------------- MODULE MCStorageBackedFetcher -----------------------
(***************************************************************************)
(* Small instances of StorageBackedFetcher for TLC.                        *)
(***************************************************************************)
EXTENDS StorageBackedFetcher
=============================================================================
