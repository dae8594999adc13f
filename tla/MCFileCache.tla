---------------------------- MODULE MCFileCache ----------------------------
(***************************************************************************)
(* Instances of FileCache for TLC: the engine, which uses every operation, *)
(* and a goroutine that lists.                                             *)
(***************************************************************************)
EXTENDS FileCache

CONSTANTS engine, lister, r1, r2

=============================================================================
