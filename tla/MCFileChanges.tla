---------------------------- MODULE MCFileChanges ---------------------------
(* The instance of FileChanges for TLC. *)
EXTENDS FileChanges

CONSTANTS copying, trashing
=============================================================================
