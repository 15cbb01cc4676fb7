---------------------------- MODULE MCRestore ----------------------------
(* A repository of two entries, ".git" and another. *)
EXTENDS Restore

MCEntries == {"git", "file"}
==========================================================================
