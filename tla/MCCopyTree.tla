----------------------------- MODULE MCCopyTree -----------------------------
(***************************************************************************)
(* A source directory (1) with a file (2) and a subdirectory (3) that      *)
(* holds two files (4, 5).  Four threads are wanted at once and three are  *)
(* to be had; the copiers need six descriptors where there are two.        *)
(***************************************************************************)
EXTENDS CopyTree

MCParent == <<0, 1, 1, 3, 3>>

=============================================================================
