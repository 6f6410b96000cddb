------------------------------- MODULE MCLoop -------------------------------
(***************************************************************************)
(* Small instances of Loop.                                                *)
(***************************************************************************)
EXTENDS Loop

=============================================================================
