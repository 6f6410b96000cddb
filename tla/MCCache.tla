------------------------------ MODULE MCCache ------------------------------
(***************************************************************************)
(* Small instances of Cache.                                               *)
(***************************************************************************)
EXTENDS Cache, TLC

Symmetry ==
    Permutations(Entries) \cup Permutations(Readers) \cup Permutations(Threads)
        \cup Permutations(Urls)

=============================================================================
