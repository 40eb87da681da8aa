------------------------------ MODULE MCLogin ------------------------------
(* Small instances of Login for TLC.                                       *)
EXTENDS Login, TLC

(* Attempts on one account are interchangeable.                            *)
Symmetry == Permutations(Attempts)
=============================================================================
