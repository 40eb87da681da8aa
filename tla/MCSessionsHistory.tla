------------------------- MODULE MCSessionsHistory -------------------------
(* A small instance of SessionsHistory for TLC.                            *)
EXTENDS SessionsHistory, TLC

(* Users and tokens are interchangeable.                                   *)
Symmetry == Permutations(Users) \cup Permutations(Tokens)
=============================================================================
