--------------------------- MODULE MCRegistration ---------------------------
(* Registration with one notifications consumer.                          *)
EXTENDS Registration, TLC

MCSymmetry == Permutations(Tokens) \cup Permutations(Accounts) \cup Permutations(Handlers)
=============================================================================
