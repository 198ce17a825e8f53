------------------------------ MODULE MCAccess ------------------------------
(* A small instance of Access for TLC. *)
EXTENDS Access, TLC

CONSTANTS k1, k2, t1, t2

\* An installation with a password and a disabled key.
SomeSettings == {[Default EXCEPT !.hash = "first", !.keys[k1] = <<"off">>, !.require = "on"]}

\* Tokens are random: which is issued first makes no difference.
TokenSymmetry == Permutations(Tokens)
=============================================================================
