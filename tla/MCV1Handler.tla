---------------------------- MODULE MCV1Handler ----------------------------
(* Small instances of V1Handler for TLC. *)
EXTENDS V1Handler, TLC

CONSTANTS h1, h2

\* The requests are interchangeable in the safety runs.
HandlerSymmetry == Permutations(Handlers)
=============================================================================
