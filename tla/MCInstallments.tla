--------------------------- MODULE MCInstallments ---------------------------
(* Small instances of Installments. *)
EXTENDS Installments, TLC

CONSTANTS r1, r2

\* Requests are interchangeable.
MCRequestSymmetry == Permutations(Requests)
=============================================================================
