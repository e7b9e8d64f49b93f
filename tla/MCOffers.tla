------------------------------- MODULE MCOffers -------------------------------
(* Small instances of Offers. *)
EXTENDS Offers, TLC

CONSTANTS b1, b2, r1, r2

\* Buyers and requests are interchangeable.
MCSymmetry == Permutations(Buyers) \cup Permutations(Requests)
=============================================================================
