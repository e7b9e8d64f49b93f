------------------------------ MODULE MCEscrow ------------------------------
(***************************************************************************)
(* Small instances of Escrow.  Orders o1 and o2 are placed on one listing; *)
(* every payment attempt is for o1.                                        *)
(***************************************************************************)
EXTENDS Escrow, TLC

CONSTANTS o1, o2, n1, n2

MCOrderOf == [p \in Payments |-> o1]
MCQty     == [o \in Orders |-> 1]

\* Settlement requests are interchangeable.
MCNoticeSymmetry == Permutations(Notices)
=============================================================================
