----------------------------- MODULE MCServices -----------------------------
(* Small instances of Services. *)
EXTENDS Services

CONSTANTS c1, c2, a, b, m1, k1, k2, s1, s2, s3, f1, f2, p1, p2, n1

\* The first payment may be for anything, the second is for goods as well.
MCKindsOf == [p \in BillIds |-> IF p = p1 THEN Kinds ELSE {"MARKETPLACE"}]
=============================================================================
