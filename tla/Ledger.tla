-------------------------------- MODULE Ledger --------------------------------
(***************************************************************************)
(* What the books promise: a payment has one price, its entries are made   *)
(* at one moment and add up to it, its payee is owed what they say was     *)
(* earned, once, and nothing that was written is ever changed.             *)
(***************************************************************************)
EXTENDS Naturals

CONSTANT Payments

VARIABLES
    price,      \* 0 before there is the payment
    entries,    \* what was earned, the commission, and other revenue
    due         \* {} or what the payee is owed

books == <<price, entries, due>>

Types == {"EARNING", "PLATFORM_COMMISSION", "PLATFORM_REVENUE"}
Blank == [type \in Types |-> 0]
Sum(e) == e.EARNING + e.PLATFORM_COMMISSION + e.PLATFORM_REVENUE

Init ==
    /\ price = [p \in Payments |-> 0]
    /\ entries = [p \in Payments |-> Blank]
    /\ due = [p \in Payments |-> {}]

Create(p) ==
    /\ price[p] = 0 /\ price'[p] \in Nat \ {0}
    /\ price' = [price EXCEPT ![p] = price'[p]]
    /\ UNCHANGED <<entries, due>>

\* The payees of S are owed what was earned, by the entries there are by now.
Owe(S) ==
    /\ \A p \in S : due[p] = {} /\ entries'[p] # Blank
    /\ due' = [p \in Payments |-> IF p \in S THEN {entries'[p].EARNING} ELSE due[p]]

\* With the payout or without it.
Enter(p) ==
    /\ price[p] # 0 /\ entries[p] = Blank
    /\ entries'[p] \in [Types -> Nat] /\ Sum(entries'[p]) = price[p]
    /\ entries' = [entries EXCEPT ![p] = entries'[p]]
    /\ \E S \in SUBSET {p} : Owe(S)
    /\ UNCHANGED price

PayLater ==
    /\ UNCHANGED <<price, entries>>
    /\ \E S \in SUBSET Payments : Owe(S)

Next == PayLater \/ \E p \in Payments : Create(p) \/ Enter(p)

Spec == Init /\ [][Next]_books
=============================================================================
