-------------------------------- MODULE Chain --------------------------------
(***************************************************************************)
(* What the sessions of an account promise: those that follow a login are  *)
(* a chain.  Its last link can be used, once, to forge the next one, until *)
(* the chain is cut; what was used or cut off is never good again.         *)
(***************************************************************************)
CONSTANTS Links, Chains

VARIABLES
    links,      \* all the links of each chain
    last        \* the one that can be used

Init ==
    /\ links = [c \in Chains |-> {}]
    /\ last = [c \in Chains |-> {}]

New(l) == \A c \in Chains : l \notin links[c]

Begin(c, l) ==
    /\ links[c] = {} /\ New(l)
    /\ links' = [links EXCEPT ![c] = {l}]
    /\ last' = [last EXCEPT ![c] = {l}]

Forge(c, l, next) ==
    /\ last[c] = {l} /\ New(next)
    /\ links' = [links EXCEPT ![c] = @ \cup {next}]
    /\ last' = [last EXCEPT ![c] = {next}]

\* One chain, or all of the account.
Cut(C) ==
    /\ last' = [c \in Chains |-> IF c \in C THEN {} ELSE last[c]]
    /\ UNCHANGED links

Next ==
    \/ \E C \in SUBSET Chains : Cut(C)
    \/ \E c \in Chains, l \in Links :
         Begin(c, l) \/ \E next \in Links : Forge(c, l, next)

Spec == Init /\ [][Next]_<<links, last>>
=============================================================================
