------------------------- MODULE MCPurchaseAttempts -------------------------
EXTENDS PurchaseAttempts, TLC

CONSTANTS a1, a2, t1, t2

MCSymmetry == Permutations(Attempts) \cup Permutations(Txs)

\* Consents are given at the first two moments, by when the contact e-mail is
\* verified as well.
Early == /\ \A a \in Attempts : attempt[a].accepted \in {None, 0, 1}
         /\ user = "unverified" => now <= 1

\* One attempt of the two is given a case of its own, while the account is
\* neither in conflict nor deleted.
OneCase == LET cases == {a \in Attempts : case[a] # "none"}
           IN  /\ Cardinality(cases) <= 1
               /\ user \in {"conflict", "deleted"} => cases = {}
=============================================================================
