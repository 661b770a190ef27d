-------------------------- MODULE MCAccountDeletion --------------------------
EXTENDS AccountDeletion, TLC

CONSTANTS i1, i2, w1, w2, f1, f2, f3, f4

MCFullData == {Classes}

MCSymmetry == Permutations({w1, w2}) \cup Permutations({i1, i2})
=============================================================================
