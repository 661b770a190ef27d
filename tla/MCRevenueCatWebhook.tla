------------------------ MODULE MCRevenueCatWebhook ------------------------
EXTENDS RevenueCatWebhook, TLC

CONSTANTS w1, w2, c1, c2, c3

MCSymmetry == Permutations(Handlers) \cup Permutations(Claims)
=============================================================================
