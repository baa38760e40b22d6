-------------------------- MODULE MCCustomerJourney --------------------------
EXTENDS CustomerJourney, TLC

CONSTANTS h1, h2, c1, c2

MCHandlers == {h1, h2}
MCContents == {c1, c2}

Symmetry == Permutations(MCHandlers) \cup Permutations(MCContents)
=============================================================================
