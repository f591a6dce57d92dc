-------------------------- MODULE MCSessionCookies --------------------------
EXTENDS SessionCookies, TLC
CONSTANTS p1, p2, s1, s2, none
MCReqs == {p1, p2}
MCSids == {s1, s2}
MCRealms == BOOLEAN
Symmetries == Permutations(MCReqs) \cup Permutations(MCSids)
FewCauses == Cardinality(causes) <= 2
=============================================================================
