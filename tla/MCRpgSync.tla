----------------------------- MODULE MCRpgSync ------------------------------
EXTENDS RpgSync, TLC
CONSTANTS f1, f2, v1, v2, w1, w2, c1, c2, c3, s1, s2
Symmetric == Permutations({f1, f2}) \cup Permutations({v1, v2})
                \cup Permutations({w1, w2}) \cup Permutations({c1, c2, c3})
                \cup Permutations({s1, s2})
=============================================================================
