---------------------------- MODULE MCEdgeControl ----------------------------
\* Instances of EdgeControl for TLC: the manifest ids, two of which the
\* specification does not tell apart.
EXTENDS EdgeControl, TLC

CONSTANTS A, B, G

Symmetry == Permutations({A, B})
==============================================================================
