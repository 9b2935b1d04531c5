----------------------------- MODULE MCSessions -----------------------------
\* Instances of Sessions for TLC.
EXTENDS Sessions, TLC

Symmetry == Permutations(Key)
=============================================================================
