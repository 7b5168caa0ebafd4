----------------------------- MODULE MCVerifierPool -----------------------------
\* VerifierPool for TLC: clients and callers are interchangeable.
EXTENDS VerifierPool

Symmetry == Permutations(Clients) \cup Permutations(Callers)
================================================================================
