------------------------------ MODULE MCGateway ------------------------------
EXTENDS Gateway, TLC

\* The members of these sets differ in nothing but their names.
Symmetry == Permutations(Calls) \cup Permutations(Requests)
==============================================================================
