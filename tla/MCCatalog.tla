------------------------------ MODULE MCCatalog ------------------------------
EXTENDS Catalog, TLC

\* Runs, message ids and channels differ in nothing but their names.
Symmetry == Permutations(Runs) \cup Permutations(Ids)
=============================================================================
