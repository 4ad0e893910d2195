------------------------ MODULE MCIngestionService ------------------------
EXTENDS IngestionService, TLC

Symmetry == Permutations(Thread) \cup Permutations(Symbol)

=============================================================================
