------------------------- MODULE MCAnomalyService -------------------------
EXTENDS AnomalyService, TLC

Symmetry == Permutations(Thread) \cup Permutations(Symbol) \cup Permutations(Verdict)

=============================================================================
