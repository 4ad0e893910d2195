--------------------------- MODULE MCRiskService ---------------------------
EXTENDS RiskService, TLC

Symmetry == Permutations(Thread)

=============================================================================
