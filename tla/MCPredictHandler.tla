--------------------------- MODULE MCPredictHandler ---------------------------
EXTENDS PredictHandler, TLC
Symmetry == Permutations(Requests)
=============================================================================
