--------------------------- MODULE MCModelsClient ---------------------------
EXTENDS ModelsClient, TLC

CallerSymmetry == Permutations(Callers) \cup Permutations(Calls)
=============================================================================
