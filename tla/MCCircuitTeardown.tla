------------------------- MODULE MCCircuitTeardown -------------------------
EXTENDS CircuitTeardown

StreamSymmetry == Permutations(Streams)
=============================================================================
