-------------------------------- MODULE MCFls --------------------------------
\* Fls with interchangeable threads, blocks, keys and data.
EXTENDS Fls, TLC

MCSymmetry == Permutations(Thread) \cup Permutations(KeyBlock) \cup Permutations(ValueBlock)
              \cup Permutations(Index) \cup Permutations(Data)
============================================================================
