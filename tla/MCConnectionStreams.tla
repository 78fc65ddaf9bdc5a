------------------------ MODULE MCConnectionStreams ------------------------
EXTENDS ConnectionStreams, TLC

\* Readers differ by name only.
Interchangeable == Permutations(Readers)
=============================================================================
