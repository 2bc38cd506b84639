---------------------------- MODULE MCMemStorage ----------------------------
(* Instances of MemStorage and EnvelopeBuilder for TLC.                    *)
EXTENDS MemStorage, TLC

\* No definition tells one piece of data from another.
ChunkSymmetry == Permutations(Chunks)
=============================================================================
