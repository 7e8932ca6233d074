---------------------------- MODULE MCFileSystem ----------------------------
EXTENDS FileSystem, TLC

\* Files and devices are interchangeable.
Symmetry == Permutations(Files) \cup Permutations(Devices)
=============================================================================
