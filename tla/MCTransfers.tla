---- MODULE MCTransfers ----
EXTENDS Transfers

\* Sessions, paths, inodes, FILE pointers and data have no identity of their own.
NamesSymmetry ==
    Permutations(Sessions) \cup Permutations(Paths)
        \cup Permutations(Inodes) \cup Permutations(Handles) \cup Permutations(Data)
====
