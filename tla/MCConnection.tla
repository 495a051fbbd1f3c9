---- MODULE MCConnection ----
EXTENDS Connection

BodySymmetry == Permutations(Bodies)
====
