---------------------------- MODULE MCContentStore ----------------------------
EXTENDS ContentStore, TLC

\* Revisions are interchangeable: nothing in the store orders them.
RevisionSymmetry == Permutations(Revisions)
===============================================================================
