---------------------------- MODULE MCUploadCommit ----------------------------
EXTENDS UploadCommit, TLC

\* Transfers are interchangeable: nothing in the reader orders them.
TransferSymmetry == Permutations(Transfers)
===============================================================================
