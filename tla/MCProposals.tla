------------------------------ MODULE MCProposals ------------------------------
EXTENDS Proposals, TLC

\* Ids, calls and approvers are only compared with one another.
IdSymmetry == Permutations(Ids) \cup Permutations(Calls) \cup Permutations(Approvers)
===============================================================================
