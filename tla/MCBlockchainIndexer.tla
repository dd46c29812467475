------------------------ MODULE MCBlockchainIndexer ------------------------
(* Instances of BlockchainIndexer for TLC.                                 *)
EXTENDS BlockchainIndexer, TLC

\* A task is an identity and nothing else: safety runs may permute them.
TaskSymmetry == Permutations(Tasks)
=============================================================================
