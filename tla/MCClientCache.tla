---------------------------- MODULE MCClientCache ----------------------------
(* An instance of ClientCache for TLC.  Which document a row stands for    *)
(* does not matter to the verifier.                                        *)
EXTENDS RuntimeConfig, TLC

CONSTANTS i1, i2

IdSymmetry == Permutations({i1, i2})
=============================================================================
