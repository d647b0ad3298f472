---------------------------- MODULE MCRunRecords ----------------------------
(* Instances of RunRecords for TLC.                                        *)
EXTENDS RunRecords, TLC

Symmetry == Permutations(Runs) \cup Permutations(Procs)
=============================================================================
