--------------------------- MODULE MCGovernedFlow ---------------------------
(* Instances of GovernedFlow for TLC.                                      *)
EXTENDS GovernedFlow

\* A bound: once the server has forgotten the run of the checkpoint, at most
\* one process has ended without completing.
FewTroubles == forgotten # None => ends <= 1
=============================================================================
