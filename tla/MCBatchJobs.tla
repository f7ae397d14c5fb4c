---------------------------- MODULE MCBatchJobs -----------------------------
(* Instances of BatchJobs for TLC.                                          *)
EXTENDS BatchJobs

CONSTANTS w1, w2, j1
=============================================================================
