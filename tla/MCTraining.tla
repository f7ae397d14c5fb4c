----------------------------- MODULE MCTraining -----------------------------
(* Two ranks; the default configuration and one that evaluates by batches, *)
(* saves every second epoch and accumulates gradients.                     *)
EXTENDS Training

CONSTANTS r0, r1

TwoConfigs == {[unit |-> "ep", every |-> 1, save |-> 1, accum |-> 1],
               [unit |-> "ba", every |-> 2, save |-> 2, accum |-> 3]}
=============================================================================
