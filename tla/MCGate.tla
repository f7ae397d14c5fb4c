------------------------------- MODULE MCGate -------------------------------
(* A detection run, a classification run at the accuracy floor, and later  *)
(* a second one below the floor but within the tolerance.                  *)
EXTENDS Gate, TLC

CONSTANTS c1, d1, c2, u1, u2

ThreeRuns == <<d1, c1, c2>>
Tasks == (c1 :> "classification") @@ (d1 :> "detection") @@ (c2 :> "classification")
Flag(force, detection, similarity, skipInt8) ==
    [force |-> force, detection |-> detection, similarity |-> similarity, skipInt8 |-> skipInt8]
SomeFlags == {Flag(FALSE, FALSE, FALSE, FALSE), Flag(TRUE, TRUE, FALSE, FALSE),
              Flag(TRUE, FALSE, TRUE, TRUE)}
Top1 == (c1 :> [acc_top1 |-> 80, acc_top5 |-> 94]) @@ (d1 :> <<>>)
        @@ (c2 :> [acc_top1 |-> 79, acc_top5 |-> 94])
Milliseconds == ("classifier" :> <<4, 5, 6>>) @@ ("detector" :> <<29, 30, 33>>)
             @@ ("embedder" :> <<4, 5, 6>>)
Megabytes == (c1 :> 87) @@ (c2 :> 87)
Specs == [acc_top1 |-> [higher |-> TRUE, tolerance |-> 2, floor |-> 80],
          acc_top5 |-> [higher |-> TRUE, tolerance |-> 2, floor |-> 93],
          latency_p50_ms |-> [higher |-> FALSE, tolerance |-> 20, floor |-> None],
          latency_p95_ms |-> [higher |-> FALSE, tolerance |-> 25, floor |-> None],
          artifact_size_mb |-> [higher |-> FALSE, tolerance |-> 10, floor |-> None]]
=============================================================================
