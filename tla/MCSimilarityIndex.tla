------------------------- MODULE MCSimilarityIndex -------------------------
(* A corpus of three images of which two are sampled; two more that        *)
(* scripts append one at a time.  Each image has classes of its own: b1 0  *)
(* or 2 (which has no name), b2 only 1, x1 -1, 0 or 1, x2 -1 or 0.         *)
EXTENDS SimilarityIndex, TLC

CONSTANTS b1, b2, b3, x1, x2

ThreeImages == <<b1, b2, b3>>
Appended == {<<x1>>, <<x2>>}
ClassIndex == (b1 :> 0) @@ (b2 :> 1) @@ (b3 :> 1)
TwoCorrections == {<<b1, 2>>, <<x1, 1>>}
TwoNames == <<"goldfish", "bee">>
Chains == ("onnx" :> <<"onnx", "onnx-int8">>) @@ ("onnx-int8" :> <<"onnx-int8", "onnx">>)
=============================================================================
