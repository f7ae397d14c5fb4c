----------------------------- MODULE MCInference ------------------------------
(* Instances of Inference for TLC.                                           *)
EXTENDS Inference, TLC

CONSTANTS r1, r2, q1, q2, u1, u2, img, bad, opt1, opt2, v1, v2

ReplicaSymmetry == Permutations({r1, r2}) \cup Permutations(Requests)

OnnxChain == <<"onnx", "onnx-int8">>

Published1 == <<v1>>
Published2 == <<v1, v2>>

Input(user, image, options, version, backend, use_cache) ==
    [user |-> user, image |-> image, options |-> options, version |-> version,
     backend |-> backend, use_cache |-> use_cache]

\* One user's requests that may meet in the cache.
CacheInputs == {Input(u1, img, opt1, None, None, TRUE), Input(u1, img, opt2, None, None, TRUE)}

RoutingInputs ==
    {Input(u, img, opt1, None, None, TRUE) : u \in {u1, u2}}
    \cup {Input(u1, img, opt1, v2, None, FALSE), Input(u1, bad, opt1, None, None, TRUE),
          Input(u1, img, opt1, None, "onnx", FALSE)}

NoEntries == <<>>

\* The rollout of docs/operations.md, nine users in ten on the control.
Rollout ==
    <<[name |-> "rollout", enabled |-> TRUE,
       variants |-> <<[name |-> "control", version |-> v1, weight |-> 9],
                      [name |-> "treatment", version |-> v2, weight |-> 1]>>]>>

Hashes == [p \in {<<"rollout", u1>>, <<"rollout", u2>>} |-> IF p[2] = u1 THEN 9 ELSE 8]
=============================================================================
