-------------------------- MODULE MCReplicaStartup --------------------------
(* Instances of ReplicaStartup for TLC.                                     *)
EXTENDS ReplicaStartup

SomeSettings == [backend : Backends, degradation : BOOLEAN]

SecondVersion == <<"v2">>

Host(gpu, registered, linked, wheels) ==
    [gpu |-> gpu, registered |-> registered, linked |-> linked, wheels |-> wheels]

\* The CPU image; the GPU image without a GPU; with all wheels, with those of
\* CUDA, with none; and libraries that the linker finds.
SomeHosts ==
    {Host(FALSE, {}, {}, {}),
     Host(FALSE, {Trt, Cuda}, {}, {Trt, Cuda}),
     Host(TRUE, {Trt, Cuda}, {}, {Trt, Cuda}),
     Host(TRUE, {Trt, Cuda}, {}, {Cuda}),
     Host(TRUE, {Trt, Cuda}, {}, {}),
     Host(TRUE, {Cuda}, {Cuda}, {})}

V2 == <<"classifier", "v2">>
Disk(fp32, int8, corrupt, labels, index, experiments) ==
    [fp32 |-> fp32, int8 |-> int8, corrupt |-> corrupt, labels |-> labels, index |-> index,
     experiments |-> experiments]

\* Everything; INT8 alone; a damaged graph; a version without labels and no
\* index; a classifier alone; nothing; a bad experiments.json.
SomeDisks ==
    LET all == {Classifier, V2, Detector, Embedder}
        labels == {Classifier, V2, Detector}
    IN  {Disk(all, all, {}, labels, TRUE, TRUE),
         Disk({}, all, {}, labels, TRUE, TRUE),
         Disk(all, all, {<<Classifier, "fp32">>, <<Detector, "fp32">>}, labels, TRUE, TRUE),
         Disk(all, {Classifier}, {}, labels \ {V2}, FALSE, TRUE),
         Disk({Classifier}, {}, {}, {Classifier}, FALSE, TRUE),
         Disk({}, {}, {}, {}, FALSE, TRUE),
         Disk(all, all, {}, labels, TRUE, FALSE)}
=============================================================================
