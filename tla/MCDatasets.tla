----------------------------- MODULE MCDatasets -----------------------------
(* Tiny-ImageNet with its checksum and the COCO sample without; the old    *)
(* version upstream lacks an annotation, two chunks make an archive.       *)
EXTENDS Datasets, TLC

CONSTANTS tiny, coco, old, new, cat, dog

Both == <<tiny, coco>>
TwoClasses == <<cat, dog, dog>>
Listed == (old :> {1, 3}) @@ (new :> {1, 2, 3})
=============================================================================
