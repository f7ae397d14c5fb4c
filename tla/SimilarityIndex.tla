-------------------------- MODULE SimilarityIndex --------------------------
(***************************************************************************)
(* The image index behind POST /similar: the scripts that build it, append *)
(* to it and relabel it (scripts/build_similarity_index.py and             *)
(* models/optimisation/export_embedding.py), one file after the other and  *)
(* each in place, and a replica that loads embedder and index at start-up  *)
(* (api/services/similarity_service.py) and answers queries from them.     *)
(* An index row is the image it was computed from.                         *)
(* A script can be killed at any step and a replica can start at any.      *)
(***************************************************************************)
EXTENDS Integers, Sequences, FiniteSets, SequencesExt

CONSTANTS
    Corpus,       \* images of the training split, in the order they are sampled
    NumImages,    \* --num-images
    Additions,    \* sequences of images that --append is given
    LabelOf,      \* image of the corpus -> class index
    Corrections,  \* relabellings that are asked for: an image and its class index
    ClassNames,   \* the classifier's class list
    EmbedderBackends, Chain, Fp32, EmbedderInt8,   \* InferenceBackend and _FALLBACK_CHAINS
    TopK,         \* top_k of a query
    Absent, Torn, \* no file, a file whose write was cut short
    MaxJobs       \* bound: scripts started

Images == Range(Corpus) \cup UNION {Range(images) : images \in Additions}
IndexFiles == Seq(Images)
ManifestFiles == [labels : Seq(Int), paths : Seq(Images)]

ASSUME SimilarityAssumption ==
    /\ Corpus \in IndexFiles /\ NumImages \in 0 .. Len(Corpus)
    /\ Additions \subseteq IndexFiles
    /\ LabelOf \in [Range(Corpus) -> Nat]
    /\ Corrections \subseteq Images \X Nat
    /\ ClassNames \in Seq(Range(ClassNames)) /\ TopK \in Nat
    /\ {Absent, Torn} \cap (IndexFiles \cup ManifestFiles \cup Nat) = {}

VARIABLES
    embedder,     \* the precisions for which onnx/embedder_<precision>.onnx exists
    stored,       \* similarity.index, _manifest.json, _metadata.json
    job,          \* the script at work: its writes still to do
    jobs,         \* scripts started so far
    place,        \* where the replica's start-up is
    backend,      \* INFERENCE_BACKEND of the replica
    model, index, manifest,   \* what the replica holds
    began         \* scripts that had ended when the replica began to read the index

replica == <<place, backend, model, index, manifest, began>>
indexVars == <<embedder, stored, job, jobs, replica>>

Unlabelled == -1
FileNames == {"index", "manifest", "metadata"}
Files == {Fp32, EmbedderInt8}
Readable(file) == stored[file] \notin {Absent, Torn}

-----------------------------------------------------------------------------
IndexInit ==
    /\ embedder \in SUBSET Files
    /\ stored = [f \in FileNames |-> Absent]
    /\ job = Absent /\ jobs = 0
    /\ place = "down" /\ backend \in EmbedderBackends
    /\ model = Absent /\ index = Absent /\ manifest = Absent /\ began = 0

(* A script that will write the given files, in that order.                *)
StartJob(kind, writes) ==
    /\ job = Absent /\ jobs < MaxJobs
    /\ jobs' = jobs + 1
    /\ job' = [kind |-> kind, writes |-> writes, open |-> FALSE]
    /\ UNCHANGED <<embedder, stored, replica>>

(* prepare_artifacts --with-similarity, with or without --skip-int8; no    *)
(* index is rebuilt or removed.                                            *)
ExportEmbedder ==
    /\ job = Absent
    /\ embedder' \in {embedder \cup {Fp32}, Files}
    /\ UNCHANGED <<stored, job, jobs, replica>>

Sampled == SubSeq(Corpus, 1, NumImages)

(* main without --append, then build_index.                                *)
Build ==
    /\ Fp32 \in embedder
    /\ LET labels == [i \in DOMAIN Sampled |-> LabelOf[Sampled[i]]]
       IN  StartJob("build",
             << <<"index", Sampled>>,
                <<"manifest", [labels |-> labels, paths |-> Sampled]>>,
                <<"metadata", Len(Sampled)>> >>)

(* append_to_index: index and manifest are read, extended and compared     *)
(* before either is written; a file that cannot be read or a difference in *)
(* length raises, and nothing changes.                                     *)
Extended(images, label) ==
    [labels |-> stored["manifest"].labels \o [i \in DOMAIN images |-> label],
     paths |-> stored["manifest"].paths \o images]

D_Append_(images, label) ==      \* lengths not compared
    /\ Fp32 \in embedder
    /\ Readable("index") /\ Readable("manifest")
    /\ LET rows == stored["index"] \o images
       IN  StartJob("append",
             << <<"index", rows>>, <<"manifest", Extended(images, label)>>,
                <<"metadata", Len(rows)>> >>)

Append_(images, label) ==
    /\ Fp32 \in embedder
    /\ Readable("index") /\ Readable("manifest")
    /\ LET rows == stored["index"] \o images
           described == Extended(images, label)
       IN  /\ Len(rows) = Len(described.labels)
           /\ StartJob("append",
                << <<"index", rows>>, <<"manifest", described>>, <<"metadata", Len(rows)>> >>)

(* update_index_labels: a manifest edit, refused for a row outside the     *)
(* index or a manifest of another length.  The row it is called with is    *)
(* that of the image meant.                                                *)
Relabel(row, label) ==
    /\ Readable("index") /\ Readable("manifest")
    /\ row \in DOMAIN stored["index"] /\ row \in DOMAIN stored["manifest"].labels
    /\ Len(stored["manifest"].labels) = Len(stored["index"])
    /\ Len(stored["manifest"].paths) = Len(stored["index"])
    /\ <<stored["manifest"].paths[row], label>> \in Corrections
    /\ StartJob("relabel",
         << <<"manifest", [stored["manifest"] EXCEPT !.labels[row] = label]>> >>)

(* write_index and write_text both write the final path in place.          *)
Write ==
    /\ job # Absent /\ job.writes # <<>>
    /\ LET file == Head(job.writes)[1]
           content == Head(job.writes)[2]
       IN  \/ /\ ~job.open
              /\ ~(job.kind = "append" /\ file = "metadata" /\ ~Readable("metadata"))
              /\ stored' = [stored EXCEPT ![file] = Torn]
              /\ job' = [job EXCEPT !.open = TRUE]
           \/ /\ job.open
              /\ stored' = [stored EXCEPT ![file] = content]
              /\ job' = [job EXCEPT !.open = FALSE, !.writes = Tail(@)]
    /\ UNCHANGED <<embedder, jobs, replica>>

Finish ==
    /\ job # Absent /\ job.writes = <<>>
    /\ job' = Absent
    /\ UNCHANGED <<embedder, stored, jobs, replica>>

(* The script is killed, or raises on metadata it cannot read.             *)
Kill ==
    /\ job # Absent
    /\ job' = Absent
    /\ UNCHANGED <<embedder, stored, jobs, replica>>

-----------------------------------------------------------------------------
(* The replica.                                                            *)

(* load_embedder: the chain of the configured backend; INT8 is left out    *)
(* unless it is the preferred one.                                         *)
Precision(b) == IF b = EmbedderInt8 THEN EmbedderInt8 ELSE Fp32
EmbedderChain(preferred) ==
    IF preferred = EmbedderInt8 THEN Chain[preferred]
    ELSE SelectSeq(Chain[preferred], LAMBDA b : b # EmbedderInt8)
Loadable(preferred) ==
    {i \in DOMAIN EmbedderChain(preferred) :
        Precision(EmbedderChain(preferred)[i]) \in embedder}
Loaded(preferred) ==
    LET first == CHOOSE i \in Loadable(preferred) : \A j \in Loadable(preferred) : i <= j
    IN  EmbedderChain(preferred)[first]

(* lifespan: whatever raises here leaves the endpoint without a service.   *)
LoadEmbedder ==
    /\ place = "down"
    /\ backend' \in EmbedderBackends
    /\ IF Loadable(backend') = {}
       THEN place' = "unavailable" /\ model' = Absent
       ELSE place' = "index" /\ model' = Loaded(backend')
    /\ index' = Absent /\ manifest' = Absent
    /\ began' = IF job = Absent THEN jobs ELSE jobs - 1
    /\ UNCHANGED <<embedder, stored, job, jobs>>

(* SimilarityIndex.load, which reads one file after the other.             *)
ReadIndex ==
    /\ place = "index"
    /\ IF (\A f \in FileNames : stored[f] # Absent) /\ Readable("index")
       THEN place' = "manifest" /\ index' = stored["index"]
       ELSE place' = "unavailable" /\ UNCHANGED index
    /\ UNCHANGED <<embedder, stored, job, jobs, backend, model, manifest, began>>

ReadManifest ==
    /\ place = "manifest"
    /\ manifest' = stored["manifest"]
    /\ place' = IF /\ Readable("manifest") /\ Readable("metadata")
                   /\ Len(index) = Len(stored["manifest"].labels)
                THEN "ready" ELSE "unavailable"
    /\ UNCHANGED <<embedder, stored, job, jobs, backend, model, index, began>>

(* find_similar, which changes nothing.  FAISS returns the nearest rows,   *)
(* padded with -1 when there are fewer; those and the ones below           *)
(* min_similarity are skipped.                                             *)
(* A Python list takes a negative index from its end.                      *)
NameOf(label) ==
    IF label >= Len(ClassNames) THEN label
    ELSE IF label >= 0 THEN ClassNames[label + 1]
    ELSE ClassNames[Len(ClassNames) + label + 1]

Described(row) ==
    [row |-> row, label |-> NameOf(manifest.labels[row]), class_id |-> manifest.labels[row],
     reference |-> manifest.paths[row]]
Searches ==   \* rows by decreasing similarity
    LET n == Min({TopK, Len(index)})
    IN  {rows \in [1 .. n -> DOMAIN index] : IsInjective(rows)}
Padded(found) == [i \in 1 .. TopK |-> IF i \in DOMAIN found THEN found[i] ELSE -1]
Kept(found, similar) == {i \in 1 .. similar : Padded(found)[i] # -1}
D_FindSimilar(found, similar) ==     \* the class looked up by rank
    [i \in Kept(found, similar) |->
        [Described(Padded(found)[i]) EXCEPT !.class_id = manifest.labels[i],
                                            !.label = NameOf(manifest.labels[i])]]
FindSimilar(found, similar) ==
    [i \in Kept(found, similar) |-> Described(Padded(found)[i])]

(* A deployment restarts the replica.                                      *)
StopReplica ==
    /\ place \in {"ready", "unavailable"}
    /\ place' = "down"
    /\ model' = Absent /\ index' = Absent /\ manifest' = Absent /\ began' = 0
    /\ UNCHANGED <<embedder, stored, job, jobs, backend>>

IndexNext ==
    \/ ExportEmbedder
    \/ Build
    \/ \E images \in Additions, label \in {Unlabelled, 0} : Append_(images, label)
    \/ \E row \in 1 .. Len(Corpus), label \in 0 .. Len(ClassNames) : Relabel(row, label)
    \/ Write \/ Finish \/ Kill
    \/ LoadEmbedder \/ ReadIndex \/ ReadManifest \/ StopReplica

IndexSpec == IndexInit /\ [][IndexNext]_indexVars

-----------------------------------------------------------------------------
(* The files on disk describe the same rows.                               *)
Agree ==
    /\ \A f \in FileNames : Readable(f)
    /\ Len(stored["index"]) = Len(stored["manifest"].labels)
    /\ Len(stored["index"]) = Len(stored["manifest"].paths)
    /\ Len(stored["index"]) = stored["metadata"]
    /\ \A i \in DOMAIN stored["index"] : stored["manifest"].paths[i] = stored["index"][i]

(* A class that a script has given to an image: that of the data set, that *)
(* of --append, or a correction.                                           *)
ClassGiven(image, label) ==
    \/ image \in Range(Corpus) /\ label = LabelOf[image]
    \/ label \in {Unlabelled, 0} /\ \E images \in Additions : image \in Range(images)
    \/ <<image, label>> \in Corrections

(* The length check of SimilarityIndex.load is enough                      *)
(* (similarity_service.py:78: "a mismatch ... would attach the wrong label *)
(* to every result"): whatever script died half-way and whichever one was  *)
(* writing while the replica read, what an answer says of a row of an      *)
(* index in service is true of the image the row was computed from - the   *)
(* reference is that image, the class is one that was given to it, and the *)
(* name is that of the class, unless it is Unlabelled or has no name - and *)
(* each row appears once.  As long as the sample is always of the same     *)
(* size and at most one script was at work while the replica read.         *)
InService == place = "ready" /\ jobs <= began + 1
AnswersDescribeRow ==
    InService => \A found \in Searches, similar \in 0 .. TopK :
        LET answer == FindSimilar(found, similar)
        IN  /\ \A i \in DOMAIN answer :
                 /\ answer[i].reference = index[answer[i].row]
                 /\ ClassGiven(index[answer[i].row], answer[i].class_id)
                 /\ answer[i].class_id \in 0 .. Len(ClassNames) - 1
                      => answer[i].label = ClassNames[answer[i].class_id + 1]
            /\ \A i, j \in DOMAIN answer : i # j => answer[i].row # answer[j].row

(* Whatever an earlier script left when it died, a build or an append that *)
(* finishes leaves index, manifest and metadata in agreement               *)
(* (export_embedding.py:352-366).                                          *)
FinishedJobsAgree ==
    [][job # Absent /\ job' = Absent /\ job.writes = <<>> /\ job.kind # "relabel" => Agree]_indexVars
=============================================================================
