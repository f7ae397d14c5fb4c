------------------------------ MODULE Datasets ------------------------------
(***************************************************************************)
(* scripts/setup/download_datasets.py and the loader in                    *)
(* models/data/tiny_imagenet.py: archives fetched into .part files that a  *)
(* later run resumes, verified, extracted into a staging directory,        *)
(* rearranged and moved into place, and what the loader accepts of it.     *)
(* The process can be killed and a transfer cut at any step; the file      *)
(* upstream may be replaced by another version.                            *)
(*                                                                         *)
(* An archive is the sequence of the versions its chunks come from.        *)
(***************************************************************************)
EXTENDS Naturals, Sequences, FiniteSets, FiniteSetsExt

CONSTANTS
    Catalogue,      \* DATASETS: the names, in order
    Checked,        \* those with an md5
    WithExtra,      \* those with extra_urls
    Sampled,        \* those with a sample_size
    Labelled,       \* tiny_imagenet, whose val/ is restructured and loaded
    Ranged,         \* those whose server honours the Range header
    Versions, Published,
    Size,           \* chunks in an archive
    Images, Classes, ClassOf,   \* val_annotations.txt of the published version
    Annotated,      \* version -> images its annotation file lists
    SampleSize,
    Flat,           \* the flat directory val/images
    Absent,
    MaxFaults       \* bound: kills, cut transfers and hand-made trees

Names == {Catalogue[i] : i \in DOMAIN Catalogue}
Files == Names \X {1, 2}
Dataset(f) == f[1]

(* The dataset that is restructured is not the one that is sampled.        *)
ASSUME DatasetsAssumption ==
    /\ Catalogue \in Seq(Names)
    /\ Labelled \subseteq Names /\ Labelled \cap Sampled = {}
    /\ Size \in Nat \ {0}
    /\ Images \in SUBSET Nat /\ IsFiniteSet(Images)
    /\ SampleSize \in Nat

VARIABLES
    part, archive,      \* per file: <name>.part and <name>
    target, staging,    \* the dataset's directory and the temporary one
    upstream, reply,    \* version served now, version of the open response
    phase, todo, file, force, failed,  \* the running process
    loaded,             \* the tree build_datasets accepted last
    faults

dataVars == <<part, archive, target, staging, upstream, reply, phase, todo, file, force,
              failed, loaded, faults>>
disk == <<part, archive, target>>
process == <<staging, reply, todo, file, force, failed>>

-----------------------------------------------------------------------------
(* A tree on disk: which archives it holds, the version of the first,      *)
(* whether it sits in a redundant top-level directory, and the directory   *)
(* of val/ each image is in.                                               *)
EmptyTree == [version |-> Absent, roots |-> {}, nested |-> FALSE, place |-> <<>>]
ImagesOf(tree) == DOMAIN tree.place
FlatTree(v) == [version |-> v, roots |-> {1}, nested |-> TRUE, place |-> [i \in Images |-> Flat]]

Intact(content) == Len(content) = Size /\ Cardinality({content[i] : i \in 1 .. Size}) = 1
md5(content) == content
D_Digest == [i \in 1 .. Size |-> Absent]    \* the checksum of another file
Digest == [i \in 1 .. Size |-> Published]

(* extract: an archive pieced together from two versions is no zip file.   *)
Extracted(tree, f, v) ==
    IF f[2] = 1 THEN [FlatTree(v) EXCEPT !.nested = Dataset(f) \notin WithExtra]
                ELSE [tree EXCEPT !.roots = @ \cup {2}]

(* flatten_single_root: only when there is a single entry.                 *)
Flattened(tree) == [tree EXCEPT !.nested = IF Cardinality(tree.roots) = 1 THEN FALSE ELSE @]

(* restructure_tiny_imagenet_val: each annotated image goes to its class,  *)
(* the others are discarded with the flat directory; a second call is a    *)
(* no-op.                                                                  *)
Restructured(tree) ==
    [tree EXCEPT !.place =
        IF \E i \in ImagesOf(tree) : tree.place[i] = Flat
        THEN [i \in ImagesOf(tree) \cap Annotated[tree.version] |-> ClassOf[i]]
        ELSE @]

(* subsample_coco: the first SampleSize images by name.                    *)
Subsampled(tree) ==
    [tree EXCEPT !.place =
        [i \in {j \in ImagesOf(tree) : Cardinality({k \in ImagesOf(tree) : k <= j}) <= SampleSize}
            |-> tree.place[i]]]

(* _prepare *)
Prepared(d, tree) ==
    LET flat == Flattened(tree)
    IN  CASE d \in Labelled -> Restructured(flat)
          [] d \in Sampled /\ d \notin Labelled -> Subsampled(flat)
          [] OTHER -> flat

-----------------------------------------------------------------------------
DataInit ==
    /\ part = [f \in Files |-> <<>>]
    /\ archive = [f \in Files |-> Absent]
    /\ target = [d \in Names |-> Absent]
    /\ staging = EmptyTree /\ reply = Absent
    /\ upstream \in Versions
    /\ phase = "idle" /\ todo = <<>> /\ file = Absent /\ force = FALSE /\ failed = {}
    /\ loaded = Absent /\ faults = 0

(* main: one dataset, or download_all in the catalogue's order.            *)
Start ==
    /\ phase = "idle"
    /\ phase' = "dataset"
    /\ todo' \in {Catalogue} \cup {<<d>> : d \in Names}
    /\ force' \in BOOLEAN
    /\ failed' = {}
    /\ UNCHANGED <<disk, staging, upstream, reply, file, loaded, faults>>

Exit ==
    /\ phase = "dataset" /\ todo = <<>>
    /\ phase' = "idle"
    /\ UNCHANGED <<disk, process, upstream, loaded, faults>>

(* The next dataset of download_all, after this one is done or has failed. *)
SkipToNext ==
    /\ phase' = "dataset"
    /\ todo' = Tail(todo)
    /\ staging' = EmptyTree /\ file' = Absent /\ reply' = Absent

Fail ==
    /\ failed' = failed \cup {Head(todo)}
    /\ SkipToNext

(* download_dataset up to its temporary directory: a directory that exists *)
(* is trusted, --force removes it first.                                   *)
BeginDataset ==
    /\ phase = "dataset" /\ todo # <<>>
    /\ LET d == Head(todo)
       IN  \/ /\ target[d] # Absent /\ ~force
              /\ SkipToNext
              /\ UNCHANGED <<target, failed, force>>
           \/ /\ target[d] = Absent \/ force
              /\ target' = [target EXCEPT ![d] = Absent]
              /\ staging' = EmptyTree
              /\ file' = <<d, 1>>
              /\ phase' = "request"
              /\ UNCHANGED <<todo, failed, force, reply>>
    /\ UNCHANGED <<part, archive, upstream, loaded, faults>>

(* download: the request carries the size of the partial file.  A server   *)
(* that ignores it answers 200 and the file is written anew; a range       *)
(* behind the end of the file is refused.                                  *)
Request ==
    /\ phase = "request"
    /\ LET honoured == part[file] # <<>> /\ Dataset(file) \in Ranged
       IN  \/ /\ honoured /\ Len(part[file]) >= Size
              /\ Fail
              /\ UNCHANGED part
           \/ /\ ~(honoured /\ Len(part[file]) >= Size)
              /\ reply' = upstream
              /\ part' = [part EXCEPT ![file] = IF honoured THEN @ ELSE <<>>]
              /\ phase' = "receive"
              /\ UNCHANGED <<todo, staging, file, failed>>
    /\ UNCHANGED <<archive, target, upstream, force, loaded, faults>>

Receive ==
    /\ phase = "receive" /\ Len(part[file]) < Size
    /\ part' = [part EXCEPT ![file] = Append(@, reply)]
    /\ UNCHANGED <<archive, target, upstream, process, phase, loaded, faults>>

(* partial.rename(destination), when the response is exhausted.            *)
Rename ==
    /\ phase = "receive" /\ Len(part[file]) = Size
    /\ archive' = [archive EXCEPT ![file] = part[file]]
    /\ part' = [part EXCEPT ![file] = <<>>]
    /\ phase' = IF file[2] = 1 THEN "verify" ELSE "extract"
    /\ UNCHANGED <<target, upstream, process, loaded, faults>>

D_Verify ==            \* no checksum compared
    /\ phase = "verify"
    /\ phase' = "extract"
    /\ UNCHANGED <<disk, process, upstream, loaded, faults>>

(* verify: the archive of a failed verification stays where it is.         *)
Verify ==
    /\ phase = "verify"
    /\ \/ /\ Dataset(file) \in Checked /\ md5(archive[file]) # Digest
          /\ Fail
       \/ /\ Dataset(file) \notin Checked \/ md5(archive[file]) = Digest
          /\ phase' = "extract"
          /\ UNCHANGED <<todo, staging, file, failed, reply>>
    /\ UNCHANGED <<disk, upstream, force, loaded, faults>>

(* extract and archive.unlink(), then the next extra archive.  BadZipFile  *)
(* is none of the exceptions download_all handles: it ends the process.    *)
Extract ==
    /\ phase = "extract"
    /\ \/ /\ Intact(archive[file])
          /\ staging' = Extracted(staging, file, archive[file][1])
          /\ archive' = [archive EXCEPT ![file] = Absent]
          /\ IF file[2] = 1 /\ Dataset(file) \in WithExtra
             THEN phase' = "request" /\ file' = <<Dataset(file), 2>>
             ELSE phase' = "prepare" /\ UNCHANGED file
          /\ UNCHANGED <<todo, reply>>
       \/ /\ ~Intact(archive[file])
          /\ phase' = "idle" /\ todo' = <<>> /\ staging' = EmptyTree /\ file' = Absent /\ reply' = Absent
          /\ UNCHANGED archive
    /\ UNCHANGED <<part, target, upstream, force, failed, loaded, faults>>

Prepare ==
    /\ phase = "prepare"
    /\ staging' = Prepared(Dataset(file), staging)
    /\ phase' = "move"
    /\ UNCHANGED <<disk, upstream, reply, todo, file, force, failed, loaded, faults>>

Move ==
    /\ phase = "move"
    /\ target' = [target EXCEPT ![Dataset(file)] = staging]
    /\ SkipToNext
    /\ UNCHANGED <<part, archive, upstream, force, failed, loaded, faults>>

-----------------------------------------------------------------------------
(* The loader.  resolve_root accepts the nested layout as well.            *)
ClassDirs(tree) == {tree.place[i] : i \in ImagesOf(tree)}

(* assert_val_is_restructured *)
AssertRestructured(tree) ==
    /\ \A i \in ImagesOf(tree) : tree.place[i] # Flat
    /\ Cardinality(ClassDirs(tree)) = Cardinality(Classes)

D_LoadData(d) ==       \* ImageFolder takes what it finds
    /\ target[d] # Absent
    /\ loaded' = target[d]
    /\ UNCHANGED <<disk, process, upstream, phase, faults>>

(* build_datasets: train/ has a directory for every class.                 *)
LoadData(d) ==
    /\ target[d] # Absent
    /\ AssertRestructured(target[d])
    /\ ClassDirs(target[d]) = Classes
    /\ loaded' = target[d]
    /\ UNCHANGED <<disk, process, upstream, phase, faults>>

-----------------------------------------------------------------------------
Fault == faults < MaxFaults /\ faults' = faults + 1

(* The process is killed; its temporary directory is never looked at again *)
Kill ==
    /\ phase # "idle"
    /\ Fault
    /\ phase' = "idle" /\ todo' = <<>> /\ staging' = EmptyTree /\ file' = Absent /\ reply' = Absent
    /\ UNCHANGED <<disk, upstream, force, failed, loaded>>

(* A RequestException in the middle of a transfer.                         *)
CutTransfer ==
    /\ phase = "receive"
    /\ Fault
    /\ Fail
    /\ UNCHANGED <<disk, upstream, force, loaded>>

(* The file upstream is replaced.                                          *)
Republish ==
    /\ upstream # Published
    /\ upstream' = Published
    /\ UNCHANGED <<disk, process, phase, loaded, faults>>

(* A tree other tooling extracted: nested and in the distributed layout.   *)
PlaceByHand(d) ==
    /\ phase = "idle" /\ target[d] = Absent
    /\ Fault
    /\ target' = [target EXCEPT ![d] = FlatTree(Published)]
    /\ UNCHANGED <<part, archive, process, upstream, phase, loaded>>

Step == BeginDataset \/ Request \/ Receive \/ Rename \/ Verify \/ Extract \/ Prepare \/ Move \/ Exit

DataNext ==
    \/ Start \/ Step
    \/ \E d \in Labelled : LoadData(d) \/ PlaceByHand(d)
    \/ Kill \/ CutTransfer \/ Republish

DataSpec == DataInit /\ [][DataNext]_dataVars

(* The process goes on, and whoever needs the data runs it again, with the *)
(* option --dataset all and without --force, as long as one is missing.    *)
Missing == \E d \in Names : target[d] = Absent
Retry == Missing /\ Start /\ todo' = Catalogue /\ ~force'
FairDataSpec == DataSpec /\ WF_dataVars(Step) /\ SF_dataVars(Retry) /\ WF_dataVars(Republish)

-----------------------------------------------------------------------------
(* "A failure never leaves a half-populated dataset directory that the     *)
(* 'already present' check would later trust" (download_datasets.py:373):  *)
(* a directory in place was made by hand or holds every archive, prepared; *)
(* a checksummed one is of the published version, whatever was resumed.    *)
ByHand(d) == target[d] = FlatTree(Published)
TrustedIsWhole ==
    \A d \in Names : target[d] # Absent /\ ~ByHand(d) =>
        /\ target[d].roots = IF d \in WithExtra THEN {1, 2} ELSE {1}
        /\ ~target[d].nested
        /\ d \in Labelled => \A i \in ImagesOf(target[d]) : target[d].place[i] = ClassOf[i]
        /\ d \in Sampled => Cardinality(ImagesOf(target[d])) <= SampleSize
        /\ d \in Checked => target[d].version = Published

(* Whatever tree is found in place, the loader never accepts one in which  *)
(* an image carries a wrong label or a class is missing                    *)
(* (tiny_imagenet.py:67: "making validation accuracy meaningless without   *)
(* raising any error").                                                    *)
LoadedLabelsTrue ==
    loaded # Absent =>
        /\ \A i \in ImagesOf(loaded) : loaded.place[i] = ClassOf[i]
        /\ ClassDirs(loaded) = Classes

(* "partial downloads are resumable on re-run" (download_datasets.py:460): *)
(* once the file upstream is the published one, runs repeated until every  *)
(* dataset is there succeed, except where a partial file was complete when *)
(* its run ended: the server refuses to resume that one, run after run.    *)
Stuck == phase = "idle" /\ \E f \in Files : Dataset(f) \in Ranged /\ Len(part[f]) = Size
DownloadsFinish == <>(~Missing \/ Stuck)
=============================================================================
