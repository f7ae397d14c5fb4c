SPECIFICATION FairDataSpec
CONSTANTS
    tiny = tiny
    coco = coco
    old = old
    new = new
    cat = cat
    dog = dog
    Absent = Absent
    Flat = Flat
    Catalogue <- Both
    Checked = {tiny}
    WithExtra = {coco}
    Sampled = {coco}
    Labelled = {tiny}
    Ranged = {tiny}
    Versions = {old, new}
    Published = new
    Size = 2
    Images = {1, 2, 3}
    Classes = {cat, dog}
    ClassOf <- TwoClasses
    Annotated <- Listed
    SampleSize = 2
    MaxFaults = 2
INVARIANTS
    TrustedIsWhole
    LoadedLabelsTrue
PROPERTIES
    DownloadsFinish
