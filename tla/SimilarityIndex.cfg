SPECIFICATION IndexSpec
CONSTANTS
    b1 = b1
    b2 = b2
    b3 = b3
    x1 = x1
    x2 = x2
    Absent = Absent
    Torn = Torn
    Corpus <- ThreeImages
    NumImages = 2
    Additions <- Appended
    LabelOf <- ClassIndex
    Corrections <- TwoCorrections
    ClassNames <- TwoNames
    EmbedderBackends = {"onnx", "onnx-int8"}
    Chain <- Chains
    Fp32 = "onnx"
    EmbedderInt8 = "onnx-int8"
    TopK = 3
    MaxJobs = 4
CHECK_DEADLOCK FALSE
INVARIANTS
    AnswersDescribeRow
PROPERTIES
    FinishedJobsAgree
