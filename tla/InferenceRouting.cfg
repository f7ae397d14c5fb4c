SPECIFICATION Spec
CONSTANTS
    r1 = r1
    r2 = r2
    q1 = q1
    q2 = q2
    u1 = u1
    u2 = u2
    img = img
    bad = bad
    opt1 = opt1
    opt2 = opt2
    v1 = v1
    v2 = v2
    None = None
    DefaultVersion = v1
    Int8 = "onnx-int8"
    Chain <- OnnxChain
    Total = 10
    Position <- Hashes
    BadImages = {bad}
    Replicas = {r1, r2}
    Requests = {q1, q2}
    Versions = {v1, v2}
    Initially <- Published2
    Entries <- Rollout
    Inputs <- RoutingInputs
    MaxRun = 2
    MaxStarts = 3
SYMMETRY ReplicaSymmetry
CHECK_DEADLOCK FALSE
INVARIANTS
    AuditAgrees
    OnlyPinsNotFound
    UserStaysOnArm
