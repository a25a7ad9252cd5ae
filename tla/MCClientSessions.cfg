SPECIFICATION Spec
CONSTANTS
    Clients = {k1, k2, k3}
    Legacy = {k2, k3}
    None = None
    RequestCap = 1
    ResendCap = 1
    QueueCap = 1
    MaxConns = 3
    MaxReplies = 1
    MaxEvents = 1
    Overlap = FALSE
    CloseCalls = FALSE
CHECK_DEADLOCK FALSE
SYMMETRY LegacySymmetry
INVARIANTS RotationSound SessionIntact RepliesReachOwner KeptStateHasTimer

