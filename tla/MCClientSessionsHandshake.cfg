SPECIFICATION Spec
CONSTANTS
    Clients = {k1}
    Legacy = {}
    None = None
    RequestCap = 1
    ResendCap = 1
    QueueCap = 1
    MaxConns = 2
    MaxReplies = 1
    MaxEvents = 0
    Overlap = FALSE
    CloseCalls = FALSE
CHECK_DEADLOCK FALSE
INVARIANT HandshakeInOrder
