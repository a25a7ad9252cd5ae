SPECIFICATION StorageSpec
CONSTANTS
    e1 = e1
    e2 = e2
    k1 = k1
    k2 = k2
    c1 = c1
    c2 = c2
    rp = rp
    rq = rq
    w1 = w1
    w2 = w2
    w3 = w3
    t1 = t1
    r1 = r1
    r2 = r2
    b1 = b1
    b2 = b2
    b3 = b3
    a1 = a1
    a2 = a2
    Envelopes = {e1, e2}
    CopyKeys = {k1, k2}
    Stream <- TwoStreams
    Replicas = {0, 1}
    Intermediates <- BothWays
    Shards <- InOrder
    EpochOf <- LastAndNext
    None = None
    Stale = Stale
    QueueSize = 2
    MaxDispatch = 1
    MaxReadAttempts = 2
    MaxWriteAttempts = 2
    MaxBoxes = 1
    MaxEnvelopes = 2
    MaxWorkers = 2
    CourierBudgets <- Clients
    Peers = {rp, rq}
    Writes = {w1, w2, w3, t1}
    Tombstones = {t1}
    Requests = {r1, r2}
    WriteRequests = {r2}
    BoxOf <- MCBoxOf
    ShardPeer <- MCShardPeer
    OutgoingQueueSize = 1
    maxRetryQueuePerPeer = 2
    MaxConcurrentReplications = 1
    ProxyWorkerCount = 1
    Nothing = Nothing
    NetBudgets <- Loads
    Authorities = {a1, a2}
    FirstEpoch = 5
    LastSlot = 41
    EpochsPerWeek = 2
    PKIBudgets <- Nodes
INVARIANTS AnswersSound CopySound ReplicationSound ProxyAnswerTrue PKISound RetriesInTime
PROPERTY SuccessSticks
CHECK_DEADLOCK FALSE
