SPECIFICATION FairSpec
CONSTANTS
    app = app
    read = read
    peek = peek
    write = write
    strict = strict
    copy = copy
    None = None
    Apps = {app}
    Msgs = {peek, copy}
    Hashes = {peek, copy}
    AppOf <- OneApp
    HashOf <- OwnHash
    KindOf <- KindByName
    ResendCap = 1
    Closes = FALSE
    MaxSurbs = 9
    MaxLosses = 2
    MaxLate = 0
    MaxUnready = 1
    MaxComposeFailures = 1
    MaxDisconnects = 0
CHECK_DEADLOCK FALSE
PROPERTY EveryCallReturns
