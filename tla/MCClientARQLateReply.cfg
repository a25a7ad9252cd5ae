SPECIFICATION FairSpec
CONSTANTS
    app = app
    read = read
    peek = peek
    write = write
    strict = strict
    copy = copy
    None = None
    Apps = {app}
    Msgs = {write}
    Hashes = {write}
    AppOf <- OneApp
    HashOf <- OwnHash
    KindOf <- KindByName
    ResendCap = 1
    Closes = FALSE
    MaxSurbs = 5
    MaxLosses = 0
    MaxLate = 1
    MaxUnready = 0
    MaxComposeFailures = 0
    MaxDisconnects = 0
CHECK_DEADLOCK FALSE
PROPERTY EveryCallReturns
