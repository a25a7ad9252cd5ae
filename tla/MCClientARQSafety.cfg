SPECIFICATION Spec
CONSTANTS
    app = app
    read = read
    peek = peek
    write = write
    strict = strict
    copy = copy
    None = None
    Apps = {app}
    Msgs = {strict, copy}
    Hashes = {strict, copy}
    AppOf <- OneApp
    HashOf <- OwnHash
    KindOf <- KindByName
    ResendCap = 1
    Closes = TRUE
    MaxSurbs = 5
    MaxLosses = 1
    MaxLate = 1
    MaxUnready = 1
    MaxComposeFailures = 0
    MaxDisconnects = 1
CHECK_DEADLOCK FALSE
INVARIANTS MapsAgree TrackedIsArmed CancelIsFinal
