SPECIFICATION Spec
CONSTANTS
    d1 = d1
    d2 = d2
    Auth = {a1, a2, a3}
    Descs = {d1, d2}
    Uploads <- OneUpload
    MaxEpoch = 2
    WeekOfEpochs = 3
    MaxFaults = 0
    MaxStalls = 0
    MaxCrashes = 0
    None = None
    Zeros = Zeros
SYMMETRY Symmetry
INVARIANTS
    WeeklyRotationKeepsPrevious
