SPECIFICATION Spec
CONSTANTS
    d1 = d1
    d2 = d2
    Auth = {a1, a2, a3, a4}
    Descs = {d1, d2}
    Uploads <- OneUpload
    MaxEpoch = 1
    WeekOfEpochs = 100
    MaxFaults = 0
    MaxStalls = 0
    MaxCrashes = 1
    None = None
    Zeros = Zeros
SYMMETRY Symmetry
INVARIANTS
    ToleratesOutages
