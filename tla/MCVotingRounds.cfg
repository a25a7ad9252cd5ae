SPECIFICATION Spec
CONSTANTS
    d1 = d1
    d2 = d2
    Auth = {a1, a2, a3}
    Descs = {d1, d2}
    Uploads <- MixedUpload
    MaxEpoch = 2
    WeekOfEpochs = 100
    MaxFaults = 1
    MaxStalls = 0
    MaxCrashes = 0
    None = None
    Zeros = Zeros
SYMMETRY Symmetry
INVARIANTS
    
    DocumentBacked
