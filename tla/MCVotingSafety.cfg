SPECIFICATION Spec
CONSTANTS
    d1 = d1
    d2 = d2
    Auth = {a1, a2, a3}
    Descs = {d1, d2}
    Uploads <- OneUpload
    MaxEpoch = 2
    WeekOfEpochs = 100
    MaxFaults = 1
    MaxStalls = 1
    MaxCrashes = 1
    None = None
    Zeros = Zeros
SYMMETRY Symmetry
INVARIANTS
    Agreement
    OneSignaturePerEpoch
PROPERTY ImplementsDirectory
