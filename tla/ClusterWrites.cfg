SPECIFICATION FairSpec
CONSTANTS
    UserSpec = {a, b}
    Steps = 3
    MaxLag = 2
    MaxEdits = 1
    MaxChanges = 1
    MaxFaults = 1
INVARIANTS TypeOK
PROPERTIES EditsKept CorrectionsKept SpecIsRegister EventuallySettled
