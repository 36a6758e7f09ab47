SPECIFICATION Spec
CONSTANTS
    Name = {n1, n2, n3, n4}
    Gor = {g1, g2}
    None = None
    Version = {v1, v2}
    DefaultSize = 3
    Sizes = {3}
    MasterCounts = {3}
    KeepFailedPods = TRUE
    MaxKills = 1
    MaxFaults = 0
    MaxCrashes = 1
    MaxEdits = 1
    MaxChanges = 1
SYMMETRY Symmetry
PROPERTIES VotersKept
