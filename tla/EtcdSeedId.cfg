SPECIFICATION Spec
CONSTANTS
    Name = {n1, n2, n3, n4}
    Gor = {g1, g2}
    None = None
    Version = {v1}
    DefaultSize = 3
    Sizes = {3}
    MasterCounts = {1, 3}
    KeepFailedPods = FALSE
    MaxKills = 0
    MaxFaults = 0
    MaxCrashes = 0
    MaxEdits = 1
    MaxChanges = 1
SYMMETRY Symmetry
INVARIANTS MembersRepresentCluster
