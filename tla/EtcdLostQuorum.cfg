SPECIFICATION FairSpec
CONSTANTS
    Name = {n1, n2, n3, n4}
    Gor = {g1, g2}
    None = None
    Version = {v1}
    DefaultSize = 3
    Sizes = {3}
    MasterCounts = {3}
    KeepFailedPods = FALSE
    MaxKills = 1
    MaxFaults = 0
    MaxCrashes = 0
    MaxEdits = 0
    MaxChanges = 1
PROPERTIES QuorumLossRepaired
