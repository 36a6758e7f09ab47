SPECIFICATION Spec
CONSTANTS
    Name = {n1, n2, n3, n4}
    Gor = {g1, g2, g3}
    None = None
    Version = {v1}
    DefaultSize = 3
    Sizes = {1}
    MasterCounts = {3}
    KeepFailedPods = FALSE
    MaxKills = 1
    MaxFaults = 1
    MaxCrashes = 0
    MaxEdits = 0
    MaxChanges = 1
SYMMETRY Symmetry
INVARIANTS TypeOK ReconcileExclusive JoinsExactMembership
PROPERTIES VotersKept
