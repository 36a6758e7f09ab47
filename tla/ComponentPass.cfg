SPECIFICATION Spec
CONSTANTS
  Groups <- Together
  Zones <- TwoZones
  ProductVersions = {"FullStack"}
  StopFlags = {FALSE, TRUE}
  DisableSyncIngress = FALSE
  Broken = {}
  MaxImage = 2
  MaxPort = 2
  MaxLag <- TogetherLag
  MaxEdits = 2
  MaxFaults = 1
  MaxCrashes = 1
  MaxDeletes = 1
  MaxOutages = 1
  MaxEvents <- TogetherEvents
INVARIANTS TypeOK WorkloadsProvisioned
PROPERTIES KeystoneFirst RolloutOrder
CHECK_DEADLOCK TRUE
