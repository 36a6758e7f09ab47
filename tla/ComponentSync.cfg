SPECIFICATION FairSpec
CONSTANTS
  Groups <- Alone
  Zones <- TwoZones
  ProductVersions = {"FullStack", "CMP"}
  StopFlags = {FALSE}
  DisableSyncIngress = FALSE
  Broken = {"itsm"}
  MaxImage = 2
  MaxPort = 2
  MaxLag <- AloneLag
  MaxEdits = 1
  MaxFaults = 1
  MaxCrashes = 1
  MaxDeletes = 1
  MaxOutages = 1
  MaxEvents <- AloneEvents
PROPERTIES EventuallyAsSpecified
CHECK_DEADLOCK TRUE
