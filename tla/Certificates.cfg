SPECIFICATION FairSpec
CONSTANTS
  MaxCA = 5
  MaxFaults = 1
  MaxStale = 1
  MaxCrashes = 1
  MaxDeletes = 1
INVARIANTS TypeOK EndpointsHaveCertificate
PROPERTIES CertificatesAgree
CHECK_DEADLOCK TRUE
