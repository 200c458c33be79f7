\* Two images with a shared blob from a registry without and one with Range.
SPECIFICATION FairSpec
CONSTANTS
  i1 = i1
  i2 = i2
  b1 = b1
  b2 = b2
  m1 = m1
  m2 = m2
  l1 = l1
  l2 = l2
  Blobs = {b1, b2}
  Size = 2
  Sources = 2
  Ranged = {2}
  Retries = 2
  MaxFaults = 2
  Images <- MCImages
  Parts <- MCParts
  Platform <- MCPlatform
  ManifestSources = 2
  ManifestRetries = 2
  Nothing = Nothing
  Garbage = Garbage
INVARIANTS
  PublishedIsVerified
  ArchiveIsExact
PROPERTIES
  PartialIsKept
  FaultsAreOvercome
CHECK_DEADLOCK FALSE
