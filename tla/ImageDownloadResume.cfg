\* One image of one blob, one registry with Range support, and one fault.
SPECIFICATION FairSpec
CONSTANTS
  i1 = i1
  i2 = i2
  b1 = b1
  b2 = b2
  m1 = m1
  m2 = m2
  l1 = l1
  l2 = l2
  Blobs = {b1}
  Size = 2
  Sources = 1
  Ranged = {1}
  Retries = 2
  MaxFaults = 1
  Images <- MCOneImage
  Parts <- MCOnePart
  Platform <- MCNoPlatform
  ManifestSources = 1
  ManifestRetries = 2
  Nothing = Nothing
  Garbage = Garbage
PROPERTIES
  StagingIsResumable
CHECK_DEADLOCK FALSE
