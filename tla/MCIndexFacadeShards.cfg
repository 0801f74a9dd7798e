\* spec.md sec. 8 scenario 5: shards added to a container first, then each
\* shard receives vectors through its own handle.
CONSTANTS
  Slot = {s1, s2, s3}
  Built <- MCShardsBuilt
  NULL = NULL
  NLIST = 1
  MaxN = 1
  Id <- MCId
  NprobeVal <- MCNprobeVal
  WordBits <- MCWordBits
  EfVal <- MCEfVal
  KFactorVal <- MCKFactorVal
  RefineOver <- MCRefineOver
  FreshIds = TRUE
  SharedChildren = TRUE
SPECIFICATION Spec
CHECK_DEADLOCK FALSE
INVARIANT CompositeCoherent
