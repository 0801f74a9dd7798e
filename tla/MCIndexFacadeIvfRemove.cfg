\* Callers that use fresh ids and change a wrapped handle only through
\* its wrapper, over an IDMap whose base is an IVF.
CONSTANTS
  Slot = {s1, s2, s3}
  Built <- MCWrapperBuilt
  NULL = NULL
  NLIST = 1
  MaxN = 2
  Id <- MCId
  NprobeVal <- MCNprobeVal
  WordBits <- MCWordBits
  EfVal <- MCEfVal
  KFactorVal <- MCKFactorVal
  RefineOver <- MCRefineOver
  FreshIds = TRUE
  SharedChildren = FALSE
SPECIFICATION Spec
\* A null handle kills the process; the heap is bounded.
CHECK_DEADLOCK FALSE
INVARIANT IdMapLabelsResolve
