\* Callers that use fresh ids and change a wrapped handle only through
\* its wrapper.
CONSTANTS
  Slot = {s1, s2, s3}
  Built <- MCWrapperBuilt
  NULL = NULL
  NLIST = 1
  MaxN = 2
  Id <- MCId
  NprobeVal <- MCNprobeVal
  WordBits <- MCWordBits
  EfVal <- MCEfVal
  KFactorVal <- MCKFactorVal
  RefineOver <- MCRefineOver
  FreshIds = TRUE
  SharedChildren = FALSE
SPECIFICATION Spec
SYMMETRY MCSlotSymmetry
VIEW MCStateView
\* A null handle kills the process; the heap is bounded.
CHECK_DEADLOCK FALSE
INVARIANT WrapperCoherent
 
