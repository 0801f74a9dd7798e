\* Every class a dispatching function casts to, and NULL, as the handle
\* of every variant-specific call; binary IVFs over their quantizers.
CONSTANTS
  Slot = {s1, s2, s3}
  Built <- MCAllBuilt
  NULL = NULL
  NLIST = 1
  MaxN = 1
  Id <- MCId
  NprobeVal <- MCNprobeVal
  WordBits <- MCWordBits
  EfVal <- MCEfVal
  KFactorVal <- MCKFactorVal
  RefineOver <- MCRefineOver
  FreshIds = TRUE
  SharedChildren = FALSE
SPECIFICATION Spec
SYMMETRY MCSlotSymmetry
\* A null handle kills the process; the heap is bounded.
CHECK_DEADLOCK FALSE
INVARIANT WrapperCoherent
INVARIANT CompositeCoherent
INVARIANT TypeOK
