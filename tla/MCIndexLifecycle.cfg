\* Callers that treat every child as borrowed: each handle is freed by the
\* caller, after the wrappers that reference it.
CONSTANTS
  Slot = {s1, s2, s3, s4}
  NULL = NULL
  LeafKind <- MCLeafKind
  BinaryLeafKind <- MCBinaryLeafKind
  Cuda = TRUE
  EngineOwned <- MCNoneOwned
  DocumentedOwned <- MCNoneOwned
  ExclusiveTransfer = TRUE
SPECIFICATION Spec
\* The caller may stop once the bounded heap is used up.
CHECK_DEADLOCK FALSE
INVARIANT MemorySafe
