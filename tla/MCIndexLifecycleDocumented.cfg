\* Callers that follow the documentation: a transform given to
\* IndexPreTransform and a shard given to IndexShards are no longer theirs
\* to free.
CONSTANTS
  Slot = {s1, s2, s3, s4}
  NULL = NULL
  LeafKind <- MCLeafKind
  BinaryLeafKind <- MCBinaryLeafKind
  Cuda = TRUE
  EngineOwned <- MCNoneOwned
  DocumentedOwned <- MCDocumentedOwned
  ExclusiveTransfer = TRUE
SPECIFICATION Spec
CHECK_DEADLOCK FALSE
INVARIANT NoLeak
