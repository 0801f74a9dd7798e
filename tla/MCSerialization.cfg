\* Every constructor, valid metrics, and files
\* of subclasses written by other programs.
CONSTANTS
  Slot = {s1, s2, s3}
  Media = {m1}
  NULL = NULL
  Built <- MCAllBuilt
  MetricArgs <- MCValidMetrics
  MaxN = 1
  Foreign <- MCForeign
SPECIFICATION Spec
\* Every address may be in use; the caller then stops.
CHECK_DEADLOCK FALSE
INVARIANT ProbeIsMostSpecific
