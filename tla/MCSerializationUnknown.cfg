\* Every class a facade constructor builds.
CONSTANTS
  Slot = {s1, s2, s3}
  Media = {m1}
  NULL = NULL
  Built <- MCAllBuilt
  MetricArgs <- MCValidMetrics
  MaxN = 1
  Foreign = {}
SPECIFICATION Spec
\* Every address may be in use; the caller then stops.
CHECK_DEADLOCK FALSE
INVARIANT RoundTripTag
