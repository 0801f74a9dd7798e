\* Any index, including those whose range_search throws.
CONSTANTS
  Result = {r1, r2}
  MayThrow = TRUE
SPECIFICATION Spec
\* All result addresses may be in use by the caller.
CHECK_DEADLOCK FALSE
INVARIANT NoLeakedResult
