\* Callers that train a handle again and read the buffers of two handles.
CONSTANTS
  Handle = {k1, k2}
  K = 2
  Data = {x1, x2}
  NPoints <- MCNPoints
  Seeds <- MCSeeds
  IntBits <- MCIntBits
  Niters <- MCNiters
  MaxTrain = 2
  NULL = NULL
  TrainFirst = TRUE
SPECIFICATION Spec
INVARIANT TrainDeterministic
