\* Callers that may read the centroids of a handle never trained.
CONSTANTS
  Handle = {k1, k2}
  K = 2
  Data = {x1, x2}
  NPoints <- MCNPoints
  Seeds <- MCSeeds
  IntBits <- MCIntBits
  Niters <- MCNiters
  MaxTrain = 2
  NULL = NULL
  TrainFirst = FALSE
SPECIFICATION Spec
INVARIANT CentroidReadsInBounds
