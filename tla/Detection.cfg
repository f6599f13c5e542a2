SPECIFICATION RunSpec
CONSTANTS
  Threads = {t1, t2}
  NoOne = NoOne
  Missing = Missing
  Beyond = Beyond
  NoPoint = NoPoint
  NaN = NaN
  Unit = 4
  Size = 6
  Rank = 2
  Chunk = 2
  Garbage = {0, 90}
  Largest = 1000
  Tiny = 1
  Fields <- MCFields
  Dims <- MCDims
  Kernels <- MCKernels
CHECK_DEADLOCK FALSE
INVARIANTS TypeOK EveryCellOnce SmoothedInStages AloneIsScaled ClustersAreMeasured
