SPECIFICATION Spec
CONSTANTS
  Columns = 2
  Rows = 8
  Files <- SomeFiles
  Settable <- Neighbours
  Thresholds <- OneThreshold
INVARIANTS
  TypeOK
PROPERTIES
  IsPixelMatrix
  SettersSet
