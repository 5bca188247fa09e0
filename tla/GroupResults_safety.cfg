CONSTANTS
  x = x
  y = y
  sum = sum
  count = count
  Aggregates = {sum, count}
  Labels = {x, y}
  Keys = {x, y}
  Matrices <- MCMatrices
  Settings <- MCSettings
SPECIFICATION Spec
INVARIANTS IInv MergedExactly OneGroupEach SamplesKept
PROPERTIES MergedStays
