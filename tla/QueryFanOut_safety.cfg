CONSTANTS
  rows = rows
  a1 = a1
  a2 = a2
  g1 = g1
  g2 = g2
  NVars = 3
  Limits = {0, 1, 2}
  RowCalls = {}
  AggCalls = {a1, a2}
  GroupCalls = {g1, g2}
SPECIFICATION FairSpec
INVARIANTS IInv ResponseComplete RootCause Quiescent NestedBound
PROPERTIES NoSendAfterError ImplementsContract FailFast
