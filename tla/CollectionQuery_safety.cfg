CONSTANTS
  Requests <- MCRequests
  Now <- MCNow
SPECIFICATION Spec
INVARIANTS IInv TimeMeant OffsetOnce RangesOfSelectors ValueFilters OutcomeExact
