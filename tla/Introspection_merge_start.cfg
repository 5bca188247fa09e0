CONSTANTS
  foo = foo
  foo_count = foo_count
  foo_rate = foo_rate
  Names = {foo, foo_count, foo_rate}
  Passing = {foo, foo_count}
  Derived <- MCDerived
  Ranges <- MCRanges
  Quantiles <- MCQuantiles
  InfoLists <- MCHistogramReports
  Coroutines = {2}
  Files <- MCFiles
SPECIFICATION Spec
INVARIANTS StartsAfterUpdate
CHECK_DEADLOCK TRUE
