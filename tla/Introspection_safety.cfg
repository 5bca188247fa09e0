CONSTANTS
  foo = foo
  foo_count = foo_count
  foo_rate = foo_rate
  Names = {foo, foo_count, foo_rate}
  Passing = {foo, foo_count}
  Derived <- MCDerived
  Ranges <- MCRanges
  Quantiles <- MCQuantiles
  InfoLists <- MCInfoLists
  Coroutines = {0, 2}
  Files <- MCFilesAll
SPECIFICATION FairSpec
INVARIANTS IInv SequentialResult Idempotent SettingsKept
PROPERTIES ResultsWritten InterruptEnds
CHECK_DEADLOCK TRUE
