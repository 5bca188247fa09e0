CONSTANTS
  job = job
  rate = rate
  s = s
  x = x
  Pieces = {job, rate, s}
  Short = {s}
  Quote = "quote"
  Other = {x}
  Queries <- MCQueries
SPECIFICATION Spec
INVARIANTS RewrittenAtOnce ArgumentsServed
