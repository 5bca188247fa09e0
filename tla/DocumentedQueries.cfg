CONSTANTS
  Names = {"job", "host"}
  Texts = {"up{", "}", "x"}
  Declared = {"job", "host"}
  Template <- MCTemplate
  Labels = {1}
  Now <- MCNow
  NaN = NaN
  Expressions = {}
  Requests <- MCNativeRequests
  Answers = {}
  Flat = TRUE
  PromptQL = FALSE
  RowsRequests <- MCRowsRequests
  ExactRequests <- MCExactRequests
  GroupRequests <- MCGroupRequests
SPECIFICATION QueriesSpec
INVARIANT AsDocumented
