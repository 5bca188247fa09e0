CONSTANTS
  Names = {"job", "host", "other"}
  Texts = {"up{", "}", "x"}
  Declared = {"job", "host"}
  Template <- MCTemplate
  Labels = {1, 2}
  Now <- MCNow
  NaN = NaN
  Expressions <- MCExpressions
  Requests <- MCRequests
  Answers <- MCAnswers
  Flat = TRUE
  PromptQL = FALSE
SPECIFICATION Spec
INVARIANTS IInv QuerySubstituted RefusedForCause CallMeant RowsMeant
