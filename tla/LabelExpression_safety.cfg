CONSTANTS
  LabelValues <- MCLabelValues
  Texts <- MCTexts
  Full <- MCFull
  Part <- MCPart
  Invalid <- MCInvalid
  Wrapped <- MCWrapped
  Comparisons <- MCComparisons
  MaxLength = 3
SPECIFICATION Spec
INVARIANTS IInv LiteralExact ExclusionsExact EqualityBinds
