CONSTANTS
  LabelValues <- MCLabelValues
  Texts <- MCTexts
  Full <- MCFull
  Part <- MCPart
  Invalid <- MCInvalid
  Wrapped <- MCWrapped
  Comparisons <- MCListAndPattern
  MaxLength = 3
SPECIFICATION Spec
INVARIANTS ExclusionsHold
