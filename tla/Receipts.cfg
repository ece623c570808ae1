CONSTANTS
  None = None
  Bad = Bad
  Chains <- MCChains
  FieldPaths = {"name", "results[0].value"}
  OtherNames = {"Jane Doe"}
  ForeignPayloads <- MCForeignPayloads
  MaxReleased = 2
  Receipts = {r1, r2}
  Garbled = Garbled
  MaxEntries = 3
  MaxChanges = 3
SYMMETRY ReceiptSymmetry
SPECIFICATION MCSpec
INVARIANTS RoundTrip MatchesItsPresentation DamageIsLocated KeptHeadProtects
CHECK_DEADLOCK FALSE
