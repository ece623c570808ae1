CONSTANTS
  None = None
  Utf16 <- MCUtf16
  MAX_DEPTH = 8
  SafeBits = 3
  MESSAGES <- MCMESSAGES
  Places <- MCPlaces
  ImplicitPlaces = {"tenant", "required", "schemes"}
  UnknownPlaces = {"future"}
  CanonicalText <- MCCanonicalText
  First <- MCFirst
  Keys = {"current", "stray", "nameless"}
  KidOf <- MCKidOf
  trusted <- MCTrusted
  MaxSignings = 2
  MaxSignatures = 2
  MaxEdits = 2
  Values <- MCValues
  Precision = 5
  DecimalPlaces = 5
  MaxExp = 2
SPECIFICATION MCSpec
INVARIANTS AcceptedWasSigned PinMeansContent OneTextOneValue NumberReadsBack ECMAScript
PROPERTY MoreSignaturesDoNoHarm
CHECK_DEADLOCK FALSE
