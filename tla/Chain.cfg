CONSTANTS
  None = None
  Bad = Bad
  signed <- MCsigned
  PublicKeys = {}
  single = None
  by_kid <- MCbyKid
  MAX_CHAIN_BYTES = 8
  NoSegment = NoSegment
  MAX_TEXT_BYTES = 12
  MAX_TEXT_HOPS = 3
  MAX_HOPS = 8
  I64_MAX = 3
  Skews = {0, 1, 3}
  Ages = {0, 2}
  MaxText = 13
  MaxDisclosures = 2
  MaxSegments = 4
  Mandates <- MCMandates
  Disclosables <- MCDisclosables
  Others <- MCOthers
  Strangers <- MCStrangers
  MaxChanges = 3
SPECIFICATION MCSpec
INVARIANTS ExactTimes SplitInvertsJoin JoinInvertsSplit ReceiptNamesVerifiedHops ResolvesToTheMandate PresentedInFullResolves
PROPERTY WindowNeverReopens
CHECK_DEADLOCK FALSE
