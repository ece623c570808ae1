CONSTANTS
  None = None
  Bad = Bad
  signed <- MCsigned
  PublicKeys = {"S", "A", "B"}
  single = None
  by_kid <- MCbyKid
  MAX_CHAIN_BYTES = 8
  MAX_HOPS = 8
  I64_MAX = 7
  presentation <- MCpresentation
  call <- MCcall
  clock_skew = 1
  max_closing_age = 2
  Threads = {1}
  NonceValues = {"n1", "n2"}
  Requests = {"twice1", "twice2"}
  Revocable = {}
  Poisonable = {}
  Flaky = FALSE
  MaxClock = 0
  MaxCalls = 2
SPECIFICATION Spec
INVARIANT SpentMeansSpent
CHECK_DEADLOCK FALSE
