CONSTANTS
  None = None
  Bad = Bad
  signed <- MCsigned
  PublicKeys = {"S", "A", "B"}
  single = None
  by_kid <- MCbyKid
  MAX_CHAIN_BYTES = 8
  MAX_HOPS = 8
  I64_MAX = 7
  presentation <- MCpresentation
  call <- MCcall
  clock_skew = 1
  max_closing_age = 2
  Threads = {1, 2}
  NonceValues = {"n1", "n2", "n3"}
  Requests = {"direct1", "direct2", "delegated2", "delegated3", "twin2", "partial2", "astray3"}
  Revocable = {}
  Poisonable = {}
  Flaky = FALSE
  MaxClock = 0
  MaxCalls = 4
SPECIFICATION Spec
INVARIANTS TypeOK NonceBuysOneCall WithinLimits UsesAreGrants NothingWithheld
CHECK_DEADLOCK FALSE
