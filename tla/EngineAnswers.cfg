CONSTANTS
  None = None
  Bad = Bad
  signed <- MCsigned
  PublicKeys = {"S", "A", "B"}
  single = None
  by_kid <- MCbyKid
  MAX_CHAIN_BYTES = 8
  MAX_HOPS = 8
  I64_MAX = 7
  presentation <- MCpresentation
  call <- MCcall
  clock_skew = 1
  max_closing_age = 2
  Threads = {1}
  NonceValues = {"n1"}
  Requests = {"direct1", "unknown1", "other1", "records1", "none", "delegated2"}
  Revocable = {"d"}
  Poisonable = {"nonces", "revoked", "counts"}
  Flaky = TRUE
  MaxClock = 1
  MaxCalls = 2
SPECIFICATION Spec
PROPERTY EveryCallIsAnswered
CHECK_DEADLOCK FALSE
