CONSTANTS
  None = None
  Bad = Bad
  signed <- MCsigned
  PublicKeys = {"S", "A", "B"}
  single = None
  by_kid <- MCbyKid
  MAX_CHAIN_BYTES = 8
  MAX_HOPS = 8
  I64_MAX = 7
  presentation <- MCpresentation
  call <- MCcall
  clock_skew = 1
  max_closing_age = 2
  Threads = {1, 2}
  NonceValues = {"n2", "n3"}
  Requests = {"direct2", "delegated2", "delegated3"}
  Revocable = {"m", "d"}
  Poisonable = {"revoked"}
  Flaky = TRUE
  MaxClock = 0
  MaxCalls = 2
SPECIFICATION Spec
INVARIANTS NonceBuysOneCall RevokedNeverPasses FailsClosed
PROPERTY AuthorizesAtomically
CHECK_DEADLOCK FALSE
