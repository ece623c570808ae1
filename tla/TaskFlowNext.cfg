CONSTANTS
  None = None
  Tasks = {"t1"}
  Calls = {"this", "other"}
  call = "this"
  Times = {1, 2}
  max_uses = 3
  MaxNonces = 5
  MaxArtifacts = 0
SPECIFICATION Spec
INVARIANT NextNonceWorks
CHECK_DEADLOCK FALSE
