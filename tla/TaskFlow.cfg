CONSTANTS
  None = None
  Tasks = {"t1", "t2"}
  Calls = {"this", "other"}
  call = "this"
  Times = {1}
  max_uses = 2
  MaxNonces = 3
  MaxArtifacts = 1
SPECIFICATION Spec
INVARIANTS TypeOK UsesHaveReceipts RetriesAreNotServedAgain SomeNonceIsLeft
PROPERTY ApprovedIsServed
CHECK_DEADLOCK FALSE
