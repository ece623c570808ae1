CONSTANTS
  None = None
  Bad = Bad
  Calls <- MCCalls
  RootMandates <- MCRootMandates
  HopMandates <- MCHopMandates
  MaxDelegations = 2
SPECIFICATION Spec
INVARIANT LoopAgrees
PROPERTY DelegationNarrows
CHECK_DEADLOCK FALSE
