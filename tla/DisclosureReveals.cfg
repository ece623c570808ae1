CONSTANTS
  None = None
  Mandates <- MCMandates
  Disclosables <- MCConstraintsOnly
  Others <- MCNoOthers
  Strangers <- MCNoStrangers
  MaxChanges = 1
SPECIFICATION Spec
INVARIANTS AgentRevealsWhatApplies
CHECK_DEADLOCK FALSE
