CONSTANTS
  None = None
  Nothing = Nothing
  Bad = Bad
  EXTENSION_URI = "governance"
  OtherUri = "other"
  Parts = {"exp", "constraints"}
  Limit = 8
  MaxInteger = 11
  Hops = 3
  domain = gateway
  OtherDomain = agent
  Messages = {m1}
  Ids = {c1, c2}
  HttpsUrls = {u1, u2}
  OtherUrls = {http}
  Reasons = {"DENIED", "APPROVAL_REQUIRED", "TASK_NOT_FOUND", Bad}
  MaxDetails = 4
SPECIFICATION MCSpec
INVARIANTS NoOtherInteger DraftIsReadAsSent RaisedIsRead ReadIsStable OthersDoNotCount
CHECK_DEADLOCK FALSE
