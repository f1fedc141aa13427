SPECIFICATION Spec
CONSTANTS
  NKeys = 2
  FirstByteWindow = 2
  IdleWindow = 3
  AdmissionWait = 1
  Slack = 0
  RetryAfters = {0}
  AuthCooldown = 8
  MaxBody = 1
INVARIANTS
  BenchedForOwnAnswer
