SPECIFICATION FairSpec
CONSTANTS
  NKeys = 3
  FirstByteWindow = 2
  IdleWindow = 3
  AdmissionWait = 1
  Slack = 0
  RetryAfters = {0, 4}
  AuthCooldown = 8
  MaxBody = 1
INVARIANTS
  TypeOK
  
  OneBodyPerRequest
PROPERTIES
  ImplementsLifecycle
  
