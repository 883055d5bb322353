\* A user whose only way in is LoginEx, and what its end leaves behind.
SPECIFICATION Spec
CONSTANTS
  tracking = tracking
  sam = sam
  c1 = c1
  c2 = c2
  k1 = k1
  k2 = k2
  undefined = undefined
  Users <- OneUser
  PlainUsers <- NobodyPlain
  Connections <- MCConnections
  Calls <- MCCalls
  None <- undefined
INVARIANTS
  SessionsHaveClients
