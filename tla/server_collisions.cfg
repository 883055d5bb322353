\* The connection table when the random signature of a SYN may be one that is in use.
SPECIFICATION Spec
CONSTANTS
  s1 = s1
  s2 = s2
  u1 = u1
  u2 = u2
  undefined = undefined
  Signatures <- MCSignatures
  Users <- MCUsers
  None <- undefined
  IdSpace = 4
  FirstConnectionId = 2
  SessionTimeout = 1
  FragmentIds = {0}
  Payloads <- MCPayloads
  MaxReassembledSize = 1
  AllowCollisions = TRUE
  MaxLogins = 3
INVARIANTS
  OwnIdResolves
