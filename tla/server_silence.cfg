\* What the comment of clearExpiredClients says of the clients it drops.
SPECIFICATION Spec
CONSTANTS
  s1 = s1
  s2 = s2
  u1 = u1
  u2 = u2
  undefined = undefined
  Signatures <- MCSignatures
  Users <- MCUsers
  None <- undefined
  IdSpace = 4
  FirstConnectionId = 2
  SessionTimeout = 2
  FragmentIds = {0, 1}
  Payloads <- MCPayloads
  MaxReassembledSize = 1
  AllowCollisions = FALSE
  MaxLogins = 3
INVARIANTS
  DueClientsWereSilent
