\* Overlapping logins of two clients, with and without password, and accounts that go.
SPECIFICATION Spec
CONSTANTS
  tracking = tracking
  sam = sam
  c1 = c1
  c2 = c2
  k1 = k1
  k2 = k2
  undefined = undefined
  Users <- MCUsers
  PlainUsers <- MCPlainUsers
  Connections <- MCConnections
  Calls <- MCCalls
  None <- undefined
INVARIANTS
  TicketsAreEarned
  SessionsHaveAccounts
SYMMETRY MCSymmetry
