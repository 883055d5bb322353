\* What the end of a connection to the authentication service does to a host.
SPECIFICATION Spec
CONSTANTS
  foo = foo
  sam = sam
  a1 = a1
  s1 = s1
  s2 = s2
  Users <- MCUsers
  AuthConnections <- MCAuthConnections
  SecureConnections <- MCSecureConnections
  MaxGames = 1
  MaxErrors = 0
INVARIANTS
  UrlsStayWithHost
