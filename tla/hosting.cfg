\* Hosts that come, go and crash, restarts, failing cleanups and deleted accounts.
SPECIFICATION FairSpec
CONSTANTS
  foo = foo
  sam = sam
  a1 = a1
  s1 = s1
  s2 = s2
  Users <- MCUsers
  AuthConnections <- MCAuthConnections
  SecureConnections <- MCSecureConnections
  MaxGames = 2
  MaxErrors = 1
INVARIANTS
  HostsArePresent
PROPERTIES
  CrashedHostsGo
