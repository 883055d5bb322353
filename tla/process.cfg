\* The process: starts, crashes, restarts, and its HTTP services.
SPECIFICATION FairSpec
CONSTANTS
  a = a
  b = b
  sam = sam
  Procs <- MCProcs
  Users <- MCUsers
  Worlds <- MCWorlds
  Requests <- MCRequests
  MaxRequestLine = 10
INVARIANTS
  MigrationsAreWhole
  StartsAgain
  SessionsAreFresh
  TicketsOpen
  PublicIpIsAdvertised
  AnswersFit
PROPERTIES
  ConnectionsEnd
CHECK_DEADLOCK FALSE
