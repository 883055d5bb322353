\* Players, launchers and the administrator on one database, with restarts.
SPECIFICATION FairSpec
CONSTANTS
  foo = foo
  sam = sam
  myid = myid
  samid = samid
  url = url
  call = call
  other = other
  NoUbi = NoUbi
  Names <- MCNames
  Ubis <- MCUbis
  Types <- MCTypes
  Attributes <- MCAttributes
  Urls <- MCUrls
  Queries <- MCQueries
  Calls <- MCCalls
  Founders <- MCFounders
  Bounds <- MCBounds
  MaxUsers = 2
  MaxGames = 2
  MaxInvites = 3
INVARIANTS
  RowsHaveOwners
  UbiIdsLeadBack
  SearchesAgree
  ModesStayApart
PROPERTIES
  ReusedIdsStartEmpty
  ImplementsInviteQueue
  TestsEnd
