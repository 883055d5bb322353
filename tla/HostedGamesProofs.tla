------------------------- MODULE HostedGamesProofs -------------------------
(***************************************************************************)
(* What holds of the advertised hosts for any number of players, clients   *)
(* and games, and for any number of crashes and failed cleanups.           *)
(***************************************************************************)
EXTENDS HostedGames, TLAPS

\* Closing games keeps their types, and opens none.
LEMMA ClosedGames ==
  ASSUME TypeOK, NEW gone
  PROVE  /\ DOMAIN Closed(gone) = DOMAIN games
         /\ \A g \in DOMAIN games :
              /\ Closed(gone)[g] \in [creator : Users, open : BOOLEAN]
              /\ Closed(gone)[g].creator = games[g].creator
              /\ Closed(gone)[g].open => games[g].open /\ g \notin gone
  BY DEF TypeOK, Closed

\* A cleanup keeps the types, and it advertises nobody who was not advertised.
LEMMA CleanupKeepsTypes ==
  ASSUME TypeOK, NEW u \in Users, Cleanup(u)
  PROVE  /\ accounts' = accounts /\ urls' \subseteq Users
         /\ DOMAIN games' = DOMAIN games
         /\ \A g \in DOMAIN games' : games'[g] \in [creator : Users, open : BOOLEAN]
         /\ uncleaned' \subseteq Users /\ errors' \in 0 .. MaxErrors
<1>1. CASE DeleteUserSession(u) /\ uncleaned' = uncleaned \ {u} /\ UNCHANGED errors
  BY <1>1, ClosedGames DEF DeleteUserSession, TypeOK
<1>2. CASE /\ errors < MaxErrors
           /\ errors' = errors + 1
           /\ uncleaned' = uncleaned \union {u}
           /\ UNCHANGED tables
  BY <1>2, HostingAssumption DEF tables, TypeOK
<1> QED
  BY <1>1, <1>2 DEF Cleanup

LEMMA CleanupHides ==
  ASSUME TypeOK, NEW u \in Users, Cleanup(u)
  PROVE  /\ ~Advertised(u)' \/ u \in uncleaned'
         /\ \A other \in Users \ {u} :
              /\ Advertised(other)' => Advertised(other)
              /\ other \in uncleaned => other \in uncleaned'
<1>1. CASE DeleteUserSession(u) /\ uncleaned' = uncleaned \ {u} /\ UNCHANGED errors
  BY <1>1, ClosedGames DEF DeleteUserSession, Advertised, OpenGames, GamesOf
<1>2. CASE /\ errors < MaxErrors
           /\ errors' = errors + 1
           /\ uncleaned' = uncleaned \union {u}
           /\ UNCHANGED tables
  BY <1>2 DEF tables, Advertised, OpenGames
<1> QED
  BY <1>1, <1>2 DEF Cleanup

-----------------------------------------------------------------------------
\* Every variable of the hosts keeps its type (HostedGames).
THEOREM HostingTypes == Spec => []TypeOK
<1>1. Init => TypeOK
  <2> SUFFICES ASSUME Init PROVE TypeOK
    OBVIOUS
  <2>1. /\ DOMAIN games \subseteq GameIds
        /\ \A g \in DOMAIN games : games[g] \in [creator : Users, open : BOOLEAN]
    BY DEF Init, EmptyMap
  <2>2. DOMAIN EmptyMap = {}
    BY DEF EmptyMap
  <2>3. errors \in 0 .. MaxErrors
    BY HostingAssumption DEF Init
  <2> QED BY <2>1, <2>2, <2>3 DEF Init, TypeOK
<1>2. TypeOK /\ [Next]_vars => TypeOK'
  <2> SUFFICES ASSUME TypeOK, [Next]_vars PROVE TypeOK'
    OBVIOUS
  <2>1. ASSUME NEW c \in AuthConnections, LeaveAuth(c) PROVE TypeOK'
    <3>1. auth[c] \in Users
      BY <2>1 DEF LeaveAuth, TypeOK
    <3>2. /\ DOMAIN auth' = DOMAIN auth \ {c}
          /\ \A k \in DOMAIN auth' : auth'[k] = auth[k]
      BY <2>1 DEF LeaveAuth, Delete, Restrict
    <3> QED BY <2>1, <3>1, <3>2, CleanupKeepsTypes DEF LeaveAuth, TypeOK
  <2>2. ASSUME NEW c \in AuthConnections, NEW u \in Users, LogIn(c, u) PROVE TypeOK'
    <3>1. /\ DOMAIN auth' = DOMAIN auth \union {c}
          /\ auth'[c] = u
          /\ \A k \in DOMAIN auth : k # c => auth'[k] = auth[k]
      BY <2>2 DEF LogIn, Put
    <3> QED BY <2>2, <3>1 DEF LogIn, tables, TypeOK
  <2>3. ASSUME NEW c \in SecureConnections, GoSilent(c) PROVE TypeOK'
    BY <2>3 DEF GoSilent, tables, TypeOK
  <2>4. ASSUME NEW c \in SecureConnections, LeaveSecure(c) PROVE TypeOK'
    <3>1. secure[c] \in Users
      BY <2>4 DEF LeaveSecure, TypeOK
    <3>2. /\ DOMAIN secure' = DOMAIN secure \ {c}
          /\ \A k \in DOMAIN secure' : secure'[k] = secure[k]
      BY <2>4 DEF LeaveSecure, Delete, Restrict
    <3> QED BY <2>4, <3>1, <3>2, CleanupKeepsTypes DEF LeaveSecure, TypeOK
  <2>5. ASSUME NEW c \in SecureConnections, RegisterUrls(c) PROVE TypeOK'
    BY <2>5 DEF RegisterUrls, MayCall, TypeOK
  <2>6. ASSUME NEW c \in SecureConnections, NEW u \in Users, ConnectSecure(c, u) PROVE TypeOK'
    <3>1. /\ DOMAIN secure' = DOMAIN secure \union {c}
          /\ secure'[c] = u
          /\ \A k \in DOMAIN secure : k # c => secure'[k] = secure[k]
      BY <2>6 DEF ConnectSecure, Put
    <3> QED BY <2>6, <3>1 DEF ConnectSecure, tables, TypeOK
  <2>7. ASSUME NEW c \in SecureConnections, NEW g \in GameIds, CreateSession(c, g) PROVE TypeOK'
    <3> DEFINE game == [creator |-> secure[c], open |-> TRUE]
    <3>1. game \in [creator : Users, open : BOOLEAN]
      BY <2>7 DEF CreateSession, MayCall, TypeOK
    <3>2. games' = Put(games, g, game)
      BY <2>7 DEF CreateSession
    <3> HIDE DEF game
    <3>3. /\ DOMAIN games' = DOMAIN games \union {g}
          /\ games'[g] = game
          /\ \A k \in DOMAIN games : k # g => games'[k] = games[k]
      BY <3>2 DEF Put
    <3> QED BY <2>7, <3>1, <3>3 DEF CreateSession, TypeOK
  <2>8. ASSUME NEW c \in SecureConnections, NEW g \in GameIds, DeleteSession(c, g) PROVE TypeOK'
    BY <2>8, ClosedGames DEF DeleteSession, TypeOK
  <2>9. ASSUME NEW g \in GameIds, DeleteGame(g) PROVE TypeOK'
    BY <2>9, ClosedGames DEF DeleteGame, TypeOK
  <2>10. ASSUME NEW u \in Users, DeleteUser(u) PROVE TypeOK'
    <3>1. /\ DOMAIN games' = DOMAIN games \ GamesOf(u)
          /\ \A k \in DOMAIN games' : games'[k] = games[k]
      BY <2>10 DEF DeleteUser, Delete, Restrict
    <3> QED BY <2>10, <3>1 DEF DeleteUser, TypeOK
  <2>11. ASSUME NEW u \in Users, RegisterUser(u) PROVE TypeOK'
    BY <2>11 DEF RegisterUser, TypeOK
  <2>12. CASE Stop
    BY <2>12 DEF Stop, tables, EmptyMap, TypeOK
  <2>13. CASE Start
    BY <2>13, ClosedGames DEF Start, TypeOK
  <2>14. CASE UNCHANGED vars
    BY <2>14 DEF vars, tables, TypeOK
  <2> QED
    BY <2>1, <2>2, <2>3, <2>4, <2>5, <2>6, <2>7, <2>8, <2>9, <2>10, <2>11, <2>12, <2>13, <2>14
    DEF Next
<1> QED
  BY <1>1, <1>2, PTL DEF Spec

-----------------------------------------------------------------------------
\* An action that advertises nobody new and lets nobody depart keeps the hosts
\* present.
LEMMA NobodyDeparts ==
  ASSUME HostsArePresent, up' = up,
         \A c \in DOMAIN secure : c \in DOMAIN secure' /\ secure'[c] = secure[c],
         \A u \in Users : u \in uncleaned => u \in uncleaned',
         \A u \in Users : Advertised(u)' => Advertised(u)
  PROVE  HostsArePresent'
  BY DEF HostsArePresent, Present

\* Who is advertised by station URLs or an open game is connected, unless its
\* cleanup failed: no crash, restart, failed cleanup of somebody else, deleted
\* account or second connection leaves a host behind (HostedGames).
THEOREM HostsPresent == Spec => []HostsArePresent
<1>1. Init => HostsArePresent
  BY DEF Init, HostsArePresent
<1>2. TypeOK /\ HostsArePresent /\ [Next]_vars => HostsArePresent'
  <2> SUFFICES ASSUME TypeOK, HostsArePresent, [Next]_vars PROVE HostsArePresent'
    OBVIOUS
  <2>1. ASSUME NEW c \in AuthConnections, LeaveAuth(c) PROVE HostsArePresent'
    <3>1. PICK gone \in Users : Cleanup(gone) /\ up' = up /\ secure' = secure
      BY <2>1 DEF LeaveAuth, TypeOK
    <3>2. \A u \in Users : Present(u)' <=> Present(u)
      BY <3>1 DEF Present
    <3>3. ~Advertised(gone)' \/ gone \in uncleaned'
      BY <3>1, CleanupHides
    <3>4. \A u \in Users \ {gone} :
            (Advertised(u)' => Advertised(u)) /\ (u \in uncleaned => u \in uncleaned')
      BY <3>1, CleanupHides
    <3> QED BY <3>1, <3>2, <3>3, <3>4 DEF HostsArePresent
  <2>2. ASSUME NEW c \in AuthConnections, NEW u \in Users, LogIn(c, u) PROVE HostsArePresent'
    BY <2>2 DEF LogIn, tables, HostsArePresent, Present, Advertised, OpenGames
  <2>3. ASSUME NEW c \in SecureConnections, GoSilent(c) PROVE HostsArePresent'
    BY <2>3 DEF GoSilent, tables, HostsArePresent, Present, Advertised, OpenGames
  <2>4. ASSUME NEW c \in SecureConnections, LeaveSecure(c) PROVE HostsArePresent'
    <3>1. PICK gone \in Users : /\ gone = secure[c] /\ Cleanup(gone)
                               /\ up' = up /\ secure' = Delete(secure, {c})
      BY <2>4 DEF LeaveSecure, TypeOK
    <3>2. \A u \in Users \ {gone} : Present(u) => Present(u)'
      BY <3>1 DEF Present, Delete, Restrict
    <3>3. ~Advertised(gone)' \/ gone \in uncleaned'
      BY <3>1, CleanupHides
    <3>4. \A u \in Users \ {gone} :
            (Advertised(u)' => Advertised(u)) /\ (u \in uncleaned => u \in uncleaned')
      BY <3>1, CleanupHides
    <3> QED BY <3>1, <3>2, <3>3, <3>4 DEF HostsArePresent
  <2>5. ASSUME NEW c \in SecureConnections, RegisterUrls(c) PROVE HostsArePresent'
    BY <2>5 DEF RegisterUrls, MayCall, HostsArePresent, Present, Advertised, OpenGames
  <2>6. ASSUME NEW c \in SecureConnections, NEW u \in Users, ConnectSecure(c, u)
        PROVE HostsArePresent'
    <3>1. \A k \in DOMAIN secure : k \in DOMAIN secure' /\ secure'[k] = secure[k]
      BY <2>6 DEF ConnectSecure, Put
    <3>2. \A other \in Users : Advertised(other)' => Advertised(other)
      BY <2>6 DEF ConnectSecure, tables, Advertised, OpenGames
    <3>3. up' = up /\ uncleaned' = uncleaned
      BY <2>6 DEF ConnectSecure
    <3> QED BY <3>1, <3>2, <3>3, NobodyDeparts
  <2>7. ASSUME NEW c \in SecureConnections, NEW g \in GameIds, CreateSession(c, g)
        PROVE HostsArePresent'
    <3>1. \A u \in Users : Advertised(u)' => Advertised(u) \/ u = secure[c]
      BY <2>7 DEF CreateSession, Put, Advertised, OpenGames
    <3>2. /\ c \in DOMAIN secure
          /\ secure' = secure /\ up' = up /\ uncleaned' = uncleaned
      BY <2>7 DEF CreateSession, MayCall
    <3> QED BY <3>1, <3>2 DEF HostsArePresent, Present
  <2>8. ASSUME NEW gone, games' = Closed(gone),
               UNCHANGED <<up, secure, urls, uncleaned>>
        PROVE HostsArePresent'
    <3>1. \A u \in Users : Advertised(u)' => Advertised(u)
      BY <2>8, ClosedGames DEF Advertised, OpenGames
    <3> QED BY <2>8, <3>1, NobodyDeparts
  <2>9. ASSUME NEW c \in SecureConnections, NEW g \in GameIds, DeleteSession(c, g)
        PROVE HostsArePresent'
    BY <2>8, <2>9 DEF DeleteSession
  <2>10. ASSUME NEW g \in GameIds, DeleteGame(g) PROVE HostsArePresent'
    BY <2>8, <2>10 DEF DeleteGame
  <2>11. ASSUME NEW u \in Users, DeleteUser(u) PROVE HostsArePresent'
    <3>1. \A other \in Users : Advertised(other)' => Advertised(other)
      BY <2>11 DEF DeleteUser, Delete, Restrict, Advertised, OpenGames
    <3> QED BY <2>11, <3>1, NobodyDeparts DEF DeleteUser
  <2>12. ASSUME NEW u \in Users, RegisterUser(u) PROVE HostsArePresent'
    BY <2>12 DEF RegisterUser, HostsArePresent, Present, Advertised, OpenGames
  <2>13. CASE Stop
    BY <2>13 DEF Stop, HostsArePresent
  <2>14. CASE Start
    BY <2>14, ClosedGames DEF Start, HostsArePresent, Advertised, OpenGames
  <2>15. CASE UNCHANGED vars
    BY <2>15 DEF vars, tables, HostsArePresent, Present, Advertised, OpenGames
  <2> QED
    BY <2>1, <2>2, <2>3, <2>4, <2>5, <2>6, <2>7, <2>9, <2>10, <2>11, <2>12, <2>13, <2>14, <2>15
    DEF Next
<1>3. Spec => []TypeOK
  BY HostingTypes
<1> QED
  BY <1>1, <1>2, <1>3, PTL DEF Spec
=============================================================================
