----------------------------- MODULE HostedGames -----------------------------
(***************************************************************************)
(* What the server advertises of the players, and the connections it rests *)
(* on: the authentication service, the secure service and the admin API    *)
(* share one database, which outlives the process.                         *)
(*                                                                         *)
(* A host registers its station URLs and creates game sessions over the    *)
(* secure service.  When a client leaves either service, by a DISCONNECT   *)
(* or because it expired, the callback of startQuazalServer cleans up by   *)
(* user id.  The connections themselves are the subject of PrudpServer,    *)
(* logging in that of TicketGranting: here a client is either connected    *)
(* and logged in, or of no interest.                                       *)
(***************************************************************************)
EXTENDS Naturals, Maps

CONSTANTS
  Users,              \* principal ids
  AuthConnections,    \* connections to the authentication service
  SecureConnections,  \* connections to the secure service
  MaxGames,           \* bound: highest id of a game session
  MaxErrors           \* bound: failures of the cleanup in a behaviour

ASSUME HostingAssumption == MaxGames \in Nat /\ MaxErrors \in Nat

GameIds == 1 .. MaxGames

VARIABLES
  up,          \* is the server running?
  auth,        \* logged in clients of the authentication service -> user
  secure,      \* clients of the secure service that showed a ticket -> user
  silent,      \* secure clients whose game crashed: nothing comes from them any more
  accounts,    \* rows of users
  urls,        \* users with rows in station_urls
  games,       \* game_sessions: id -> creator and whether destroyed_at is null
  registered,  \* history: secure clients that registered URLs
  uncleaned,   \* history: users whose last cleanup failed
  errors       \* history: number of cleanups that failed

tables == <<accounts, urls, games>>
vars == <<up, auth, secure, silent, tables, registered, uncleaned, errors>>

TypeOK ==
  /\ up \in BOOLEAN
  /\ DOMAIN auth \subseteq AuthConnections
  /\ \A c \in DOMAIN auth : auth[c] \in Users
  /\ DOMAIN secure \subseteq SecureConnections
  /\ \A c \in DOMAIN secure : secure[c] \in Users
  /\ silent \subseteq DOMAIN secure
  /\ accounts \subseteq Users
  /\ urls \subseteq Users
  /\ DOMAIN games \subseteq GameIds
  /\ \A g \in DOMAIN games : games[g] \in [creator : Users, open : BOOLEAN]
  /\ registered \subseteq DOMAIN secure
  /\ uncleaned \subseteq Users
  /\ errors \in 0 .. MaxErrors

\* A database that was used before, the server not started yet.
Init ==
  /\ up = FALSE
  /\ auth = EmptyMap
  /\ secure = EmptyMap
  /\ silent = {}
  /\ accounts = Users
  /\ urls \in SUBSET Users
  /\ games \in {EmptyMap} \union
               [{i \in GameIds : i = 1} -> [creator : Users, open : BOOLEAN]]
  /\ registered = {}
  /\ uncleaned = {}
  /\ errors = 0

-----------------------------------------------------------------------------
(***************************************************************************)
(* Clients come and go.                                                    *)
(***************************************************************************)
Closed(gone) ==
  [g \in DOMAIN games |-> IF g \in gone THEN [games[g] EXCEPT !.open = FALSE]
                                        ELSE games[g]]

GamesOf(u) == {g \in DOMAIN games : games[g].creator = u}

\* deleteUserSession, one transaction
DeleteUserSession(u) ==
  /\ urls' = urls \ {u}
  /\ games' = Closed(GamesOf(u))
  /\ UNCHANGED accounts

\* The cleanup callback. An error of the database is logged, nothing is retried.
Cleanup(u) ==
  \/ /\ DeleteUserSession(u)
     /\ uncleaned' = uncleaned \ {u}
     /\ UNCHANGED errors
  \/ /\ errors < MaxErrors
     /\ errors' = errors + 1
     /\ uncleaned' = uncleaned \union {u}
     /\ UNCHANGED tables

\* (When a client logs in again, its departure cleans up after the last user; it
\* need not be told from one that logged in as that user only.)
LogIn(c, u) ==
  /\ up
  /\ c \notin DOMAIN auth
  /\ u \in accounts
  /\ auth' = Put(auth, c, u)
  /\ UNCHANGED <<up, secure, silent, tables, registered, uncleaned, errors>>

LeaveAuth(c) ==
  /\ c \in DOMAIN auth
  /\ Cleanup(auth[c])
  /\ auth' = Delete(auth, {c})
  /\ UNCHANGED <<up, secure, silent, registered>>

\* Tickets are valid forever: the account need not exist any more.
ConnectSecure(c, u) ==
  /\ up
  /\ c \notin DOMAIN secure
  /\ secure' = Put(secure, c, u)
  /\ UNCHANGED <<up, auth, silent, tables, registered, uncleaned, errors>>

GoSilent(c) ==
  /\ c \in DOMAIN secure
  /\ silent' = silent \union {c}
  /\ UNCHANGED <<up, auth, secure, tables, registered, uncleaned, errors>>

LeaveSecure(c) ==
  /\ c \in DOMAIN secure
  /\ Cleanup(secure[c])
  /\ secure' = Delete(secure, {c})
  /\ silent' = silent \ {c}
  /\ registered' = registered \ {c}
  /\ UNCHANGED <<up, auth>>

\* Mutant: nobody expires while others keep the socket busy.
IsDueWhenQuiet(c) == c \in silent /\ silent = DOMAIN secure

\* An expiry is no different from a DISCONNECT, except that it is certain.
IsDue(c) == c \in silent
Expire(c) == IsDue(c) /\ LeaveSecure(c)

-----------------------------------------------------------------------------
(***************************************************************************)
(* Requests to the secure service; they need a login.                      *)
(***************************************************************************)
MayCall(c) == c \in DOMAIN secure \ silent

\* The foreign keys of station_urls and game_sessions refuse unknown users.
RegisterUrls(c) ==
  /\ MayCall(c) /\ secure[c] \in accounts
  /\ urls' = urls \union {secure[c]}
  /\ registered' = registered \union {c}
  /\ UNCHANGED <<up, auth, secure, silent, accounts, games, uncleaned, errors>>

\* SQLite takes the successor of the highest id that is left.
IsNextId(g) ==
  /\ \A other \in DOMAIN games : other < g
  /\ g = 1 \/ g - 1 \in DOMAIN games

CreateSession(c, g) ==
  /\ MayCall(c) /\ secure[c] \in accounts
  /\ IsNextId(g)
  /\ games' = Put(games, g, [creator |-> secure[c], open |-> TRUE])
  /\ UNCHANGED <<up, auth, secure, silent, accounts, urls, registered, uncleaned, errors>>

\* Only the sessions the caller created itself.
DeleteSession(c, g) ==
  /\ MayCall(c)
  /\ g \in GamesOf(secure[c])
  /\ games' = Closed({g})
  /\ UNCHANGED <<up, auth, secure, silent, accounts, urls, registered, uncleaned, errors>>

-----------------------------------------------------------------------------
(***************************************************************************)
(* The admin API, and the process itself.                                  *)
(***************************************************************************)
DeleteGame(g) ==
  /\ up
  /\ g \in DOMAIN games
  /\ games' = Closed({g})
  /\ UNCHANGED <<up, auth, secure, silent, accounts, urls, registered, uncleaned, errors>>

\* Foreign keys cascade. The clients of the user stay connected.
DeleteUser(u) ==
  /\ up
  /\ u \in accounts
  /\ accounts' = accounts \ {u}
  /\ urls' = urls \ {u}
  /\ games' = Delete(games, GamesOf(u))
  /\ registered' = {c \in registered : secure[c] # u}
  /\ UNCHANGED <<up, auth, secure, silent, uncleaned, errors>>

\* A new account may get the id of one that was deleted.
RegisterUser(u) ==
  /\ up
  /\ u \notin accounts
  /\ accounts' = accounts \union {u}
  /\ UNCHANGED <<up, auth, secure, silent, urls, games, registered, uncleaned, errors>>

\* The process ends, by a crash or a signal: no client is cleaned up after.
Stop ==
  /\ up
  /\ up' = FALSE
  /\ auth' = EmptyMap
  /\ secure' = EmptyMap
  /\ silent' = {}
  /\ registered' = {}
  /\ UNCHANGED <<tables, uncleaned, errors>>

\* Mutant: game sessions of the previous run stay open.
StartWithOpenGames ==
  /\ ~up
  /\ up' = TRUE
  /\ urls' = {}
  /\ uncleaned' = {}
  /\ UNCHANGED <<auth, secure, silent, accounts, games, registered, errors>>

\* main clears what is left of the connections (invalidateSessions) before it
\* starts the services.
Start ==
  /\ ~up
  /\ up' = TRUE
  /\ urls' = {}
  /\ games' = Closed(DOMAIN games)
  /\ uncleaned' = {}
  /\ UNCHANGED <<auth, secure, silent, accounts, registered, errors>>

Next ==
  \/ \E c \in AuthConnections : LeaveAuth(c) \/ \E u \in Users : LogIn(c, u)
  \/ \E c \in SecureConnections :
       \/ GoSilent(c) \/ LeaveSecure(c) \/ RegisterUrls(c)
       \/ \E u \in Users : ConnectSecure(c, u)
       \/ \E g \in GameIds : CreateSession(c, g) \/ DeleteSession(c, g)
  \/ \E g \in GameIds : DeleteGame(g)
  \/ \E u \in Users : DeleteUser(u) \/ RegisterUser(u)
  \/ Stop \/ Start

Spec == Init /\ [][Next]_vars

\* The expiry timer of the secure service runs whatever the clients do.
FairSpec == Spec /\ \A c \in SecureConnections : WF_vars(Expire(c))

-----------------------------------------------------------------------------
Present(u) == \E c \in DOMAIN secure : secure[c] = u

OpenGames == {g \in DOMAIN games : games[g].open}

Advertised(u) == u \in urls \/ \E g \in OpenGames : games[g].creator = u

\* Nobody is sent to a host that is gone: who is advertised by an open game or
\* by station URLs is connected to the secure service, after any crash, restart,
\* deleted account or double connection; except while a cleanup that failed has
\* not been made up for by a later one (deleteUserSession, invalidateSessions).
HostsArePresent ==
  up => \A u \in Users : Advertised(u) => Present(u) \/ u \in uncleaned

\* A crashed host does not stay advertised: again and again it is heard of, not
\* advertised, or its cleanup failed (clearExpiredClients, the callback).
CrashedHostsGo ==
  \A u \in Users :
    []<>(\/ ~Advertised(u)
         \/ \E c \in DOMAIN secure \ silent : secure[c] = u
         \/ u \in uncleaned
         \/ ~up)

\* "ping keeps the session alive and disconnect cleans it up" (e2e.test.ts): as
\* long as a client that registered its URLs is connected, they are listed.
UrlsStayWithHost ==
  \A c \in registered : secure[c] \in accounts => secure[c] \in urls
=============================================================================
