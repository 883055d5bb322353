------------------------------- MODULE Storage -------------------------------
(***************************************************************************)
(* The tables of the database and the operations of the class Storage.    *)
(* Each operation is one statement or one transaction, so it happens in   *)
(* one step; its guard is what the constraints of the tables ask for, and *)
(* an operation whose guard is false throws and changes nothing.          *)
(*                                                                         *)
(* All tables but station_urls and participants have integer keys, which  *)
(* SQLite chooses as the successor of the highest key that is left: the   *)
(* keys of rows that were deleted last are used again.                    *)
(***************************************************************************)
EXTENDS Naturals, Maps

CONSTANTS
  Names,       \* usernames
  Ubis,        \* Ubisoft ids
  NoUbi,       \* a null ubi_id
  Types,       \* types of game sessions
  Attributes,  \* property lists of game sessions
  Urls,        \* station URLs
  MaxUsers,    \* bound: highest id of an account
  MaxGames,    \* bound: highest id of a game session
  MaxInvites   \* bound: highest row id of an invite

ASSUME StorageAssumption ==
  /\ MaxUsers \in Nat /\ MaxGames \in Nat /\ MaxInvites \in Nat
  /\ NoUbi \notin Ubis

UserIds == 1 .. MaxUsers
GameIds == 1 .. MaxGames
InviteIds == 1 .. MaxInvites

VARIABLES
  users,         \* id -> name, ubi_id and is_online
  urls,          \* station_urls: pairs of user and URL
  games,         \* id -> game session, open while destroyed_at is null
  participants,  \* pairs of game and user
  invites        \* row id -> sender and receiver

tables == <<users, urls, games, participants, invites>>

User == [name : Names, ubi : Ubis \union {NoUbi}, online : BOOLEAN]
GameSession == [type : Types, creator : UserIds, attributes : Attributes, open : BOOLEAN]
Invite == [sender : UserIds, receiver : UserIds]

TablesOK ==
  /\ DOMAIN users \subseteq UserIds
  /\ \A u \in DOMAIN users : users[u] \in User
  /\ urls \subseteq UserIds \X Urls
  /\ DOMAIN games \subseteq GameIds
  /\ \A g \in DOMAIN games : games[g] \in GameSession
  /\ participants \subseteq GameIds \X UserIds
  /\ DOMAIN invites \subseteq InviteIds
  /\ \A i \in DOMAIN invites : invites[i] \in Invite

\* The key SQLite gives to a new row.
IsNextKey(k, table) ==
  /\ \A other \in DOMAIN table : other < k
  /\ k = 1 \/ k - 1 \in DOMAIN table

-----------------------------------------------------------------------------
(***************************************************************************)
(* Accounts.                                                               *)
(***************************************************************************)
\* (Null equals nothing, not even null.)
FindUserByUbiId(ubi) == {u \in DOMAIN users : users[u].ubi = ubi /\ ubi # NoUbi}
FindUbiIdByUserId(u) == {users[v].ubi : v \in {u} \cap DOMAIN users} \ {NoUbi}

\* Everyone who can show up in friend lists.
ListUsers == {u \in DOMAIN users : users[u].ubi # NoUbi}

\* Mutant: the insert trusts that the Ubisoft id is still free after the hashing.
NotTakenByName(name, ubi) == \A u \in DOMAIN users : users[u].name # name

\* Both columns are UNIQUE, null is never a duplicate.
NotTaken(name, ubi) ==
  \A u \in DOMAIN users : users[u].name # name /\ (ubi # NoUbi => users[u].ubi # ubi)

InsertUser(name, ubi) ==
  /\ NotTaken(name, ubi)
  /\ \E u \in UserIds :
       /\ IsNextKey(u, users)
       /\ users' = Put(users, u, [name |-> name, ubi |-> ubi, online |-> FALSE])
  /\ UNCHANGED <<urls, games, participants, invites>>

\* Mutant: like the other tables, invites do not stand in the way.
NoInvitesCascade(u) == TRUE

\* invites refer to users without ON DELETE CASCADE.
NoInvitesOf(u) == \A i \in DOMAIN invites : u \notin {invites[i].sender, invites[i].receiver}

GamesOf(u) == {g \in DOMAIN games : games[g].creator = u}

\* Mutant: the seats of the account go, those in its games stay.
SeatsAreKept(seat, u) == seat[2] # u

\* participants cascades from users and from game_sessions.
SeatStays(seat, u) == seat[2] # u /\ seat[1] \notin GamesOf(u)

DeleteUser(u) ==
  /\ NoInvitesOf(u)
  /\ users' = Delete(users, {u})
  /\ urls' = {l \in urls : l[1] # u}
  /\ games' = Delete(games, GamesOf(u))
  /\ participants' = {p \in participants : SeatStays(p, u)}
  /\ UNCHANGED invites

\* createUserSession; the rows of user_sessions are the subject of TicketGranting.
CreateUserSession(u) ==
  /\ u \in DOMAIN users
  /\ users' = [users EXCEPT ![u].online = TRUE]
  /\ UNCHANGED <<urls, games, participants, invites>>

Closed(gone) ==
  [g \in DOMAIN games |-> IF g \in gone THEN [games[g] EXCEPT !.open = FALSE]
                                        ELSE games[g]]

\* One transaction. The user stays online, and seated in the games of others.
DeleteUserSession(u) ==
  /\ urls' = {l \in urls : l[1] # u}
  /\ games' = Closed(GamesOf(u))
  /\ UNCHANGED <<users, participants, invites>>

\* One transaction, before the services start.
InvalidateSessions ==
  /\ urls' = {}
  /\ games' = Closed(DOMAIN games)
  /\ users' = [u \in DOMAIN users |-> [users[u] EXCEPT !.online = FALSE]]
  /\ UNCHANGED <<participants, invites>>

-----------------------------------------------------------------------------
(***************************************************************************)
(* Game sessions, participants and station URLs.                           *)
(***************************************************************************)
CreateGameSession(u, type, attributes) ==
  /\ u \in DOMAIN users
  /\ \E g \in GameIds :
       /\ IsNextKey(g, games)
       /\ games' = Put(games, g, [type |-> type, creator |-> u,
                                  attributes |-> attributes, open |-> TRUE])
  /\ UNCHANGED <<users, urls, participants, invites>>

\* Of whoever's game, destroyed or not.
UpdateGameSession(g, type, attributes) ==
  /\ g \in DOMAIN games /\ games[g].type = type
  /\ games' = [games EXCEPT ![g].attributes = attributes]
  /\ UNCHANGED <<users, urls, participants, invites>>

DeleteGameSession(u, type, g) ==
  /\ g \in GamesOf(u) /\ games[g].type = type
  /\ games' = Closed({g})
  /\ UNCHANGED <<users, urls, participants, invites>>

DeleteGameSessionById(g) ==
  /\ games' = Closed({g})
  /\ UNCHANGED <<users, urls, participants, invites>>

MayBeSeated(g, seated) == g \in DOMAIN games /\ seated \subseteq DOMAIN users

\* One statement: the foreign keys refuse all of the rows or none. An empty list
\* is not sent to the database.
AddParticipants(g, seated) ==
  /\ seated # {} => MayBeSeated(g, seated)
  /\ participants' = participants \union {<<g, u>> : u \in seated}
  /\ UNCHANGED <<users, urls, games, invites>>

RemoveParticipants(g, seated) ==
  /\ participants' = participants \ {<<g, u>> : u \in seated}
  /\ UNCHANGED <<users, urls, games, invites>>

RegisterUrls(u, listed) ==
  /\ listed # {} => u \in DOMAIN users
  /\ urls' = urls \union {<<u, l>> : l \in listed}
  /\ UNCHANGED <<users, games, participants, invites>>

ListUrls(u) == {l \in Urls : <<u, l>> \in urls}

\* A session as the services see it: its participants (joined with users) with
\* their URLs, which are not looked up for one of them.
LoadSession(g, skipUrlsOf) ==
  [sessionId    |-> g,
   creatorId    |-> games[g].creator,
   attributes   |-> games[g].attributes,
   participants |-> [u \in {v \in DOMAIN users : <<g, v>> \in participants} |->
                       IF u \in skipUrlsOf THEN {} ELSE ListUrls(u)]]

OpenGames == {g \in DOMAIN games : games[g].open}

SearchSessions(type, user) ==
  {LoadSession(g, {user}) : g \in {h \in OpenGames : games[h].type = type
                                                     /\ games[h].creator # user}}

SearchSessionsWithParticipants(type, ids) ==
  {LoadSession(g, {}) : g \in {h \in OpenGames : games[h].type = type
                                 /\ \E u \in ids : <<h, u>> \in participants}}

ListGameSessions == {LoadSession(g, {}) : g \in OpenGames}

-----------------------------------------------------------------------------
(***************************************************************************)
(* Invites.                                                                *)
(***************************************************************************)
AddInvite(i, sender, receiver) ==
  /\ {sender, receiver} \subseteq DOMAIN users
  /\ IsNextKey(i, invites)
  /\ invites' = Put(invites, i, [sender |-> sender, receiver |-> receiver])
  /\ UNCHANGED <<users, urls, games, participants>>

\* Mutant: the row that was added last.
IsLastInvite(i, receiver) ==
  /\ i \in DOMAIN invites /\ invites[i].receiver = receiver
  /\ \A j \in DOMAIN invites : invites[j].receiver = receiver => j <= i

\* There is no ORDER BY and no index: the rows are scanned by their id.
IsFirstInvite(i, receiver) ==
  /\ i \in DOMAIN invites /\ invites[i].receiver = receiver
  /\ \A j \in DOMAIN invites : invites[j].receiver = receiver => i <= j

TakeInvite(i, receiver) ==
  /\ IsFirstInvite(i, receiver)
  /\ invites' = Delete(invites, {i})
  /\ UNCHANGED <<users, urls, games, participants>>
=============================================================================
