------------------------------- MODULE Platform -------------------------------
(***************************************************************************)
(* The database and everybody who works on it: players of the game at the  *)
(* secure service, launchers and the administrator at the API, and the     *)
(* process that is restarted.                                              *)
(*                                                                         *)
(* Who is connected is left open: players show tickets, which outlive      *)
(* their accounts, so a request may come from any user id at any time.     *)
(* (HostedGames is about connections and what they leave behind.)          *)
(***************************************************************************)
EXTENDS GameSessions, ApiServer

CONSTANTS
  Bounds,    \* a behaviour explores many games or many invites, not both: whether
             \* there are games, logins and P2P tests, the number of invites, and
             \* the names with Ubisoft ids that may be registered and deleted
  Founders   \* the accounts a behaviour may start with

ASSUME PlatformAssumption ==
  /\ \A b \in Bounds : /\ b.invites \in Nat
                       /\ b.people \subseteq [name : Names, ubi : Ubis]
  /\ \A f \in Founders :
       /\ DOMAIN f \subseteq UserIds
       /\ \A u \in DOMAIN f : f[u] \in User
       /\ \A u, v \in DOMAIN f : f[u].ubi = f[v].ubi /\ f[u].ubi # NoUbi => u = v

VARIABLES
  bound,    \* the bounds of this behaviour
  sent,     \* history: number of invites sent so far
  numbers   \* history: row id of an invite -> its number in the order of sending

vars == <<tables, apiVars, bound, sent, numbers>>

TypeOK ==
  /\ TablesOK /\ ApiOK
  /\ bound \in Bounds
  /\ sent \in Nat
  /\ DOMAIN numbers = DOMAIN invites
  /\ \A i \in DOMAIN numbers : numbers[i] \in 1 .. sent

Init ==
  /\ users \in Founders
  /\ urls = {} /\ participants = {}
  /\ games = EmptyMap /\ invites = EmptyMap /\ numbers = EmptyMap
  /\ ApiInit
  /\ sent = 0
  /\ bound \in Bounds

history == <<bound, sent, numbers>>

-----------------------------------------------------------------------------
(***************************************************************************)
(* Requests of players, and what happens to their connections.             *)
(***************************************************************************)
Play ==
  /\ bound.games
  /\ \/ \E u \in UserIds : CreateSession(u)
     \/ \E u \in UserIds, g \in GameIds : DeleteSession(u, g)
     \/ \E g \in GameIds : UpdateSession(g)
     \/ \E g \in GameIds, seated \in SUBSET UserIds :
          AddPlayers(g, seated, {}) \/ RemovePlayers(g, seated)
     \/ \E u \in UserIds, listed \in SUBSET Urls : RegisterPlayerUrls(u, listed)
  /\ UNCHANGED <<apiVars, history>>

\* loginEx, and the cleanup after a client that left.
Appear(u) == bound.logins /\ CreateUserSession(u) /\ UNCHANGED <<apiVars, history>>
Leave(u) == DeleteUserSession(u) /\ UNCHANGED <<apiVars, history>>

\* The calls and their sockets end with the process, and so does the token key.
Restart ==
  /\ InvalidateSessions
  /\ tokens' = {} /\ waiting' = EmptyMap
  /\ tests' = EmptyMap /\ sockets' = {} /\ timers' = {}
  /\ UNCHANGED history

-----------------------------------------------------------------------------
(***************************************************************************)
(* Calls of launchers and of the administrator.                            *)
(***************************************************************************)
LogInToApi ==
  /\ \E c \in Calls :
       \/ bound.logins /\ \E u \in UserIds : Login(c, u)
       \/ \E valid \in BOOLEAN : LoginVerified(c, valid)
       \/ \E p \in bound.people : Register(c, p.name, p.ubi)
       \/ RegisterHashed(c)
  /\ UNCHANGED history

SendInvite(u) ==
  /\ sent < bound.invites
  /\ \E i \in InviteIds, ubi \in Ubis :
       /\ Invitation(i, u, ubi)
       /\ sent' = sent + 1
       /\ numbers' = Put(numbers, i, sent + 1)
  /\ UNCHANGED bound

TakeEvent(u) ==
  /\ \E i \in InviteIds :
       /\ Event(i, u)
       /\ numbers' = Delete(numbers, {i})
  /\ UNCHANGED <<bound, sent>>

TestConnection(c) ==
  /\ bound.tests
  /\ \/ \E u \in UserIds : TestP2P(c, u)
     \/ TestFails(c) \/ TestSends(c) \/ PeerAnswers(c) \/ DeadlinePasses(c)
  /\ UNCHANGED history

Administrate ==
  /\ (\E p \in bound.people : AdminDeletesUser(p.ubi)) \/ (\E g \in GameIds : AdminDeletesGame(g))
  /\ UNCHANGED history

Next ==
  \/ Play
  \/ \E u \in UserIds : Appear(u) \/ Leave(u) \/ SendInvite(u) \/ TakeEvent(u)
  \/ Restart
  \/ LogInToApi
  \/ \E c \in Calls : TestConnection(c)
  \/ Administrate

Spec == Init /\ [][Next]_vars

\* Opening a socket succeeds or fails, and timers fire, whatever the peer does.
FairSpec ==
  Spec /\ \A c \in Calls : WF_vars((TestFails(c) \/ TestSends(c) \/ DeadlinePasses(c))
                                   /\ UNCHANGED history)
-----------------------------------------------------------------------------
\* No row outlives what it refers to, whatever is deleted in the middle of what:
\* games have a creator, seats a game and a player, URLs a player, invites both
\* their players (DeleteUser, AddParticipants; without it searches lose players
\* and Misc.Event loses the invite of a sender that is gone).
RowsHaveOwners ==
  /\ \A l \in urls : l[1] \in DOMAIN users
  /\ \A g \in DOMAIN games : games[g].creator \in DOMAIN users
  /\ \A p \in participants : p[1] \in DOMAIN games /\ p[2] \in DOMAIN users
  /\ \A i \in DOMAIN invites : {invites[i].sender, invites[i].receiver} \subseteq DOMAIN users

\* A game id that is handed out again comes with none of the players of the game
\* that had it before (createGameSession takes the successor of what is left).
ReusedIdsStartEmpty ==
  [][\A g \in GameIds :
       g \in DOMAIN games' /\ g \notin DOMAIN games =>
         \A u \in UserIds : <<g, u>> \notin participants']_vars

\* Two registrations may be hashed at the same time and an account may be deleted
\* meanwhile: the Ubisoft id of a user still leads back to him and nobody else
\* (findUserIdByUbiId, findUbiIdByUserId; friends are invited and deleted by it).
UbiIdsLeadBack ==
  \A u \in ListUsers : \A ubi \in FindUbiIdByUserId(u) : FindUserByUbiId(ubi) = {u}

\* The two searches and the list of the administrator are written separately but
\* tell of the same games: who is found by a player and by a query has the same
\* URLs of the host and the same participants, and the administrator sees it.
\* (One of those who search has no account any more.)
SearchesAgree ==
  \A type \in Types, user \in UserIds \union {MaxUsers + 1}, query \in Queries :
    /\ \A q \in FoundByQuery(type, user, query) : \A p \in FoundByPlayers(type, UserIds) :
         p.sessionId = q.sessionId => p = q
    /\ \A s \in FoundByPlayers(type, UserIds) \union FoundByQuery(type, user, query) :
         \E l \in AdminListsGames : l.id = s.sessionId

\* Coop players never find a Spy vs Merc session, whoever updates it to what
\* (matchesQuery; the mode of a session is 1 for Spy vs Merc, 0 for coop).
ModesStayApart ==
  \A type \in Types, user \in UserIds, query \in Queries :
    GameModeId \notin DOMAIN AsMap(query) =>
      \A s \in FoundByQuery(type, user, query) :
        LET attributes == AsMap(games[s.sessionId].attributes)
        IN  GameModeId \in DOMAIN attributes /\ attributes[GameModeId] = 0

Queue == INSTANCE InviteQueue WITH
  Accounts <- UserIds,
  pending  <- {[number |-> numbers[i], sender |-> invites[i].sender,
                receiver |-> invites[i].receiver] : i \in DOMAIN invites}

\* Invites are delivered oldest first and at most once, although row ids are used
\* again and the query asks for no order (addInvite, takeInvite).
ImplementsInviteQueue == Queue!QueueSpec

\* A P2P test ends, with its socket closed and its timer gone, even if the peer
\* never answers or answers as the timer fires (udpRoundTrip).
TestsEnd ==
  \A c \in Calls :
    (c \in DOMAIN tests \/ c \in sockets \/ c \in timers)
      ~> (c \notin DOMAIN tests /\ c \notin sockets /\ c \notin timers)
=============================================================================
