---------------------------- MODULE PlatformProofs ----------------------------
(***************************************************************************)
(* What holds of the database for any number of accounts, games, invites   *)
(* and calls: the rows have owners, Ubisoft ids are unique, the ids of     *)
(* games come back empty, invites are delivered in order, once, and the    *)
(* searches agree about the games they find.                               *)
(***************************************************************************)
EXTENDS Platform, TLAPS

(***************************************************************************)
(* Whatever happens, the tables are left alone or change by one operation  *)
(* of Storage.                                                             *)
(***************************************************************************)
AccountStep ==
  \/ \E name \in Names, ubi \in Ubis \union {NoUbi} : InsertUser(name, ubi)
  \/ \E u \in UserIds : DeleteUser(u) \/ CreateUserSession(u) \/ DeleteUserSession(u)
  \/ InvalidateSessions

GameStep ==
  \/ \E u \in UserIds, type \in Types, attributes \in Attributes :
       CreateGameSession(u, type, attributes)
  \/ \E g \in GameIds, type \in Types, attributes \in Attributes :
       UpdateGameSession(g, type, attributes)
  \/ \E u \in UserIds, type \in Types, g \in GameIds : DeleteGameSession(u, type, g)
  \/ \E g \in GameIds : DeleteGameSessionById(g)
  \/ \E g \in GameIds, seated \in SUBSET UserIds :
       AddParticipants(g, seated) \/ RemoveParticipants(g, seated)
  \/ \E u \in UserIds, listed \in SUBSET Urls : RegisterUrls(u, listed)

InviteStep ==
  \E i \in InviteIds :
    \/ \E s, r \in UserIds : AddInvite(i, s, r)
    \/ \E r \in UserIds : TakeInvite(i, r)

TableStep == UNCHANGED tables \/ AccountStep \/ GameStep \/ InviteStep

LEMMA StepsOfTables ==
  ASSUME TypeOK, [Next]_vars
  PROVE  TableStep
<1>1. CASE Play
  <2> SUFFICES ASSUME TRUE PROVE GameStep
    BY DEF TableStep
  <2>1. CASE \E u \in UserIds : CreateSession(u)
    BY <2>1 DEF CreateSession, GameStep
  <2>2. CASE \E u \in UserIds, g \in GameIds : DeleteSession(u, g)
    BY <2>2 DEF DeleteSession, GameStep
  <2>3. CASE \E g \in GameIds : UpdateSession(g)
    BY <2>3 DEF UpdateSession, GameStep
  <2>4. CASE \E g \in GameIds, seated \in SUBSET UserIds :
               AddPlayers(g, seated, {}) \/ RemovePlayers(g, seated)
    <3>1. PICK g \in GameIds, seated \in SUBSET UserIds :
                 AddPlayers(g, seated, {}) \/ RemovePlayers(g, seated)
      BY <2>4
    <3>2. seated \union {} = seated
      OBVIOUS
    <3> QED
      BY <3>1, <3>2 DEF AddPlayers, RemovePlayers, GameStep
  <2>5. CASE \E u \in UserIds, listed \in SUBSET Urls : RegisterPlayerUrls(u, listed)
    BY <2>5 DEF RegisterPlayerUrls, GameStep
  <2> QED
    BY <1>1, <2>1, <2>2, <2>3, <2>4, <2>5 DEF Play
<1>2. CASE \E u \in UserIds : Appear(u) \/ Leave(u)
  BY <1>2 DEF Appear, Leave, AccountStep, TableStep
<1>3. CASE \E u \in UserIds : SendInvite(u)
  <2>1. PICK u \in UserIds, i \in InviteIds, ubi \in Ubis : Invitation(i, u, ubi)
    BY <1>3 DEF SendInvite
  <2>2. PICK r \in FindUserByUbiId(ubi) : AddInvite(i, u, r)
    BY <2>1 DEF Invitation
  <2>3. r \in UserIds
    BY <2>2 DEF FindUserByUbiId, TypeOK, TablesOK
  <2> QED
    BY <2>2, <2>3 DEF InviteStep, TableStep
<1>4. CASE \E u \in UserIds : TakeEvent(u)
  BY <1>4 DEF TakeEvent, Event, InviteStep, TableStep
<1>5. CASE Restart
  BY <1>5 DEF Restart, AccountStep, TableStep
<1>6. CASE LogInToApi
  <2>1. PICK c \in Calls :
          \/ \E u \in UserIds : Login(c, u)
          \/ \E valid \in BOOLEAN : LoginVerified(c, valid)
          \/ \E p \in bound.people : Register(c, p.name, p.ubi)
          \/ RegisterHashed(c)
    BY <1>6 DEF LogInToApi
  <2>2. CASE RegisterHashed(c)
    <3>1. c \in DOMAIN waiting /\ "name" \in DOMAIN waiting[c]
      BY <2>2 DEF RegisterHashed
    <3>2. waiting[c].name \in Names /\ waiting[c].ubi \in Ubis \union {NoUbi}
      BY <3>1 DEF TypeOK, ApiOK, Waiting
    <3> QED
      BY <2>2, <3>2 DEF RegisterHashed, AccountStep, TableStep
  <2> QED
    BY <2>1, <2>2 DEF Login, LoginVerified, Register, TableStep
<1>7. CASE \E c \in Calls : TestConnection(c)
  BY <1>7 DEF TestConnection, TestP2P, TestFails, TestSends, PeerAnswers, DeadlinePasses,
              TestEnds, TableStep
<1>8. CASE Administrate
  <2>1. CASE \E p \in bound.people : AdminDeletesUser(p.ubi)
    <3>1. PICK u \in DOMAIN users : DeleteUser(u)
      BY <2>1 DEF AdminDeletesUser, FindUserByUbiId
    <3> QED
      BY <3>1 DEF AccountStep, TableStep, TypeOK, TablesOK
  <2>2. CASE \E g \in GameIds : AdminDeletesGame(g)
    BY <2>2 DEF AdminDeletesGame, GameStep, TableStep
  <2> QED
    BY <1>8, <2>1, <2>2 DEF Administrate
<1>9. CASE UNCHANGED vars
  BY <1>9 DEF vars, TableStep
<1> QED
  BY <1>1, <1>2, <1>3, <1>4, <1>5, <1>6, <1>7, <1>8, <1>9 DEF Next
-----------------------------------------------------------------------------
(***************************************************************************)
(* Types.                                                                  *)
(***************************************************************************)
LEMMA ClosedKeepsTypes ==
  ASSUME TablesOK, NEW gone
  PROVE  /\ DOMAIN Closed(gone) = DOMAIN games
         /\ \A g \in DOMAIN games : /\ Closed(gone)[g] \in GameSession
                                    /\ Closed(gone)[g].creator = games[g].creator
  BY DEF Closed, TablesOK, GameSession

LEMMA AccountStepTypes ==
  ASSUME TablesOK, AccountStep
  PROVE  TablesOK'
<1>1. ASSUME NEW name \in Names, NEW ubi \in Ubis \union {NoUbi}, InsertUser(name, ubi)
      PROVE  TablesOK'
  <2>1. PICK u \in UserIds :
          users' = Put(users, u, [name |-> name, ubi |-> ubi, online |-> FALSE])
    BY <1>1 DEF InsertUser
  <2>2. /\ DOMAIN users' = DOMAIN users \union {u}
        /\ \A v \in DOMAIN users' : users'[v] \in User
    BY <2>1 DEF Put, TablesOK, User
  <2> QED
    BY <1>1, <2>2 DEF InsertUser, TablesOK
<1>2. ASSUME NEW u \in UserIds, DeleteUser(u)
      PROVE  TablesOK'
  <2>1. DOMAIN users' \subseteq UserIds /\ \A v \in DOMAIN users' : users'[v] \in User
    BY <1>2 DEF DeleteUser, Delete, Restrict, TablesOK
  <2>2. DOMAIN games' \subseteq GameIds /\ \A g \in DOMAIN games' : games'[g] \in GameSession
    BY <1>2 DEF DeleteUser, Delete, Restrict, TablesOK
  <2>3. urls' \subseteq UserIds \X Urls /\ participants' \subseteq GameIds \X UserIds
    BY <1>2 DEF DeleteUser, TablesOK
  <2> QED
    BY <1>2, <2>1, <2>2, <2>3 DEF DeleteUser, TablesOK
<1>3. ASSUME NEW u \in UserIds, CreateUserSession(u)
      PROVE  TablesOK'
  BY <1>3 DEF CreateUserSession, TablesOK, User
<1>4. ASSUME NEW u \in UserIds, DeleteUserSession(u)
      PROVE  TablesOK'
  BY <1>4, ClosedKeepsTypes DEF DeleteUserSession, TablesOK
<1>5. CASE InvalidateSessions
  <2>1. DOMAIN users' = DOMAIN users /\ \A u \in DOMAIN users' : users'[u] \in User
    BY <1>5 DEF InvalidateSessions, TablesOK, User
  <2> QED
    BY <1>5, <2>1, ClosedKeepsTypes DEF InvalidateSessions, TablesOK
<1> QED
  BY <1>1, <1>2, <1>3, <1>4, <1>5 DEF AccountStep

LEMMA GameStepTypes ==
  ASSUME TablesOK, GameStep
  PROVE  TablesOK'
<1>1. ASSUME NEW u \in UserIds, NEW type \in Types, NEW attributes \in Attributes,
             CreateGameSession(u, type, attributes)
      PROVE  TablesOK'
  <2>1. PICK g \in GameIds :
          games' = Put(games, g, [type |-> type, creator |-> u,
                                  attributes |-> attributes, open |-> TRUE])
    BY <1>1 DEF CreateGameSession
  <2>2. DOMAIN games' = DOMAIN games \union {g} /\ \A h \in DOMAIN games' : games'[h] \in GameSession
    BY <2>1 DEF Put, TablesOK, GameSession
  <2> QED
    BY <1>1, <2>2 DEF CreateGameSession, TablesOK
<1>2. ASSUME NEW g \in GameIds, NEW type \in Types, NEW attributes \in Attributes,
             UpdateGameSession(g, type, attributes)
      PROVE  TablesOK'
  BY <1>2 DEF UpdateGameSession, TablesOK, GameSession
<1>3. ASSUME NEW u \in UserIds, NEW type \in Types, NEW g \in GameIds,
             DeleteGameSession(u, type, g)
      PROVE  TablesOK'
  BY <1>3, ClosedKeepsTypes DEF DeleteGameSession, TablesOK
<1>4. ASSUME NEW g \in GameIds, DeleteGameSessionById(g)
      PROVE  TablesOK'
  BY <1>4, ClosedKeepsTypes DEF DeleteGameSessionById, TablesOK
<1>5. ASSUME NEW g \in GameIds, NEW seated \in SUBSET UserIds,
             AddParticipants(g, seated) \/ RemoveParticipants(g, seated)
      PROVE  TablesOK'
  BY <1>5 DEF AddParticipants, RemoveParticipants, TablesOK
<1>6. ASSUME NEW u \in UserIds, NEW listed \in SUBSET Urls, RegisterUrls(u, listed)
      PROVE  TablesOK'
  BY <1>6 DEF RegisterUrls, TablesOK
<1> QED
  BY <1>1, <1>2, <1>3, <1>4, <1>5, <1>6 DEF GameStep

LEMMA InviteStepTypes ==
  ASSUME TablesOK, InviteStep
  PROVE  TablesOK'
<1>1. PICK i \in InviteIds : \/ \E s, r \in UserIds : AddInvite(i, s, r)
                             \/ \E r \in UserIds : TakeInvite(i, r)
  BY DEF InviteStep
<1>2. CASE \E s, r \in UserIds : AddInvite(i, s, r)
  <2>1. PICK s \in UserIds, r \in UserIds : AddInvite(i, s, r)
    BY <1>2
  <2>2. DOMAIN invites' = DOMAIN invites \union {i} /\ \A j \in DOMAIN invites' : invites'[j] \in Invite
    BY <2>1 DEF AddInvite, Put, TablesOK, Invite
  <2> QED
    BY <2>1, <2>2 DEF AddInvite, TablesOK
<1>3. CASE \E r \in UserIds : TakeInvite(i, r)
  <2>1. DOMAIN invites' \subseteq InviteIds /\ \A j \in DOMAIN invites' : invites'[j] \in Invite
    BY <1>3 DEF TakeInvite, Delete, Restrict, TablesOK
  <2> QED
    BY <1>3, <2>1 DEF TakeInvite, TablesOK
<1> QED
  BY <1>1, <1>2, <1>3

LEMMA ApiTypes ==
  ASSUME TypeOK, [Next]_vars
  PROVE  ApiOK'
<1>1. CASE UNCHANGED apiVars
  BY <1>1 DEF apiVars, TypeOK, ApiOK
<1>2. CASE Restart
  BY <1>2 DEF Restart, ApiOK, EmptyMap
<1>3. CASE LogInToApi
  <2>1. PICK c \in Calls :
          \/ \E u \in UserIds : Login(c, u)
          \/ \E valid \in BOOLEAN : LoginVerified(c, valid)
          \/ \E p \in bound.people : Register(c, p.name, p.ubi)
          \/ RegisterHashed(c)
    BY <1>3 DEF LogInToApi
  <2>2. ASSUME NEW u \in UserIds, Login(c, u)
        PROVE  ApiOK'
    BY <2>2 DEF Login, Put, TypeOK, ApiOK, Waiting
  <2>3. ASSUME NEW valid \in BOOLEAN, LoginVerified(c, valid)
        PROVE  ApiOK'
    <3>1. c \in DOMAIN waiting /\ "user" \in DOMAIN waiting[c]
      BY <2>3 DEF LoginVerified
    <3>2. waiting[c].user \in UserIds
      BY <3>1 DEF TypeOK, ApiOK, Waiting
    <3> QED
      BY <2>3, <3>2 DEF LoginVerified, Delete, Restrict, TypeOK, ApiOK
  <2>4. ASSUME NEW p \in bound.people, Register(c, p.name, p.ubi)
        PROVE  ApiOK'
    <3>1. p \in [name : Names, ubi : Ubis]
      BY PlatformAssumption DEF TypeOK
    <3>2. [name |-> p.name, ubi |-> p.ubi] \in Waiting
      BY <3>1 DEF Waiting
    <3> QED
      BY <2>4, <3>2 DEF Register, Put, TypeOK, ApiOK
  <2>5. CASE RegisterHashed(c)
    BY <2>5 DEF RegisterHashed, Delete, Restrict, TypeOK, ApiOK
  <2> QED
    BY <2>1, <2>2, <2>3, <2>4, <2>5
<1>4. CASE \E c \in Calls : TestConnection(c)
  BY <1>4 DEF TestConnection, TestP2P, TestFails, TestSends, PeerAnswers, DeadlinePasses,
              TestEnds, Put, Delete, Restrict, TypeOK, ApiOK
<1> QED
  BY <1>1, <1>2, <1>3, <1>4 DEF Next, vars, Play, Appear, Leave, SendInvite, Invitation,
     TakeEvent, Event, Administrate, AdminDeletesUser, AdminDeletesGame

LEMMA HistoryTypes ==
  ASSUME TypeOK, [Next]_vars
  PROVE  /\ bound' \in Bounds /\ sent' \in Nat
         /\ DOMAIN numbers' = DOMAIN invites'
         /\ \A i \in DOMAIN numbers' : numbers'[i] \in 1 .. sent'
<1>1. CASE UNCHANGED <<history, invites>>
  BY <1>1 DEF history, TypeOK
<1>2. ASSUME NEW u \in UserIds, SendInvite(u)
      PROVE  /\ bound' \in Bounds /\ sent' \in Nat
             /\ DOMAIN numbers' = DOMAIN invites'
             /\ \A i \in DOMAIN numbers' : numbers'[i] \in 1 .. sent'
  <2>1. PICK i \in InviteIds, ubi \in Ubis :
          Invitation(i, u, ubi) /\ sent' = sent + 1 /\ numbers' = Put(numbers, i, sent + 1)
    BY <1>2 DEF SendInvite
  <2>2. PICK r : AddInvite(i, u, r)
    BY <2>1 DEF Invitation
  <2>3. DOMAIN invites' = DOMAIN invites \union {i}
    BY <2>2 DEF AddInvite, Put
  <2> QED
    BY <1>2, <2>1, <2>3 DEF SendInvite, Put, TypeOK
<1>3. ASSUME NEW u \in UserIds, TakeEvent(u)
      PROVE  /\ bound' \in Bounds /\ sent' \in Nat
             /\ DOMAIN numbers' = DOMAIN invites'
             /\ \A i \in DOMAIN numbers' : numbers'[i] \in 1 .. sent'
  <2>1. PICK i \in InviteIds : Event(i, u) /\ numbers' = Delete(numbers, {i})
    BY <1>3 DEF TakeEvent
  <2> QED
    BY <1>3, <2>1 DEF TakeEvent, Event, TakeInvite, Delete, Restrict, TypeOK
<1>4. CASE Play \/ \E u \in UserIds : Appear(u) \/ Leave(u)
  BY <1>1, <1>4 DEF Play, Appear, Leave, CreateSession, CreateGameSession, DeleteSession,
     DeleteGameSession, UpdateSession, UpdateGameSession, AddPlayers, AddParticipants,
     RemovePlayers, RemoveParticipants, RegisterPlayerUrls, RegisterUrls, CreateUserSession,
     DeleteUserSession, history
<1>5. CASE Restart \/ LogInToApi \/ (\E c \in Calls : TestConnection(c)) \/ Administrate
  BY <1>1, <1>5 DEF Restart, InvalidateSessions, LogInToApi, Login, LoginVerified, Register,
     RegisterHashed, InsertUser, TestConnection, TestP2P, TestFails, TestSends, PeerAnswers,
     DeadlinePasses, TestEnds, Administrate, AdminDeletesUser, DeleteUser, AdminDeletesGame,
     DeleteGameSessionById, tables, history
<1> QED
  BY <1>1, <1>2, <1>3, <1>4, <1>5 DEF Next, vars, tables, history

LEMMA InitTypes == Init => TypeOK
<1> SUFFICES ASSUME Init PROVE TypeOK
  OBVIOUS
<1>1. DOMAIN EmptyMap = {}
  BY DEF EmptyMap
<1>2. DOMAIN users \subseteq UserIds /\ \A u \in DOMAIN users : users[u] \in User
  BY PlatformAssumption DEF Init
<1> QED
  BY <1>1, <1>2 DEF Init, ApiInit, TypeOK, TablesOK, ApiOK

\* Every table and every variable of the API keeps its type (Platform).
THEOREM PlatformTypes == Spec => []TypeOK
<1>1. ASSUME TypeOK, [Next]_vars
      PROVE  TypeOK'
  <2>1. TablesOK'
    BY <1>1, StepsOfTables, AccountStepTypes, GameStepTypes, InviteStepTypes
       DEF TableStep, tables, TypeOK, TablesOK
  <2> QED
    BY <1>1, <2>1, ApiTypes, HistoryTypes DEF TypeOK
<1> QED
  BY <1>1, InitTypes, PTL DEF Spec

-----------------------------------------------------------------------------
(***************************************************************************)
(* Rows and their owners.                                                  *)
(***************************************************************************)
LEMMA AccountStepOwners ==
  ASSUME TablesOK, RowsHaveOwners, AccountStep
  PROVE  RowsHaveOwners'
<1>1. ASSUME NEW name \in Names, NEW ubi \in Ubis \union {NoUbi}, InsertUser(name, ubi)
      PROVE  RowsHaveOwners'
  <2>1. DOMAIN users \subseteq DOMAIN users'
    BY <1>1 DEF InsertUser, Put
  <2> QED
    BY <1>1, <2>1 DEF InsertUser, RowsHaveOwners
<1>2. ASSUME NEW u \in UserIds, DeleteUser(u)
      PROVE  RowsHaveOwners'
  <2>1. DOMAIN users' = DOMAIN users \ {u}
    BY <1>2 DEF DeleteUser, Delete, Restrict
  <2>2. /\ DOMAIN games' = DOMAIN games \ GamesOf(u)
        /\ \A g \in DOMAIN games' : games'[g] = games[g]
    BY <1>2 DEF DeleteUser, Delete, Restrict
  <2>3. \A g \in DOMAIN games' : games'[g].creator \in DOMAIN users'
    BY <2>1, <2>2 DEF RowsHaveOwners, GamesOf
  <2>4. \A p \in participants' : p[1] \in DOMAIN games' /\ p[2] \in DOMAIN users'
    BY <1>2, <2>1, <2>2 DEF DeleteUser, SeatStays, RowsHaveOwners
  <2>5. \A l \in urls' : l[1] \in DOMAIN users'
    BY <1>2, <2>1 DEF DeleteUser, RowsHaveOwners
  <2>6. \A i \in DOMAIN invites' :
          {invites'[i].sender, invites'[i].receiver} \subseteq DOMAIN users'
    BY <1>2, <2>1 DEF DeleteUser, NoInvitesOf, RowsHaveOwners
  <2> QED
    BY <2>3, <2>4, <2>5, <2>6 DEF RowsHaveOwners
<1>3. ASSUME NEW u \in UserIds, CreateUserSession(u)
      PROVE  RowsHaveOwners'
  BY <1>3 DEF CreateUserSession, RowsHaveOwners
<1>4. ASSUME NEW u \in UserIds, DeleteUserSession(u)
      PROVE  RowsHaveOwners'
  BY <1>4, ClosedKeepsTypes DEF DeleteUserSession, RowsHaveOwners
<1>5. CASE InvalidateSessions
  <2>1. DOMAIN users' = DOMAIN users
    BY <1>5 DEF InvalidateSessions
  <2> QED
    BY <1>5, <2>1, ClosedKeepsTypes DEF InvalidateSessions, RowsHaveOwners
<1> QED
  BY <1>1, <1>2, <1>3, <1>4, <1>5 DEF AccountStep

LEMMA GameStepOwners ==
  ASSUME TablesOK, RowsHaveOwners, GameStep
  PROVE  RowsHaveOwners'
<1>1. ASSUME NEW u \in UserIds, NEW type \in Types, NEW attributes \in Attributes,
             CreateGameSession(u, type, attributes)
      PROVE  RowsHaveOwners'
  <2>1. PICK g \in GameIds :
          games' = Put(games, g, [type |-> type, creator |-> u,
                                  attributes |-> attributes, open |-> TRUE])
    BY <1>1 DEF CreateGameSession
  <2>2. /\ DOMAIN games' = DOMAIN games \union {g}
        /\ games'[g].creator = u
        /\ \A h \in DOMAIN games \ {g} : games'[h] = games[h]
    BY <2>1 DEF Put
  <2> QED
    BY <1>1, <2>2 DEF CreateGameSession, RowsHaveOwners
<1>2. ASSUME NEW g \in GameIds, NEW type \in Types, NEW attributes \in Attributes,
             UpdateGameSession(g, type, attributes)
      PROVE  RowsHaveOwners'
  <2>1. /\ DOMAIN games' = DOMAIN games
        /\ \A h \in DOMAIN games : games'[h].creator = games[h].creator
    BY <1>2 DEF UpdateGameSession, TablesOK, GameSession
  <2> QED
    BY <1>2, <2>1 DEF UpdateGameSession, RowsHaveOwners
<1>3. ASSUME NEW u \in UserIds, NEW type \in Types, NEW g \in GameIds,
             DeleteGameSession(u, type, g)
      PROVE  RowsHaveOwners'
  BY <1>3, ClosedKeepsTypes DEF DeleteGameSession, RowsHaveOwners
<1>4. ASSUME NEW g \in GameIds, DeleteGameSessionById(g)
      PROVE  RowsHaveOwners'
  BY <1>4, ClosedKeepsTypes DEF DeleteGameSessionById, RowsHaveOwners
<1>5. ASSUME NEW g \in GameIds, NEW seated \in SUBSET UserIds,
             AddParticipants(g, seated) \/ RemoveParticipants(g, seated)
      PROVE  RowsHaveOwners'
  BY <1>5 DEF AddParticipants, MayBeSeated, RemoveParticipants, RowsHaveOwners
<1>6. ASSUME NEW u \in UserIds, NEW listed \in SUBSET Urls, RegisterUrls(u, listed)
      PROVE  RowsHaveOwners'
  BY <1>6 DEF RegisterUrls, RowsHaveOwners
<1> QED
  BY <1>1, <1>2, <1>3, <1>4, <1>5, <1>6 DEF GameStep

LEMMA InviteStepOwners ==
  ASSUME TablesOK, RowsHaveOwners, InviteStep
  PROVE  RowsHaveOwners'
<1>1. PICK i \in InviteIds : \/ \E s, r \in UserIds : AddInvite(i, s, r)
                             \/ \E r \in UserIds : TakeInvite(i, r)
  BY DEF InviteStep
<1>2. CASE \E s, r \in UserIds : AddInvite(i, s, r)
  BY <1>2 DEF AddInvite, Put, RowsHaveOwners
<1>3. CASE \E r \in UserIds : TakeInvite(i, r)
  BY <1>3 DEF TakeInvite, Delete, Restrict, RowsHaveOwners
<1> QED
  BY <1>1, <1>2, <1>3

\* The foreign keys and their cascades leave no row without its owners.
THEOREM OwnersExist == Spec => []RowsHaveOwners
<1>1. Init => RowsHaveOwners
  BY DEF Init, EmptyMap, RowsHaveOwners
<1>2. ASSUME TypeOK, RowsHaveOwners, [Next]_vars
      PROVE  RowsHaveOwners'
  <2>1. CASE UNCHANGED tables
    BY <1>2, <2>1 DEF tables, RowsHaveOwners
  <2> QED
    BY <1>2, <2>1, StepsOfTables, AccountStepOwners, GameStepOwners, InviteStepOwners
       DEF TableStep, TypeOK
<1> QED
  BY <1>1, <1>2, PlatformTypes, PTL DEF Spec

\* A game id that comes back brings no players with it.
THEOREM IdsComeBackEmpty == Spec => ReusedIdsStartEmpty
<1>1. ASSUME TypeOK, RowsHaveOwners, [Next]_vars
      PROVE  \A g \in GameIds :
               g \in DOMAIN games' /\ g \notin DOMAIN games =>
                 \A u \in UserIds : <<g, u>> \notin participants'
  <2>1. SUFFICES ASSUME NEW g \in GameIds, g \in DOMAIN games', g \notin DOMAIN games
                 PROVE  \A u \in UserIds : <<g, u>> \notin participants'
    OBVIOUS
  <2>2. participants' = participants
    <3>1. CASE AccountStep
      BY <1>1, <2>1, <3>1, ClosedKeepsTypes DEF AccountStep, InsertUser, DeleteUser, Delete,
         Restrict, CreateUserSession, DeleteUserSession, InvalidateSessions, TypeOK
    <3>2. CASE GameStep
      BY <2>1, <3>2 DEF GameStep, CreateGameSession, UpdateGameSession, DeleteGameSession,
         DeleteGameSessionById, AddParticipants, RemoveParticipants, RegisterUrls
    <3>3. CASE InviteStep
      BY <3>3 DEF InviteStep, AddInvite, TakeInvite
    <3> QED
      BY <1>1, <3>1, <3>2, <3>3, StepsOfTables DEF TableStep, tables
  <2> QED
    BY <1>1, <2>1, <2>2 DEF RowsHaveOwners
<1> QED
  BY <1>1, PlatformTypes, OwnersExist, PTL DEF Spec, ReusedIdsStartEmpty

-----------------------------------------------------------------------------
(***************************************************************************)
(* Ubisoft ids.                                                            *)
(***************************************************************************)
UbisDiffer ==
  \A u, v \in DOMAIN users : users[u].ubi = users[v].ubi /\ users[u].ubi # NoUbi => u = v

LEMMA DifferentUbisLeadBack ==
  ASSUME UbisDiffer
  PROVE  UbiIdsLeadBack
  BY DEF UbisDiffer, UbiIdsLeadBack, ListUsers, FindUbiIdByUserId, FindUserByUbiId

LEMMA UbisStayDifferent ==
  ASSUME TypeOK, UbisDiffer, [Next]_vars
  PROVE  UbisDiffer'
<1>1. CASE UNCHANGED users
  BY <1>1 DEF UbisDiffer
<1>2. ASSUME NEW name \in Names, NEW ubi \in Ubis \union {NoUbi}, InsertUser(name, ubi)
      PROVE  UbisDiffer'
  <2>1. PICK u \in UserIds :
          /\ IsNextKey(u, users)
          /\ users' = Put(users, u, [name |-> name, ubi |-> ubi, online |-> FALSE])
    BY <1>2 DEF InsertUser
  <2>2. u \notin DOMAIN users
    BY <2>1 DEF IsNextKey, UserIds
  <2>3. /\ DOMAIN users' = DOMAIN users \union {u}
        /\ users'[u].ubi = ubi
        /\ \A v \in DOMAIN users : users'[v] = users[v]
    BY <2>1, <2>2 DEF Put
  <2>4. \A v \in DOMAIN users : ubi # NoUbi => users[v].ubi # ubi
    BY <1>2 DEF InsertUser, NotTaken
  <2> QED
    BY <2>3, <2>4 DEF UbisDiffer
<1>3. ASSUME NEW u \in UserIds, DeleteUser(u)
      PROVE  UbisDiffer'
  BY <1>3 DEF DeleteUser, Delete, Restrict, UbisDiffer
<1>4. ASSUME NEW u \in UserIds, CreateUserSession(u)
      PROVE  UbisDiffer'
  <2>1. /\ DOMAIN users' = DOMAIN users
        /\ \A v \in DOMAIN users : users'[v].ubi = users[v].ubi
    BY <1>4 DEF CreateUserSession, TypeOK, TablesOK, User
  <2> QED
    BY <2>1 DEF UbisDiffer
<1>5. CASE InvalidateSessions
  <2>1. /\ DOMAIN users' = DOMAIN users
        /\ \A v \in DOMAIN users : users'[v].ubi = users[v].ubi
    BY <1>5 DEF InvalidateSessions, TypeOK, TablesOK, User
  <2> QED
    BY <2>1 DEF UbisDiffer
<1>6. CASE GameStep \/ InviteStep
  BY <1>1, <1>6 DEF GameStep, CreateGameSession, UpdateGameSession, DeleteGameSession,
     DeleteGameSessionById, AddParticipants, RemoveParticipants, RegisterUrls, InviteStep,
     AddInvite, TakeInvite
<1> QED
  BY <1>1, <1>2, <1>3, <1>4, <1>5, <1>6, StepsOfTables
     DEF TableStep, tables, AccountStep, DeleteUserSession

\* Lookups by Ubisoft id and by user id are inverse, however registrations overlap.
THEOREM UbiIdsUnique == Spec => []UbiIdsLeadBack
<1>1. Init => UbisDiffer
  BY PlatformAssumption DEF Init, UbisDiffer
<1> QED
  BY <1>1, DifferentUbisLeadBack, UbisStayDifferent, PlatformTypes, PTL DEF Spec

-----------------------------------------------------------------------------
(***************************************************************************)
(* Invites: their row ids are in the order in which they were sent, although *)
(* ids are used again, because a new row comes after all that are left.    *)
(***************************************************************************)
RowsInOrder ==
  \A i, j \in DOMAIN invites : i < j => numbers[i] < numbers[j]

Pending ==
  {[number |-> numbers[i], sender |-> invites[i].sender,
    receiver |-> invites[i].receiver] : i \in DOMAIN invites}

LEMMA AddedInvite ==
  ASSUME TypeOK, RowsInOrder, NEW u \in UserIds, SendInvite(u)
  PROVE  RowsInOrder' /\ Queue!QueueNext
<1>1. PICK i \in InviteIds, ubi \in Ubis :
        Invitation(i, u, ubi) /\ sent' = sent + 1 /\ numbers' = Put(numbers, i, sent + 1)
  BY DEF SendInvite
<1>2. PICK r \in FindUserByUbiId(ubi) : AddInvite(i, u, r)
  BY <1>1 DEF Invitation
<1>3. \A j \in DOMAIN invites : j < i
  BY <1>2 DEF AddInvite, IsNextKey
<1>4. i \notin DOMAIN invites
  BY <1>3 DEF InviteIds
<1>5. /\ DOMAIN invites' = DOMAIN invites \union {i}
      /\ invites'[i] = [sender |-> u, receiver |-> r]
      /\ numbers'[i] = sent + 1
      /\ \A j \in DOMAIN invites : invites'[j] = invites[j] /\ numbers'[j] = numbers[j]
  BY <1>1, <1>2, <1>4 DEF AddInvite, Put, TypeOK
<1>6. RowsInOrder'
  <2> SUFFICES ASSUME NEW j \in DOMAIN invites', NEW k \in DOMAIN invites', j < k
               PROVE  numbers'[j] < numbers'[k]
    BY DEF RowsInOrder
  <2>1. i \in Int /\ \A m \in DOMAIN invites : m \in Int /\ numbers[m] \in 1 .. sent
    BY DEF TypeOK, TablesOK, InviteIds
  <2>2. CASE k = i
    BY <1>3, <1>5, <2>1, <2>2 DEF TypeOK
  <2>3. CASE k # i
    <3>1. k \in DOMAIN invites
      BY <1>5, <2>3
    <3>2. j \in DOMAIN invites
      BY <1>3, <1>5, <2>1, <3>1
    <3> QED
      BY <1>5, <3>1, <3>2 DEF RowsInOrder
  <2> QED
    BY <2>2, <2>3
<1>7. Pending' = Pending \union {[number |-> sent + 1, sender |-> u, receiver |-> r]}
  BY <1>5 DEF Pending
<1>8. r \in UserIds
  BY <1>2 DEF FindUserByUbiId, TypeOK, TablesOK
<1>9. Queue!Send(u, r)
  BY <1>1, <1>7 DEF Queue!Send, Pending
<1> QED
  BY <1>6, <1>8, <1>9 DEF Queue!QueueNext

LEMMA TakenInvite ==
  ASSUME TypeOK, RowsInOrder, NEW u \in UserIds, TakeEvent(u)
  PROVE  RowsInOrder' /\ Queue!QueueNext
<1>1. PICK i \in InviteIds : Event(i, u) /\ numbers' = Delete(numbers, {i})
  BY DEF TakeEvent
<1>2. IsFirstInvite(i, u)
  BY <1>1 DEF Event, TakeInvite
<1>3. /\ DOMAIN invites' = DOMAIN invites \ {i}
      /\ \A j \in DOMAIN invites' : invites'[j] = invites[j] /\ numbers'[j] = numbers[j]
  BY <1>1 DEF Event, TakeInvite, Delete, Restrict, TypeOK
<1>4. RowsInOrder'
  BY <1>3 DEF RowsInOrder
<1> DEFINE Row(j) == [number |-> numbers[j], sender |-> invites[j].sender,
                      receiver |-> invites[j].receiver]
<1>5. \A j \in DOMAIN invites \ {i} : Row(j) # Row(i)
  <2> SUFFICES ASSUME NEW j \in DOMAIN invites \ {i}
               PROVE  numbers[j] # numbers[i]
    OBVIOUS
  <2>1. i \in DOMAIN invites /\ i \in Int /\ j \in Int
    BY <1>2 DEF IsFirstInvite, TypeOK, TablesOK, InviteIds
  <2>2. i < j \/ j < i
    BY <2>1
  <2> QED
    BY <2>1, <2>2 DEF RowsInOrder, TypeOK
<1>6. Pending' = Pending \ {Row(i)}
  <2>1. Pending = {Row(j) : j \in DOMAIN invites}
    BY DEF Pending
  <2>2. Pending' = {Row(j) : j \in DOMAIN invites \ {i}}
    BY <1>3 DEF Pending
  <2> QED
    BY <1>5, <2>1, <2>2
<1>7. ASSUME NEW other \in Pending, other.receiver = Row(i).receiver
      PROVE  Row(i).number <= other.number
  <2>1. PICK j \in DOMAIN invites : other = Row(j)
    BY DEF Pending
  <2>2. /\ i \in DOMAIN invites /\ i \in Int /\ j \in Int
        /\ numbers[i] \in Int /\ numbers[j] \in Int
    BY <1>2 DEF IsFirstInvite, TypeOK, TablesOK, InviteIds
  <2>3. i <= j
    BY <1>2, <1>7, <2>1 DEF IsFirstInvite
  <2>4. i < j => numbers[i] < numbers[j]
    BY <2>2 DEF RowsInOrder
  <2> QED
    BY <2>1, <2>2, <2>3, <2>4
<1>8. Row(i) \in Pending
  BY <1>2 DEF IsFirstInvite, Pending
<1>9. PICK row \in Pending : row = Row(i)
  BY <1>8
<1>10. Queue!Deliver(row)
  BY <1>6, <1>7, <1>9 DEF Queue!Deliver, Pending, TakeEvent
<1> QED
  BY <1>4, <1>9, <1>10 DEF Queue!QueueNext, Pending

LEMMA OtherStepsKeepInvites ==
  ASSUME TypeOK, [Next]_vars, \A u \in UserIds : ~SendInvite(u) /\ ~TakeEvent(u)
  PROVE  UNCHANGED <<sent, numbers, invites>>
<1>1. CASE Play \/ \E u \in UserIds : Appear(u) \/ Leave(u)
  BY <1>1 DEF Play, Appear, Leave, CreateSession, CreateGameSession, DeleteSession,
     DeleteGameSession, UpdateSession, UpdateGameSession, AddPlayers, AddParticipants,
     RemovePlayers, RemoveParticipants, RegisterPlayerUrls, RegisterUrls, CreateUserSession,
     DeleteUserSession, history
<1>2. CASE Restart \/ LogInToApi \/ (\E c \in Calls : TestConnection(c)) \/ Administrate
  BY <1>2 DEF Restart, InvalidateSessions, LogInToApi, Login, LoginVerified, Register,
     RegisterHashed, InsertUser, TestConnection, TestP2P, TestFails, TestSends, PeerAnswers,
     DeadlinePasses, TestEnds, Administrate, AdminDeletesUser, DeleteUser, AdminDeletesGame,
     DeleteGameSessionById, tables, history
<1> QED
  BY <1>1, <1>2 DEF Next, vars, tables, history

\* Invites come once and in order: the table refines the queue.
THEOREM InvitesInOrder == Spec => ImplementsInviteQueue
<1>1. Init => RowsInOrder /\ Queue!QueueInit
  <2> SUFFICES ASSUME Init PROVE RowsInOrder /\ Queue!QueueInit
    OBVIOUS
  <2>1. DOMAIN invites = {}
    BY DEF Init, EmptyMap
  <2> QED
    BY <2>1 DEF Init, RowsInOrder, Queue!QueueInit
<1>2. ASSUME TypeOK, RowsInOrder, [Next]_vars
      PROVE  RowsInOrder' /\ [Queue!QueueNext]_<<sent, Pending>>
  <2>1. CASE \E u \in UserIds : SendInvite(u) \/ TakeEvent(u)
    BY <1>2, <2>1, AddedInvite, TakenInvite
  <2>2. CASE \A u \in UserIds : ~SendInvite(u) /\ ~TakeEvent(u)
    BY <1>2, <2>2, OtherStepsKeepInvites DEF RowsInOrder, Pending
  <2> QED
    BY <2>1, <2>2
<1>3. Queue!QueueSpec <=> Queue!QueueInit /\ [][Queue!QueueNext]_<<sent, Pending>>
  BY DEF Queue!QueueSpec, Pending
<1> QED
  BY <1>1, <1>2, <1>3, PlatformTypes, PTL DEF Spec, ImplementsInviteQueue
-----------------------------------------------------------------------------
(***************************************************************************)
(* Searches.  What they answer is a function of the tables, so nothing     *)
(* about earlier steps is needed: these hold of the tables as they are,    *)
(* whatever operations led to them.                                        *)
(***************************************************************************)
Seated(g) == {v \in DOMAIN users : <<g, v>> \in participants}

LEMMA LoadedSession ==
  ASSUME NEW g, NEW skipped
  PROVE  LET s == LoadSession(g, skipped) IN
         /\ s.sessionId = g /\ s.creatorId = games[g].creator
         /\ s.attributes = games[g].attributes
         /\ DOMAIN s.participants = Seated(g)
         /\ \A u \in Seated(g) :
              s.participants[u] = IF u \in skipped THEN {} ELSE ListUrls(u)
  BY DEF LoadSession, Seated

LEMMA FoundPlayers ==
  ASSUME NEW type, NEW ids, NEW p \in FoundByPlayers(type, ids)
  PROVE  \E g \in OpenGames :
           /\ games[g].creator \in Seated(g)
           /\ p = [sessionId |-> g, hostUrls |-> ListUrls(games[g].creator),
                   participants |-> Seated(g)]
<1>1. PICK s \in SearchSessionsWithParticipants(type, ids) :
        /\ s.creatorId \in DOMAIN s.participants
        /\ p = [sessionId |-> s.sessionId, hostUrls |-> s.participants[s.creatorId],
                participants |-> DOMAIN s.participants]
  BY DEF FoundByPlayers
<1>2. PICK g \in OpenGames : s = LoadSession(g, {})
  BY DEF SearchSessionsWithParticipants
<1>3. /\ s.sessionId = g /\ s.creatorId = games[g].creator
      /\ DOMAIN s.participants = Seated(g)
      /\ \A u \in Seated(g) : s.participants[u] = ListUrls(u)
  BY <1>2, LoadedSession
<1> QED
  BY <1>1, <1>3

LEMMA FoundSessions ==
  ASSUME NEW type, NEW user, NEW query, NEW q \in FoundByQuery(type, user, query)
  PROVE  \E g \in OpenGames :
           /\ games[g].creator # user
           /\ MatchesQuery(AsMap(games[g].attributes), AsMap(query))
           /\ q = [sessionId |-> g,
                   hostUrls |-> IF games[g].creator \in Seated(g)
                                THEN ListUrls(games[g].creator) ELSE {},
                   participants |-> Seated(g)]
<1>1. PICK s \in SearchSessions(type, user) :
        /\ MatchesQuery(AsMap(s.attributes), AsMap(query))
        /\ q = [sessionId |-> s.sessionId,
                hostUrls |-> UNION {s.participants[u] : u \in {s.creatorId} \cap DOMAIN s.participants},
                participants |-> DOMAIN s.participants]
  BY DEF FoundByQuery
<1>2. PICK g \in OpenGames : s = LoadSession(g, {user}) /\ games[g].creator # user
  BY DEF SearchSessions
<1>3. /\ s.sessionId = g /\ s.creatorId = games[g].creator
      /\ s.attributes = games[g].attributes
      /\ DOMAIN s.participants = Seated(g)
      /\ \A u \in Seated(g) : s.participants[u] = IF u \in {user} THEN {} ELSE ListUrls(u)
  BY <1>2, LoadedSession
<1> DEFINE creator == games[g].creator
           found == UNION {s.participants[u] : u \in {creator} \cap Seated(g)}
<1>4. found = IF creator \in Seated(g) THEN ListUrls(creator) ELSE {}
  <2>1. CASE creator \in Seated(g)
    <3>1. s.participants[creator] = ListUrls(creator)
      BY <1>2, <1>3, <2>1
    <3>2. found = UNION {s.participants[creator]}
      BY <2>1
    <3> QED
      BY <2>1, <3>1, <3>2
  <2>2. CASE creator \notin Seated(g)
    BY <2>2
  <2> QED
    BY <2>1, <2>2
<1>5. q = [sessionId |-> g, hostUrls |-> found, participants |-> Seated(g)]
  BY <1>1, <1>3
<1>6. MatchesQuery(AsMap(games[g].attributes), AsMap(query))
  BY <1>1, <1>3
<1> QED
  BY <1>2, <1>4, <1>5, <1>6

\* Both searches and the administrator's list are made of the open games, and the two
\* searches tell the same of a game they both find: the URLs of its host, however the
\* query leaves out those of the one who asks, and who is seated.
THEOREM SearchesAlwaysAgree == Spec => []SearchesAgree
<1>1. SearchesAgree
  <2>1. ASSUME NEW type, NEW user, NEW query,
               NEW q \in FoundByQuery(type, user, query),
               NEW p \in FoundByPlayers(type, UserIds), p.sessionId = q.sessionId
        PROVE  p = q
    BY <2>1, FoundPlayers, FoundSessions
  <2>2. ASSUME NEW g \in OpenGames
        PROVE  \E l \in AdminListsGames : l.id = g
    <3>1. PICK s \in ListGameSessions : s = LoadSession(g, {})
      BY DEF ListGameSessions
    <3>2. s.sessionId = g
      BY <3>1, LoadedSession
    <3>3. PICK creator, seated :
            /\ creator = {users[u].name : u \in {s.creatorId} \cap DOMAIN s.participants}
            /\ seated = {users[u].name : u \in DOMAIN s.participants \ {s.creatorId}}
      OBVIOUS
    <3>4. [id |-> s.sessionId, creator |-> creator, participants |-> seated] \in AdminListsGames
      BY <3>1, <3>3, Zenon DEF AdminListsGames
    <3> QED
      BY <3>2, <3>4
  <2>3. ASSUME NEW type, NEW user, NEW query,
               NEW s \in FoundByPlayers(type, UserIds) \union FoundByQuery(type, user, query)
        PROVE  s.sessionId \in OpenGames
    BY FoundPlayers, FoundSessions
  <2> QED
    BY <2>1, <2>2, <2>3 DEF SearchesAgree
<1> QED
  BY <1>1, PTL

\* A search that names no mode finds coop sessions only: a session without a mode, or
\* one that was updated to Spy vs Merc, is not found.
THEOREM ModesAreKeptApart == Spec => []ModesStayApart
<1>1. ModesStayApart
  <2> SUFFICES ASSUME NEW type \in Types, NEW user, NEW query,
                      GameModeId \notin DOMAIN AsMap(query),
                      NEW s \in FoundByQuery(type, user, query)
               PROVE  LET attributes == AsMap(games[s.sessionId].attributes)
                      IN  GameModeId \in DOMAIN attributes /\ attributes[GameModeId] = 0
    BY DEF ModesStayApart
  <2>1. PICK g \in OpenGames :
          MatchesQuery(AsMap(games[g].attributes), AsMap(query)) /\ s.sessionId = g
    BY FoundSessions
  <2>2. PICK attributes : attributes = AsMap(games[g].attributes)
    OBVIOUS
  <2>3. PICK map : map = AsMap(query) /\ GameModeId \notin DOMAIN map
    OBVIOUS
  <2>4. PICK asked : asked = Put(map, GameModeId, 0)
    OBVIOUS
  <2>5. GameModeId \in DOMAIN asked /\ asked[GameModeId] = 0
    BY <2>4 DEF Put
  <2>6. \A id \in DOMAIN asked \ {PlayerCountId} :
          id \in DOMAIN attributes /\ attributes[id] = asked[id]
    BY <2>1, <2>2, <2>3, <2>4 DEF MatchesQuery
  <2>7. GameModeId # PlayerCountId
    BY DEF GameModeId, PlayerCountId
  <2> QED
    BY <2>1, <2>2, <2>5, <2>6, <2>7
<1> QED
  BY <1>1, PTL
=============================================================================
