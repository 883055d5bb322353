----------------------------- MODULE GameSessions -----------------------------
(***************************************************************************)
(* The game session services: what a logged in player asks of the tables.  *)
(*                                                                         *)
(* storageCall answers InternalError when the database refuses; nothing is *)
(* changed then, so a refused request is no step.  leaveSession,           *)
(* abandonSession, splitSession and joinSession answer without looking at  *)
(* the tables.  The ids of a request are whatever the player sends: games  *)
(* and players that exist, existed or never did.                           *)
(***************************************************************************)
EXTENDS Storage, FiniteSets, Sequences

CONSTANT Queries   \* the parameter lists players search with

GameModeId == 103     \* tells Spy vs Merc from coop
PlayerCountId == 112  \* searched with another value than sessions have

\* Properties as a Map: the last of several with one id counts.
AsMap(properties) ==
  [id \in {properties[k].id : k \in DOMAIN properties} |->
     LET last == CHOOSE k \in DOMAIN properties :
                   /\ properties[k].id = id
                   /\ \A m \in DOMAIN properties : properties[m].id = id => m <= k
     IN  properties[last].value]

\* Mutant: sessions without the attribute match any query.
MatchesIfPresent(attributes, query) ==
  LET asked == IF GameModeId \in DOMAIN query THEN query ELSE Put(query, GameModeId, 0)
  IN  \A id \in (DOMAIN asked \cap DOMAIN attributes) \ {PlayerCountId} :
        attributes[id] = asked[id]

MatchesQuery(attributes, query) ==
  LET asked == IF GameModeId \in DOMAIN query THEN query ELSE Put(query, GameModeId, 0)
  IN  \A id \in DOMAIN asked \ {PlayerCountId} :
        id \in DOMAIN attributes /\ attributes[id] = asked[id]

-----------------------------------------------------------------------------
CreateSession(user) ==
  \E type \in Types, attributes \in Attributes : CreateGameSession(user, type, attributes)

UpdateSession(g) ==
  \E type \in Types, attributes \in Attributes : UpdateGameSession(g, type, attributes)

DeleteSession(user, g) == \E type \in Types : DeleteGameSession(user, type, g)

AddPlayers(g, private, public) == AddParticipants(g, private \union public)

RemovePlayers(g, seated) == RemoveParticipants(g, seated)

RegisterPlayerUrls(user, listed) == RegisterUrls(user, listed)

-----------------------------------------------------------------------------
(***************************************************************************)
(* The two searches, as what they answer.                                  *)
(***************************************************************************)
\* Sessions whose host is no participant are skipped.
FoundByPlayers(type, ids) ==
  {[sessionId |-> s.sessionId, hostUrls |-> s.participants[s.creatorId],
    participants |-> DOMAIN s.participants] :
     s \in {t \in SearchSessionsWithParticipants(type, ids) :
              t.creatorId \in DOMAIN t.participants}}

\* Mutant: the URLs of all participants.
FoundWithAllUrls(type, user, query) ==
  {[sessionId |-> s.sessionId,
    hostUrls |-> UNION {s.participants[u] : u \in DOMAIN s.participants},
    participants |-> DOMAIN s.participants] :
     s \in {t \in SearchSessions(type, user) : MatchesQuery(AsMap(t.attributes), AsMap(query))}}

FoundByQuery(type, user, query) ==
  {[sessionId |-> s.sessionId,
    hostUrls |-> UNION {s.participants[u] : u \in {s.creatorId} \cap DOMAIN s.participants},
    participants |-> DOMAIN s.participants] :
     s \in {t \in SearchSessions(type, user) : MatchesQuery(AsMap(t.attributes), AsMap(query))}}
=============================================================================
