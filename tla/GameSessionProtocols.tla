------------------------- MODULE GameSessionProtocols -------------------------
(***************************************************************************)
(* Game sessions.                                                          *)
(* The messages of every method, with their fields in the order of the     *)
(* wire.  A method is found under its id, its position in the protocol.    *)
(***************************************************************************)
EXTENDS Schemas

GameSessionKey == Struct(<<F("typeId", U32), F("sessionId", U32)>>)

GameSession == Struct(<<F("typeId", U32), F("attributes", List(Property))>>)

GameSessionSearchResult ==
  Struct(<<F("sessionKey", GameSessionKey), F("hostPid", U32),
           F("hostUrls", List(StationURL)), F("attributes", List(Property))>>)

GameSessionUpdate ==
  Struct(<<F("sessionKey", GameSessionKey), F("attributes", List(Property))>>)

GameSessionParticipant ==
  Struct(<<F("pid", U32), F("name", String), F("stationUrls", List(StationURL))>>)

GameSessionInvitation ==
  Struct(<<F("sessionKey", GameSessionKey), F("recipientPids", List(U32)),
           F("message", String)>>)

GameSessionInvitationSent ==
  Struct(<<F("sessionKey", GameSessionKey), F("recipientPid", U32), F("message", String),
           F("creationTime", DateTime)>>)

GameSessionInvitationReceived ==
  Struct(<<F("sessionKey", GameSessionKey), F("senderPid", U32), F("message", String),
           F("creationTime", DateTime)>>)

GameSessionQuery ==
  Struct(<<F("typeId", U32), F("queryId", U32), F("parameters", List(Property))>>)

GameSessionSocialQuery ==
  Struct(<<F("typeId", U32), F("queryId", U32), F("parameters", List(Property)),
           F("participantIds", List(U32))>>)

GameSessionMessage == Struct(<<F("sessionKey", GameSessionKey), F("message", String)>>)

GameSessionSearchWithParticipantsResult ==
  Struct(<<F("gameSessionSearchResult", GameSessionSearchResult),
           F("participantIds", List(U32))>>)

GameSessionUnsuccessfulJoinSession ==
  Struct(<<F("sessionKey", GameSessionKey), F("errorCategory", U32), F("errorCode", I32)>>)

------------------------------------------------------------------------------

CreateSession ==
  Method("createSession",
         Struct(<<F("gameSession", GameSession)>>),
         Struct(<<F("gameSessionKey", GameSessionKey)>>))

UpdateSession ==
  Method("updateSession",
         Struct(<<F("gameSessionUpdate", GameSessionUpdate)>>),
         Struct(<< >>))

DeleteSession ==
  Method("deleteSession",
         Struct(<<F("gameSessionKey", GameSessionKey)>>),
         Struct(<< >>))

MigrateSession ==
  Method("migrateSession",
         Struct(<<F("gameSessionKey", GameSessionKey)>>),
         Struct(<<F("gameSessionKeyMigrated", GameSessionKey)>>))

LeaveSession ==
  Method("leaveSession",
         Struct(<<F("gameSessionKey", GameSessionKey)>>),
         Struct(<< >>))

GetSession ==
  Method("getSession",
         Struct(<<F("gameSessionKey", GameSessionKey)>>),
         Struct(<<F("searchResult", GameSessionSearchResult)>>))

SearchSessions ==
  Method("searchSessions",
         Struct(<<F("gameSessionQuery", GameSessionQuery)>>),
         Struct(<<F("searchResults", List(GameSessionSearchResult))>>))

AddParticipants ==
  Method("addParticipants",
         Struct(<<F("gameSessionKey", GameSessionKey), F("publicParticipantIds", List(U32)),
                  F("privateParticipantIds", List(U32))>>),
         Struct(<< >>))

RemoveParticipants ==
  Method("removeParticipants",
         Struct(<<F("gameSessionKey", GameSessionKey), F("participantIds", List(U32))>>),
         Struct(<< >>))

GetParticipantCount ==
  Method("getParticipantCount",
         Struct(<<F("gameSessionKey", GameSessionKey)>>),
         Struct(<<F("count", U32)>>))

GetParticipants ==
  Method("getParticipants",
         Struct(<<F("gameSessionKey", GameSessionKey), F("resultRange", ResultRange)>>),
         Struct(<<F("participants", List(GameSessionParticipant))>>))

SendInvitation ==
  Method("sendInvitation",
         Struct(<<F("invitation", GameSessionInvitation)>>),
         Struct(<< >>))

GetInvitationReceivedCount ==
  Method("getInvitationReceivedCount",
         Struct(<<F("gameSessionTypeId", U32)>>),
         Struct(<<F("count", U32)>>))

GetInvitationsReceived ==
  Method("getInvitationsReceived",
         Struct(<<F("gameSessionTypeId", U32), F("resultRange", ResultRange)>>),
         Struct(<<F("invitations", List(GameSessionInvitationReceived))>>))

GetInvitationSentCount ==
  Method("getInvitationSentCount",
         Struct(<<F("gameSessionTypeId", U32)>>),
         Struct(<<F("count", U32)>>))

GetInvitationsSent ==
  Method("getInvitationsSent",
         Struct(<<F("gameSessionTypeId", U32), F("resultRange", ResultRange)>>),
         Struct(<<F("invitations", List(GameSessionInvitationSent))>>))

AcceptInvitation ==
  Method("acceptInvitation",
         Struct(<<F("gameSessionInvitation", GameSessionInvitationReceived)>>),
         Struct(<< >>))

DeclineInvitation ==
  Method("declineInvitation",
         Struct(<<F("gameSessionInvitation", GameSessionInvitationReceived)>>),
         Struct(<< >>))

CancelInvitation ==
  Method("cancelInvitation",
         Struct(<<F("gameSessionInvitation", GameSessionInvitationSent)>>),
         Struct(<< >>))

SendTextMessage ==
  Method("sendTextMessage",
         Struct(<<F("gameSessionMessage", GameSessionMessage)>>),
         Struct(<< >>))

RegisterUrls ==
  Method("registerUrls",
         Struct(<<F("stationUrls", List(StationURL))>>),
         Struct(<< >>))

JoinSession ==
  Method("joinSession",
         Struct(<<F("gameSessionKey", GameSessionKey)>>),
         Struct(<< >>))

AbandonSession ==
  Method("abandonSession",
         Struct(<<F("gameSessionKey", GameSessionKey)>>),
         Struct(<< >>))

SearchSessionsWithParticipants ==
  Method("searchSessionsWithParticipants",
         Struct(<<F("gameSessionTypeId", U32), F("participantIds", List(U32))>>),
         Struct(<<F("searchResults", List(GameSessionSearchWithParticipantsResult))>>))

GetSessions ==
  Method("getSessions",
         Struct(<<F("gameSessionKeys", List(GameSessionKey))>>),
         Struct(<<F("searchResults", List(GameSessionSearchResult))>>))

GetParticipantsUrls ==
  Method("getParticipantsUrls",
         Struct(<<F("gameSessionKey", GameSessionKey), F("participantIds", List(U32))>>),
         Struct(<<F("participants", List(GameSessionParticipant))>>))

MigrateSessionHost ==
  Method("migrateSessionHost",
         Struct(<<F("gameSessionKey", GameSessionKey)>>),
         Struct(<< >>))

SplitSession ==
  Method("splitSession",
         Struct(<<F("gameSessionKey", GameSessionKey)>>),
         Struct(<<F("gameSessionKeyMigrated", GameSessionKey)>>))

SearchSocialSessions ==
  Method("searchSocialSessions",
         Struct(<<F("gameSessionSocialQuery", GameSessionSocialQuery)>>),
         Struct(<<F("searchResults", List(GameSessionSearchWithParticipantsResult))>>))

ReportUnsuccessfulJoinSessions ==
  Method("reportUnsuccessfulJoinSessions",
         Struct(<<F("unsuccessfulJoinSessions", List(GameSessionUnsuccessfulJoinSession))>>),
         Struct(<< >>))

GameSessionProtocol ==
  Protocol(42, <<CreateSession, UpdateSession, DeleteSession, MigrateSession, LeaveSession,
                 GetSession, SearchSessions, AddParticipants, RemoveParticipants,
                 GetParticipantCount, GetParticipants, SendInvitation,
                 GetInvitationReceivedCount, GetInvitationsReceived,
                 GetInvitationSentCount, GetInvitationsSent, AcceptInvitation,
                 DeclineInvitation, CancelInvitation, SendTextMessage, RegisterUrls,
                 JoinSession, AbandonSession, SearchSessionsWithParticipants, GetSessions,
                 GetParticipantsUrls, MigrateSessionHost, SplitSession,
                 SearchSocialSessions, ReportUnsuccessfulJoinSessions>>)

GameSessionSearchResultEx ==
  Struct(<<F("gameSessionSearchResult", GameSessionSearchResult),
           F("participants", List(GameSessionParticipant))>>)

------------------------------------------------------------------------------

SearchSessionsGameSessionEx ==
  Method("searchSessions",
         Struct(<<F("gameSessionQuery", GameSessionQuery)>>),
         Struct(<<F("searchResults", List(GameSessionSearchResultEx))>>))

GameSessionExProtocol ==
  Protocol(123, <<SearchSessionsGameSessionEx>>)
==============================================================================
