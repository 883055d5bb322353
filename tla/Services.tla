------------------------------- MODULE Services -------------------------------
(***************************************************************************)
(* The RMC protocols the two services register, what their handlers answer *)
(* (services/*.ts), and the dispatcher that calls them (rmc/protocol.ts).  *)
(*                                                                         *)
(* A handler sees a call: who the client is (userId, connectionId and the  *)
(* address of its SYN), the connection ids in use, and the world, which is *)
(* what the storage, the settings and the data files hold.  How the        *)
(* storage changes is the subject of TicketGranting and Platform; here it  *)
(* only answers.  Numbers of more than 31 bits stand by some other number. *)
(***************************************************************************)
EXTENDS RmcMessages, Kerberos, Schemas

\* The codec: how a value of a type is written and read (module Wire).
CONSTANTS Write(_, _), Read(_, _)

\* Nothing is written of a value without fields.
ASSUME CodecAssumption == Write(Struct(<< >>), << >>) = << >>

Auth == INSTANCE AuthenticationProtocols
Games == INSTANCE GameSessionProtocols
Accounts == INSTANCE AccountProtocols
Content == INSTANCE ContentProtocols
Uplay == INSTANCE UplayProtocols

\* An undefined user or connection id; both count from 1 or above.
Undefined == 0

\* What a handler does: an error or a value, the probes it sends, the user it
\* logs in, and whether it answers later.
Answer(value) ==
  [error |-> "", value |-> value, probes |-> << >>, userId |-> Undefined, async |-> FALSE]
Refuse(error) == [Answer(<< >>) EXCEPT !.error = error]
Done == Answer(<< >>)

\* Mutant: any client is served.
LoginNotRequired(call, answer) == answer

LoginRequired(call, answer) ==
  IF call.userId = Undefined THEN Refuse("AccessDenied") ELSE answer

Url(address, sid, type) ==
  [address |-> address, sid |-> sid, type |-> type, rvcid |-> Undefined]

Only(set) == CHOOSE x \in set : TRUE

-----------------------------------------------------------------------------
(***************************************************************************)
(* The authentication service.                                             *)
(***************************************************************************)
SERVER_PID == 4096     \* 0x1000
QRESULT_OK == 65537    \* 0x10001

ConnectionData(call, pid) ==
  [urlRegularProtocols |-> Url(call.world.nextService, pid, 2),
   lstSpecialProtocols |-> << >>, urlSpecialProtocols |-> Url(Undefined, 0, 0)]

VALID_FOREVER == 2147483646

\* Random bytes; the keys of different users differ.
Ticket(call, userId, servicePid, password) ==
  EncodeKerberosTicket(
    [sessionKey |-> RandomKey(userId), pid |-> servicePid,
     internal |-> [principleId |-> userId, validUntil |-> VALID_FOREVER,
                   sessionKey |-> RandomKey(userId)]],
    userId, password, call.world.ticketKey)

PlaintextPassword(call, userId) ==
  LET account == call.world.accounts[userId]
  IN  IF account.plaintext THEN account.password ELSE << >>

LoggedIn(call, userId, password, pid) ==
  [Answer([returnValue |-> QRESULT_OK, pidPrincipal |-> userId,
           pbufResponse |-> Ticket(call, userId, SERVER_PID, password),
           pConnectionData |-> ConnectionData(call, pid), strReturnMsg |-> << >>])
   EXCEPT !.userId = userId]

\* Only for accounts with a plaintext password.
Login(request, call) ==
  LET accounts == call.world.accounts
      users == {u \in DOMAIN accounts :
                  accounts[u].name = request.strUserName /\ accounts[u].plaintext}
  IN  IF users = {} THEN Refuse("AccessDenied")
      ELSE LoggedIn(call, Only(users), accounts[Only(users)].password, 2)

\* The account with these credentials, if there is one.
LoginWith(login, call) ==
  LET accounts == call.world.accounts
      users == {u \in DOMAIN accounts : /\ accounts[u].name = login.userName
                                        /\ accounts[u].password = login.password}
  IN  IF users = {} THEN Refuse("AccessDenied")
      ELSE LoggedIn(call, Only(users), << >>, SERVER_PID)

LoginIfRead(login, call) ==
  IF login.ok THEN LoginWith(login.value, call) ELSE Refuse("ParsingError")

\* An async function: whatever it comes to, it answers later.
LoginEx(request, call) ==
  LET extra  == request.oExtraData
      result ==
        IF extra.typeName # Text("UbiAuthenticationLoginCustomData") THEN Refuse("ParsingError")
        ELSE LoginIfRead(Read(Auth!UbiAuthenticationLoginCustomData, extra.data), call)
  IN  [result EXCEPT !.async = TRUE]

RequestTicket(request, call) ==
  IF call.userId \notin {request.idSource} \ {Undefined} THEN Refuse("AccessDenied")
  ELSE Answer([returnValue |-> QRESULT_OK,
               bufResponse |-> Ticket(call, call.userId, request.idTarget,
                                      PlaintextPassword(call, call.userId))])

TicketGranting(key, request, call) ==
  CASE key = "login"         -> Login(request, call)
    [] key = "loginEx"       -> LoginEx(request, call)
    [] key = "requestTicket" -> RequestTicket(request, call)
    [] OTHER -> Refuse("UnimplementedMethod")

-----------------------------------------------------------------------------
(***************************************************************************)
(* The connection to the secure service and NAT traversal.                 *)
(***************************************************************************)
Registered(call, sid, type) ==
  LoginRequired(call,
    IF call.connectionId = Undefined THEN Refuse("InternalError")
    ELSE Answer([returnValue |-> QRESULT_OK, pidConnectionId |-> call.connectionId,
                 urlPublic |-> Url(call.address, sid, type)]))

SecureConnection(key, request, call) ==
  CASE key = "register"   -> Registered(call, 14, 2)
    [] key = "registerEx" -> Registered(call, 15, 3)
    [] OTHER -> Refuse("UnimplementedMethod")

\* The targets with the RVCID of a connected client.
Targets(request, call) ==
  FlattenSeq([i \in DOMAIN request.urlTargetList |->
                IF request.urlTargetList[i].rvcid \in call.connected
                THEN <<request.urlTargetList[i]>> ELSE << >>])

ProbeCallId == 7       \* randomU32()

Probe(url) ==
  EncodeRmcRequest([protocolId |-> Auth!NATTraversalProtocol.id, callId |-> ProbeCallId, methodId |-> 2,
                    parameters |-> Write(Auth!InitiateProbe.request, [urlStationToProbe |-> url])])

\* Mutant: the client that asks is probed itself.
ProbesForTheAsker(request, call) ==
  [i \in DOMAIN Targets(request, call) |-> [connectionId |-> call.connectionId,
                                            data |-> Probe(request.urlStationToProbe)]]

ProbesFor(request, call) ==
  LET targets == Targets(request, call)
  IN  [i \in DOMAIN targets |-> [connectionId |-> targets[i].rvcid,
                                 data |-> Probe(request.urlStationToProbe)]]

NATTraversal(key, request, call) ==
  CASE key = "requestProbeInitiationExt" ->
         LoginRequired(call, [Done EXCEPT !.probes = ProbesFor(request, call)])
    [] OTHER -> Refuse("UnimplementedMethod")

-----------------------------------------------------------------------------
(***************************************************************************)
(* Game sessions: the world knows the sessions a search finds and the id   *)
(* of the next one.                                                        *)
(***************************************************************************)
SessionKey(session) == [typeId |-> session.type, sessionId |-> session.id]

UrlsOfHost(session) ==
  FlattenSeq([i \in DOMAIN session.participants |->
                IF session.participants[i].pid = session.creator
                THEN session.participants[i].stationUrls ELSE << >>])

SearchResult(session) ==
  [sessionKey |-> SessionKey(session), hostPid |-> session.creator,
   hostUrls |-> UrlsOfHost(session), attributes |-> session.attributes]

HasHost(session) ==
  \E i \in DOMAIN session.participants : session.participants[i].pid = session.creator

\* Sessions without their host are left out.
FoundByParticipants(call) ==
  LET sessions == SelectSeq(call.world.sessions, HasHost)
  IN  [i \in DOMAIN sessions |->
         [gameSessionSearchResult |-> SearchResult(sessions[i]),
          participantIds |-> [j \in DOMAIN sessions[i].participants |->
                                sessions[i].participants[j].pid]]]

GameSession(key, request, call) ==
  CASE key = "createSession" ->
         LoginRequired(call, Answer([gameSessionKey |->
           [typeId |-> request.gameSession.typeId, sessionId |-> call.world.nextSession]]))
    [] key \in {"updateSession", "deleteSession", "leaveSession", "addParticipants",
                "removeParticipants", "abandonSession", "registerUrls"} ->
         LoginRequired(call, Done)
    [] key = "searchSessionsWithParticipants" ->
         LoginRequired(call, Answer([searchResults |-> FoundByParticipants(call)]))
    [] key = "splitSession" ->
         LoginRequired(call, Answer([gameSessionKeyMigrated |-> request.gameSessionKey]))
    [] key = "joinSession" -> Done
    [] OTHER -> Refuse("UnimplementedMethod")

GameSessionEx(key, request, call) ==
  LoginRequired(call, Answer([searchResults |->
    [i \in DOMAIN call.world.sessions |->
       [gameSessionSearchResult |-> SearchResult(call.world.sessions[i]),
        participants |-> call.world.sessions[i].participants]]]))

-----------------------------------------------------------------------------
(***************************************************************************)
(* Accounts, statistics and the storage of user contents.                  *)
(***************************************************************************)
\* lookup: keys without a value are skipped, a repeated key counts once.
Lookup(keys, Find(_)) ==
  FoldLeft(SetEntry, << >>,
    FlattenSeq([i \in DOMAIN keys |->
      IF Find(keys[i]) = {} THEN << >> ELSE <<<<keys[i], Only(Find(keys[i]))>>>>]))

UserIdsByUbiId(call, ubiId) ==
  {u \in DOMAIN call.world.accounts : ubiId # << >> /\ call.world.accounts[u].ubi = ubiId}

UbiIdsByUserId(call, pid) ==
  {call.world.accounts[u].ubi : u \in {pid} \cap DOMAIN call.world.accounts} \ {<< >>}

UbiAccountManagement(key, request, call) ==
  CASE key = "lookupPrincipalIds" ->
         LoginRequired(call, Answer([pids |->
           Lookup(request.ubiAccountIds, LAMBDA ubiId : UserIdsByUbiId(call, ubiId))]))
    [] key = "lookupUbiAccountIdsByPids" ->
         LoginRequired(call, Answer([ubiaccountIds |->
           Lookup(request.pids, LAMBDA pid : UbiIdsByUserId(call, pid))]))
    [] key = "hasAcceptedLatestTos" ->
         LoginRequired(call, Answer([hasAccepted |-> TRUE, failedReasons |-> << >>]))
    [] OTHER -> Refuse("UnimplementedMethod")

I64Of(n) == [tag |-> 1, value |-> n]
F64Of(n) == [tag |-> 2, value |-> n]
StringOf(text) == [tag |-> 4, value |-> text]
DateTimeOf(n) == [tag |-> 5, value |-> n]

PLAYER_STATS ==
  <<<<126, 1>>, <<122, 1>>, <<124, 1>>, <<201, 1>>, <<204, 1>>, <<205, 1>>, <<200, 1>>,
    <<122, 1337>>, <<182, 1337>>>>

StatsOf(pid) ==
  [boardId |-> 1, contextId |-> 0, resetFrequency |-> 1,
   playerStatSets |->
     <<[playerPid |-> pid, playerName |-> Text("foobar"), submittedTime |-> 372589379,
        stats |-> [i \in DOMAIN PLAYER_STATS |->
                     [id |-> PLAYER_STATS[i][1], value |-> I64Of(PLAYER_STATS[i][2])]]]>>,
   defaultStatValues |-> << >>]

\* Only the first player is answered for.
PlayerStats(key, request, call) ==
  CASE key = "readStatsByPlayers" ->
         LoginRequired(call,
           IF request.playerPids = << >> THEN Refuse("InternalError")
           ELSE Answer([results |-> <<StatsOf(request.playerPids[1])>>]))
    [] key = "writeStats" -> LoginRequired(call, Done)
    [] OTHER -> Refuse("UnimplementedMethod")

UnlocksTypeId == 2     \* 0x8000_0002

Unlocks ==
  [key |-> [typeId |-> UnlocksTypeId, contentId |-> 1], pid |-> 1119,
   properties |-> <<[id |-> 6, value |-> I64Of(628)],
                    [id |-> 4, value |-> DateTimeOf(1989073878)],
                    [id |-> 5, value |-> DateTimeOf(1989088249)],
                    [id |-> 7, value |-> StringOf(Text("A6E32CFD0C2B2CFFE2D0C785830B7C49"))]>>]

ContentUrl(settings) ==
  [downloadInfo |-> [protocol |-> settings.contentProtocol, host |-> settings.storageHost,
                     path |-> settings.storagePath]]

\* Without a host or a path there is no URL.
UserStorage(key, request, call) ==
  LET settings == call.world.settings
  IN  CASE key = "searchContents" ->
             LoginRequired(call, Answer([searchResults |->
               IF request.query.typeId = UnlocksTypeId THEN <<Unlocks>> ELSE << >>]))
        [] key = "getContentUrl" ->
             LoginRequired(call,
               IF << >> \in {settings.storageHost, settings.storagePath} THEN Refuse("InternalError")
               ELSE Answer(ContentUrl(settings)))
        [] OTHER -> Refuse("UnimplementedMethod")

-----------------------------------------------------------------------------
(***************************************************************************)
(* Protocols that return fixed data.                                       *)
(***************************************************************************)
ChallengeHelper(key, request, call) ==
  CASE key = "generateFriendChallenges" -> LoginRequired(call, Answer([result |-> << >>]))
    [] OTHER -> Refuse("UnimplementedMethod")

TestClan ==
  [clid |-> -1, tag |-> Text("TEST"), title |-> Text("FOO"), motto |-> Text("BAR")]

ClanHelper(key, request, call) ==
  CASE key = "getClanInfoByPid"       -> LoginRequired(call, Answer([clanInfo |-> TestClan]))
    [] key = "generateClanChallenges" -> LoginRequired(call, Answer([result |-> << >>]))
    [] key = "getMemberListByClid"    -> LoginRequired(call, Answer([members |-> <<1002>>]))
    [] OTHER -> Refuse("UnimplementedMethod")

LadderHelper(key, request, call) ==
  CASE key = "getUnixUtc" -> LoginRequired(call, Answer([time |-> call.world.now]))
    [] OTHER -> Refuse("UnimplementedMethod")

Localization(key, request, call) ==
  CASE key = "setLocaleCode" -> LoginRequired(call, Done)
    [] OTHER -> Refuse("UnimplementedMethod")

Privileges(key, request, call) ==
  CASE key = "getPrivileges" ->
         LoginRequired(call, Answer([privileges |->
           <<<<1, [id |-> 1, description |-> Text("PlayOnline")]>>>>]))
    [] OTHER -> Refuse("UnimplementedMethod")

UplayWin(key, request, call) ==
  CASE key \in {"uplayWelcome", "getActionsCompleted"} ->
         LoginRequired(call, Answer([actionList |-> << >>]))
    [] key = "getRewardsPurchased" -> LoginRequired(call, Answer([rewardList |-> << >>]))
    [] OTHER -> Refuse("UnimplementedMethod")

\* Two tags stand for the 68, one for the 15.
TRACKING_TAGS == <<Text("GAME_START"), Text("COMBO_END")>>

\* They end with a NUL of their own, so no string with them can be read back.
USER_GROUP_TRACKING_TAGS == <<Text("GAME_START") \o <<Nul>>>>

Tags(call, tags) == Answer([tags |-> IF call.world.settings.tracking THEN tags ELSE << >>])

Tracking(key, request, call) ==
  CASE key = "getConfiguration" -> LoginRequired(call, Tags(call, TRACKING_TAGS))
    [] key = "sendTags" -> LoginRequired(call, Done)
    [] OTHER -> Refuse("UnimplementedMethod")

TrackingExtension(key, request, call) ==
  CASE key = "getTrackingUserGroup" -> LoginRequired(call, Answer([usergroup |-> 0]))
    [] key = "getTrackingUserGroupTags" -> LoginRequired(call, Tags(call, USER_GROUP_TRACKING_TAGS))
    [] OTHER -> Refuse("UnimplementedMethod")

-----------------------------------------------------------------------------
(***************************************************************************)
(* The Overlord protocols, made by hand: only their first methods exist.   *)
(***************************************************************************)
ConfigEntry == Struct(<<F("name", String), F("value", Variant)>>)

\* The types of the 46 settings, each with a name of its own.
FloatSettings == {4, 5, 17, 18, 21, 27, 34, 45, 46}
StringSettings == {10, 41}

CORE_CONFIG ==
  [i \in 1 .. 46 |->
     [name |-> <<[setting |-> i]>>,
      value |-> CASE i \in FloatSettings  -> F64Of(i)
                  [] i \in StringSettings -> StringOf(Text("0.8.0.0"))
                  [] OTHER -> I64Of(1)]]

OverlordCoreProtocol ==
  Protocol(5003, <<Method("fetch_config", Struct(<< >>), List(ConfigEntry))>>)

NewsItem ==
  Struct(<<F("maybeId", U32), F("unk2", U32), F("unk3", U32), F("unk4", U32),
           F("unk5", String), F("unk6", DateTime), F("unk7", DateTime),
           F("expirationTime", DateTime), F("title", String), F("link", String),
           F("description", String)>>)

OverlordNewsProtocol ==
  Protocol(5002, <<Method("get_news", Struct(<< >>), List(NewsItem))>>)

DEFAULT_NEWS ==
  <<[maybeId |-> 195389, unk2 |-> 9, unk3 |-> 2, unk4 |-> 2,
     unk5 |-> Text("Quazal Rendez-Vous"), unk6 |-> 0, unk7 |-> 0, expirationTime |-> 0,
     title |-> Text("WELCOME BACK!"), link |-> Text("5th-echelon"),
     description |-> Text("5th Echelon is here!")]>>

VariantMap == MapOf(String, Variant)

Challenge ==
  Struct(<<F("unk1", U32), F("unk2", String), F("someXml", String), F("unk4", U32),
           F("unk5", U32), F("unk6", U32), F("unk7", U32), F("unk8", Bool),
           F("unk9", DateTime), F("unk10", DateTime), F("unk11", String),
           F("unk12", String), F("unk13", String), F("unk14", VariantMap),
           F("unk15", VariantMap), F("unk16", VariantMap), F("unk17", U32),
           F("unk18", DateTime), F("unk19", VariantMap)>>)

OverlordChallengeProtocol ==
  Protocol(5007, <<Method("get_challenges", Struct(<<F("class", String)>>),
                          Struct(<<F("challenges", List(Challenge))>>))>>)

DEFAULT_CHALLENGES ==
  <<[unk1 |-> 160200, unk2 |-> Text("{}"), someXml |-> Text("<Challenge/>"), unk4 |-> 0,
     unk5 |-> 0, unk6 |-> 0, unk7 |-> 1, unk8 |-> FALSE, unk9 |-> 0, unk10 |-> -1,
     unk11 |-> Text("{}"), unk12 |-> Text("{}"), unk13 |-> Text("{}"), unk14 |-> << >>,
     unk15 |-> <<<<Text("s"), I64Of(1)>>, <<Text("p"), I64Of(123)>>>>,
     unk16 |-> << >>, unk17 |-> 2, unk18 |-> -1, unk19 |-> << >>]>>

\* A file that is missing or malformed gives way to the default.
LoadList(file, fallback) == IF file.wellFormed THEN file.items ELSE fallback

Overlord(protocol, key, call) ==
  CASE key = "fetch_config" -> Answer(CORE_CONFIG)
    [] key = "get_news" -> Answer(LoadList(call.world.news, DEFAULT_NEWS))
    [] key = "get_challenges" ->
         Answer([challenges |-> LoadList(call.world.challenges, DEFAULT_CHALLENGES)])

HandMade == {5002, 5003, 5007}

-----------------------------------------------------------------------------
(***************************************************************************)
(* The dispatcher.                                                         *)
(***************************************************************************)
AuthenticationProtocols == <<Auth!TicketGrantingProtocol>>

SecureProtocols ==
  <<Accounts!ChallengeHelperProtocol, Accounts!ClanHelperProtocol, Games!GameSessionExProtocol,
    Games!GameSessionProtocol, Accounts!LadderHelperProtocol, Accounts!LocalizationProtocol,
    Auth!NATTraversalProtocol, OverlordChallengeProtocol, OverlordCoreProtocol,
    OverlordNewsProtocol, Content!PlayerStatsProtocol, Accounts!PrivilegesProtocol,
    Auth!SecureConnectionProtocol, Uplay!TrackingExtensionProtocol, Uplay!TrackingProtocol3,
    Accounts!UbiAccountManagementProtocol, Uplay!UplayWinProtocol, Content!UserStorageProtocol>>

Protocols(service) == IF service = "secure" THEN SecureProtocols ELSE AuthenticationProtocols

\* The definition registered under an id: a sequence of one or none.
Registration(service, id) ==
  LET found == {i \in DOMAIN Protocols(service) : Protocols(service)[i].id = id}
  IN  IF found = {} THEN << >> ELSE <<Protocols(service)[Only(found)]>>

Handler(id, key, request, call) ==
  CASE id = 10   -> TicketGranting(key, request, call)
    [] id = 11   -> SecureConnection(key, request, call)
    [] id = 3    -> NATTraversal(key, request, call)
    [] id = 29   -> UbiAccountManagement(key, request, call)
    [] id = 35   -> Privileges(key, request, call)
    [] id = 36   -> Tracking(key, request, call)
    [] id = 39   -> Localization(key, request, call)
    [] id = 42   -> GameSession(key, request, call)
    [] id = 49   -> UplayWin(key, request, call)
    [] id = 53   -> UserStorage(key, request, call)
    [] id = 55   -> PlayerStats(key, request, call)
    [] id = 105  -> ChallengeHelper(key, request, call)
    [] id = 106  -> ClanHelper(key, request, call)
    [] id = 107  -> LadderHelper(key, request, call)
    [] id = 123  -> GameSessionEx(key, request, call)
    [] id = 1001 -> TrackingExtension(key, request, call)

\* A generated protocol reads its parameters before the handler looks at the
\* client, one made by hand lets nobody in first.
Handled(protocol, request, call) ==
  LET known  == request.methodId \in DOMAIN protocol.methods
      method == protocol.methods[request.methodId]
      params == Read(method.request, request.parameters)
  IN  IF protocol.id \in HandMade
      THEN LoginRequired(call, IF ~known THEN Refuse("UnknownMethod")
                               ELSE IF ~params.ok THEN Refuse("ParsingError")
                               ELSE Overlord(protocol, method.key, call))
      ELSE IF ~known THEN Refuse("UnknownMethod")
      ELSE IF ~params.ok THEN Refuse("ParsingError")
      ELSE Handler(protocol.id, method.key, params.value, call)

\* The result of a call; an answer that cannot be written is an error, too.
Result(protocol, request, done) ==
  LET data == IF done.error = ""
              THEN Write(protocol.methods[request.methodId].response, done.value) ELSE << >>
      error == IF IsWritten(data) THEN done.error ELSE "InternalError"
  IN  IF error = ""
      THEN [ok |-> TRUE, methodId |-> request.methodId, data |-> data]
      ELSE [ok |-> FALSE, errorCode |-> ErrorCodes[error]]

Silence == [answered |-> FALSE]

Answered(request, done, result) ==
  [answered |-> TRUE, async |-> done.async, userId |-> done.userId, probes |-> done.probes,
   response |-> EncodeRmcResponse(request.protocolId, request.callId, result)]

\* The answer to a request; found is the registration of its protocol, if any.
Respond(request, found, done) ==
  Answered(request, done,
           IF found = << >> THEN [ok |-> FALSE, errorCode |-> ErrorCodes[done.error]]
           ELSE Result(found[1], request, done))

Serve(request, found, call) ==
  Respond(request, found,
          IF found = << >> THEN Refuse("UnknownProtocol") ELSE Handled(found[1], request, call))

\* RmcDispatcher.handle: what is no request is not answered at all.
Dispatch(call, data) ==
  LET packet == ParseRmcPacket(data)
  IN  IF ~packet.ok THEN Silence
      ELSE IF packet.value.type = "response" THEN Silence
      ELSE Serve(packet.value, Registration(call.world.service, packet.value.protocolId), call)
===============================================================================
