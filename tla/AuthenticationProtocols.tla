----------------------- MODULE AuthenticationProtocols -----------------------
(***************************************************************************)
(* Logging in, registering with the secure service and NAT traversal.      *)
(* The messages of every method, with their fields in the order of the     *)
(* wire.  A method is found under its id, its position in the protocol.    *)
(***************************************************************************)
EXTENDS Schemas

UbiAuthenticationLoginCustomData ==
  Struct(<<F("userName", String), F("onlineKey", String), F("password", String)>>)

RVConnectionData ==
  Struct(<<F("urlRegularProtocols", StationURL), F("lstSpecialProtocols", List(U8)),
           F("urlSpecialProtocols", StationURL)>>)

LoginData ==
  Struct(<<F("principalType", I8), F("userName", String), F("context", U64),
           F("similarConnection", U32)>>)

------------------------------------------------------------------------------

Login ==
  Method("login",
         Struct(<<F("strUserName", String)>>),
         Struct(<<F("returnValue", QResult), F("pidPrincipal", U32),
                  F("pbufResponse", Buffer), F("pConnectionData", RVConnectionData),
                  F("strReturnMsg", String)>>))

LoginEx ==
  Method("loginEx",
         Struct(<<F("strUserName", String), F("oExtraData", AnyData)>>),
         Struct(<<F("returnValue", QResult), F("pidPrincipal", U32),
                  F("pbufResponse", Buffer), F("pConnectionData", RVConnectionData),
                  F("strReturnMsg", String)>>))

RequestTicket ==
  Method("requestTicket",
         Struct(<<F("idSource", U32), F("idTarget", U32)>>),
         Struct(<<F("returnValue", QResult), F("bufResponse", Buffer)>>))

GetPid ==
  Method("getPid",
         Struct(<<F("strUserName", String)>>),
         Struct(<<F("returnValue", U32)>>))

GetName ==
  Method("getName",
         Struct(<<F("id", U32)>>),
         Struct(<<F("returnValue", String)>>))

LoginWithContext ==
  Method("loginWithContext",
         Struct(<<F("loginData", AnyData)>>),
         Struct(<<F("returnValue", QResult), F("pidPrincipal", U32),
                  F("pbufResponse", Buffer), F("pConnectionData", RVConnectionData)>>))

TicketGrantingProtocol ==
  Protocol(10, <<Login, LoginEx, RequestTicket, GetPid, GetName, LoginWithContext>>)

ConnectionData == Struct(<<F("stationUrl", StationURL), F("connectionId", U32)>>)

------------------------------------------------------------------------------

Register ==
  Method("register",
         Struct(<<F("vecMyUrls", List(StationURL))>>),
         Struct(<<F("returnValue", QResult), F("pidConnectionId", U32),
                  F("urlPublic", StationURL)>>))

RequestConnectionData ==
  Method("requestConnectionData",
         Struct(<<F("cidTarget", U32), F("pidTarget", U32)>>),
         Struct(<<F("returnValue", Bool), F("pvecConnectionsData", List(ConnectionData))>>))

RequestUrls ==
  Method("requestUrls",
         Struct(<<F("cidTarget", U32), F("pidTarget", U32)>>),
         Struct(<<F("returnValue", Bool), F("plstUrls", List(StationURL))>>))

RegisterEx ==
  Method("registerEx",
         Struct(<<F("vecMyUrls", List(StationURL)), F("hCustomData", AnyData)>>),
         Struct(<<F("returnValue", QResult), F("pidConnectionId", U32),
                  F("urlPublic", StationURL)>>))

SecureConnectionProtocol ==
  Protocol(11, <<Register, RequestConnectionData, RequestUrls, RegisterEx>>)

------------------------------------------------------------------------------

RequestProbeInitiation ==
  Method("requestProbeInitiation",
         Struct(<<F("urlTargetList", List(StationURL))>>),
         Struct(<< >>))

InitiateProbe ==
  Method("initiateProbe",
         Struct(<<F("urlStationToProbe", StationURL)>>),
         Struct(<< >>))

RequestProbeInitiationExt ==
  Method("requestProbeInitiationExt",
         Struct(<<F("urlTargetList", List(StationURL)), F("urlStationToProbe", StationURL)>>),
         Struct(<< >>))

NATTraversalProtocol ==
  Protocol(3, <<RequestProbeInitiation, InitiateProbe, RequestProbeInitiationExt>>)
==============================================================================
