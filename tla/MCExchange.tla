------------------------------ MODULE MCExchange ------------------------------
(***************************************************************************)
(* Plans for RmcExchange.  The catalogue: every method of every registered *)
(* protocol, and ids without one, called by a user and by a stranger, with *)
(* values of several sizes, whole and cut short.  Traffic: a few calls of  *)
(* two clients over a network that loses, repeats and reorders.            *)
(***************************************************************************)
EXTENDS RmcExchange, Wire

Player == [name |-> Text("sam"), password |-> Text("secret"), plaintext |-> FALSE, ubi |-> Text("x")]
TrackingUser == [name |-> Text("Tracking"), password |-> Text("JaDe!"), plaintext |-> TRUE, ubi |-> << >>]

MCUrl(address, rvcid) == [Url(address, 15, 3) EXCEPT !.rvcid = rvcid]

Seat(pid) == [pid |-> pid, name |-> Text("sam"), stationUrls |-> <<MCUrl(21, 0), MCUrl(22, 0)>>]
Coop == <<[id |-> 103, value |-> 0], [id |-> 112, value |-> 2]>>
Found(id, creator, participants) ==
  [id |-> id, type |-> 1, creator |-> creator, attributes |-> Coop, participants |-> participants]

NoFile == [wellFormed |-> FALSE, items |-> << >>]

World(service) ==
  [service |-> service, nextService |-> 30, ticketKey |-> "ticket_key", accounts |-> <<TrackingUser, Player>>,
   sessions |-> <<Found(5, 1, <<Seat(2), Seat(1)>>), Found(6, 2, <<Seat(1)>>)>>, nextSession |-> 7,
   settings |-> [storageHost |-> Text("localhost"), storagePath |-> Text("/content/"),
                 contentProtocol |-> Text("http://"), tracking |-> FALSE],
   news |-> NoFile, challenges |-> NoFile, now |-> 1000]

\* A world with edited files, one of them with a number no variant holds.
Edited ==
  [World("secure") EXCEPT
     !.sessions = << >>,
     !.settings = [storageHost |-> Text("localhost"), storagePath |-> << >>,
                   contentProtocol |-> Text("http://"), tracking |-> TRUE],
     !.news = [wellFormed |-> TRUE, items |-> << >>],
     !.challenges = [wellFormed |-> TRUE,
                     items |-> [DEFAULT_CHALLENGES EXCEPT ![1].unk14 = <<<<Text("s"), I64Of(Huge)>>>>]]]

-----------------------------------------------------------------------------
\* A value of a type: empty and zero, or with as many members as its size.
RECURSIVE Sample(_, _)
Sample(type, size) ==
  CASE type.kind = "scalar" -> size
    [] type.kind = "bool"   -> size > 0
    [] type.kind = "string" -> IF size = 0 THEN << >> ELSE Text("x")
    [] type.kind = "url"    -> MCUrl(20 + size, size)
    [] type.kind = "buffer" -> [i \in 1 .. size |-> [blob |-> i]]
    [] type.kind = "list"   -> [i \in 1 .. size |-> Sample(type.item, i)]
    [] type.kind = "map"    ->
         IF size = 0 THEN << >> ELSE <<<<Sample(type.key, size), Sample(type.value, size)>>>>
    [] type.kind = "struct" ->
         LET fields == type.fields
         IN  [n \in {fields[i].name : i \in DOMAIN fields} |->
                Sample(fields[CHOOSE i \in DOMAIN fields : fields[i].name = n].type, size)]
    [] type.kind = "variant" ->
         [tag |-> 2 * size, value |-> Sample(VariantTypes[2 * size + 1], size)]
    [] type.kind = "any"    -> [typeName |-> Text("x"), data |-> Sample(Buffer, size)]

BasicCall ==
  [from |-> 1, protocolId |-> 0, methodId |-> 0, value |-> << >>, parameters |-> << >>,
   incomplete |-> FALSE, data |-> << >>, destination |-> SERVER_PORT,
   flags |-> {"Reliable", "NeedAck", "HasSize"}, fragmentSize |-> MaxPayload, compressed |-> TRUE,
   wrapping |-> "alone", addresses |-> {11}]

CallWith(protocol, id, value) ==
  [BasicCall EXCEPT !.protocolId = protocol.id, !.methodId = id, !.value = value,
                    !.parameters = Write(protocol.methods[id].request, value)]

\* The last cells of the parameters are missing.
CutShort(call, cells) ==
  [call EXCEPT !.incomplete = TRUE,
               !.parameters = SubSeq(@, 1, Len(@) - cells)]

Stranger == [userId |-> 0, address |-> 11, signature |-> 901, session |-> 5, serverSession |-> 6]
User(id, n) == [userId |-> id, address |-> 10 + n, signature |-> 900 + n, session |-> 6 + n,
                serverSession |-> 8 + n]

Calm == [world |-> World("secure"), guests |-> << >>, calls |-> << >>, pieces |-> << >>,
         leaving |-> {}, patient |-> TRUE, repeats |-> 0, losses |-> 0]
Planned(world, guests, calls) ==
  [Calm EXCEPT !.world = world, !.guests = guests, !.calls = calls, !.pieces = Pieces(calls)]

\* The calls of one method: of two sizes, whole and cut by one cell or to nothing.
CallsOf(protocol, id) ==
  LET small == CallWith(protocol, id, Sample(protocol.methods[id].request, 0))
      large == CallWith(protocol, id, Sample(protocol.methods[id].request, 2))
      size  == Len(large.parameters)
  IN  <<small, large>>
      \o (IF size > 0 THEN <<CutShort(large, 1), CutShort(large, size)>> ELSE << >>)

NoMethods(protocol) ==
  <<[BasicCall EXCEPT !.protocolId = protocol.id],
    [BasicCall EXCEPT !.protocolId = protocol.id, !.methodId = Len(protocol.methods) + 1]>>

CallsOfProtocol(protocol) ==
  FlattenSeq([id \in DOMAIN protocol.methods |-> CallsOf(protocol, id)]) \o NoMethods(protocol)

Catalogue(world, guests) ==
  FlattenSeq([p \in DOMAIN Protocols(world.service) |->
    LET calls == CallsOfProtocol(Protocols(world.service)[p])
    IN  [n \in 1 .. Len(calls) * Len(guests) |->
           Planned(world, <<guests[(n % Len(guests)) + 1]>>,
                   <<calls[((n - 1) \div Len(guests)) + 1]>>)]])

EditedCalls ==
  FlattenSeq([p \in DOMAIN SecureProtocols |->
    IF SecureProtocols[p].id \in HandMade \union {1001, 36, 53, 42, 123}
    THEN CallsOf(SecureProtocols[p], 1) \o (IF Len(SecureProtocols[p].methods) > 1
                                            THEN CallsOf(SecureProtocols[p], 2) ELSE << >>)
    ELSE << >>])

Unregistered ==
  [i \in 1 .. 2 |-> [BasicCall EXCEPT !.protocolId = <<30, 300>>[i], !.methodId = 1]]

-----------------------------------------------------------------------------
MethodId(protocol, key) == CHOOSE id \in DOMAIN protocol.methods : protocol.methods[id].key = key
Calling(protocol, key, value) == CallWith(protocol, MethodId(protocol, key), value)

Credentials(type, password) ==
  [strUserName |-> Text("sam"),
   oExtraData |-> [typeName |-> Text(type),
                   data |-> Write(Auth!UbiAuthenticationLoginCustomData,
                                  [userName |-> Text("sam"), onlineKey |-> << >>,
                                   password |-> Text(password)])]]
LoginExWith(type, password) ==
  Calling(Auth!TicketGrantingProtocol, "loginEx", Credentials(type, password))
GoodLogin == LoginExWith("UbiAuthenticationLoginCustomData", "secret")
PlainLogin(name) == Calling(Auth!TicketGrantingProtocol, "login", [strUserName |-> Text(name)])
TicketFor(user) ==
  Calling(Auth!TicketGrantingProtocol, "requestTicket", [idSource |-> user, idTarget |-> SERVER_PID])

Probing(rvcids) ==
  Calling(Auth!NATTraversalProtocol, "requestProbeInitiationExt",
          [urlTargetList |-> [i \in DOMAIN rvcids |-> MCUrl(20, rvcids[i])],
           urlStationToProbe |-> MCUrl(23, 0)])
Config == Calling(OverlordCoreProtocol, "fetch_config", << >>)
Time == Calling(Accounts!LadderHelperProtocol, "getUnixUtc", << >>)

Small(call) == [call EXCEPT !.fragmentSize = 6]
Moved(call) == [call EXCEPT !.addresses = {99}]
By(client, call) == [call EXCEPT !.from = client]

\* Things sent that are no calls: a response, an acknowledgement, and nothing at all.
Odd ==
  <<[Time EXCEPT !.data = EncodeRmcResponse(107, 1, [ok |-> TRUE, methodId |-> 1, data |-> << >>])],
    [Time EXCEPT !.flags = {"Ack", "HasSize"}],
    [Time EXCEPT !.data = <<Number(4, 0)>>],
    [Time EXCEPT !.destination = VPort(2, RVSec)],
    [Time EXCEPT !.destination = VPort(1, "DO")],
    [Time EXCEPT !.compressed = FALSE, !.wrapping = "damaged"],
    [Time EXCEPT !.wrapping = "cut"],
    [Time EXCEPT !.flags = {"Reliable", "NeedAck"}]>>

\* The authentication service: logins that take a while.
Logins ==
  <<Planned(World("auth"), <<Stranger>>, <<GoodLogin, TicketFor(2)>>),
    Planned(World("auth"), <<Stranger>>, <<PlainLogin("Tracking"), TicketFor(1), TicketFor(2)>>),
    Planned(World("auth"), <<Stranger>>,
            <<LoginExWith("x", "secret"), LoginExWith("UbiAuthenticationLoginCustomData", "x"),
              PlainLogin("sam")>>),
    [Planned(World("auth"), <<Stranger, User(0, 1)>>, <<Moved(GoodLogin), By(2, PlainLogin("Tracking"))>>)
       EXCEPT !.patient = FALSE, !.leaving = {1}, !.repeats = 2, !.losses = 1]>>

\* The secure service: probes between clients, long answers, repeated calls.
Meetings ==
  <<[Planned(World("secure"), <<User(1, 1), User(2, 2)>>,
             <<Probing(<<101, 102, 0, 55, 102>>), By(2, Moved(Time))>>)
       EXCEPT !.patient = FALSE, !.leaving = {2}, !.repeats = 2, !.losses = 1],
    Planned(World("secure"), <<User(2, 1)>>, <<Small(Config), Small(Probing(<<100, 101>>)), Time>>),
    Planned(World("secure"), <<Stranger, User(2, 2)>>, <<Probing(<<101>>), By(2, Time), Config>>)>>

\* A plan for each of these calls, with some calls after it.
Each(world, guests, calls, then) ==
  [i \in DOMAIN calls |-> Planned(world, guests, <<calls[i]>> \o then)]

AllPlans ==
  Catalogue(World("secure"), <<User(2, 1), Stranger>>)
  \o Catalogue(World("auth"), <<Stranger>>)
  \o Each(World("secure"), <<Stranger>>, Unregistered, << >>)
  \o Each(Edited, <<User(1, 1)>>, EditedCalls, << >>)
  \o Each(World("secure"), <<User(1, 1)>>, Odd, <<Time>>)
  \o Logins \o Meetings

MCPlans == AllPlans
===============================================================================
