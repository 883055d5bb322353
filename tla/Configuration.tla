---------------------------- MODULE Configuration ----------------------------
(***************************************************************************)
(* service.toml (config.ts): the default that is written on the first      *)
(* start, parsing, and the public address that --public-ip advertises.     *)
(*                                                                         *)
(* A text has the list of enabled services and a table for each service    *)
(* that is defined.  Names of services are what they are in the default.   *)
(* An online configuration has one value for each of its two URLs; where   *)
(* it is raw text, the patterns of setPublicIp may not find them.          *)
(***************************************************************************)
EXTENDS Integers, Sequences, SequencesExt

Address(host, port) == [host |-> host, port |-> port]
NoAddress == Address("", 0)      \* undefined
NotAnAddress == Address("?", 0)  \* a text parseSocketAddress refuses

NoKey == 0

\* What can be said of a service, and nothing of it. wellFormed: every value has
\* the form it has to have, the ticket key its 32 bytes. unmatched: the URLs of raw
\* content that are not written the way setPublicIp looks for them, without a space.
Table ==
  [type |-> "", wellFormed |-> TRUE, ticketKey |-> NoKey, listen |-> NoAddress,
   secureServerAddr |-> NoAddress, storageHost |-> NoAddress,
   sandboxUrl |-> NoAddress, sandboxUrlWS |-> NoAddress, unmatched |-> {}]

\* A file and what is in it; it is partial while it is being written.
NoFile == [form |-> "absent", services |-> << >>, service |-> [name \in {} |-> Table]]
PartialFile == [NoFile EXCEPT !.form = "partial"]
FileWith(services, service) == [form |-> "whole", services |-> services, service |-> service]

\* The form that every text has, whatever it says.
IsAddress(address) == address = Address(address.host, address.port)
IsText(file) ==
  /\ file.services \in Seq(ToSet(file.services))
  /\ \A name \in DOMAIN file.service :
       LET table == file.service[name]
       IN  /\ DOMAIN table = DOMAIN Table
           /\ \A address \in {table.secureServerAddr, table.storageHost, table.sandboxUrl,
                              table.sandboxUrlWS} : IsAddress(address)

Everywhere(port) == Address("0.0.0.0", port)
Local(port) == Address("127.0.0.1", port)

\* defaultConfigToml: the services of a first start, with one ticket key.
DefaultConfig(key) ==
  FileWith(
    <<"onlineconfig", "content", "sc_bl_secure", "sc_bl_auth">>,
    [sc_bl_auth |-> [Table EXCEPT !.type = "authentication", !.listen = Everywhere(21126),
                                  !.secureServerAddr = Local(21127), !.ticketKey = key],
     sc_bl_secure |-> [Table EXCEPT !.type = "secure", !.listen = Everywhere(21127),
                                    !.storageHost = Local(8000), !.ticketKey = key],
     onlineconfig |-> [Table EXCEPT !.type = "config", !.listen = Everywhere(80),
                                    !.sandboxUrl = Local(21126), !.sandboxUrlWS = Local(21126)],
     content |-> [Table EXCEPT !.type = "content", !.listen = Everywhere(8000)]])

-----------------------------------------------------------------------------
\* Services without a type are authentication services if they point to a secure one.
TypeOf(table) ==
  CASE table.type # "" -> table.type
    [] table.type = "" /\ table.secureServerAddr # NoAddress -> "authentication"
    [] table.type = "" /\ table.secureServerAddr = NoAddress -> "secure"

IsQuazal(type) == type \in {"authentication", "secure"}

IsTable(table) ==
  /\ table.wellFormed
  /\ TypeOf(table) \in {"authentication", "secure", "config", "content"}
  /\ IsQuazal(TypeOf(table)) \/ table.listen # NoAddress

\* Anything else is a ConfigError.
IsConfig(file) ==
  /\ file.form = "whole"
  /\ \A i \in DOMAIN file.services :
       file.services[i] \in DOMAIN file.service /\ IsTable(file.service[file.services[i]])

\* Mutant: every service without a key gets one of its own.
KeyOfItsOwn(table, sharedTicketKey) ==
  IF table.ticketKey = NoKey THEN sharedTicketKey + table.listen.port ELSE table.ticketKey

\* Services without a ticket key share one that is made for this run.
TicketKey(table, sharedTicketKey) ==
  IF table.ticketKey = NoKey THEN sharedTicketKey ELSE table.ticketKey

ParseService(table, sharedTicketKey) ==
  [table EXCEPT !.type = TypeOf(table),
                !.ticketKey = IF IsQuazal(TypeOf(table)) THEN TicketKey(table, sharedTicketKey)
                              ELSE NoKey,
                !.listen = IF @ = NoAddress THEN Everywhere(9999) ELSE @]

\* The services in the order of the list, each once.
See(seen, name) == IF Contains(seen, name) THEN seen ELSE Append(seen, name)
Unique(names) == FoldLeft(See, << >>, names)

ParseConfig(file, sharedTicketKey) ==
  LET names == Unique(file.services)
  IN  [i \in DOMAIN names |-> ParseService(file.service[names[i]], sharedTicketKey)]

-----------------------------------------------------------------------------
\* setPublicIp throws if a content host is no address.
CanAdvertise(services) ==
  \A i \in DOMAIN services :
    services[i].type = "secure" => services[i].storageHost # NotAnAddress

Moved(address, ip) ==
  IF address \in {NoAddress, NotAnAddress} THEN address ELSE [address EXCEPT !.host = ip]

\* In typed content every URL is found.
Replaced(service, url, ip) ==
  IF url \in service.unmatched THEN service[url] ELSE Moved(service[url], ip)

\* Mutant: the URL for web sockets is forgotten.
AdvertisedWithoutWS(service, ip) ==
  CASE service.type = "authentication" ->
         [service EXCEPT !.secureServerAddr = Moved(@, ip)]
    [] service.type = "secure" -> [service EXCEPT !.storageHost = Moved(@, ip)]
    [] service.type = "config" ->
         [service EXCEPT !.sandboxUrl = Replaced(service, "sandboxUrl", ip)]
    [] service.type = "content" -> service

Advertised(service, ip) ==
  CASE service.type = "authentication" ->
         [service EXCEPT !.secureServerAddr = Moved(@, ip)]
    [] service.type = "secure" -> [service EXCEPT !.storageHost = Moved(@, ip)]
    [] service.type = "config" ->
         [service EXCEPT !.sandboxUrl = Replaced(service, "sandboxUrl", ip),
                         !.sandboxUrlWS = Replaced(service, "sandboxUrlWS", ip)]
    [] service.type = "content" -> service

SetPublicIp(services, ip) == [i \in DOMAIN services |-> Advertised(services[i], ip)]
==============================================================================
