# TLA+ models of the 5th-echelon server (`bun-impl`)

`src/bun-impl` is a server for the online services of a game: it speaks Quazal PRUDP over UDP,
carries RMC calls on top of it, and keeps accounts, sessions and games in SQLite. This directory
holds TLA+ modules that model it, TLC configurations that check them on small instances, and
proofs for TLAPS of what matters most.

The rest of the repository (a Node.js experiment, traffic captures, scripts for macOS and Frida)
is research material that led to the server; it is not modelled.

    tlc -config server_table.cfg MCPrudpServer.tla      # a run
    tlapm PrudpServerProofs.tla                         # the proofs of a module

## 1. The system

### Components

| component | source (`src/bun-impl/src/`) | state | operations |
|---|---|---|---|
| PRUDP server | `quazal/prudp/server.ts`, `quazal/client-info.ts` | `newClients`, `clients`, `connectionIds`, `nextConnectionId`; per client: identity, fragments, `lastSeen`, sequence counters, session bytes | one handler per packet type; `clearExpiredClients` every second; `sendMessage`, `sendRequest`, `sendAck` |
| packet codec | `quazal/prudp/packet.ts`, `quazal/rc4.ts` | none | parse, validate, serialize |
| RMC | `quazal/rmc/*.ts` | registered protocols | parse a message, dispatch, encode the answer or the error |
| tickets | `quazal/kerberos.ts` | cache of derived keys | seal, open, derive |
| authentication service | `services/ticket-granting.ts` | `client.userId` | `login`, `loginEx` (asynchronous), `requestTicket` |
| secure service | `services/{secure-connection,game-session,nat-traversal,accounts,simple,overlord}.ts` | none of its own | register, game sessions, participants, station URLs, probes, lookups |
| storage | `storage/*.ts` | tables `users`, `user_sessions`, `station_urls`, `game_sessions`, `participants`, `invites` | one transaction or statement per operation; migrations; `invalidateSessions` |
| wiring | `server.ts`, `main.ts` | none | starts the services, cleans up after clients that leave |
| gRPC API | `api/server.ts` | token key, admin key | login, register, friends, invites, P2P test, administration |
| HTTP services | `http/simple-http.ts` | per socket: bytes received, handled | at most one answer per request, 10 s deadline |
| configuration, logger, codecs, generated protocols | `config.ts`, `logger.ts`, `quazal/{codec,stream,types}.ts`, `protocols/` | read once | |

### How they interact

Everything shares one event loop: a handler runs to completion, so it is one atomic step, except
where it awaits (password verification and hashing on worker threads, file reads, the P2P test).
The game logs in at the authentication service and gets a ticket; with the ticket in its CONNECT
packet it connects to the secure service, which takes the user id from the ticket and hands out a
connection id. Peers exchange connection ids in station URLs, and the NAT traversal service looks
them up in the connection table of the secure service. Both services, and the API, work on the same
database. When a client of either service disconnects or expires, the same callback deletes what the
database holds for its *user*: station URLs, games, `user_sessions`. The database outlives the
process, the connections do not; `main` therefore clears the tables before it starts the services.

### What is hard

* UDP: packets are lost, repeated, reordered, or come from clients that were dropped long ago.
* Two maps have to be kept in step through handshake, disconnect, expiry and random signatures.
* `loginEx` goes on after an await, on behalf of a client that may have left.
* Cleanup is by user, but a user may have several connections, to two services.
* Cleanup may fail, the process may die at any moment, accounts may be deleted while in use.
* Limits: the fragment buffer, 32-bit ids, 16-bit sequence numbers, one-byte fragment ids.

`PROJECT.json` lists these hazards one by one, each at its line, with the properties that cover it.

### What makes the components correct

* PRUDP server: an id leads to the client it was given to, or nowhere; nobody is half logged in; an
  identity does not change during a connection; silent clients go, others stay; a message reaches
  the handler whole or not at all, but for its last packet when that comes again.
* Logins: a ticket is readable only for who proved the password; nothing outlives its account.
* Wiring and storage: whoever is advertised to other players is there, and stays advertised as long
  as he is.
* Storage: no row survives the account it belongs to; lookups and searches over the same tables
  agree; an id that comes back brings nothing with it; an invite is delivered once, in order.
* Calls: what a handler is asked is what the client sent, and what the client reads is what the
  handler answered, once, in one piece and to whoever asked; a ticket takes its client to the secure
  service and nobody else.
* The process: a kill at any moment leaves a database and files that the next start can use; no
  session outlives its run; both services read the same tickets; whoever configures a public address
  is reached there, as far as the configuration is one it can be put into.

## 2. The modules

| module | models | state and actions |
|---|---|---|
| `Maps` | JavaScript maps and table rows | partial functions: `EmptyMap`, `Put`, `Delete` |
| `Fragments` | `handleData`, the arithmetic of fragments | pure operators |
| `PrudpServer` | the connection table | one action per packet handler, the expiry timer, the clock |
| `ConnectionRegistry` | what connection ids promise (abstract) | `Register`, `Release` |
| `FragmentedChannel` | game, network and reassembly | `SendData`, `Lose`, `Receive`, `ReceiveCopy` |
| `TicketGranting` | logins, accounts and `user_sessions` | one action per request; `loginEx` before and after its await |
| `HostedGames` | two services, the database and the process | clients that log in, host, crash and leave; cleanup that may fail; admin; `Stop`, `Start` |
| `Storage` | `storage.ts`: the tables; `user_sessions` by `is_online` (the rows are in `TicketGranting`) | one action per statement or transaction, with its constraints and cascades |
| `GameSessions` | `services/game-session.ts` | the requests that change the tables; both searches as operators |
| `ApiServer` | `api/server.ts` | tokens, calls that wait, the P2P test with its socket and timer |
| `InviteQueue` | what invites promise (abstract) | `Send`, `Deliver` |
| `Platform` | players, launchers, administrator on one database | the composition of the three above, with `Restart` |
| `Cells` | streams, strings and buffers | cells; numbers, texts and buffers, written and read |
| `Schemas` | what a codec is given | descriptions of types |
| `Wire` | the codecs of all types, by recursion | `WriteValue` and `ReadValue` |
| `...Protocols` (5 modules) | the generated protocols that are registered | descriptions of their messages |
| `RmcMessages`, `Packets`, `Kerberos` | `rmc/message.ts`, `prudp/packet.ts`, `kerberos.ts` | pure operators, over cells |
| `Services` | the handlers of both services and the dispatcher | `Dispatch`, from request to response |
| `Exchange` | DATA packets between clients and a service | network, `handleData`, asynchronous handlers, `sendMessage`, `sendRequest`; what the test client collects |
| `RmcExchange` | `Exchange` with `Dispatch` as its handler | the calls of clients and the answers they read |
| `Configuration`, `Migrations`, `SimpleHttp` | `config.ts`, `migrations.ts`, `simple-http.ts` | pure operators |
| `ServerProcess` | `main.ts` over files and database | start, crash and end of one or two processes; HTTP connections |
| `MC...` | instances for TLC | |
| `PrudpServerProofs`, `FragmentedChannelProofs`, `TicketGrantingProofs`, `HostedGamesProofs`, `PlatformProofs`, `ExchangeProofs`, `ServerProcessProofs` | | theorems about the module they are named after |
| `DataLemmas` | | what the proofs need about numbers, sums, sequences and folds |

`PrudpServer` and `FragmentedChannel` build on `Fragments`; `PrudpServer` implements
`ConnectionRegistry`. `Platform` extends `GameSessions` and `ApiServer`, which extend `Storage`, and
implements `InviteQueue`. `RmcExchange` extends `Exchange` (on `Packets` and `Fragments`) and
`Services` (on `RmcMessages`, `Kerberos` and `Schemas`, and all of them on `Cells`). `Services` takes the
codec as two constants, `Write` and `Read`, so that it can be proved about without the recursion of
`Wire`; `MCExchange` extends `Wire` and `exchange.cfg` gives them its values. `HostedGames` sees connections and logins at the
level of what `PrudpServer` and `TicketGranting` establish: a client is connected with a user or it is
of no interest.

### PrudpServer

The variables are the private maps of the class; a client record holds `userId`, `connectionId`,
`fragments` (`packetFragments`) and the *age* of `lastSeen` in ticks (`idle`), so that time itself
does not grow. Ages beyond the timeout are all alike. Two parts are history: `silent`, the age of
the last packet from the client, whether the code calls `seen()` for it or not, and `issued`.

Handlers answer to any packet at any time, which covers loss, repetition and reordering; packets a
handler ignores (an unknown signature, an ACK) are stutters, unless they matter to `silent`. A
CONNECT carries no ticket, one that cannot be opened, an expired one, a good one, or one whose
challenge does not decode: in the last case the code has already assigned the identity, and so does
the model. `randomU32` draws any signature; `AllowCollisions` says whether it may be one in use.
The registered handlers are opaque: those of the secure service never write to the server's
state. (Those of the authentication service set `userId`; that is the subject of `TicketGranting`, and
`IdentityIsWhole` and `IdentityIsSettled` are about the secure service.)

### FragmentedChannel

One connection whose packets arrive in order. The game numbers the chunks of a message 1, 2, ...
and marks the last one 0 (as the test client does "like the game"); up to `MaxLosses` packets are
lost, and any packet, fragment 0 included, may arrive again and again, with up to `MaxRepeats` copies in
all (`ReceiveCopy`), as when its ACK is lost. The code neither rejects nor recognises a copy: one of a
chunk that is buffered replaces it, one of a fragment 0 finds the buffer empty and is handed to the
handler as a message of its own. A copy comes next to its packet. Reordering is left out on purpose: the
code neither sorts nor promises anything then. A chunk is a unit long and carries its message and number, so that
a delivery shows what it was made of.

### TicketGranting

Connections are `ClientInfo` objects: `userId` stays readable after the connection ended, because a
`loginEx` that is still waiting writes to it. Wrong passwords, unknown accounts and refused requests
change nothing. Only tickets encrypted with the public default password are recorded, since only
those can be read without the account's password. An account that is registered later has no
plaintext password; it may have the id of one that was deleted, but not of one with a plaintext
password, whose ids are the lowest and are not free again while others exist. Ids that are given out
again are the reason `TicketsAreEarned` speaks of the password of *an* account with that id.

### HostedGames

`auth` and `secure` map logged in clients to users. `Cleanup` is `deleteUserSession` or its failure,
which the callback logs and forgets; `uncleaned` remembers it. `DeleteUser` cascades like the
foreign keys, `RegisterUser` may reuse an id, and `CreateSession` takes the successor of the
highest id that is left, like SQLite. `Stop` is a crash or a shutdown (`shutdown` closes the sockets
without cleaning up after anyone), `Start` is `main` up to the start of the services. Initially the
database holds whatever an earlier run left. Tickets are valid for ever, so a client may
connect to the secure service as anybody who ever had an account.

### Platform

The tables are partial functions and sets of tuples; an action of `Storage` is a statement or
transaction of `storage.ts` with what the schema adds to it (keys, `CHECK`s, cascades, the invites that
block `deleteUser`, rowids that are the successor of the highest one left). A request may come from
any user id, connected or not, because tickets outlive accounts. `Login` and `Register` of the API are
split at their await; `TestP2P` is a socket, a timer and an answer that race. A behaviour has
one of the `Bounds`: games, or invites, or registrations and logins of two calls that overlap, or tests. Hosts, connections and failed cleanups stay
with `HostedGames`.

### Exchange and RmcExchange

Data is a sequence of *cells*: a number with its width, a text, a compressed or encrypted cell, the
fixed fields of a packet. Lengths count cells, so sizes, fragments, buffers and truncation are
arithmetic as in the code, without bytes. Reading a cell with another width than it was written with
fails, which is stricter than the code, where it yields nonsense. RC4 is its own inverse, checksum,
MAC and sealed boxes tell apart whatever differs.

`Services` has the handlers: a call sees the client and the *world*, what storage, settings and data
files hold; how the storage changes is left to the modules above. `Exchange` takes any `Handle`.
Datagrams hold one packet or two, one of which may be damaged or cut; copies are lost, repeated and
reordered. `Ignore`, `HandleFragment` and `HandleMessage` are `handlePacket` and `handleData` for one
packet (the next one of a datagram is handled before anything else), `Finish` is the continuation of
an asynchronous handler, possibly after its client left. A behaviour follows a *plan*: who connects,
what is called, which faults may happen. `MCExchange` derives a catalogue of plans from the protocol
definitions themselves: every method, small and large values, whole and cut short, by a user and by a
stranger. What a plan may be is said by `IsPlan`, which TLC evaluates for each of the catalogue and which
is all the proofs know of plans: protocol ids 127 to 254 are left out, since `encodeRmcRequest` writes them
in a way no reader reads back (`rmc/message.ts:67-70`) and no service registers one (`IsProtocolId`); a
message of more than one fragment is sent over a calm network only, which neither loses, repeats nor
reorders, because fragments of different messages have the same ids and the server cannot tell them
apart (`FragmentedChannel` has losses and copies of them); calls are
written by the codec, whole or cut where it shows; the clock is not beyond the end of all tickets
(`IsTimely`). The client side is that of `test/client.ts`. A value that `Wire` cannot write is an error of
the dispatcher, as in the code.

`Kerberos` seals and opens tickets and has `acceptTicket`; `Services` uses it for the answers to
logins. The handshake itself is one step here; it is the subject of `PrudpServer`.

### ServerProcess

A process is a record that tells where in `main` it is; every `await`, file write and transaction
boundary is a step, and a crash may come between any two of them. Writing a file takes two steps (a torn
file in between), a migration three (`BEGIN` and SQL, the row, `COMMIT`). Two processes may work on
one directory. A config is what can be wrong with it: missing or torn file, tables that are no
tables, unknown types, missing keys, addresses that are none, names repeated. Migrations are what they
create and need. A request to an HTTP service comes in chunks; `Data`, `End`, `FileRead`, `Close` and
`Deadline` are the callbacks of the socket.

## 3. The runs

| run | configuration | result |
|---|---|---|
| `server_table` | `MCPrudpServer`, no collisions | passes |
| `server_collisions` | `MCPrudpServer`, colliding signatures | passes |
| `server_silence` | `MCPrudpServer` | counterexample |
| `channel_losses` | `FragmentedChannel` | passes |
| `channel_oversized` | `FragmentedChannel`, no losses | counterexample |
| `tickets` | `MCTicketGranting` | passes |
| `tickets_late_login` | `MCTicketGranting`, one user | counterexample |
| `hosting` | `MCHostedGames` | passes |
| `hosting_urls` | `MCHostedGames`, no failures | counterexample |
| `platform` | `MCPlatform` | passes |
| `exchange` | `MCExchange` | passes |
| `process` | `MCServerProcess` | passes |

**server_table** (24,100 states). Two signatures, two users, timeout of 2 ticks, 3 logins, ids 0..3
starting at 2, so that the counter wraps. `ConnectionIndex`: ids and connected clients match in both
directions. `IdentityIsWhole`: a client has a user exactly if it has an id, even if accepting its
ticket failed half way. `IdentityIsSettled`: no packet changes who a connected client is.
`ImplementsRegistry`: the table refines `ConnectionRegistry`. `SilentClientsGo`: entries of either
map are heard of or removed, again and again.

**server_collisions** (126,208 states). With signatures that collide, a client in `clients` is
replaced by another one and its id then leads to the newcomer; `ImplementsRegistry` and
`NoDanglingIds` are not promised then. Still, `OwnIdResolves`: every logged in client is found under
its own id.

**server_silence**. The comment of `clearExpiredClients` says who is dropped was silent for the
timeout. `DueClientsWereSilent` fails: SYN, tick, CONNECT, tick, tick. `handleConnect` does not call
`seen()`, so the time since the SYN counts.

**channel_losses** (1,084,005 states). Three messages of up to 5 chunks, a buffer of 3 units, so that a
message may be too large; 2 losses and 2 copies. `LossIsContained`: what is neither hit by a loss nor
follows a message whose last packet was lost arrives unaltered. `GapsAreNoticed`: no message of a
size that fits is delivered with a hole, unless it follows one whose last packet was lost. Both have
the same open exception: when fragment 0 of a message comes again, each copy that finds the buffer
empty is delivered as one more message, which is that last chunk alone; nothing else of the message is
delivered after it was, and nothing at all but such copies if it was dropped for a gap. (The last
chunks before fragment 0 are no hole: fragment 0 does not carry its position, so the code cannot
notice that they are missing, and the model has no property that says otherwise.)
`BufferIsBounded`: the buffer never exceeds its limit. The run stops when the game has sent all its
messages, hence `CHECK_DEADLOCK FALSE`.

**channel_oversized**. "fragmented message exceeds ... bytes, dropping it": the buffer is dropped, the
rest of the message is not. If the limit is exceeded by the last fragment before 0, fragment 0 alone
is handed to the handler. `OversizedIsDropped` fails without any loss.

**tickets** (16,966 states up to symmetry). An account with and one without a plaintext password, two
connections, two calls that overlap. `TicketsAreEarned` and `SessionsHaveAccounts`.

**tickets_late_login**. CONNECT, `LoginEx`, departure, end of the verification: a `user_sessions` row
without any client, which the cleanup was meant to prevent. `SessionsHaveClients` fails.

**hosting** (66,698 states). Two players, one connection to the authentication service, two to the
secure service, two games, one failed cleanup. `HostsArePresent` and `CrashedHostsGo`.

**hosting_urls**. `UrlsStayWithHost` fails: a host registers its URLs, then its connection to the
authentication service ends, and the callback deletes the URLs (and would close its games).

**platform** (185,668 states). Two accounts at a time that may be deleted and registered anew under
another Ubisoft id, two games, or three invites, or P2P tests. `RowsHaveOwners`: no row outlives what
it refers to, whatever order accounts, games, seats, URLs and invites are deleted in.
`UbiIdsLeadBack`: lookups by Ubisoft id and by user id are inverse, although two registrations may
wait for their hash at once and both found the Ubisoft id free: with the check before the await only,
two calls violate it and one does not. `SearchesAgree` and `ModesStayApart`: the search by attributes, the search by participants
and the administrator's list tell the same of a session, and a search for one mode finds no session of
the other. `ReusedIdsStartEmpty`: a game id that comes back brings no players.
`ImplementsInviteQueue`: each invite is taken at most once and oldest first, although row ids are
reused. `TestsEnd`: every `TestP2P` ends, and then its socket is closed and its timer cleared.

**exchange** (11,017 states from 1,214 initial ones, one per plan). `HandlersGetWhatWasSent` and
`AnswersMatchCalls` are the two ends of a call, through RMC, fragments, compression, encryption and
datagrams: protocol ids below and above 0x7f, truncated parameters, unknown methods, handlers that
refuse, values that cannot be written, several fragments. `AnswersMatchCalls` excepts answers of more
than 256 fragments, whose ids do not fit a byte; here that is more than 4; the longest answer, that of
`fetch_config`, takes 4. `AnswersAreSentOnce`: a repeated request is executed and answered again, but
no copy twice. `StrangersGetNothing`: a client without a user gets no data from the secure service and
triggers no probe. `SequencesAreConsecutive`, `AnswersAreUnbroken`, `LateAnswersKeepTheirSession`:
whichever of the handlers that wait end first, with counters that wrap at 4.
`ProbesReachTheConnected`: a probe goes to a client that is connected and was named, at the address of
its handshake. `TicketsLetIn`: the ticket in the answer to a login opens with the password of the
account, or the default one if it has none, and with no other, and a CONNECT with it is accepted for
that user. `RequestsAreAnswered`: what a worker thread verifies is answered in the end.

**process** (75,491 states). Starts from nothing, from every older schema, from a database that a failed
migration left, with and without another process, with up to two crashes; thirteen configs; requests in
all sorts of pieces. `MigrationsAreWhole`: recorded is what the schema has, in order. `StartsAgain`: a
server alone on its files never refuses them, except a config whose first writing was cut short, which
it does not make again. `SessionsAreFresh`: once a service listens, sessions are of this run.
`TicketsOpen`: the secure service opens what the authentication service sealed, also after a restart if
the keys are kept, unless the file gives the two services keys that differ. `PublicIpIsAdvertised`: the addresses
a client is led to are the public one, but for URLs of a raw online configuration that are not written
the way the patterns of `setPublicIp` look for (`unmatched`): those keep the address of the file.
`AnswersFit`: at most one answer per request, the one its first line asks for, however it is cut; an
open connection whose line is there has it or waits for its file. A connection that the deadline destroys
while its file is read gets none.
`ConnectionsEnd`: no HTTP connection stays open.

Each property of a passing run has a mutant: a definition next to the one it replaces, named in its
comment, that a plausible bug would produce and that violates the property.

### Bounds

`Signatures`, `Users`, `Connections`, `Calls`, `Payloads` are small sets; two of each let actors
interfere, and no handler looks at more than one client besides the sweep of the expiry timer.
`IdSpace` stands for 2^32 and `SessionTimeout` for 60,000 ms. `MaxLogins` keeps ids unique (a
wrap-around of 2^32 logins onto a live connection is excluded, also in the theorems: `IdsSuffice`),
`MaxMessages`, `MaxChunks`, `MaxLosses`, `MaxRepeats` (copies in all), `MaxGames` and `MaxErrors` bound what would
otherwise grow.

In `platform`, two accounts suffice for an owner and a guest, and `people` lets a third one come under
an id that was given up; three invites are needed for a row id that is reused while an older invite is
left. Games, invites, and registrations and logins are explored in different behaviours (`Bounds`): no
statement touches two of them but `deleteUser`, and each of these sorts of behaviour has it. Two calls
of the API may wait at a time (`Calls`), since a registration disturbs another one only if both wait.

In `exchange`, `SequenceSpace`, `FragmentIdSpace` and `ChallengeSpace` are 4 so that their limits are
reached, `MaxPayload` is 61 cells so that a few answers need several fragments, the requests of some
plans come in fragments of 6 cells, `MaxReassembledSize` and `MaxDecompressedSize` are larger than
what is sent. Plans of the catalogue have one or two calls and no faults; the two plans with faults
have two clients, two calls, two repetitions and one loss. Numbers of more than 31 bits stand by some
other number; `Huge` is one that does not fit its type.

In `process`, `starts` and `crashes` of a world bound what may happen, two processes meet at the
transaction lock, and a request line may have 10 words, which the longest of the requests exceeds.

### Fairness

`Tick` and `ClearExpiredClients` are weakly fair: `attach` sets an interval timer that fires every
second whatever the clients do. `HostedGames` takes from this that a client that fell silent expires
(`Expire`). Nothing is assumed of the clients.

`FairSpec` of `Platform`: opening a socket succeeds or fails, and its timer fires. Of `Exchange`:
packets that were received are handled, and verification on a worker thread ends. Of `ServerProcess`:
the deadline of an HTTP connection, a timer of the socket, fires. No network, client or user is fair.

## 4. The proofs

TLAPS proves for all values of the constants that satisfy the `ASSUME`s:

| theorem | statement |
|---|---|
| `TypeCorrect` | `Spec => []TypeOK` of `PrudpServer` |
| `OwnIdsResolve` | `OwnIdResolves`, if `MaxLogins <= IdSpace` |
| `IndexCorrect` | `ConnectionIndex`, if moreover signatures do not collide |
| `IdentityWhole`, `IdentitySettled` | `IdentityIsWhole`, `IdentityIsSettled`, under the same assumptions |
| `RegistryImplemented` | `PrudpServer` implements `ConnectionRegistry`, under the same assumptions |
| `LoginTypes`, `TicketsEarned`, `SessionsKeepAccounts` | `TypeOK`, `TicketsAreEarned`, `SessionsHaveAccounts` of `TicketGranting` |
| `HostingTypes`, `HostsPresent` | `TypeOK`, `HostsArePresent` of `HostedGames` |
| `PlatformTypes`, `OwnersExist`, `UbiIdsUnique` | `TypeOK`, `RowsHaveOwners`, `UbiIdsLeadBack` of `Platform` |
| `IdsComeBackEmpty`, `InvitesInOrder` | `ReusedIdsStartEmpty`; `Platform` implements `InviteQueue` |
| `SearchesAlwaysAgree`, `ModesAreKeptApart` | `SearchesAgree`, `ModesStayApart` |
| `ChannelTypes`, `BufferStaysBounded` | `TypeOK`, `BufferIsBounded` of `FragmentedChannel` |
| `GapsAreAlwaysNoticed`, `LossStaysContained` | `GapsAreNoticed`, `LossIsContained`, copies of fragment 0 excepted as they are there |
| `AnswersStayUnbroken`, `AnswersKeepTheirSession` | `AnswersAreUnbroken`, `LateAnswersKeepTheirSession` of `Exchange`, while answers are messages |
| `SequencesStayConsecutive` | `SequencesAreConsecutive`, while moreover probes fit a packet |
| `EachJobIsAnsweredOnce` | `AnswersAreSentOnce`, while moreover answers have a fragment id for each fragment |
| `HandlersReadTheCalls` | `HandlersGetWhatWasSent` of `RmcExchange`, while answers are messages, for the plans of `IsPlan`: faults only for messages of one fragment, no protocol ids 127 to 254 |
| `ClientsReadTheirAnswers` | `AnswersMatchCalls`, while moreover answers have their fragment ids and the codec keeps what they hold |
| `StrangersAreShutOut` | `StrangersGetNothing`, while answers are messages with fragment ids |
| `ProbesGoToTargets` | `ProbesReachTheConnected`, if answers are messages, probes fit a packet and the codec keeps what asks for them |
| `TicketsAreGood` | `TicketsLetIn`, while answers are messages and the codec keeps what they hold |
| `MigrationsApplyWhole`, `SessionsOfThisRun` | `MigrationsAreWhole`, `SessionsAreFresh` of `ServerProcess` |
| `ServersStartAgain`, `TicketsStayOpen` | `StartsAgain`, `TicketsOpen` |
| `PublicIpReachesEveryAddress`, `EveryAnswerFits` | `PublicIpIsAdvertised`, unmatched URLs of raw text excepted as they are there; `AnswersFit` |

*PrudpServer.* `OwnIdResolves` is not inductive: a new id could be one that is in use. `IdInv` adds
that every id in use was issued before, that different clients have different ids, and that the next
id is the one after those issued; with fewer logins than ids the next id is then fresh (`NthId` is
injective below `IdSpace`). `IndexInv` adds, without collisions, that a half-open client has neither
identity nor connected namesake (`HalfOpen`) and that `connectionIds` has no other entries. The
refinement maps `live` to the ids `clientByConnectionId` finds and `used` to those issued: a CONNECT
with a ticket is `Register`, `RemoveClients` is `Release`, all else stutters.

*TicketGranting.* `TicketsAreEarned` needs to know that a client that is logged in as a user without a
plaintext password got there through `loginEx` (`LoginsAreProved`), and that a ticket nobody proved
the password for belongs to an account with a plaintext password that was deleted and does not come
back (`TicketsInv`).

*HostedGames.* `HostsArePresent` is inductive together with the types. The work is in the departures:
`CleanupHides` says that a cleanup stops advertising its user, or fails and is remembered, and that it
advertises nobody else.

*Platform.* The composition only touches the tables through the actions of `Storage`
(`StepsOfTables`), so each invariant is proved once per action. `RowsHaveOwners` is inductive with the
types. `UbiIdsLeadBack` follows from the key on Ubisoft ids (`UbisDiffer`), which is checked when the
hash is there, not when the registration begins. For the queue, `RowsInOrder` says that row ids are in
the order of sending, which holds although they are reused because a new row comes after all that are
left; then the row `takeInvite` takes is the oldest one of its receiver.

The two searches and the list are functions of the tables, so `SearchesAgree` and `ModesStayApart` need
no invariant but the types: they hold of the tables whatever operations led to them. What
has to be shown is what `LoadSession` makes of its rows, and that the search by attributes, which leaves out
the URLs of the one who asks (`FoundSessions`), still has those of the host, because it finds no games of
the one who asks.

*FragmentedChannel.* No step shows by itself that a message arrives unaltered, so the invariant locates
the server in what the game sends: `At(m, i)` says that the network holds what follows from packet i
of message m on (`IsStream`), that losses and repetitions lie before (`FaultsBefore`), that the buffer
is exactly the fragments of m that arrived (`BufferAt`), unless what came before m lost its
end or m is too large, and that all messages before m are done with (`DeliveredBefore`). Every packet
advances it by one, and a copy leaves it where it is. Once a copy of fragment 0 came, the buffer is empty
and m is done with although its last packet is still to come: what is delivered of m from then on are
copies of its end (`DeliveryAdded`, `EndArrives`). `Store` and `Reassemble` are sums and folds: their lemmas say that the buffered
size is the number of fragments, and that chunks 1, ..., n put together are the message.

*Exchange.* Nothing is assumed of `Handle`. What the theorems need of a handler's answers is a
hypothesis on the jobs so far: they are sequences (`AnswersAreMessages`), of no more fragments than
there are ids (`AnswersHaveFragmentIds`), and a probe fits a packet (`ProbesFit`). That `Dispatch`
answers so in every state of the `exchange` run was checked with TLC. `Inv` says of each connection
that its log is unbroken and that `serverSequenceId` is the length of the log plus one modulo
`SequenceSpace` (`IsLogOf`), and of each job that its client exists and its response is a message. A
step appends nothing or the fragments of one answer to one log. `ExchangeInv` adds that all in a log
are packets of the server for that connection, to where one of its requests came from (`PacketsInv`),
that the probes are numbered without a gap (`ProbesInv`), and that collecting the log gives as many messages
as jobs ended, with no fragment left over (`OnceInv`): the last is what makes the next answer start
afresh. The properties are about what the *client* reads, hence `ReceivedPacket`: a packet that was
compressed, encrypted and serialized is parsed to what it was. `Collect` is a fold over the log; its
lemmas follow it step by step.

*RmcExchange.* Plans are any that satisfy `IsPlan`, codecs any `Write` and `Read`. `IsDispatched` says
that `Handle` is `Dispatch`, as `exchange.cfg` has it. Two hypotheses are about the codec: the values
of the answers so far survive it (`AnswersReadBack`), and so do those of the calls that asked for a probe
(`ProbesReadBack`).

* Requests: `PlanInv` follows the pieces of a plan. What is on the network or in the server's hands is
  a piece that was sent (`FlightInv`), over a calm network it is the latest one (`CalmInv`), so the buffer
  of a connection is what its unfinished message has sent so far (`BufferInv`), and a job holds one whole
  message and what the handler makes of it (`MessageInv`). It is an invariant while answers are messages
  (`SentInv`). The rest is that a request is parsed to what was encoded, header, two ways to write a
  protocol id, and data.
* Answers: `HeldInv` adds that every message collected from a log is the response of a job that ended
  on that connection. Then the dispatcher is followed down to what a client reads:
  `ParseRmcPacket(response)` says the error, or carries the written value, that `Outcome` has for the call.
* Strangers: `StrangerInv` says of the secure service that a job was called by the user its connection
  has now, since no handler there changes who that is, and that nobody was sent a probe while only
  strangers have called. Of each handler it is shown that it refuses a stranger, or that its answer holds no
  data, and that no probe comes of it (`IsShut`, `IsProbing`, `IsDiscreet`).
* Probes: `Indexed` says that a connection id leads to the connection that has it. A step that
  appends a probe handles one message, its probes are those `ProbesFor` makes of what the call asks, and each
  is sent to what `connectionIds` finds: `ProbesReachTheConnected` is an action property, proved for each
  step from the invariant before and the hypotheses after it.
* Tickets: a login that succeeds holds `Ticket` for the account of that name, encrypted with its password;
  what is encrypted with a password is opened with it and nothing else, numbers and buffers in it are read
  as they were written, and a CONNECT that is made of it (`Knock`) is accepted until `VALID_FOREVER` with
  the key of the service, not with another key, not later, and not without its last cell. This needs no
  invariant beyond `MessageInv`.

*ServerProcess.* The steps are sorted by what they do to processes, database and tickets (`Step`, and
`Course` for the way through `main` and the files), and `Shape` keeps the records what they are.

* Migrations: `Whole` adds what an open transaction holds (`Pending`: the schema with one more
  migration, and its row once recorded, while nobody else commits) and that what a process has read or
  done is in the database for good (`Known`): this is what lets a second process skip a migration that the
  first one applied since.
* Sessions: `Fresh` adds that only one process is up, and that sessions are its own from the moment they
  were cleared.
* Public address: `Steady` says that the services of a process are those its config is parsed to
  with the public address put in, and the rest is about `ParseConfig`, whose loop over the names of
  services is a fold.
* Starting again: `Alone` (one process, so a transaction is its own or nobody's), `Counts` (starts and crashes
  left) and `Fit`: the config file is missing, fit, or was cut short *because of a crash*, and what a process
  read of it is one of these. Then no step of `main` refuses: each migration runs in a whole database
  (`NextRuns`), and the services of a fit config have sockets of their own. The proof showed that a fit config must
  also keep off the socket of the API, 50051, as `FitConfig` now says.
* Tickets: `Sealed` has that every process up has a number of its own, that its file's keys agree, and that
  a ticket with its number is sealed with the key of its services; `Lasting`, where the keys are kept, that there is
  one file, with keys, written before the first ticket. The proof showed that a file whose
  services have keys that differ separates them; `KeysAgree` is the part of the property that says so.
* HTTP: `Filled` has that a process listens only with a data file; `Held` has of each connection that
  it waits with all the text that came, without a newline and not too long, or was handled once, with a
  line that is the first line of the request, its text at the end, or a first part that is too long, and
  was answered for that line, or has the file for that line being read. `FirstLineStays` says that later
  chunks do not change the first line, and `PartsAreJudgedAlike` that a part that is too long is answered
  like its whole line. `LineAssumption`, that the served files have request lines below the
  limit (8 KiB in the code), is what makes a too long line one of no file.

The assumptions on worlds (`ProcessAssumption`) are that a database was left whole or refused by sqlx,
that counts are numbers, that a config file and requests are texts, and that the public address is one.

*Data.* `DataLemmas` replaces induction by the library's theorem that well-founded relations have
minimal elements (`LeastElement`, `NatSetInduction`, `SubsetInduction`), which takes no operator.
Sums over sets, `FoldLeft` and `FlattenSeq` are the unique solutions of their equations (`SumTableExists`,
`SumTableUnique` and their like), and what they compute follows from that.

Only model-checked:

* the liveness properties `SilentClientsGo`, `CrashedHostsGo`, `TestsEnd`, `RequestsAreAnswered` and
  `ConnectionsEnd`, which need fairness and `ENABLED`;
* that the codec reads back what it writes, for the values that are written: `WriteValue` and `ReadValue`
  recur over types, and induction over them is out of the prover's reach. The theorems about `RmcExchange`
  have it as their hypotheses on answers and calls. These, like the other hypotheses on jobs
  (`AnswersAreMessages`, `AnswersHaveFragmentIds`, `ProbesFit`) and the strengthened invariants, were
  checked with TLC over all states of the `exchange` run, with `Dispatch` and `Wire` in place, before they
  were used.

The `TypeOK`s of `TicketGranting`, `HostedGames` and `Platform` are proved and not run.

## 5. Where code and text disagree

Four places, each shown by a run and listed under `findings` in `PROJECT.json`: late CONNECTs
(`server_silence`), oversized messages (`channel_oversized`), logins that end too late
(`tickets_late_login`), and the cleanup of one service that hits the other (`hosting_urls`).

More oddities of the code are part of the models rather than findings, since nothing in the
repository promises otherwise:

* a config that was cut short while it was first written keeps the server from starting; `StartsAgain`
  excepts it, so no property here is about it;
* answers of more than 256 fragments cannot be put together (`AnswersMatchCalls` excepts them);
* a fragment 0 that comes twice, as when its ACK is lost, is handed to the handler a second time as a message of
  its own, even after the message it ends was dropped for a gap (`server.ts:261-301`; `LossIsContained` and
  `GapsAreNoticed` except it, `IsEndAgain`); for a message of one fragment this is the request once more, which
  `AnswersAreSentOnce` is about;
* `--public-ip` does not reach a raw online configuration that has, say, a space after a colon
  (`config.ts:300-303`; `PublicIpIsAdvertised` excepts its URLs, `Unreplaced`);
* the cleanup after a client leaves it seated in the games of others (`Platform` has it that way).

## 6. What is left

Worth doing next, in this order:

1. `Handshake`: game, network and `PrudpServer` together, with lost ACKs and retransmitted SYNs and
   CONNECTs, composed with `HostedGames`, instead of the one step of `Exchange`.
2. Seats of players who left (`storage.ts:194`): what searches promise about them, once something
   removes them.

## 7. Not modelled

* The cache of derived keys: an entry is what would be computed again.
* Cryptography and number formats: RC4, MD5, zlib, Argon2, the checksum's value and the encryption
  of tokens are abstracted to what they tell apart; buffers that end in the middle of a number, the texts
  of URLs and of JSON files and TOML as a syntax are not there. The first byte of a compressed payload, the ratio
  of the sizes, is taken to be other than 0 (`PayloadCells`): 0 is the mark of an uncompressed one.
* Of a raw online configuration it is said which of its two URLs the patterns of `setPublicIp` match, not
  why; each URL has one value, and its host has no colon.
* Another `api_server` in the config: the API listens on its default port, 50051 (`StartApi`, `FitConfig`).
* Protocol ids 127 to 254 (`IsProtocolId`), and messages of several fragments over a faulty network with
  handlers behind it (`IsPlan`); `FragmentedChannel` has them up to the handler.
* USER packets (NAT detection) and raw datagrams: they are answered from the datagram alone.
* Protocol definitions that no service registers: nothing runs them.
* Logging; the gRPC wire format.
* Scripts and fixtures of `bun-impl`, and everything outside of it: a first experiment in Node.js,
  Frida and proxy scripts, captures. They are the research that led to the server, not part of it.
