---------------------------- MODULE ServerProcess ----------------------------
(***************************************************************************)
(* The server as a process (main.ts): what it does to its files and its    *)
(* database until its services listen, how it stops, and what it leaves    *)
(* behind when it is killed on the way.  Its HTTP services are served      *)
(* here; the others are the subject of the other modules, and a login is   *)
(* all that is seen of them.                                               *)
(*                                                                         *)
(* Processes share a directory: its config file, its data file and its     *)
(* database.  Writing a file takes two steps, a transaction three.         *)
(***************************************************************************)
EXTENDS Configuration, Migrations, SimpleHttp

CONSTANTS
  Procs,        \* processes
  Worlds,       \* what the processes may find and what may happen to them
  Users,        \* users that log in
  Requests      \* the numbers of the requests of the worlds

NoTransaction ==
  [proc |-> "nobody", database |-> EmptyDatabase, migration |-> 0, recorded |-> FALSE]

\* Whom a request goes to, and its chunks.
IsRequest(request) ==
  /\ request.proc \in Procs
  /\ request.chunks \in Seq(ToSet(request.chunks))
  /\ \A chunk \in ToSet(request.chunks) : chunk \in Seq(ToSet(chunk))

ASSUME ProcessAssumption ==
  /\ NoTransaction.proc \notin Procs
  /\ \A w \in Worlds :
       /\ DOMAIN w.requests \subseteq Requests
       /\ DOMAIN w.database = {"schema", "rows", "sessions"}
       /\ Applied(w.database) \subseteq AllMigrations
       /\ ~IsRefused(w.database) => IsWhole(w.database)
       /\ w.starts \in Nat /\ w.crashes \in Nat
       /\ IsText(w.configFile)
       /\ w.publicIp # NotAnAddress.host
       /\ \A r \in DOMAIN w.requests : IsRequest(w.requests[r])

VARIABLES
  world,        \* the one of the worlds this behaviour is in
  left,         \* how many starts and crashes may still happen
  database,     \* what is committed
  transaction,  \* the one transaction that may be open, or NoTransaction
  configFile, dataFile,
  keys,         \* number of ticket keys made so far
  procs,
  connections,  \* to the HTTP services, by the request of the world they are for
  tickets       \* history: the tickets of users, with what they were sealed with

files == <<configFile, dataFile, keys>>
vars == <<world, left, database, transaction, files, procs, connections, tickets>>

\* A process that does not run: why is the reason it stopped for.
Down(why) ==
  [at |-> "down", why |-> why, instance |-> 0, applied |-> {}, done |-> {},
   config |-> NoFile, services |-> << >>, listening |-> 0]

Init ==
  /\ world \in Worlds
  /\ left = [starts |-> world.starts, crashes |-> world.crashes]
  /\ database = world.database
  /\ transaction = NoTransaction
  /\ configFile = world.configFile
  /\ dataFile = world.dataFile
  /\ keys = 0
  /\ procs = [p \in Procs |-> Down("")]
  /\ connections = [r \in {} |-> NewConnection]
  /\ tickets = {}

-----------------------------------------------------------------------------
At(p, place) == procs[p].at = place
Goes(p, place) == procs' = [procs EXCEPT ![p].at = place]

\* The process is gone, with its sockets and an open transaction.
Exit(p, why) ==
  /\ procs' = [procs EXCEPT ![p] = Down(why)]
  /\ transaction' = IF transaction.proc = p THEN NoTransaction ELSE transaction
  /\ connections' = [r \in DOMAIN connections |->
                       IF world.requests[r].proc = p THEN Destroyed(connections[r])
                       ELSE connections[r]]
  /\ UNCHANGED <<world, database, files, tickets>>

\* Something throws: main().catch.
Fail(p, why) == Exit(p, why) /\ UNCHANGED left

\* Another process has the database locked.
Locked(p) == transaction.proc \notin {p, NoTransaction.proc}

-----------------------------------------------------------------------------
(***************************************************************************)
(* Storage.open: the migrations.                                           *)
(***************************************************************************)
\* Reads what is applied. Unless the world has overlapping processes, one is only
\* started when none runs.
Start(p) ==
  /\ At(p, "down")
  /\ left.starts > 0
  /\ world.overlap \/ \A q \in Procs : At(q, "down")
  /\ left' = [left EXCEPT !.starts = @ - 1]
  /\ \/ /\ ~IsRefused(database)
        /\ procs' = [procs EXCEPT ![p] =
                       [Down("") EXCEPT !.at = "migrating",
                                        !.instance = world.starts - left.starts + 1,
                                        !.applied = Applied(database)]]
        /\ UNCHANGED <<world, database, transaction, files, connections, tickets>>
     \/ /\ IsRefused(database) \/ Locked(p)
        /\ Exit(p, IF IsRefused(database) THEN "refused" ELSE "locked")

\* Mutant: a migration runs outside of its transaction.
RunMigrationAtOnce(p, i) ==
  /\ transaction' = [proc |-> p, database |-> Run(database, MIGRATIONS[i]), migration |-> i,
                     recorded |-> FALSE]
  /\ database' = Run(database, MIGRATIONS[i])

\* In a transaction.
RunMigration(p, i) ==
  /\ transaction' = [proc |-> p, database |-> Run(database, MIGRATIONS[i]), migration |-> i,
                     recorded |-> FALSE]
  /\ UNCHANGED database

BeginMigration(p) ==
  /\ At(p, "migrating")
  /\ transaction.proc # p
  /\ \E i \in DOMAIN MIGRATIONS :
       /\ IsNextMigration(i, procs[p].applied, procs[p].done)
       /\ \/ /\ ~Locked(p) /\ Runs(database, MIGRATIONS[i])
             /\ RunMigration(p, i)
             /\ UNCHANGED <<world, left, files, procs, connections, tickets>>
          \/ Locked(p) /\ Fail(p, "locked")
          \/ ~Locked(p) /\ ~Runs(database, MIGRATIONS[i]) /\ Fail(p, "migration")

RecordMigration(p) ==
  /\ At(p, "migrating")
  /\ transaction.proc = p /\ ~transaction.recorded
  /\ LET migration == MIGRATIONS[transaction.migration]
     IN  \/ /\ ~IsRecorded(transaction.database, migration)
            /\ transaction' = [transaction EXCEPT !.database = Record(@, migration),
                                                  !.recorded = TRUE]
            /\ UNCHANGED <<world, left, database, files, procs, connections, tickets>>
         \/ IsRecorded(transaction.database, migration) /\ Fail(p, "migration")

CommitMigration(p) ==
  /\ At(p, "migrating")
  /\ transaction.proc = p /\ transaction.recorded
  /\ database' = transaction.database
  /\ transaction' = NoTransaction
  /\ procs' = [procs EXCEPT ![p].done = @ \union {MIGRATIONS[transaction.migration]}]
  /\ UNCHANGED <<world, left, files, connections, tickets>>

FinishMigrations(p) ==
  /\ At(p, "migrating")
  /\ transaction.proc # p
  /\ ToApply(procs[p].applied, procs[p].done) = {}
  /\ Goes(p, "configuring")
  /\ UNCHANGED <<world, left, database, transaction, files, connections, tickets>>

-----------------------------------------------------------------------------
(***************************************************************************)
(* loadConfig and ensureDataDir.                                           *)
(***************************************************************************)
\* A missing file is made up, and written if it can be.
MakeConfig(p) ==
  /\ At(p, "configuring") /\ configFile = NoFile
  /\ keys' = keys + 1
  /\ procs' = [procs EXCEPT ![p].config = DefaultConfig(keys + 1),
                            ![p].at = IF world.unwritable THEN "parsing" ELSE "saving"]
  /\ UNCHANGED <<world, left, database, transaction, configFile, dataFile, connections, tickets>>

SaveConfig(p) ==
  /\ \/ At(p, "saving") /\ configFile' = PartialFile /\ Goes(p, "saved")
     \/ At(p, "saved") /\ configFile' = procs[p].config /\ Goes(p, "parsing")
  /\ UNCHANGED <<world, left, database, transaction, dataFile, keys, connections, tickets>>

ReadConfig(p) ==
  /\ At(p, "configuring") /\ configFile # NoFile
  /\ procs' = [procs EXCEPT ![p].config = configFile, ![p].at = "parsing"]
  /\ UNCHANGED <<world, left, database, transaction, files, connections, tickets>>

WithPublicIp(services) ==
  IF world.publicIp = "" THEN services ELSE SetPublicIp(services, world.publicIp)

\* parseConfig and setPublicIp.
Configure(p) ==
  /\ At(p, "parsing")
  /\ LET services == ParseConfig(procs[p].config, keys + 1)
     IN  \/ /\ ~IsConfig(procs[p].config)
            /\ Fail(p, "config")
         \/ /\ IsConfig(procs[p].config)
            /\ world.publicIp # "" /\ ~CanAdvertise(services)
            /\ Fail(p, "address")
         \/ /\ IsConfig(procs[p].config)
            /\ world.publicIp = "" \/ CanAdvertise(services)
            /\ procs' = [procs EXCEPT ![p].services = WithPublicIp(services), ![p].at = "preparing"]
            /\ keys' = keys + 1
            /\ UNCHANGED <<world, left, database, transaction, configFile, dataFile,
                           connections, tickets>>

\* The file of the content service, if there is none.
EnsureDataDir(p) ==
  /\ \/ At(p, "preparing") /\ dataFile # "absent" /\ Goes(p, "clearing") /\ UNCHANGED dataFile
     \/ At(p, "preparing") /\ dataFile = "absent" /\ Goes(p, "copying") /\ dataFile' = "partial"
     \/ At(p, "copying") /\ Goes(p, "clearing") /\ dataFile' = "whole"
  /\ UNCHANGED <<world, left, database, transaction, configFile, keys, connections, tickets>>

-----------------------------------------------------------------------------
(***************************************************************************)
(* Sessions are cleared, then the services listen one after the other.     *)
(***************************************************************************)
ClearSessions(p) ==
  /\ At(p, "clearing")
  /\ \/ /\ ~Locked(p)
        /\ database' = InvalidateSessions(database)
        /\ Goes(p, "listening")
        /\ UNCHANGED <<world, left, transaction, files, connections, tickets>>
     \/ Locked(p) /\ Fail(p, "locked")

Socket(service) == <<IF IsQuazal(service.type) THEN "udp" ELSE "tcp", service.listen.port>>
ApiSocket == <<"tcp", 50051>>

Serving(p) == 1 .. procs[p].listening
Sockets(p) ==
  {Socket(procs[p].services[i]) : i \in Serving(p)} \union (IF At(p, "running") THEN {ApiSocket} ELSE {})
InUse == UNION {Sockets(q) : q \in Procs}

Listen(p) ==
  LET next == procs[p].listening + 1
  IN  /\ At(p, "listening")
      /\ next <= Len(procs[p].services)
      /\ \/ /\ Socket(procs[p].services[next]) \notin InUse
            /\ procs' = [procs EXCEPT ![p].listening = next]
            /\ UNCHANGED <<world, left, database, transaction, files, connections, tickets>>
         \/ Socket(procs[p].services[next]) \in InUse /\ Fail(p, "port")

StartApi(p) ==
  /\ At(p, "listening")
  /\ procs[p].listening = Len(procs[p].services)
  /\ \/ /\ ApiSocket \notin InUse
        /\ Goes(p, "running")
        /\ UNCHANGED <<world, left, database, transaction, files, connections, tickets>>
     \/ ApiSocket \in InUse /\ Fail(p, "port")

\* SIGINT and SIGTERM. The sessions of the users stay in the database.
Shutdown(p) ==
  /\ At(p, "running")
  /\ Fail(p, "shutdown")

Crash(p) ==
  /\ ~At(p, "down")
  /\ left.crashes > 0
  /\ left' = [left EXCEPT !.crashes = @ - 1]
  /\ Exit(p, "crash")

\* A user logs in and gets a ticket, if need be while other services still start.
\* A database that is locked makes the login fail.
LogIn(p, i, u) ==
  /\ world.logins
  /\ i \in Serving(p) /\ procs[p].services[i].type = "authentication"
  /\ transaction = NoTransaction
  /\ database' = [database EXCEPT !.sessions = @ \union {u}]
  /\ tickets' = tickets \union {[user |-> u, key |-> procs[p].services[i].ticketKey,
                                 instance |-> procs[p].instance]}
  /\ UNCHANGED <<world, left, transaction, files, procs, connections>>

-----------------------------------------------------------------------------
(***************************************************************************)
(* The HTTP services.  A request of the world says whom it goes to, in     *)
(* which chunks it comes and whether the client ends its side after them.  *)
(***************************************************************************)
ContentPath == <<"/mp_balancing.ini">>
MissingPath == <<"/gone">>
ServedFiles == {ContentPath, MissingPath}

\* The request lines of the files are far from too long.
ASSUME LineAssumption ==
  \A path \in ServedFiles : Len(Prefix \o path \o Suffix) <= MaxRequestLine

ServiceOf(r) == world.requests[r].service
IsServing(p, type) == \E i \in Serving(p) : procs[p].services[i].type = type

OnlineConfig(p) ==
  LET i == CHOOSE i \in Serving(p) : procs[p].services[i].type = "config"
  IN  <<procs[p].services[i].sandboxUrl, procs[p].services[i].sandboxUrlWS>>

OnRequestLine(r, connection) ==
  IF ServiceOf(r) = "config" THEN OnContentLine(connection, OnlineConfig(world.requests[r].proc))
  ELSE OnFileLine(connection, ServedFiles)

Accept(r) ==
  /\ r \in DOMAIN world.requests \ DOMAIN connections
  /\ IsServing(world.requests[r].proc, ServiceOf(r))
  /\ connections' = [q \in DOMAIN connections \union {r} |->
                       IF q = r THEN NewConnection ELSE connections[q]]
  /\ UNCHANGED <<world, left, database, transaction, files, procs, tickets>>

Changes(r, connection) ==
  /\ connections' = [connections EXCEPT ![r] = connection]
  /\ UNCHANGED <<world, left, database, transaction, files, procs, tickets>>

IsOpen(r) == r \in DOMAIN connections /\ connections[r].open
Chunks(r) == world.requests[r].chunks

Data(r) ==
  /\ IsOpen(r) /\ connections[r].chunks < Len(Chunks(r))
  /\ Changes(r, OnData(connections[r], Chunks(r)[connections[r].chunks + 1],
                       LAMBDA c : OnRequestLine(r, c)))

End(r) ==
  /\ IsOpen(r) /\ connections[r].chunks = Len(Chunks(r)) /\ ~connections[r].ended
  /\ world.requests[r].ends
  /\ Changes(r, OnEnd(connections[r], LAMBDA c : OnRequestLine(r, c)))

\* A file of the data directory, whatever is in it, or one that does not exist.
FileRead(r) ==
  /\ IsOpen(r) /\ connections[r].reading # << >>
  /\ Changes(r, OnFile(connections[r], connections[r].reading = ContentPath, <<dataFile>>))

\* Both sides have ended, or the client's end has ended the server's.
Close(r) ==
  /\ IsOpen(r) /\ connections[r].ended
  /\ Changes(r, Destroyed(connections[r]))

\* Mutant: the timer is cleared once there is a request.
IsDueUnlessHandled(connection) == ~connection.handled
IsDue(connection) == TRUE

\* The timer destroys the socket, whether it is active or not.
Deadline(r) ==
  /\ IsOpen(r) /\ IsDue(connections[r])
  /\ Changes(r, Destroyed(connections[r]))

-----------------------------------------------------------------------------
Startup(p) ==
  \/ Start(p)
  \/ BeginMigration(p) \/ RecordMigration(p) \/ CommitMigration(p) \/ FinishMigrations(p)
  \/ MakeConfig(p) \/ SaveConfig(p) \/ ReadConfig(p) \/ Configure(p)
  \/ EnsureDataDir(p) \/ ClearSessions(p) \/ Listen(p) \/ StartApi(p)

Http(r) == Accept(r) \/ Data(r) \/ End(r) \/ FileRead(r) \/ Close(r) \/ Deadline(r)

Next ==
  \/ \E p \in Procs : Startup(p) \/ Shutdown(p) \/ Crash(p)
  \/ \E p \in Procs : \E i \in Serving(p), u \in Users : LogIn(p, i, u)
  \/ \E r \in DOMAIN world.requests : Http(r)

Spec == Init /\ [][Next]_vars

\* Timers fire; this is all the liveness needs.
Fairness == \A r \in Requests : WF_connections(Deadline(r))
FairSpec == Spec /\ Fairness

-----------------------------------------------------------------------------
(***************************************************************************)
(* Safety.                                                                 *)
(***************************************************************************)
IsUp(p) == ~At(p, "down") /\ ~At(p, "migrating")

\* However processes crash in the middle of the migrations or run them at the same
\* time: what is recorded is what the schema has, in the order of the migrations,
\* and a process goes on only with all of them.
MigrationsAreWhole ==
  ~IsRefused(world.database) =>
    /\ IsWhole(database)
    /\ \A p \in Procs : IsUp(p) => Applied(database) = AllMigrations

\* The directory a server that is on its own can start in.
FitConfig(file, publicIp) ==
  LET services == ParseConfig(file, NoKey)
  IN  /\ IsConfig(file)
      /\ publicIp # "" => CanAdvertise(services)
      /\ \A i, j \in DOMAIN services : Socket(services[i]) = Socket(services[j]) => i = j
      /\ \A i \in DOMAIN services : Socket(services[i]) # ApiSocket
IsFit ==
  /\ ~world.overlap
  /\ ~IsRefused(world.database)
  /\ world.configFile = NoFile \/ FitConfig(world.configFile, world.publicIp)

\* A server that is alone on its files never refuses them, however often it was
\* killed while it made them, but for one case: a config file whose writing was cut
\* short is not made again.
StartsAgain ==
  IsFit => \A p \in Procs :
    \/ procs[p].why \in {"", "crash", "shutdown"}
    \/ /\ procs[p].why = "config" /\ configFile = PartialFile
       /\ left.crashes < world.crashes

\* When services listen, the sessions in the database are of users who logged in to
\* this run of the server, not of users whom an earlier run left behind.
SessionsAreFresh ==
  ~world.overlap => \A p \in Procs : procs[p].listening > 0 =>
    \A u \in database.sessions :
      \E t \in tickets : t.user = u /\ t.instance = procs[p].instance

\* The ticket keys that a file gives the services it lists.
EnabledTables(file) ==
  {file.service[name] : name \in ToSet(file.services) \intersect DOMAIN file.service}
KeysOf(file) == {table.ticketKey : table \in {t \in EnabledTables(file) : IsQuazal(TypeOf(t))}}
HasKeys(file) == NoKey \notin KeysOf(file)
KeysAgree(file) == \A key, other \in KeysOf(file) : key = other

\* The ticket keys of a run outlive it: they are in the file, or it could be written.
KeysAreKept ==
  /\ ~world.overlap
  /\ IF world.configFile = NoFile THEN ~world.unwritable ELSE HasKeys(world.configFile)

\* A ticket is sealed with the key of the secure service, whether the services have
\* their keys from the file, the default or share one made on the way; and where the
\* keys are kept, tickets are good after a restart or a crash as well.  A file that
\* gives its services keys that differ is the one that separates them.
TicketsOpen ==
  KeysAgree(world.configFile) =>
    \A t \in tickets : \A p \in Procs : \A i \in Serving(p) :
      /\ procs[p].services[i].type = "secure"
      /\ t.instance = procs[p].instance \/ KeysAreKept
      => procs[p].services[i].ticketKey = t.key

AddressesOf(service) ==
  CASE service.type = "authentication" -> {service.secureServerAddr}
    [] service.type = "secure" -> {service.storageHost}
    [] service.type = "config" -> {service.sandboxUrl, service.sandboxUrlWS}
    [] service.type = "content" -> {}
NoAddresses == {NoAddress, NotAnAddress}
Advertising(services) ==
  (UNION {AddressesOf(services[i]) : i \in DOMAIN services}) \ NoAddresses

\* What a service is to advertise with a public address: that one, at the ports of the
\* file, but for the URLs of a raw online configuration which no pattern matches.
OnlineUrls == {"sandboxUrl", "sandboxUrlWS"}
Unreplaced(service) ==
  IF service.type = "config" THEN {service[url] : url \in OnlineUrls \intersect service.unmatched}
  ELSE {}
Replaceable(service) ==
  IF service.type = "config" THEN {service[url] : url \in OnlineUrls \ service.unmatched}
  ELSE AddressesOf(service)
PublicAddresses(service, ip) ==
  (Unreplaced(service) \ NoAddresses)
    \union {Address(ip, a.port) : a \in Replaceable(service) \ NoAddresses}

\* With a public address, the addresses a client is led to on its way from the online
\* configuration to the content are that one, at the port the file has for each.  The
\* exception is an online configuration of raw text: a URL that its author has not
\* written the way the patterns of setPublicIp want it keeps the address of the file.
PublicIpIsAdvertised ==
  world.publicIp # "" => \A p \in Procs : procs[p].services # << >> =>
    LET parsed == ParseConfig(procs[p].config, NoKey)
    IN  Advertising(procs[p].services) =
          UNION {PublicAddresses(parsed[i], world.publicIp) : i \in DOMAIN parsed}

Arrived(r) == FlattenSeq(SubSeq(Chunks(r), 1, connections[r].chunks))
FirstLine(text) ==
  IF Contains(text, "LF") THEN SubSeq(text, 1, SelectInSeq(text, LAMBDA w : w = "LF")) ELSE text
IsGet(line) == \E path \in ServedFiles : line = Prefix \o path \o Suffix

\* What a file server may answer to a request line. A line that is too long may be
\* judged before all of it is there.
Statuses(line) ==
  CASE ~IsPrefix(Prefix, line) -> {405}
    [] line = Prefix \o ContentPath \o Suffix -> {200}
    [] line = Prefix \o MissingPath \o Suffix -> {500}
    [] OTHER -> (IF IsSuffix(Suffix, line) THEN {404} ELSE {400})
                \union (IF Len(line) > MaxRequestLine THEN {400} ELSE {})

Fits(r, answer) ==
  IF ServiceOf(r) = "config" THEN answer.status = 200
  ELSE /\ answer.status \in Statuses(FirstLine(Arrived(r)))
       /\ answer.status = 200 => answer.body # <<"absent">>

\* However the request is cut into chunks and whatever follows its first line, there
\* is at most one answer to it, the one the line asks for; and a connection that is
\* still open has got it or waits for a file.  A connection that the deadline destroys
\* while its file is read gets none.
AnswersFit ==
  \A r \in DOMAIN connections :
    /\ Len(connections[r].answers) <= 1
    /\ \A i \in DOMAIN connections[r].answers : Fits(r, connections[r].answers[i])
    /\ connections[r].open
       /\ (Contains(Arrived(r), "LF") \/ Len(Arrived(r)) > MaxRequestLine)
       => connections[r].answers # << >> \/ connections[r].reading # << >>

(***************************************************************************)
(* Liveness.                                                               *)
(***************************************************************************)
\* A connection ends, whatever its client does or leaves undone.
ConnectionsEnd == \A r \in Requests : IsOpen(r) ~> ~IsOpen(r)
===============================================================================
