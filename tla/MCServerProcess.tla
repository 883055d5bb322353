--------------------------- MODULE MCServerProcess ---------------------------
(***************************************************************************)
(* Worlds for ServerProcess: first starts, upgrades and broken files, with *)
(* crashes at any step or two processes in one directory; edited configs;  *)
(* and requests to the HTTP services in all sorts of pieces.               *)
(***************************************************************************)
EXTENDS ServerProcess

CONSTANTS a, b, sam

MCProcs == {a, b}
MCUsers == {sam}

Basic ==
  [overlap |-> FALSE, unwritable |-> FALSE, publicIp |-> "", logins |-> FALSE,
   starts |-> 1, crashes |-> 0, database |-> EmptyDatabase, configFile |-> NoFile,
   dataFile |-> "absent", requests |-> << >>]

\* First starts and later ones, alone and at the same time.
FirstStarts ==
  {[Basic EXCEPT !.starts = 3, !.crashes = 2, !.logins = TRUE, !.unwritable = u] :
     u \in BOOLEAN}
  \union {[Basic EXCEPT !.overlap = TRUE, !.starts = 3, !.crashes = 1]}

Upgrades ==
  {[Basic EXCEPT !.overlap = o, !.starts = 2, !.crashes = 1, !.dataFile = "whole",
                 !.database = DatabaseAt(n, IF n >= 4 THEN {sam} ELSE {})] :
     o \in BOOLEAN, n \in {1, 4, 5}}
  \union {[Basic EXCEPT !.database.rows = {Row("init", FALSE)}]}

-----------------------------------------------------------------------------
Default == DefaultConfig(100)
Edit(name, table) == [Default EXCEPT !.service[name] = table]

\* No types and no keys; a default address twice; names repeated and unknown;
\* broken tables, addresses that are none, and raw content that is not matched.
Configs ==
  {Default,
   [Default EXCEPT !.services = <<"sc_bl_auth", "sc_bl_secure", "sc_bl_auth">>],
   [Default EXCEPT !.services = <<"sc_bl_auth", "sc_bl_secure", "content", "backup">>],
   [Default EXCEPT !.service = [name \in DOMAIN Default.service |->
      [Default.service[name] EXCEPT !.ticketKey = NoKey,
         !.type = IF name \in {"content", "onlineconfig"} THEN @ ELSE ""]]],
   [Edit("sc_bl_auth", [Default.service.sc_bl_auth EXCEPT !.listen = NoAddress])
      EXCEPT !.service.sc_bl_secure.listen = NoAddress],
   Edit("content", [Default.service.content EXCEPT !.type = "other"]),
   Edit("content", [Default.service.content EXCEPT !.listen = NoAddress]),
   Edit("sc_bl_secure", [Default.service.sc_bl_secure EXCEPT !.wellFormed = FALSE]),
   Edit("sc_bl_secure", [Default.service.sc_bl_secure EXCEPT !.storageHost = NotAnAddress]),
   Edit("onlineconfig", [Default.service.onlineconfig EXCEPT !.sandboxUrlWS = NotAnAddress])}
  \union {Edit("onlineconfig", [Default.service.onlineconfig EXCEPT !.unmatched = urls]) :
            urls \in {{"sandboxUrl"}, {"sandboxUrlWS"}, {"sandboxUrl", "sandboxUrlWS"}}}

Settled == [Basic EXCEPT !.database = DatabaseAt(5, {}), !.dataFile = "whole"]

Edited ==
  {[Settled EXCEPT !.configFile = file, !.publicIp = ip, !.logins = TRUE, !.starts = 2,
                   !.database.sessions = {sam}] : file \in Configs, ip \in {"", "203.0.113.7"}}

-----------------------------------------------------------------------------
Get(path) == Prefix \o path \o Suffix
LF == <<"LF">>
Long == [i \in 1 .. 12 |-> "a"]

\* A text in two chunks, cut after n words.
CutAt(n, text) == <<SubSeq(text, 1, n), SubSeq(text, n + 1, Len(text))>>

Texts ==
  {Get(ContentPath), Get(MissingPath), Get(<<"/nope">>), Get(ContentPath) \o Get(MissingPath),
   <<"PUT", " ">> \o ContentPath \o Suffix, Prefix \o ContentPath \o <<" ", "HTTP/1.0", "CR", "LF">>,
   Prefix \o Suffix, <<"GET">> \o Suffix, Prefix \o Long, Get(Long), << >>, LF, <<"GET">>,
   Get(ContentPath) \o <<"Host", "CR", "LF">>}

Asking(service, chunks, ends) == [proc |-> a, service |-> service, chunks |-> chunks, ends |-> ends]

OneRequest(request) ==
  [Settled EXCEPT !.configFile = Default, !.requests = <<request>>]

Requesting ==
  {OneRequest(Asking("content", CutAt(n, text), ends)) :
     n \in {0, 1, 6, 7}, text \in {t \in Texts : Len(t) >= 7}, ends \in BOOLEAN}
  \union {OneRequest(Asking(service, <<text>>, TRUE)) : service \in {"config", "content"}, text \in Texts}
  \union {[OneRequest(Asking("content", CutAt(3, Get(ContentPath)), FALSE)) EXCEPT
             !.requests = Append(@, Asking("config", <<Get(ContentPath)>>, TRUE)),
             !.dataFile = "absent", !.crashes = 1, !.publicIp = "203.0.113.7"]}

MCWorlds == FirstStarts \union Upgrades \union Edited \union Requesting
MCRequests == 1 .. 2
==============================================================================
