------------------------------ MODULE ApiServer ------------------------------
(***************************************************************************)
(* The gRPC API of the launcher: logins, friends, invites, the P2P test    *)
(* and the administration.                                                 *)
(*                                                                         *)
(* Handlers run to completion, except where they await: the password is    *)
(* verified or hashed on a worker thread, and TestP2P waits for a socket   *)
(* and then for an answer or a timer.  A call that is refused changes      *)
(* nothing.                                                                *)
(***************************************************************************)
EXTENDS Storage

CONSTANT Calls   \* calls under way

VARIABLES
  tokens,   \* users with a token that opens with the key of this run
  waiting,  \* Login and Register calls that await: call -> what to go on with
  tests,    \* TestP2P calls: call -> "opening" or "waiting"
  sockets,  \* their UDP sockets that are open
  timers    \* their deadlines that are set

apiVars == <<tokens, waiting, tests, sockets, timers>>

Waiting ==
  [user : UserIds] \union [name : Names, ubi : Ubis \union {NoUbi}]

ApiOK ==
  /\ tokens \subseteq UserIds
  /\ DOMAIN waiting \subseteq Calls
  /\ \A c \in DOMAIN waiting : waiting[c] \in Waiting
  /\ DOMAIN tests \subseteq Calls
  /\ \A c \in DOMAIN tests : tests[c] \in {"opening", "waiting"}
  /\ sockets \subseteq Calls /\ timers \subseteq Calls

ApiInit ==
  /\ tokens = {} /\ waiting = EmptyMap
  /\ tests = EmptyMap /\ sockets = {} /\ timers = {}

Idle(c) == c \notin DOMAIN waiting \union DOMAIN tests

\* The token opens and names an account; tokens do not expire.
Authenticated(u) == u \in tokens /\ u \in DOMAIN users

-----------------------------------------------------------------------------
(***************************************************************************)
(* Users                                                                   *)
(***************************************************************************)
Login(c, u) ==
  /\ Idle(c) /\ u \in DOMAIN users
  /\ waiting' = Put(waiting, c, [user |-> u])
  /\ UNCHANGED <<tables, tokens, tests, sockets, timers>>

\* The account was looked up before the await and may be gone by now.
LoginVerified(c, valid) ==
  /\ c \in DOMAIN waiting /\ "user" \in DOMAIN waiting[c]
  /\ tokens' = IF valid THEN tokens \union {waiting[c].user} ELSE tokens
  /\ waiting' = Delete(waiting, {c})
  /\ UNCHANGED <<tables, tests, sockets, timers>>

Register(c, name, ubi) ==
  /\ Idle(c)
  /\ waiting' = Put(waiting, c, [name |-> name, ubi |-> ubi])
  /\ UNCHANGED <<tables, tokens, tests, sockets, timers>>

RegisterHashed(c) ==
  /\ c \in DOMAIN waiting /\ "name" \in DOMAIN waiting[c]
  /\ \/ InsertUser(waiting[c].name, waiting[c].ubi)
     \/ ~NotTaken(waiting[c].name, waiting[c].ubi) /\ UNCHANGED tables
  /\ waiting' = Delete(waiting, {c})
  /\ UNCHANGED <<tokens, tests, sockets, timers>>

-----------------------------------------------------------------------------
(***************************************************************************)
(* Friends, Misc                                                           *)
(***************************************************************************)
Invitation(i, u, ubi) ==
  /\ Authenticated(u)
  /\ \E receiver \in FindUserByUbiId(ubi) : AddInvite(i, u, receiver)
  /\ UNCHANGED apiVars

\* (A sender that is gone would answer NOT_FOUND after the invite was taken.)
Event(i, u) ==
  /\ Authenticated(u)
  /\ TakeInvite(i, u)
  /\ UNCHANGED apiVars

TestP2P(c, u) ==
  /\ Authenticated(u) /\ Idle(c)
  /\ tests' = Put(tests, c, "opening")
  /\ UNCHANGED <<tables, tokens, waiting, sockets, timers>>

\* The socket could not be opened: nothing to clean up yet.
TestFails(c) ==
  /\ c \in DOMAIN tests /\ tests[c] = "opening"
  /\ tests' = Delete(tests, {c})
  /\ UNCHANGED <<tables, tokens, waiting, sockets, timers>>

\* Mutant: the timer of the deadline is not set.
TestSendsWithoutTimer(c) ==
  /\ c \in DOMAIN tests /\ tests[c] = "opening"
  /\ tests' = Put(tests, c, "waiting")
  /\ sockets' = sockets \union {c}
  /\ UNCHANGED <<tables, tokens, waiting, timers>>

TestSends(c) ==
  /\ c \in DOMAIN tests /\ tests[c] = "opening"
  /\ tests' = Put(tests, c, "waiting")
  /\ sockets' = sockets \union {c}
  /\ timers' = timers \union {c}
  /\ UNCHANGED <<tables, tokens, waiting>>

\* The race is over; what follows the await runs before any other callback.
TestEnds(c) ==
  /\ tests' = Delete(tests, {c})
  /\ sockets' = sockets \ {c}
  /\ timers' = timers \ {c}
  /\ UNCHANGED <<tables, tokens, waiting>>

PeerAnswers(c) == c \in DOMAIN tests /\ tests[c] = "waiting" /\ c \in sockets /\ TestEnds(c)
DeadlinePasses(c) == c \in timers /\ TestEnds(c)

-----------------------------------------------------------------------------
(***************************************************************************)
(* UsersAdmin, GamesAdmin                                                  *)
(***************************************************************************)
AdminDeletesUser(ubi) ==
  /\ \E u \in FindUserByUbiId(ubi) : DeleteUser(u)
  /\ UNCHANGED apiVars

AdminDeletesGame(g) == DeleteGameSessionById(g) /\ UNCHANGED apiVars

\* The name of a host that is no participant is left empty.
AdminListsGames ==
  {[id |-> s.sessionId,
    creator |-> {users[u].name : u \in {s.creatorId} \cap DOMAIN s.participants},
    participants |-> {users[u].name : u \in DOMAIN s.participants \ {s.creatorId}}] :
     s \in ListGameSessions}
=============================================================================
