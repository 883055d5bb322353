--------------------------- MODULE TicketGranting ---------------------------
(***************************************************************************)
(* Logging in at the authentication service: the handlers of               *)
(* TicketGrantingProtocol, the accounts and the user_sessions table.       *)
(*                                                                         *)
(* LoginEx verifies the password on a worker thread.  Between its start    *)
(* and its end the client may send other requests, leave or expire, the    *)
(* account may be deleted, and other logins may end; all handlers else run *)
(* to completion and are single steps.  Failed requests change nothing and *)
(* are no steps, except that a LoginEx call comes to its end.              *)
(*                                                                         *)
(* Tickets are valid forever.  Only those matter that are encrypted with   *)
(* the public default password: a ticket that is encrypted with the        *)
(* plaintext password of the account is of use only to who knows it.       *)
(***************************************************************************)
EXTENDS Maps

CONSTANTS
  Users,        \* principal ids
  PlainUsers,   \* accounts that are stored with a plaintext password
  Connections,  \* connections of clients to the authentication service
  Calls,        \* LoginEx calls that may be waiting for the worker thread
  None          \* undefined

ASSUME TicketAssumption ==
  /\ PlainUsers \subseteq Users
  /\ None \notin Users

VARIABLES
  accounts,   \* rows of the users table
  sessions,   \* users with a row in user_sessions
  connected,  \* connections in the clients map of the server
  userId,     \* ClientInfo.userId of a connection, also after its end
  verifying,  \* call -> the client and the user it tries to log in
  proved,     \* history: <<c, u>> if the password of u was verified for c
  tickets     \* history: <<c, u>> if c got a ticket for u it can read

vars == <<accounts, sessions, connected, userId, verifying, proved, tickets>>

TypeOK ==
  /\ accounts \subseteq Users
  /\ sessions \subseteq Users
  /\ connected \subseteq Connections
  /\ userId \in [Connections -> Users \union {None}]
  /\ DOMAIN verifying \subseteq Calls
  /\ \A k \in DOMAIN verifying :
       verifying[k] \in [client : Connections, user : Users]
  /\ proved \subseteq Connections \X Users
  /\ tickets \subseteq Connections \X Users

\* The server starts with the migrated accounts and no sessions.
Init ==
  /\ accounts = Users
  /\ sessions = {}
  /\ connected = {}
  /\ userId = [c \in Connections |-> None]
  /\ verifying = EmptyMap
  /\ proved = {}
  /\ tickets = {}

-----------------------------------------------------------------------------
\* Mutant: without foreign keys.
CreateUserSessionUnchecked(u) == sessions' = sessions \union {u}

\* createUserSession in sessionKey: the foreign key refuses a user without an
\* account, and the error is only logged.
CreateUserSession(u) ==
  sessions' = IF u \in accounts THEN sessions \union {u} ELSE sessions

\* findPasswordForUser
HasPassword(u) == u \in accounts \intersect PlainUsers

\* A new connection. Its name may have been that of an older one that nothing in
\* the server refers to any more.
Connect(c) ==
  /\ c \notin connected
  /\ \A k \in DOMAIN verifying : verifying[k].client # c
  /\ connected' = connected \union {c}
  /\ userId' = [userId EXCEPT ![c] = None]
  /\ proved' = {p \in proved : p[1] # c}
  /\ tickets' = {t \in tickets : t[1] # c}
  /\ UNCHANGED <<accounts, sessions, verifying>>

\* Mutant: accounts without a plaintext password may log in, too.
MayAlwaysLogin(u) == TRUE

\* Password-less login. Its ticket is encrypted with the account's password.
MayLogin(u) == HasPassword(u)

Login(c, u) ==
  /\ c \in connected
  /\ u \in accounts /\ MayLogin(u)
  /\ userId' = [userId EXCEPT ![c] = u]
  /\ CreateUserSession(u)
  /\ tickets' = IF HasPassword(u) THEN tickets ELSE tickets \union {<<c, u>>}
  /\ UNCHANGED <<accounts, connected, verifying, proved>>

\* loginEx up to its await.
LoginEx(k, c, u) ==
  /\ c \in connected
  /\ u \in accounts
  /\ k \notin DOMAIN verifying
  /\ verifying' = Put(verifying, k, [client |-> c, user |-> u])
  /\ UNCHANGED <<accounts, sessions, connected, userId, proved, tickets>>

\* loginEx after its await, with the right password. call.client is the object
\* of the connection the request came from, whether it is still connected or not.
\* The ticket is always encrypted with the default password.
LoginExSucceeds(k) ==
  /\ k \in DOMAIN verifying
  /\ LET c == verifying[k].client
         u == verifying[k].user
     IN  /\ userId' = [userId EXCEPT ![c] = u]
         /\ CreateUserSession(u)
         /\ proved' = proved \union {<<c, u>>}
         /\ tickets' = tickets \union {<<c, u>>}
  /\ verifying' = Delete(verifying, {k})
  /\ UNCHANGED <<accounts, connected>>

LoginExFails(k) ==
  /\ k \in DOMAIN verifying
  /\ verifying' = Delete(verifying, {k})
  /\ UNCHANGED <<accounts, sessions, connected, userId, proved, tickets>>

RequestTicket(c, u) ==
  /\ c \in connected
  /\ userId[c] = u
  /\ CreateUserSession(u)
  /\ tickets' = IF HasPassword(u) THEN tickets ELSE tickets \union {<<c, u>>}
  /\ UNCHANGED <<accounts, connected, userId, verifying, proved>>

\* A client disconnects or expires: the cleanup callback deletes the rows of the
\* user it is logged in as.
Leave(c) ==
  /\ c \in connected
  /\ connected' = connected \ {c}
  /\ sessions' = sessions \ {userId[c]}
  /\ UNCHANGED <<accounts, userId, verifying, proved, tickets>>

\* The secure service calls the same deleteUserSession when a client leaves it.
LeaveSecureService(u) ==
  /\ u \in sessions
  /\ sessions' = sessions \ {u}
  /\ UNCHANGED <<accounts, connected, userId, verifying, proved, tickets>>

\* An account is registered through the API. It has no plaintext password.
RegisterUser(u) ==
  /\ u \notin accounts \union PlainUsers
  /\ accounts' = accounts \union {u}
  /\ UNCHANGED <<sessions, connected, userId, verifying, proved, tickets>>

\* The foreign key of user_sessions cascades.
DeleteUser(u) ==
  /\ u \in accounts
  /\ accounts' = accounts \ {u}
  /\ sessions' = sessions \ {u}
  /\ UNCHANGED <<connected, userId, verifying, proved, tickets>>

\* Connections and waiting calls do not survive; invalidateSessions clears the table.
Restart ==
  /\ connected' = {}
  /\ verifying' = EmptyMap
  /\ sessions' = {}
  /\ UNCHANGED <<accounts, userId, proved, tickets>>

Next ==
  \/ \E c \in Connections : Connect(c) \/ Leave(c)
  \/ \E c \in Connections, u \in Users :
       \/ Login(c, u)
       \/ RequestTicket(c, u)
       \/ \E k \in Calls : LoginEx(k, c, u)
  \/ \E k \in Calls : LoginExSucceeds(k) \/ LoginExFails(k)
  \/ \E u \in Users : LeaveSecureService(u) \/ RegisterUser(u) \/ DeleteUser(u)
  \/ Restart

Spec == Init /\ [][Next]_vars

-----------------------------------------------------------------------------
\* A readable ticket for an account is earned: whatever logins overlap, only a
\* client that proved the password of the account gets one. "accounts without a
\* plaintext password [...] are refused. Upstream encrypts their ticket with the
\* public default password, which would let anyone log in as them" (login).
TicketsAreEarned ==
  \A t \in tickets : t[2] \in accounts => t \in proved

\* No session row for an account that is gone, not even when the account is
\* deleted while its password is verified (createUserSession, deleteUser).
SessionsHaveAccounts == sessions \subseteq accounts

\* "Cleans up after a client disconnected or expired" (deleteUserSession): a
\* user_sessions row belongs to a client that is connected and logged in.
SessionsHaveClients ==
  \A u \in sessions : \E c \in connected : userId[c] = u
=============================================================================
