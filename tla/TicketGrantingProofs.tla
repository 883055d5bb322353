------------------------ MODULE TicketGrantingProofs ------------------------
(***************************************************************************)
(* What holds of the logins for any number of accounts, clients and        *)
(* overlapping calls.                                                      *)
(***************************************************************************)
EXTENDS TicketGranting, TLAPS

\* Every variable of the logins keeps its type (TicketGranting).
THEOREM LoginTypes == Spec => []TypeOK
<1>1. Init => TypeOK
  BY DEF Init, TypeOK, EmptyMap
<1>2. TypeOK /\ [Next]_vars => TypeOK'
  <2> SUFFICES ASSUME TypeOK, [Next]_vars PROVE TypeOK'
    OBVIOUS
  <2> USE DEF TypeOK
  <2>1. ASSUME NEW c \in Connections, Connect(c) PROVE TypeOK'
    BY <2>1 DEF Connect
  <2>2. ASSUME NEW c \in Connections, Leave(c) PROVE TypeOK'
    BY <2>2 DEF Leave
  <2>3. ASSUME NEW c \in Connections, NEW u \in Users, Login(c, u) PROVE TypeOK'
    BY <2>3 DEF Login, CreateUserSession
  <2>4. ASSUME NEW c \in Connections, NEW u \in Users, RequestTicket(c, u) PROVE TypeOK'
    BY <2>4 DEF RequestTicket, CreateUserSession
  <2>5. ASSUME NEW c \in Connections, NEW u \in Users, NEW k \in Calls, LoginEx(k, c, u)
        PROVE TypeOK'
    <3> DEFINE call == [client |-> c, user |-> u]
    <3>1. /\ DOMAIN verifying' = DOMAIN verifying \union {k}
          /\ \A l \in DOMAIN verifying' :
               verifying'[l] = call \/ (l \in DOMAIN verifying /\ verifying'[l] = verifying[l])
      <4>1. verifying' = Put(verifying, k, call)
        BY <2>5 DEF LoginEx
      <4> HIDE DEF call
      <4> QED BY <4>1 DEF Put
    <3>2. call \in [client : Connections, user : Users]
      OBVIOUS
    <3> HIDE DEF call
    <3> QED BY <2>5, <3>1, <3>2 DEF LoginEx
  <2>6. ASSUME NEW k \in Calls, LoginExSucceeds(k) PROVE TypeOK'
    <3>1. verifying' = Delete(verifying, {k})
      BY <2>6 DEF LoginExSucceeds
    <3>2. \A l \in DOMAIN verifying' : l \in DOMAIN verifying /\ verifying'[l] = verifying[l]
      BY <3>1 DEF Delete, Restrict
    <3>3. verifying[k].client \in Connections /\ verifying[k].user \in Users
      BY <2>6 DEF LoginExSucceeds
    <3> QED BY <2>6, <3>2, <3>3 DEF LoginExSucceeds, CreateUserSession
  <2>7. ASSUME NEW k \in Calls, LoginExFails(k) PROVE TypeOK'
    <3>1. verifying' = Delete(verifying, {k})
      BY <2>7 DEF LoginExFails
    <3>2. \A l \in DOMAIN verifying' : l \in DOMAIN verifying /\ verifying'[l] = verifying[l]
      BY <3>1 DEF Delete, Restrict
    <3> QED BY <2>7, <3>2 DEF LoginExFails
  <2>8. ASSUME NEW u \in Users, LeaveSecureService(u) \/ RegisterUser(u) \/ DeleteUser(u)
        PROVE TypeOK'
    BY <2>8 DEF LeaveSecureService, RegisterUser, DeleteUser
  <2>9. CASE Restart
    BY <2>9 DEF Restart, EmptyMap
  <2>10. CASE UNCHANGED vars
    BY <2>10 DEF vars
  <2> QED
    BY <2>1, <2>2, <2>3, <2>4, <2>5, <2>6, <2>7, <2>8, <2>9, <2>10 DEF Next
<1> QED
  BY <1>1, <1>2, PTL DEF Spec

-----------------------------------------------------------------------------
(***************************************************************************)
(* Why tickets are earned.  A client that is logged in as a user without a *)
(* plaintext password got there through LoginEx, so it proved that         *)
(* password.  A client may be logged in as a user with a plaintext         *)
(* password and have proved nothing; its tickets become readable when the  *)
(* account is deleted, but then the account does not come back.            *)
(***************************************************************************)
LoginsAreProved ==
  \A c \in Connections :
    userId[c] \in Users \ PlainUsers => <<c, userId[c]>> \in proved

TicketsInv ==
  \A t \in tickets : t \in proved \/ t[2] \in PlainUsers \ accounts

EarnedInv == TypeOK /\ LoginsAreProved /\ TicketsInv

\* Only a client that proved the password of an account gets a ticket for it
\* that it can read, whatever logins overlap and whatever accounts are deleted
\* meanwhile (login, loginEx, requestTicket).
THEOREM TicketsEarned == Spec => []TicketsAreEarned
<1>1. Init => LoginsAreProved /\ TicketsInv
  BY TicketAssumption DEF Init, LoginsAreProved, TicketsInv
<1>2. EarnedInv /\ [Next]_vars => (LoginsAreProved /\ TicketsInv)'
  <2> SUFFICES ASSUME EarnedInv, [Next]_vars PROVE (LoginsAreProved /\ TicketsInv)'
    OBVIOUS
  <2> USE DEF EarnedInv, LoginsAreProved, TicketsInv
  <2>1. ASSUME NEW c \in Connections, Connect(c) PROVE (LoginsAreProved /\ TicketsInv)'
    BY <2>1, TicketAssumption DEF Connect, TypeOK
  <2>2. ASSUME NEW c \in Connections, Leave(c) PROVE (LoginsAreProved /\ TicketsInv)'
    BY <2>2 DEF Leave
  <2>3. ASSUME NEW c \in Connections, NEW u \in Users, Login(c, u)
        PROVE (LoginsAreProved /\ TicketsInv)'
    <3>1. u \in PlainUsers /\ HasPassword(u)
      BY <2>3 DEF Login, MayLogin, HasPassword
    <3>2. LoginsAreProved'
      BY <2>3, <3>1 DEF Login, TypeOK
    <3>3. TicketsInv'
      BY <2>3, <3>1 DEF Login
    <3> QED BY <3>2, <3>3
  <2>4. ASSUME NEW c \in Connections, NEW u \in Users, RequestTicket(c, u)
        PROVE (LoginsAreProved /\ TicketsInv)'
    <3>1. <<c, u>> \in proved \/ u \in PlainUsers
      BY <2>4 DEF RequestTicket
    <3>2. ~HasPassword(u) => u \notin PlainUsers \/ u \notin accounts
      BY DEF HasPassword
    <3> QED BY <2>4, <3>1, <3>2 DEF RequestTicket
  <2>5. ASSUME NEW c \in Connections, NEW u \in Users, NEW k \in Calls, LoginEx(k, c, u)
        PROVE (LoginsAreProved /\ TicketsInv)'
    BY <2>5 DEF LoginEx
  <2>6. ASSUME NEW k \in Calls, LoginExSucceeds(k) PROVE (LoginsAreProved /\ TicketsInv)'
    BY <2>6 DEF LoginExSucceeds, TypeOK
  <2>7. ASSUME NEW k \in Calls, LoginExFails(k) PROVE (LoginsAreProved /\ TicketsInv)'
    BY <2>7 DEF LoginExFails
  <2>8. ASSUME NEW u \in Users, LeaveSecureService(u) \/ RegisterUser(u) \/ DeleteUser(u)
        PROVE (LoginsAreProved /\ TicketsInv)'
    BY <2>8 DEF LeaveSecureService, RegisterUser, DeleteUser
  <2>9. CASE Restart
    BY <2>9 DEF Restart
  <2>10. CASE UNCHANGED vars
    BY <2>10 DEF vars
  <2> QED
    BY <2>1, <2>2, <2>3, <2>4, <2>5, <2>6, <2>7, <2>8, <2>9, <2>10 DEF Next
<1>3. EarnedInv => TicketsAreEarned
  BY DEF EarnedInv, TicketsInv, TicketsAreEarned
<1>4. Spec => []TypeOK
  BY LoginTypes
<1> QED
  BY <1>1, <1>2, <1>3, <1>4, PTL DEF Spec, EarnedInv

\* No session row outlives its account, not even when a login ends after the
\* account was deleted (createUserSession, deleteUser).
THEOREM SessionsKeepAccounts == Spec => []SessionsHaveAccounts
<1>1. Init => SessionsHaveAccounts
  BY DEF Init, SessionsHaveAccounts
<1>2. SessionsHaveAccounts /\ [Next]_vars => SessionsHaveAccounts'
  BY DEF SessionsHaveAccounts, Next, vars, Connect, Leave, Login, RequestTicket, LoginEx,
         LoginExSucceeds, LoginExFails, LeaveSecureService, RegisterUser, DeleteUser,
         Restart, CreateUserSession
<1> QED
  BY <1>1, <1>2, PTL DEF Spec
=============================================================================
