------------------------------ MODULE MCPlatform ------------------------------
(***************************************************************************)
(* Instances of Platform for TLC: two accounts and two calls at a time,    *)
(* two games or three invites.                                             *)
(***************************************************************************)
EXTENDS Platform

CONSTANTS foo, sam, myid, samid, url, call, other

MCNames == {foo, sam}
MCUbis == {myid, samid}
MCUrls == {url}
MCCalls == {call, other}
MCTypes == {1}

Mode(value) == [id |-> GameModeId, value |-> value]
Count(value) == [id |-> PlayerCountId, value |-> value]

\* Coop, Spy vs Merc (changed from coop), and no mode at all.
MCAttributes == {<<Mode(0), Count(2)>>, <<Mode(0), Mode(1)>>, <<>>}
MCQueries == {<<>>, <<Count(1)>>, <<Mode(1), Count(1)>>}

Account(name, ubi) == [name |-> name, ubi |-> ubi, online |-> FALSE]
MCFounders == {<<Account(foo, myid), Account(sam, samid)>>,
               <<Account(foo, NoUbi), Account(sam, samid)>>}

Person(name, ubi) == [name |-> name, ubi |-> ubi]
Everybody == {Person(n, u) : n \in MCNames, u \in MCUbis}

Nothing == [games |-> FALSE, logins |-> FALSE, tests |-> FALSE, invites |-> 0, people |-> {}]
\* Games; invites between accounts that go and come again; registrations, logins and
\* deletions of anybody, two at a time; P2P tests.
MCBounds ==
  {[Nothing EXCEPT !.games = TRUE, !.people = {Person(sam, samid)}],
   [Nothing EXCEPT !.logins = TRUE, !.invites = 3, !.people = {Person(n, samid) : n \in MCNames}],
   [Nothing EXCEPT !.logins = TRUE, !.people = Everybody],
   [Nothing EXCEPT !.logins = TRUE, !.tests = TRUE]}
=============================================================================
