------------------------------ MODULE SimpleHttp ------------------------------
(***************************************************************************)
(* The HTTP/1.0 responders for the online configuration and for files      *)
(* (simple-http.ts): what a connection is and how events change it.        *)
(*                                                                         *)
(* Text is a sequence of words and marks; lengths count these.             *)
(***************************************************************************)
EXTENDS Integers, Sequences, SequencesExt

CONSTANT MaxRequestLine   \* MAX_REQUEST_LINE, in words and marks

ASSUME HttpAssumption == MaxRequestLine \in Nat

Prefix == <<"GET", " ">>
Suffix == <<" ", "HTTP/1.1", "CR", "LF">>

\* A connection: the number of chunks that came and what is kept of them; handled
\* once the request line is; the file that is being read for it, if any; the
\* answers written; whether the client has ended its side; whether it is open.
NewConnection ==
  [chunks |-> 0, received |-> << >>, handled |-> FALSE, reading |-> << >>,
   answers |-> << >>, ended |-> FALSE, open |-> TRUE]

Respond(connection, status, body) ==
  [connection EXCEPT !.answers = Append(@, [status |-> status, body |-> body])]

\* serveContent: every request gets the content.
OnContentLine(connection, content) == Respond(connection, 200, content)

\* serveFiles: files are the paths that have one.
OnFileLine(connection, files) ==
  LET line == connection.received
      path == SubSeq(line, Len(Prefix) + 1, Len(line) - Len(Suffix))
  IN  CASE ~IsPrefix(Prefix, line) -> Respond(connection, 405, << >>)
        [] IsPrefix(Prefix, line) /\ ~IsSuffix(Suffix, line) -> Respond(connection, 400, << >>)
        [] IsPrefix(Prefix, line) /\ IsSuffix(Suffix, line) /\ path \notin files ->
             Respond(connection, 404, << >>)
        [] OTHER -> [connection EXCEPT !.reading = path]

\* The request line, once it is whole or too long, or the client has sent all.
Handle(connection, OnLine(_)) ==
  IF connection.handled THEN connection ELSE OnLine([connection EXCEPT !.handled = TRUE])

\* Mutant: what is after the request line is taken for a part of it.
UpToTheEnd(text) == text

UpToNewline(text) == SubSeq(text, 1, CHOOSE i \in DOMAIN text :
                                       text[i] = "LF" /\ \A j \in 1 .. i - 1 : text[j] # "LF")

\* The 'data' event.
Kept(connection, received, OnLine(_)) ==
  CASE connection.handled -> connection
    [] ~connection.handled /\ Contains(received, "LF") ->
         Handle([connection EXCEPT !.received = UpToNewline(received)], OnLine)
    [] ~connection.handled /\ ~Contains(received, "LF") /\ Len(received) > MaxRequestLine ->
         Handle([connection EXCEPT !.received = received], OnLine)
    [] OTHER -> [connection EXCEPT !.received = received]

OnData(connection, chunk, OnLine(_)) ==
  [Kept(connection, connection.received \o chunk, OnLine) EXCEPT !.chunks = @ + 1]

\* The 'end' event. The socket does not stay half open, it closes after this.
OnEnd(connection, OnLine(_)) == [Handle(connection, OnLine) EXCEPT !.ended = TRUE]

\* readFile is done. found: the file could be read.
OnFile(connection, found, content) ==
  [IF found THEN Respond(connection, 200, content) ELSE Respond(connection, 500, << >>)
     EXCEPT !.reading = << >>]

Destroyed(connection) == [connection EXCEPT !.open = FALSE]
===============================================================================
