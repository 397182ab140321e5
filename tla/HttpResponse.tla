---------------------------- MODULE HttpResponse ----------------------------
(***************************************************************************)
(* http_response.c: how one response goes out on the socket.  Lengths are  *)
(* kept, contents are not: head and body count the bytes the socket took.  *)
(*                                                                         *)
(* write() and sendfile() take any part of what they are given.  EINTR in  *)
(* the two body loops changes nothing and is a stuttering step; in the one *)
(* write() of the header block it loses the block.                         *)
(***************************************************************************)
EXTENDS Integers

CONSTANTS
  HeadLen,    \* bytes of a header block
  ErrorLen,   \* bytes of the body of an error page
  NoResponse

ASSUME ResponseAssumption ==
  /\ HeadLen \in Nat \ {0}
  /\ ErrorLen \in Nat
  /\ NoResponse \notin
       [status : Int, connection : {"keep-alive", "close"}, content_length : Nat]

VARIABLES
  connected,  \* the client still takes bytes
  res,        \* the HttpResponse that was sent
  head,       \* bytes of its header block that were written
  body,       \* bytes of its body that were written
  remaining   \* of http_response_send_body and http_response_sendfile

wireVars == <<connected, res, head, body, remaining>>

HttpResponse(status, connection, length) ==
  [status |-> status, connection |-> connection, content_length |-> length]

WireInit ==
  /\ connected = TRUE
  /\ res = NoResponse
  /\ head = 0
  /\ body = 0
  /\ remaining = 0

\* The client goes away; from now on writes fail (SIGPIPE is ignored).
Disconnect == connected /\ connected' = FALSE /\ UNCHANGED <<res, head, body, remaining>>

\* One write(), whose result every caller ignores.
http_response_send_headers(r) ==
  /\ res' = r
  /\ head' \in IF connected THEN 0 .. HeadLen ELSE {0}
  /\ remaining' = r.content_length
  /\ UNCHANGED <<connected, body>>

Sent(n) ==
  /\ body' = body + n
  /\ remaining' = remaining - n
  /\ UNCHANGED <<connected, res, head>>

\* A round of the loop of http_response_send_body, and its return: everything
\* is written, or the write failed.
BodyRound == connected /\ \E n \in 1 .. remaining : Sent(n)

BodyReturns == (remaining = 0 \/ ~connected) /\ UNCHANGED wireVars

\* Faulty variant: sendfile() is asked for whatever the file holds.
SendsWholeFile(size) == connected /\ body < size /\ Sent(size - body)

\* A round of the loop of http_response_sendfile on a file of the given size
\* (the offset is the number of bytes sent).
SendfileRound(size) ==
  connected /\ \E n \in 1 .. remaining : body + n <= size /\ Sent(n)

\* Faulty variant: the loop does not end at the end of the file.
IgnoresEof(size) == (remaining = 0 \/ ~connected) /\ UNCHANGED wireVars

\* Its return: all sent, end of file, or an error; a descriptor that is not
\* of a regular file (negative size) is one.
SendfileReturns(size) ==
  (remaining = 0 \/ body >= size \/ ~connected) /\ UNCHANGED wireVars
=============================================================================
