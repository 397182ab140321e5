----------------------------- MODULE KeepAlive ------------------------------
(***************************************************************************)
(* keep_alive.c: the loop of handle_connection() on one TCP connection,    *)
(* against a client that sends its bytes in pieces of any size, pipelines  *)
(* or waits, falls silent, closes its side or resets the connection.       *)
(*                                                                         *)
(* A byte is its position in what the client sends.  What the parser makes *)
(* of the bytes is given by the stream: for request k the position of the  *)
(* last byte of its \r\n\r\n and of its last body byte, whether its head   *)
(* is well formed, and the keep_alive flag its headers lead to; and whether *)
(* the client pipelines.                                                   *)
(***************************************************************************)
EXTENDS Integers, Sequences

CONSTANTS
  Streams,                 \* the streams of requests a client may send
  KA_RECV_BUFFER_SIZE,
  KEEPALIVE_MAX_REQUESTS   \* 0 for no limit

Flags(n) == [1 .. n -> BOOLEAN]

IsStream(s) ==
  /\ s.n \in Nat
  /\ s.head \in [1 .. s.n -> Nat]
  /\ s.end \in [0 .. s.n -> Nat]
  /\ s.ok \in Flags(s.n)
  /\ s.keep \in Flags(s.n)
  /\ s.pipelining \in BOOLEAN
  /\ s.end[0] = 0
  /\ \A k \in 1 .. s.n : s.end[k - 1] + 4 < s.head[k] /\ s.head[k] <= s.end[k]
  /\ \A j, k \in 1 .. s.n : j < k => s.end[j] < s.head[k] - 4

ASSUME KeepAliveAssumption ==
  /\ \A s \in Streams : IsStream(s)
  /\ KA_RECV_BUFFER_SIZE \in Nat \ {0, 1}
  /\ KEEPALIVE_MAX_REQUESTS \in Nat

VARIABLES
  stream,     \* what this client sends
  sent,       \* bytes of it that have reached the server's socket
  peer,       \* the client's side: "open", "fin" or "reset"
  rcvd,       \* bytes recv() has returned
  buf,        \* buf[0 .. total-1]
  pc,         \* place in handle_connection
  req,        \* the request parsed last
  req_count,
  responses,  \* what was written to the client
  why,        \* how the loop ended
  armed       \* SO_RCVTIMEO is set on the socket

vars == <<armed, stream, sent, peer, rcvd, buf, pc, req, req_count, responses, why>>

Requests == 1 .. stream.n
content_length(k) == stream.end[k] - stream.head[k]

\* sizeof(buf) - 1: the last place is for the NUL.
Room == KA_RECV_BUFFER_SIZE - 1

NoRequest == 0
Response(status, k, connection) == [status |-> status, to |-> k, connection |-> connection]
Statuses == {"served", "error page", "400", "413"}
Reasons == {"-", "timeout", "fin", "reset", "400", "413", "Connection: close", "max requests"}

-----------------------------------------------------------------------------
(* The parser's view of the buffer.                                        *)

\* Faulty variant: the scan stops one byte early (i + 4 < len).
ScanStopsEarly(b) ==
  {i \in 4 .. Len(b) - 1 : \E k \in Requests : b[i] = stream.head[k] /\ b[i - 3] = b[i] - 3}

\* Where a \r\n\r\n ends in the buffer.
HeaderEnds(b) ==
  {i \in 4 .. Len(b) : \E k \in Requests : b[i] = stream.head[k] /\ b[i - 3] = b[i] - 3}

\* Past the first \r\n\r\n, and the request whose head that ends.
BodyStart(b) == CHOOSE i \in HeaderEnds(b) : \A j \in HeaderEnds(b) : i <= j
RequestIn(b) == CHOOSE k \in Requests : b[BodyStart(b)] = stream.head[k]

\* A head that does not start where the request starts is not well formed.
parse_http_request(b) ==
  IF HeaderEnds(b) = {} THEN "PARSE_INCOMPLETE"
  ELSE LET k == RequestIn(b) IN
       IF ~stream.ok[k] \/ b[1] # stream.end[k - 1] + 1 THEN "PARSE_ERROR"
       ELSE IF Len(b) - BodyStart(b) < content_length(k) THEN "PARSE_INCOMPLETE"
       ELSE "PARSE_OK"

\* Faulty variant: the body is forgotten.
ConsumesHeadOnly(b, k) == BodyStart(b)

http_request_consumed_bytes(b, k) == BodyStart(b) + content_length(k)

-----------------------------------------------------------------------------
\* Whether the timeout is set afterwards: setsockopt() may fail, which is logged
\* and otherwise ignored.
set_recv_timeout == BOOLEAN

\* Where the loop begins.
Init ==
  /\ stream \in Streams
  /\ sent = 0
  /\ peer = "open"
  /\ rcvd = 0
  /\ buf = <<>>
  /\ pc = "recv"
  /\ req = NoRequest
  /\ req_count = 0
  /\ responses = <<>>
  /\ why = "-"
  /\ armed \in set_recv_timeout

(* The client.                                                             *)

\* A client that does not pipeline holds request k + 1 back until it has k
\* responses.
MaySend(p) ==
  \/ stream.pipelining
  \/ \E k \in Requests : p <= stream.end[k] /\ k <= Len(responses) + 1

Send ==
  /\ peer = "open"
  /\ \E p \in sent + 1 .. stream.end[stream.n] :
       /\ MaySend(p)
       /\ sent' = p
  /\ UNCHANGED <<armed, stream, peer, rcvd, buf, pc, req, req_count, responses, why>>

Leave ==
  /\ peer = "open"
  /\ peer' \in {"fin", "reset"}
  /\ UNCHANGED <<armed, stream, sent, rcvd, buf, pc, req, req_count, responses, why>>

-----------------------------------------------------------------------------
(* handle_connection.                                                      *)

\* goto close_conn
CloseBecause(reason) == pc' = "close_conn" /\ why' = reason

\* The buffer is full and holds no complete request.
TooLarge ==
  /\ pc = "recv"
  /\ Len(buf) >= Room
  /\ responses' = Append(responses, Response("413", NoRequest, "close"))
  /\ CloseBecause("413")
  /\ UNCHANGED <<armed, stream, sent, peer, rcvd, buf, req, req_count>>

\* Faulty variant: the place of the NUL is handed to recv() as well.
TakesNulPlace == IF sent - rcvd < Room + 1 - Len(buf) THEN sent - rcvd ELSE Room + 1 - Len(buf)

\* recv() returns what has arrived, as far as there is room.
RecvCount == IF sent - rcvd < Room - Len(buf) THEN sent - rcvd ELSE Room - Len(buf)

\* buf after recv() returned.
Filled == buf \o [i \in 1 .. RecvCount |-> rcvd + i]

\* recv() returned bytes and the whole buffer is parsed again.
Receive ==
  /\ pc = "recv"
  /\ Len(buf) < Room
  /\ sent > rcvd
  /\ rcvd' = rcvd + RecvCount
  /\ buf' = Filled
  /\ \/ /\ parse_http_request(buf') = "PARSE_INCOMPLETE"
        /\ UNCHANGED <<pc, req, req_count, responses, why>>
     \/ /\ parse_http_request(buf') = "PARSE_ERROR"
        /\ responses' = Append(responses, Response("400", NoRequest, "close"))
        /\ CloseBecause("400")
        /\ UNCHANGED <<req, req_count>>
     \/ /\ parse_http_request(buf') = "PARSE_OK"
        /\ req' = RequestIn(buf')
        /\ req_count' = req_count + 1
        /\ pc' = "dispatch"
        /\ UNCHANGED <<responses, why>>
  /\ UNCHANGED <<armed, stream, sent, peer>>

\* Faulty variant: EAGAIN is retried like EINTR.
RetryTimeout ==
  /\ pc = "recv"
  /\ Len(buf) < Room
  /\ sent = rcvd
  /\ peer = "open"
  /\ UNCHANGED vars

\* SO_RCVTIMEO fired.
RecvTimeout ==
  /\ armed
  /\ pc = "recv"
  /\ Len(buf) < Room
  /\ sent = rcvd
  /\ peer = "open"
  /\ CloseBecause("timeout")
  /\ UNCHANGED <<armed, stream, sent, peer, rcvd, buf, req, req_count, responses>>

\* recv() returned 0 once everything sent was read, or failed; a reset may
\* also take with it bytes that had arrived.
RecvEnd ==
  /\ pc = "recv"
  /\ Len(buf) < Room
  /\ peer = "fin" => sent = rcvd
  /\ peer # "open"
  /\ CloseBecause(peer)
  /\ UNCHANGED <<armed, stream, sent, peer, rcvd, buf, req, req_count, responses>>

\* dispatch_request: serve_static() answers with the file or listing and the
\* Connection header the request asks for, or with an error page (400 to 405),
\* which always says "close".
Dispatch ==
  /\ pc = "dispatch"
  /\ \/ responses' = Append(responses,
          Response("served", req, IF stream.keep[req] THEN "keep-alive" ELSE "close"))
     \/ responses' = Append(responses, Response("error page", req, "close"))
  /\ pc' = "dispatched"
  /\ UNCHANGED <<armed, stream, sent, peer, rcvd, buf, req, req_count, why>>

\* Faulty variant: dispatch_request() always returns 1.
AlwaysKeep == TRUE

\* What dispatch_request() returned.
keep_alive == stream.keep[req]

\* Faulty variant: off by one.
MaxExceeded == KEEPALIVE_MAX_REQUESTS > 0 /\ req_count > KEEPALIVE_MAX_REQUESTS

MaxReached == KEEPALIVE_MAX_REQUESTS > 0 /\ req_count >= KEEPALIVE_MAX_REQUESTS

EndAfterResponse ==
  /\ pc = "dispatched"
  /\ ~keep_alive \/ MaxReached
  /\ CloseBecause(IF ~keep_alive THEN "Connection: close" ELSE "max requests")
  /\ UNCHANGED <<armed, stream, sent, peer, rcvd, buf, req, req_count, responses>>

\* Faulty variant: the leftover bytes are thrown away.
ForgetLeftover ==
  /\ pc = "dispatched"
  /\ keep_alive /\ ~MaxReached
  /\ buf' = <<>>
  /\ pc' = "recv"
  /\ UNCHANGED <<armed, stream, sent, peer, rcvd, req, req_count, responses, why>>

\* The sliding window: what is left of the buffer moves to its front.
Slide ==
  /\ pc = "dispatched"
  /\ keep_alive /\ ~MaxReached
  /\ LET consumed == http_request_consumed_bytes(buf, req)
     IN  buf' = IF consumed >= Len(buf) THEN <<>> ELSE SubSeq(buf, consumed + 1, Len(buf))
  /\ pc' = "recv"
  /\ UNCHANGED <<armed, stream, sent, peer, rcvd, req, req_count, responses, why>>

\* close(client_fd) and return to the worker.
CloseConn ==
  /\ pc = "close_conn"
  /\ pc' = "closed"
  /\ UNCHANGED <<armed, stream, sent, peer, rcvd, buf, req, req_count, responses, why>>

Closed == pc = "closed" /\ UNCHANGED vars

ServerStep ==
  \/ TooLarge \/ Receive \/ RecvTimeout \/ RecvEnd
  \/ Dispatch \/ EndAfterResponse \/ Slide \/ CloseConn

Next == Send \/ Leave \/ ServerStep \/ Closed

Spec == Init /\ [][Next]_vars

(* The worker keeps running: recv() returns when there is something to      *)
(* return and, by SO_RCVTIMEO, also when there is nothing for long enough.   *)
(* The writes of a response are assumed to return (no SO_SNDTIMEO is set).   *)
FairSpec == Spec /\ WF_vars(ServerStep)

-----------------------------------------------------------------------------
(* Properties.                                                             *)

\* Types of the variables; the request counter stays within its limit.
TypeOK ==
  /\ IsStream(stream)
  /\ sent \in Nat /\ rcvd \in Nat
  /\ peer \in {"open", "fin", "reset"}
  /\ buf \in Seq(Nat)
  /\ pc \in {"recv", "dispatch", "dispatched", "close_conn", "closed"}
  /\ req \in Requests \cup {NoRequest}
  /\ req_count \in 0 .. stream.n
  /\ KEEPALIVE_MAX_REQUESTS > 0 => req_count <= KEEPALIVE_MAX_REQUESTS
  /\ responses \in Seq([status : Statuses, to : Requests \cup {NoRequest},
                        connection : {"keep-alive", "close"}])
  /\ why \in Reasons
  /\ armed \in BOOLEAN

\* recv() never writes past the buffer and leaves a place for the NUL that is
\* stored behind the bytes, however requests are split and pipelined.
BufferInBounds == Len(buf) <= Room

\* Requests whose bytes the window has moved past.
Slid == IF pc = "recv" THEN req_count ELSE req_count - 1

\* The window starts at the first byte of a request, and holds every byte
\* received after the requests it has moved past: none is lost, repeated or
\* taken for part of another request.
WindowAligned ==
  pc \in {"recv", "dispatch", "dispatched"} =>
    buf = [i \in 1 .. rcvd - stream.end[Slid] |-> stream.end[Slid] + i]

\* Responses go out in the order of the requests, one for each: the i-th
\* answers the i-th request, and only the last can be a refusal.
AnsweredInOrder ==
  \A i \in 1 .. Len(responses) :
    \/ responses[i].to = i
    \/ responses[i].to = NoRequest /\ i = Len(responses) /\ pc \in {"close_conn", "closed"}

\* A request is refused with 400 only if its head is not well formed, and with
\* 413 only if it does not fit the buffer on its own, whatever the bytes around
\* it in the buffer.
RefusedRightly ==
  \A i \in 1 .. Len(responses) :
    /\ responses[i].status = "400" => i \in Requests /\ ~stream.ok[i]
    /\ responses[i].status = "413" =>
         i \in Requests /\ stream.end[i] - stream.end[i - 1] > Room

\* Nothing is answered after a request that asked to close, nor beyond
\* KEEPALIVE_MAX_REQUESTS.
CloseHonoured ==
  /\ \A i \in 1 .. Len(responses) - 1 : stream.keep[i]
  /\ KEEPALIVE_MAX_REQUESTS > 0 => Len(responses) <= KEEPALIVE_MAX_REQUESTS

\* A connection that ends for silence, or because the client finished sending,
\* has no request that was received completely and not answered.
Abandoned ==
  /\ why \in {"timeout", "fin"}
  /\ req_count < stream.n
  /\ rcvd >= stream.end[req_count + 1]

\* A client that waits for each answer before it sends the next request never
\* has a complete request left unanswered by a timeout or its own FIN.
NoRequestAbandoned == ~stream.pipelining => ~Abandoned

\* keep_alive.c: "This handles pipelining correctly: a client may send two
\* requests in one TCP segment": nor has a client that does not wait.
PipeliningHandled == ~Abandoned

\* handle_connection() returns, so the worker is free again: whatever the
\* client does or leaves undone when the timeout could be set, and also without
\* it once the client has gone.
ConnectionEnds == (armed \/ peer # "open") ~> (pc = "closed")

\* keep_alive.h on dispatch_request(): it returns "0 if it should close (i.e.
\* the response included "Connection: close")": the server reads no further
\* request after such a response.
ClosesAfterSayingClose ==
  pc = "recv" /\ responses # <<>> => responses[Len(responses)].connection = "keep-alive"
=============================================================================
