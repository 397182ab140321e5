--------------------------- MODULE RequestReader ----------------------------
(***************************************************************************)
(* The request that is read from a socket piece by piece: the receive loop *)
(* of handle_connection() with the parser itself, and with what the client *)
(* meant to compare its verdict with.                                      *)
(*                                                                         *)
(* The client sends a message, which is a request line, header fields and  *)
(* a body, each with its text and its meaning side by side, followed by    *)
(* another message; or any bytes at all.                                   *)
(***************************************************************************)
EXTENDS HttpParser

CONSTANTS
  Messages,   \* messages a client may send
  Following,  \* the message that comes next on the same connection
  Junk        \* bytes that mean nothing in particular

\* Lines end with CRLF, or all but the last with a bare LF; without the LF they
\* are:
SentLines(m) ==
  LET texts == <<m.start.text>> \o [i \in DOMAIN m.fields |-> m.fields[i].text]
  IN  [i \in DOMAIN texts |->
         IF m.bare /\ i < Len(texts) THEN texts[i] ELSE Append(texts[i], CR)]

RenderHead(m) ==
  FlattenSeq([i \in DOMAIN SentLines(m) |-> Append(SentLines(m)[i], LF)]) \o CRLF

Render(m) == RenderHead(m) \o m.body

VARIABLES
  msg,     \* the message the client sends, NULL for junk
  bytes,   \* everything it sends
  n,       \* how much recv() has returned
  parsed   \* what the parser made of that

readerVars == <<msg, bytes, n, parsed>>

Init ==
  /\ \/ msg \in Messages /\ bytes = Render(msg) \o Render(Following)
     \/ msg = NULL /\ bytes \in Junk
  /\ n = 0
  /\ parsed = PARSE_INCOMPLETE

\* recv() returns a piece of any length, and the whole buffer is parsed again.
\* This is the loop of handle_connection() as far as the parser is concerned; a
\* full buffer, a timeout, FIN and errors leave it and are actions of KeepAlive.
Recv ==
  /\ parsed.result = "PARSE_INCOMPLETE"
  /\ n' \in n + 1 .. Len(bytes)
  /\ parsed' = parse_http_request(UpTo(bytes, n'))
  /\ UNCHANGED <<msg, bytes>>

Spec == Init /\ [][Recv]_readerVars

-----------------------------------------------------------------------------
(* What a message means.                                                   *)

\* The first field that is a Content-Length or Connection header, 0 for none.
FirstField(m, kind) == SelectInSeq(m.fields, LAMBDA f : f.kind = kind)

BodyLength(m) ==
  LET i == FirstField(m, "Content-Length") IN IF i = 0 THEN 0 ELSE m.fields[i].means

Persistent(m) ==
  LET i == FirstField(m, "Connection")
  IN  IF i = 0 THEN m.start.version = <<"HTTP/1.1">> ELSE m.fields[i].means

WellFormed(m) ==
  /\ m.start.ok
  /\ \A i \in DOMAIN m.fields : m.fields[i].ok
  /\ Len(m.fields) <= MAX_HEADERS

\* The server does not take a request without header lines (NoneRefused).
Acceptable(m) == WellFormed(m) /\ Len(m.fields) > 0

Meaning(m) ==
  [request |->
     [method |-> m.start.method, path |-> m.start.path, query |-> m.start.query,
      version |-> m.start.version,
      headers |-> [i \in DOMAIN m.fields |->
                     [name |-> m.fields[i].name, value |-> m.fields[i].value]]],
   keep_alive |-> Persistent(m), content_length |-> BodyLength(m), body |-> m.body]

\* A request written out again, as a client would.
Written(r) ==
  LET target == IF r.request.query = <<>> THEN r.request.path
                ELSE r.request.path \o <<"?">> \o r.request.query
      line(h) == h.name \o <<":">> \o <<SP>> \o h.value
  IN  Render([start |-> [text |-> r.request.method \o <<SP>> \o target \o <<SP>> \o r.request.version],
              fields |-> [i \in DOMAIN r.request.headers |-> [text |-> line(r.request.headers[i])]],
              bare |-> FALSE, body |-> r.body])

-----------------------------------------------------------------------------
(* That texts and meanings of messages agree (RFC 7230, 3.1.1 and 3.2).    *)

IsRequestLine(text, method, target, version) ==
  /\ text = method \o <<SP>> \o target \o <<SP>> \o version
  /\ SP \notin ToSet(method) /\ SP \notin ToSet(target)
  /\ method # <<>> /\ Len(method) < MAX_METHOD_LEN
  /\ version \in {<<"HTTP/1.0">>, <<"HTTP/1.1">>}

IsTarget(target, path, query) ==
  /\ \/ target = path /\ query = <<>>
     \/ target = path \o <<"?">> \o query
  /\ "?" \notin ToSet(path)
  /\ Len(path) < MAX_PATH_LEN /\ Len(query) < MAX_PATH_LEN

\* The value starts behind the white space after the colon.
IsHeaderLine(text, name, value) ==
  /\ \E k \in 0 .. Len(text) - Len(name) - 1 :
       LET blanks == SubSeq(text, Len(name) + 2, Len(name) + 1 + k)
       IN  text = name \o <<":">> \o blanks \o value /\ ToSet(blanks) \subseteq {SP, TAB}
  /\ name # <<>> /\ Len(name) < MAX_HEADER_NAME /\ ":" \notin ToSet(name)
  /\ value # <<>> => value[1] \notin {SP, TAB}
  /\ Len(value) < MAX_HEADER_VALUE

\* What is said to be malformed can be cut into the parts nowhere.
IsStart(s) ==
  /\ s.text \in Seq(Byte)
  /\ s.ok => /\ {s.method, s.path, s.query, s.version} \subseteq Seq(Byte)
             /\ \E target \in {s.path, s.path \o <<"?">> \o s.query} :
                  IsRequestLine(s.text, s.method, target, s.version) /\ IsTarget(target, s.path, s.query)
  /\ ~s.ok => \A i, j \in DOMAIN s.text :
       LET target == SubSeq(s.text, i + 1, j - 1)
       IN  IsRequestLine(s.text, UpTo(s.text, i - 1), target, From(s.text, j + 1)) =>
             \A q \in 0 .. Len(target) : ~IsTarget(target, UpTo(target, q), From(target, q + 2))

IsField(f) ==
  /\ f.text \in Seq(Byte)
  /\ f.ok => /\ {f.name, f.value} \subseteq Seq(Byte)
             /\ IsHeaderLine(f.text, f.name, f.value)
  /\ ~f.ok => \A i, j \in 1 .. Len(f.text) + 1 :
                ~IsHeaderLine(f.text, UpTo(f.text, i - 1), From(f.text, j))

\* A text has no line feed in it, nor a CR at its end if lines end with a bare LF.
\* The text of a header line has more than one byte: others are skipped.
IsText(m) ==
  /\ IsStart(m.start)
  /\ DOMAIN m.fields = 1 .. Len(m.fields) /\ Len(m.fields) \in Nat
  /\ m.body \in Seq(Byte)
  /\ \A i \in DOMAIN m.fields : IsField(m.fields[i]) /\ Len(m.fields[i].text) > 1
  /\ \A text \in {m.start.text} \cup {m.fields[i].text : i \in DOMAIN m.fields} :
       LF \notin ToSet(text) /\ (m.bare /\ text # <<>> => Last(text) # CR)

\* What the two headers mean that the server looks at.
IsMessage(m) ==
  /\ IsText(m)
  /\ \A i \in DOMAIN m.fields : LET f == m.fields[i] IN
       /\ f.kind = "Content-Length" <=> f.ok /\ SameLower(f.name, <<"content-length">>)
       /\ f.kind = "Connection" <=> f.ok /\ SameLower(f.name, <<"connection">>)
       /\ f.kind = "Content-Length" => f.means = strtoul(f.value)
       /\ f.kind = "Connection" => f.means = SameLower(f.value, <<"keep-alive">>)

\* The body is as long as announced, or that length is out of reach.
IsWhole(m) ==
  \/ Len(m.body) = BodyLength(m)
  \/ Len(m.body) + Len(Render(Following)) < BodyLength(m)

ASSUME ReaderAssumption ==
  /\ \A m \in Messages : IsMessage(m) /\ (Acceptable(m) => IsWhole(m))
  /\ IsMessage(Following)
  /\ Junk \subseteq Seq(Byte)

-----------------------------------------------------------------------------
\* The connection loop's view of the two messages.
TheStream ==
  LET ms == <<msg, Following>>
      head == [k \in 1 .. 2 |-> Len(RenderHead(ms[k]))]
      end1 == head[1] + BodyLength(msg)
  IN  [n |-> 2, pipelining |-> TRUE,
       head |-> <<head[1], end1 + head[2]>>,
       end |-> [k \in 0 .. 2 |-> <<0, end1, end1 + head[2] + BodyLength(Following)>>[k + 1]],
       ok |-> [k \in 1 .. 2 |-> Acceptable(ms[k])],
       keep |-> [k \in 1 .. 2 |-> Persistent(ms[k])]]

KA == INSTANCE KeepAlive WITH
  Streams <- {}, KA_RECV_BUFFER_SIZE <- 2, KEEPALIVE_MAX_REQUESTS <- 0,
  stream <- TheStream, sent <- n, peer <- "open", rcvd <- n, buf <- [i \in 1 .. n |-> i],
  pc <- "recv", req <- 0, req_count <- 0, responses <- <<>>, why <- "-", armed <- TRUE

-----------------------------------------------------------------------------
(* Properties.                                                             *)

\* The verdict and the request do not depend on how the bytes were cut into
\* pieces: whatever the parser says of fewer bytes is "incomplete" or the same,
\* and of more bytes, with the next requests behind, the same.
SegmentationIndependent ==
  \A p \in 0 .. Len(bytes) :
    LET r == parse_http_request(UpTo(bytes, p)) IN
      /\ p <= n => r = PARSE_INCOMPLETE \/ r = parsed
      /\ p >= n /\ parsed # PARSE_INCOMPLETE => r = parsed

\* A message is accepted with its last byte, not before, and as what the client
\* meant; one that is not well formed, or has no header lines, is refused with the
\* last byte of its head.
AsMeant ==
  msg # NULL =>
    parsed = IF n < Len(RenderHead(msg)) THEN PARSE_INCOMPLETE
             ELSE IF ~Acceptable(msg) THEN PARSE_ERROR
             ELSE IF n < Len(RenderHead(msg)) + BodyLength(msg) THEN PARSE_INCOMPLETE
             ELSE PARSE_OK(Meaning(msg))

\* What is accepted is a request: written out, it is parsed as itself, whatever
\* odd bytes it came from.
RoundTrip ==
  parsed.result = "PARSE_OK" /\ parsed.req.request.headers # <<>> =>
    parse_http_request(Written(parsed.req)) = parsed

\* KeepAlive's parser, which sees positions in place of bytes, gives the verdict
\* of this one, and the same length to slide the window by.
AgreesWithKeepAlive ==
  msg # NULL =>
    LET window == [i \in 1 .. n |-> i] IN
      /\ KA!parse_http_request(window) = parsed.result
      /\ parsed.result = "PARSE_OK" =>
           /\ http_request_consumed_bytes(UpTo(bytes, n), parsed.req)
                = KA!http_request_consumed_bytes(window, 1)
           /\ parsed.req.keep_alive = TheStream.keep[1]

\* http_parser.h: PARSE_ERROR is "Malformed request - send 400": a well-formed
\* request is not refused, also when it has no header lines.
NoneRefused == msg # NULL /\ WellFormed(msg) => parsed.result # "PARSE_ERROR"
=============================================================================
