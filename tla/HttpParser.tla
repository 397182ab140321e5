----------------------------- MODULE HttpParser -----------------------------
(***************************************************************************)
(* http_parser.c: what parse_http_request() makes of the bytes received so *)
(* far.  It is a pure function of the whole buffer, called again after     *)
(* every recv().                                                           *)
(*                                                                         *)
(* A byte is a symbol.  Text that the parser only ever compares as a whole *)
(* (a version, a header's name, "close") is one symbol, so the limits are  *)
(* parameters, small in the instances.                                     *)
(***************************************************************************)
EXTENDS Integers, Sequences, SequencesExt, FiniteSetsExt

CONSTANTS
  Byte,        \* the symbols
  MAX_METHOD_LEN, MAX_PATH_LEN, MAX_HEADER_NAME, MAX_HEADER_VALUE,  \* with the NUL
  MAX_HEADERS,
  SIZE_MAX,    \* largest size_t and unsigned long
  lower,       \* tolower() on the symbols it changes
  NULL         \* no header, no request

CR == "CR"
LF == "LF"
SP == "SP"
TAB == "TAB"
CRLF == <<CR, LF>>

ASSUME ParserAssumption ==
  /\ {CR, LF, SP, TAB, ":", "?", "HTTP/1.0", "HTTP/1.1"} \subseteq Byte
  /\ {MAX_METHOD_LEN, MAX_PATH_LEN, MAX_HEADER_NAME, MAX_HEADER_VALUE, MAX_HEADERS} \subseteq Nat
  /\ SIZE_MAX \in Nat
  /\ NULL \notin Seq(Byte)

Result(r, req) == [result |-> r, req |-> req]
PARSE_OK(req) == Result("PARSE_OK", req)

\* *req is undefined on any other result.
PARSE_ERROR == Result("PARSE_ERROR", NULL)
PARSE_INCOMPLETE == Result("PARSE_INCOMPLETE", NULL)

\* Position of the first c in s, 0 for none.
memchr(s, c) == SelectInSeq(s, LAMBDA b : b = c)

From(s, i) == SubSeq(s, i, Len(s))
UpTo(s, i) == SubSeq(s, 1, i)

StripCR(s) == IF s # <<>> /\ Last(s) = CR THEN Front(s) ELSE s

-----------------------------------------------------------------------------
(* Looking up a header.                                                    *)

tolower(c) == IF c \in DOMAIN lower THEN lower[c] ELSE c

\* str_lower_cmp(a, b) == 0
SameLower(a, b) == Len(a) = Len(b) /\ \A i \in DOMAIN a : tolower(a[i]) = tolower(b[i])

http_get_header(headers, name) ==
  LET i == SelectInSeq(headers, LAMBDA h : SameLower(h.name, name))
  IN  IF i = 0 THEN NULL ELSE headers[i].value

Digits == <<"0", "1", "2", "3", "4", "5", "6", "7", "8", "9">>

\* The library's strtoul(s, NULL, 10): white space, a sign, digits; a number out
\* of range gives SIZE_MAX, and a minus sign negates modulo SIZE_MAX + 1.
strtoul(s) ==
  LET t == From(s, SelectInSeq(Append(s, "-"), LAMBDA c : c \notin {SP, TAB, CR}))
      u == IF t # <<>> /\ t[1] \in {"+", "-"} THEN Tail(t) ELSE t
      digits == UpTo(u, SelectInSeq(Append(u, "-"), LAMBDA c : memchr(Digits, c) = 0) - 1)
      number == FoldLeft(LAMBDA m, d : 10 * m + memchr(Digits, d) - 1, 0, digits)
  IN  IF number \notin 0 .. SIZE_MAX THEN SIZE_MAX
      ELSE IF t # u /\ t[1] = "-" /\ number # 0 THEN SIZE_MAX + 1 - number
      ELSE number

-----------------------------------------------------------------------------
(* The request line and the header lines.                                  *)

\* "METHOD path?query VERSION", with or without a CR at the end.
parse_request_line(line) ==
  LET sp1 == memchr(line, SP)
      rest == From(line, sp1 + 1)
      sp2 == memchr(rest, SP)
      target == UpTo(rest, sp2 - 1)
      qmark == memchr(target, "?")
      path == IF qmark = 0 THEN target ELSE UpTo(target, qmark - 1)
      query == IF qmark = 0 THEN <<>> ELSE From(target, qmark + 1)
      version == StripCR(From(rest, sp2 + 1))
  IN  IF /\ sp1 \in 2 .. MAX_METHOD_LEN
         /\ sp2 # 0
         /\ Len(path) < MAX_PATH_LEN /\ Len(query) < MAX_PATH_LEN
         /\ version \in {<<"HTTP/1.0">>, <<"HTTP/1.1">>}
      THEN PARSE_OK([method |-> UpTo(line, sp1 - 1), path |-> path, query |-> query,
                     version |-> version, headers |-> <<>>])
      ELSE PARSE_ERROR

\* Faulty variant: the white space before the value stays in it.
KeepsLeadingSpace(s) == StripCR(s)

\* The value: without the white space before it and the CR behind it.
FieldValue(s) ==
  StripCR(From(s, SelectInSeq(Append(s, CR), LAMBDA c : c \notin {SP, TAB})))

\* "Name: value": one more header for req.
parse_header_line(req, line) ==
  LET colon == memchr(line, ":")
      value == FieldValue(From(line, colon + 1))
  IN  IF /\ Len(req.headers) < MAX_HEADERS
         /\ colon \in 2 .. MAX_HEADER_NAME
         /\ Len(value) < MAX_HEADER_VALUE
      THEN PARSE_OK([req EXCEPT !.headers =
                       Append(@, [name |-> UpTo(line, colon - 1), value |-> value])])
      ELSE PARSE_ERROR
-----------------------------------------------------------------------------
(* The whole buffer.                                                       *)

\* Where \r\n\r\n begins.
Separators(raw) == {i \in 1 .. Len(raw) - 3 : SubSeq(raw, i, i + 3) = CRLF \o CRLF}

\* Faulty variant: the last \r\n\r\n in the buffer.
LastSeparator(raw) == IF Separators(raw) = {} THEN 0 ELSE Max(Separators(raw))

\* The first one; 0 while there is none.
header_end(raw) == IF Separators(raw) = {} THEN 0 ELSE Min(Separators(raw))

\* Faulty variant: the search for a line's \n stops at header_end.
HeadCutShort(raw) == UpTo(raw, header_end(raw) - 1)

\* The bytes the lines are looked for in: the + 2 of header_end + 2 takes in the
\* \n of the last line.
HeadOf(raw) == UpTo(raw, header_end(raw) + 1)

\* The line that starts at i, up to the next \n.
LineAt(head, i) == SubSeq(head, i, i + memchr(From(head, i), LF) - 2)

\* A round of the loop over the header lines: lines of at most one byte are
\* skipped, an error ends the loop.  header_end is Len(head) - 1.
HeaderRound(head, s) ==
  LET line == LineAt(head, s.cursor) IN
  IF s.parsed.result # "PARSE_OK" \/ s.cursor >= Len(head) - 1
       \/ memchr(From(head, s.cursor), LF) = 0
  THEN s
  ELSE [cursor |-> s.cursor + Len(line) + 1,
        parsed |-> IF Len(line) <= 1 THEN s.parsed ELSE parse_header_line(s.parsed.req, line)]

\* The request line ends at the first \n, which is looked for before header_end,
\* so the head has two lines or more.
parse_head(head) ==
  LET first == LineAt(head, 1)
      after[k \in 0 .. Len(head)] ==
        IF k = 0 THEN [cursor |-> Len(first) + 2, parsed |-> parse_request_line(first)]
        ELSE HeaderRound(head, after[k - 1])
  IN  IF Len(first) + 1 >= Len(head) THEN PARSE_ERROR ELSE after[Len(head)].parsed

\* The fields derived from the headers.
content_length(req) ==
  LET cl_str == http_get_header(req.headers, <<"content-length">>)
  IN  IF cl_str = NULL THEN 0 ELSE strtoul(cl_str)

keep_alive(req) ==
  LET conn == http_get_header(req.headers, <<"connection">>)
  IN  IF conn = NULL THEN req.version = <<"HTTP/1.1">> ELSE SameLower(conn, <<"keep-alive">>)

\* What is made of the body once the head is parsed.
parse_body(r, body_arrived) ==
  IF r.result # "PARSE_OK" THEN r
  ELSE IF Len(body_arrived) < content_length(r.req) THEN PARSE_INCOMPLETE
  ELSE PARSE_OK([request |-> r.req,
                 keep_alive |-> keep_alive(r.req),
                 content_length |-> content_length(r.req),
                 body |-> UpTo(body_arrived, content_length(r.req))])

parse_http_request(raw) ==
  IF header_end(raw) = 0 THEN PARSE_INCOMPLETE
  ELSE parse_body(parse_head(HeadOf(raw)), From(raw, header_end(raw) + 4))

\* Faulty variant: past the first three bytes of \r\n\r\n.
ConsumesOneLess(raw, req) == header_end(raw) + 2 + req.content_length

\* keep_alive.c: how much of the buffer an accepted request is.
http_request_consumed_bytes(raw, req) == header_end(raw) + 3 + req.content_length
=============================================================================
