-------------------------- MODULE MCRequestReader ---------------------------
(***************************************************************************)
(* RequestReader on messages put together from a table of request lines    *)
(* and header fields, each with its meaning, and on short runs of bytes    *)
(* where the parser has most to decide.                                    *)
(***************************************************************************)
EXTENDS RequestReader

AnyString == STRING

Lower == [c \in {"CONNECTION", "KEEP-ALIVE", "CONTENT-LENGTH"} |->
            CASE c = "CONNECTION" -> "connection"
              [] c = "KEEP-ALIVE" -> "keep-alive"
              [] OTHER -> "content-length"]

V11 == <<"HTTP/1.1">>
V10 == <<"HTTP/1.0">>

Start(text, method, path, query, version) ==
  [text |-> text, ok |-> TRUE, method |-> method, path |-> path, query |-> query,
   version |-> version]

BadStart(text) == [Start(text, <<>>, <<>>, <<>>, V11) EXCEPT !.ok = FALSE]

Plain == Start(<<"G", SP, "/", SP>> \o V11, <<"G">>, <<"/">>, <<>>, V11)

\* Methods of at most 2 and paths and queries of at most 3 symbols.
Starts == {
  Plain,
  Start(<<"G", "H", SP, "/", "a", "b", SP>> \o V10, <<"G", "H">>, <<"/", "a", "b">>, <<>>, V10),
  Start(<<"G", SP, "/", "?", "q", "?", "r", SP>> \o V11, <<"G">>, <<"/">>, <<"q", "?", "r">>, V11),
  BadStart(<<"/", SP>> \o V11),
  BadStart(<<SP, "/", SP>> \o V11),
  BadStart(<<"G", "H", "I", SP, "/", SP>> \o V11),
  BadStart(<<"G", SP, "/", "a", "b", "c", SP>> \o V11),
  BadStart(<<"G", SP, "/", "?", "q", "q", "q", "q", SP>> \o V11),
  BadStart(<<"G", SP, "/", SP, "HTTP/2.0">>),
  BadStart(<<"G", SP, "/", SP>>)}

Field(text, name, value, kind, means) ==
  [text |-> text, ok |-> TRUE, name |-> name, value |-> value, kind |-> kind, means |-> means]

Other(text, name, value) == Field(text, name, value, "other", 0)

BadField(text) == [Other(text, <<>>, <<>>) EXCEPT !.ok = FALSE]

\* A Content-Length of the given digits.
Sized(name, digits, number) ==
  Field(<<name, ":", SP>> \o digits, <<name>>, digits, "Content-Length", number)

\* A Connection header.
Asks(name, value, keep) ==
  Field(<<name, ":", value>>, <<name>>, <<value>>, "Connection", keep)

Simple == Other(<<"A", ":", SP, "x">>, <<"A">>, <<"x">>)

\* Names of at most 2 and values of at most 3 symbols; SIZE_MAX is 99.
Fields == {
  Simple,
  Other(<<"A", "B", ":", SP, TAB, SP, "x", SP, ":">>, <<"A", "B">>, <<"x", SP, ":">>),
  Other(<<"A", ":">>, <<"A">>, <<>>),
  Sized("content-length", <<"2">>, 2),
  Sized("CONTENT-LENGTH", <<"0", "1">>, 1),
  Sized("content-length", <<"+", "1", "x">>, 1),
  Sized("content-length", <<"-", "1">>, 99),
  Sized("content-length", <<"1", "0", "0">>, 99),
  Sized("content-length", <<"x">>, 0),
  Asks("connection", "close", FALSE),
  Asks("CONNECTION", "KEEP-ALIVE", TRUE),
  BadField(<<"A", SP, "x">>),
  BadField(<<":", "x">>),
  BadField(<<"A", "B", "C", ":", "x">>),
  BadField(<<"A", ":", "w", "x", "y", "z">>)}

\* The body has the length announced, unless that is out of reach.
MessageOf(start, fields, bare) ==
  LET m == [start |-> start, fields |-> fields, bare |-> bare, body |-> <<>>]
      length == BodyLength(m)
  IN  IF length = SIZE_MAX THEN m ELSE [m EXCEPT !.body = [i \in 1 .. length |-> "b"]]

\* A request without header lines, which HTTP/1.0 allows.
BareMessages == {MessageOf(s, <<>>, FALSE) : s \in {t \in Starts : t.ok /\ t.version = V10}}

\* Every request line with every field, every pair of fields, every field on a
\* line with a bare LF, three fields, which is one too many, and none.
SomeMessages ==
  BareMessages \cup
  {MessageOf(s, <<f>>, FALSE) : s \in Starts, f \in Fields}
    \cup {MessageOf(Plain, <<f, g>>, FALSE) : f \in Fields, g \in Fields}
    \cup {MessageOf(s, <<f, Simple>>, TRUE) : s \in Starts, f \in Fields}
    \cup {MessageOf(Plain, <<Simple, f, Simple>>, FALSE) : f \in Fields}

NextMessage == MessageOf(Plain, <<Simple>>, FALSE)

End == CRLF \o CRLF

\* Any four symbols or fewer in the header lines and in the request line.
SomeJunk ==
  {Plain.text \o CRLF \o <<"A">> \o w \o End :
     w \in UNION {[1 .. k -> {CR, LF, SP, ":", "x"}] : k \in 0 .. 4}}
    \cup {<<"G">> \o w \o V11 \o CRLF \o <<"A", ":">> \o End :
            w \in UNION {[1 .. k -> {CR, LF, SP, "?", "/"}] : k \in 0 .. 4}}

NoJunk == {}
=============================================================================
