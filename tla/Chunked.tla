------------------------------ MODULE Chunked -------------------------------
(***************************************************************************)
(* chunked.c: a body sent as chunks, in one call or piece by piece, over a *)
(* socket that takes a byte at a time or fails, now and then or for good,  *)
(* and the client that reads them by RFC 7230, section 4.1.                *)
(*                                                                         *)
(* The data bytes of the body are numbered in the order in which they are  *)
(* handed over.                                                            *)
(***************************************************************************)
EXTENDS Integers, Sequences

CONSTANTS
  Base,      \* sizes are written in this base, 16 in the code
  MaxChunk,  \* bound: data bytes of one call
  MaxSends   \* bound: calls of chunked_writer_send

ASSUME ChunkedAssumption ==
  /\ Base \in Nat \ {0, 1}
  /\ MaxChunk \in Nat
  /\ MaxSends \in Nat

VARIABLES
  pc,      \* "ready" for a call, "writing" in one, "finished" with the body
  call,    \* the call made last
  sends,   \* calls of chunked_writer_send so far
  given,   \* data bytes handed over so far
  out,     \* what the call has yet to write
  cw,      \* the ChunkedWriter
  result,  \* what the call made last returned
  gone,    \* the client's end is gone for good
  client   \* what the client makes of the bytes the socket has taken

vars == <<pc, call, sends, given, out, cw, result, gone, client>>

Call(op, len) == [op |-> op, len |-> len]

-----------------------------------------------------------------------------
(* The bytes on the wire.                                                  *)

Byte(kind, n) == [kind |-> kind, n |-> n]
CRLF == <<Byte("CR", 0), Byte("LF", 0)>>

\* The digits of a number, without leading zeros.
Digits[n \in Nat] == IF n < Base THEN <<n>> ELSE Append(Digits[n \div Base], n % Base)

\* snprintf("%zx\r\n")
SizeLine(len) == [i \in DOMAIN Digits[len] |-> Byte("digit", Digits[len][i])] \o CRLF

\* The chunk of the data bytes behind the first ones.
Chunk(first, len) ==
  SizeLine(len) \o [i \in 1 .. len |-> Byte("data", first + i)] \o CRLF

\* "0\r\n\r\n"
TerminalChunk == <<Byte("digit", 0)>> \o CRLF \o CRLF

-----------------------------------------------------------------------------
(* The client: where it is in the grammar of a chunked body, what is left  *)
(* of the size or the data of the chunk, and the data it has.  Without a   *)
(* trailer; "bad" when the bytes do not follow the grammar.                *)

Places == {"size", "digits", "sizeLF", "data", "dataCR", "dataLF", "lastCR", "lastLF",
           "end", "bad"}

Expects(place, kind, next) == [at |-> place, kind |-> kind, next |-> next]

\* The bytes that only lead from one place to the next.
Grammar == {
  Expects("digits", "CR", "sizeLF"),
  Expects("dataCR", "CR", "dataLF"),
  Expects("dataLF", "LF", "size"),
  Expects("lastCR", "CR", "lastLF"),
  Expects("lastLF", "LF", "end")}

Read(c, b) ==
  CASE c.at = "size" /\ b.kind = "digit" -> [c EXCEPT !.at = "digits", !.left = b.n]
    [] c.at = "digits" /\ b.kind = "digit" -> [c EXCEPT !.left = Base * @ + b.n]
    [] c.at = "sizeLF" /\ b.kind = "LF" -> [c EXCEPT !.at = IF c.left = 0 THEN "lastCR" ELSE "data"]
    [] c.at = "data" -> [at |-> IF c.left = 1 THEN "dataCR" ELSE "data",
                         left |-> c.left - 1, got |-> Append(c.got, b.n)]
    [] \E e \in Grammar : e.at = c.at /\ e.kind = b.kind ->
         [c EXCEPT !.at = (CHOOSE e \in Grammar : e.at = c.at /\ e.kind = b.kind).next]
    [] OTHER -> [c EXCEPT !.at = "bad"]

-----------------------------------------------------------------------------
\* chunked_writer_init; the header block has been sent.
Init ==
  /\ pc = "ready"
  /\ call = Call("-", 0)
  /\ sends = 0
  /\ given = 0
  /\ out = <<>>
  /\ cw = [bytes_sent |-> 0, error |-> FALSE]
  /\ result = 0
  /\ gone = FALSE
  /\ client = [at |-> "size", left |-> 0, got |-> <<>>]

\* The call starts to write these bytes, or returns at once.
Begin(bytes) == pc' = "writing" /\ out' = bytes /\ UNCHANGED result
Return(r) == result' = r /\ UNCHANGED <<pc, out>>

\* One call for the whole body, in place of the streaming ones.
chunked_send_body(len) ==
  /\ pc = "ready"
  /\ sends = 0
  /\ call' = Call("body", len)
  /\ given' = len
  /\ Begin((IF len = 0 THEN <<>> ELSE Chunk(0, len)) \o TerminalChunk)
  /\ UNCHANGED <<sends, cw, gone, client>>

SendCall(len) ==
  /\ pc = "ready"
  /\ sends < MaxSends
  /\ sends' = sends + 1
  /\ call' = Call("send", len)
  /\ given' = given + len
  /\ UNCHANGED <<cw, gone, client>>

\* Faulty variant: an empty chunk is written like any other.
SendEmptyToo(len) ==
  /\ SendCall(len)
  /\ IF cw.error THEN Return(-1) ELSE Begin(Chunk(given, len))

chunked_writer_send(len) ==
  /\ SendCall(len)
  /\ \/ cw.error /\ Return(-1)
     \/ ~cw.error /\ len = 0 /\ Return(0)
     \/ ~cw.error /\ len # 0 /\ Begin(Chunk(given, len))

\* Called once, after the last send.
chunked_writer_finish ==
  /\ pc = "ready"
  /\ call' = Call("finish", 0)
  /\ \/ cw.error /\ pc' = "finished" /\ result' = -1 /\ UNCHANGED out
     \/ ~cw.error /\ Begin(TerminalChunk)
  /\ UNCHANGED <<sends, given, cw, gone, client>>

AfterCall == IF call.op = "send" THEN "ready" ELSE "finished"

\* A round of write_all() in which the socket takes a byte (if it takes more,
\* that is several rounds), and with the last byte the return from the call.
Write ==
  /\ pc = "writing"
  /\ ~gone
  /\ client' = Read(client, Head(out))
  /\ out' = Tail(out)
  /\ IF Len(out) > 1 THEN UNCHANGED <<pc, cw, result>>
     ELSE /\ pc' = AfterCall
          /\ result' = IF call.op = "body" THEN call.len ELSE 0
          /\ cw' = IF call.op = "send" THEN [cw EXCEPT !.bytes_sent = @ + call.len] ELSE cw
  /\ UNCHANGED <<call, sends, given, gone>>

\* Faulty variant: whatever write() reports, it is called again.
WriteRetries == pc = "writing" /\ UNCHANGED vars

\* Faulty variant: cw->error is not set.
WriteForgives ==
  /\ pc = "writing"
  /\ out' = <<>>
  /\ pc' = AfterCall
  /\ result' = -1
  /\ UNCHANGED <<call, sends, given, cw, gone, client>>

\* write() fails for another reason than EINTR, or returns 0; it need not fail
\* the next time.
WriteFails ==
  /\ pc = "writing"
  /\ out' = <<>>
  /\ pc' = AfterCall
  /\ result' = -1
  /\ cw' = IF call.op = "body" THEN cw ELSE [cw EXCEPT !.error = TRUE]
  /\ UNCHANGED <<call, sends, given, gone, client>>

\* The client closes its end: write() will not take another byte.
ClientGoes == ~gone /\ gone' = TRUE /\ UNCHANGED <<pc, call, sends, given, out, cw, result, client>>

Finished == pc = "finished" /\ UNCHANGED vars

Next ==
  \/ \E len \in 0 .. MaxChunk : chunked_send_body(len) \/ chunked_writer_send(len)
  \/ chunked_writer_finish
  \/ Write \/ WriteFails
  \/ ClientGoes
  \/ Finished

Spec == Init /\ [][Next]_vars

(* write() returns: it takes a byte or fails.  (Without a send timeout this  *)
(* is an assumption on the client, as in FileServer.)  The caller need not   *)
(* make any call.                                                            *)
FairSpec == Spec /\ WF_vars(Write \/ WriteFails)

-----------------------------------------------------------------------------
(* Properties.                                                             *)

\* What the reader of the body sees is a body: its bytes in order, each once,
\* and the end not before the sender has finished, nor with bytes missing.
Body == INSTANCE BodyStream WITH
  finishing <- call.op \in {"finish", "body"}, got <- client.got, ended <- client.at = "end"

ImplementsBody == Body!Spec

\* The caller is told the truth: after a success the client has everything that
\* was handed over and stands between two chunks, or at the end after the last
\* call; after a failure it will never see the end.  bytes_sent counts what
\* whole chunks have brought, and no bytes follow a chunk that was cut short.
Truthful ==
  /\ client.at # "bad"
  /\ pc # "writing" /\ result >= 0 =>
       /\ client.got = [i \in 1 .. given |-> i]
       /\ client.at = IF pc = "finished" THEN "end" ELSE "size"
       /\ call.op = "body" => result = given
  /\ pc # "writing" /\ result < 0 => client.at # "end"
  /\ cw.bytes_sent <= Len(client.got)
  /\ pc = "ready" /\ ~cw.error => cw.bytes_sent = given

\* Every call returns, also when the client has gone.
CallReturns == (pc = "writing") ~> (pc # "writing")
=============================================================================
