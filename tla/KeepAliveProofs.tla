--------------------------- MODULE KeepAliveProofs --------------------------
(***************************************************************************)
(* The safety of the connection loop, for every stream of requests, every  *)
(* buffer size and every limit on the requests of a connection.            *)
(***************************************************************************)
EXTENDS KeepAlive, SequenceTheorems, TLAPS

\* The bytes e + 1 .. e + m of the stream.
Bytes(e, m) == [i \in 1 .. m |-> e + i]

-----------------------------------------------------------------------------
(* Where requests lie in a stream.                                         *)

\* Requests lie in the stream one after the other.
LEMMA StreamOrder ==
  ASSUME NEW s, IsStream(s)
  PROVE  /\ s.n \in Nat
         /\ \A k \in 0 .. s.n : s.end[k] \in Nat
         /\ \A k \in 1 .. s.n : /\ s.head[k] \in Nat
                                /\ s.end[k - 1] + 4 < s.head[k]
                                /\ s.head[k] <= s.end[k]
         /\ \A j, k \in 1 .. s.n : j < k => s.head[j] <= s.end[k - 1]
         /\ \A j, k \in 1 .. s.n : j < k => s.end[j] <= s.end[k - 1]
         /\ \A j \in 0 .. s.n : s.end[j] <= s.end[s.n]
<1>1. /\ s.n \in Nat
      /\ \A k \in 0 .. s.n : s.end[k] \in Nat
      /\ \A k \in 1 .. s.n : s.head[k] \in Nat
  BY DEF IsStream
<1>2. \A k \in 1 .. s.n : s.end[k - 1] + 4 < s.head[k] /\ s.head[k] <= s.end[k]
  BY DEF IsStream
<1>3. \A j, k \in 1 .. s.n : j < k => s.end[j] < s.head[k] - 4
  BY DEF IsStream
<1>4. \A j, k \in 1 .. s.n : j < k => s.end[j] <= s.end[k - 1]
  <2> TAKE j, k \in 1 .. s.n
  <2> HAVE j < k
  <2>1. CASE j = k - 1
    BY <2>1, <1>1
  <2>2. CASE j < k - 1
    <3>1. k - 1 \in 1 .. s.n
      BY <2>2, <1>1
    <3>2. s.end[j] < s.head[k - 1] - 4
      BY <2>2, <3>1, <1>3
    <3>3. s.head[k - 1] <= s.end[k - 1]
      BY <3>1, <1>2
    <3> QED
      BY <3>1, <3>2, <3>3, <1>1
  <2> QED
    BY <2>1, <2>2, <1>1
<1>5. \A j, k \in 1 .. s.n : j < k => s.head[j] <= s.end[k - 1]
  <2> TAKE j, k \in 1 .. s.n
  <2> HAVE j < k
  <2>1. s.end[j] <= s.end[k - 1] /\ s.head[j] <= s.end[j]
    BY <1>2, <1>4
  <2>2. k - 1 \in 0 .. s.n /\ j \in 0 .. s.n
    BY <1>1
  <2> QED
    BY <2>1, <2>2, <1>1
<1>6. \A j \in 0 .. s.n : s.end[j] <= s.end[s.n]
  <2> TAKE j \in 0 .. s.n
  <2>1. CASE j = s.n
    BY <2>1, <1>1
  <2>2. CASE j < s.n /\ j > 0
    <3>1. j \in 1 .. s.n /\ s.n \in 1 .. s.n /\ s.n - 1 \in 0 .. s.n
      BY <2>2, <1>1
    <3>2. s.end[j] <= s.end[s.n - 1]
      BY <3>1, <2>2, <1>4
    <3>3. s.end[s.n - 1] + 4 < s.head[s.n] /\ s.head[s.n] <= s.end[s.n]
      BY <3>1, <1>2
    <3> QED
      BY <3>1, <3>2, <3>3, <1>1
  <2>3. CASE j = 0
    <3>1. s.end[0] = 0 /\ s.n \in 0 .. s.n
      BY <1>1 DEF IsStream
    <3> QED
      BY <3>1, <2>3, <1>1
  <2> QED
    BY <2>1, <2>2, <2>3, <1>1
<1> QED
  BY <1>1, <1>2, <1>4, <1>5, <1>6

\* On a window that starts with request k the first \r\n\r\n is the end of the
\* head of k.
LEMMA FirstHead ==
  ASSUME IsStream(stream), NEW k \in Requests, NEW m \in Nat,
         stream.head[k] - stream.end[k - 1] <= m
  PROVE  LET b == Bytes(stream.end[k - 1], m) IN
         /\ HeaderEnds(b) # {}
         /\ BodyStart(b) = stream.head[k] - stream.end[k - 1]
         /\ RequestIn(b) = k
<1> DEFINE e == stream.end[k - 1]
           b == Bytes(e, m)
           h == stream.head[k] - e
<1>1. /\ stream.n \in Nat
      /\ \A j \in Requests : stream.head[j] \in Nat
      /\ e \in Nat
      /\ stream.end[k] \in Nat
      /\ e + 4 < stream.head[k] /\ stream.head[k] <= stream.end[k]
      /\ \A j, l \in Requests : j < l => stream.head[j] <= stream.end[l - 1]
  BY StreamOrder DEF Requests
<1>2. h \in 5 .. m
  BY <1>1
<1>3. b \in Seq(Nat) /\ Len(b) = m /\ \A i \in 1 .. m : b[i] = e + i
  BY <1>1 DEF Bytes
<1>4. \A j \in Requests : j < k => stream.head[j] <= e
  BY <1>1
<1> HIDE DEF e, b, h
<1>10. h = stream.head[k] - e /\ e = stream.end[k - 1] /\ b = Bytes(e, m)
  BY DEF e, b, h
<1>5. \A j \in Requests : j > k => stream.head[j] > stream.head[k]
  <2> TAKE j \in Requests
  <2> HAVE j > k
  <2>1. stream.head[k] <= stream.end[j - 1]
    BY <1>1
  <2>2. stream.end[j - 1] + 4 < stream.head[j] /\ stream.end[j - 1] \in Nat
    BY StreamOrder DEF Requests
  <2> QED
    BY <2>1, <2>2, <1>1
<1>6. h \in HeaderEnds(b)
  <2>1. b[h] = e + h /\ b[h - 3] = e + (h - 3)
    BY <1>2, <1>3
  <2>2. b[h] = stream.head[k] /\ b[h - 3] = b[h] - 3
    BY <2>1, <1>1, <1>2, <1>10
  <2> QED
    BY <2>2, <1>2, <1>3 DEF HeaderEnds
<1>7. \A i \in HeaderEnds(b) : h <= i
  <2> TAKE i \in HeaderEnds(b)
  <2>1. PICK j \in Requests : i \in 4 .. m /\ b[i] = stream.head[j]
    BY <1>3 DEF HeaderEnds
  <2>2. b[i] = e + i
    BY <2>1, <1>3
  <2>6. e \in Nat /\ stream.head[j] \in Nat /\ i \in Nat /\ i >= 4
    BY <2>1, <1>1
  <2>7. j < k => stream.head[j] <= e
    BY <1>4
  <2>8. stream.head[j] = e + i
    BY <2>1, <2>2
  <2>3. ~(j < k)
    BY <2>6, <2>7, <2>8
  <2>4. j = k \/ j > k
    BY <2>3, <1>1 DEF Requests
  <2>5. stream.head[j] >= stream.head[k]
    BY <2>4, <1>1, <1>5
  <2> QED
    BY <2>1, <2>2, <2>5, <1>1, <1>10
<1>8. BodyStart(b) = h
  <2>1. \A i \in HeaderEnds(b) : (\A j \in HeaderEnds(b) : i <= j) => i = h
    <3> TAKE i \in HeaderEnds(b)
    <3> HAVE \A j \in HeaderEnds(b) : i <= j
    <3>1. i <= h /\ h <= i
      BY <1>6, <1>7
    <3>2. i \in Int /\ h \in Int
      BY <1>2, <1>3 DEF HeaderEnds
    <3> QED
      BY <3>1, <3>2
  <2> QED
    BY <2>1, <1>6, <1>7 DEF BodyStart
<1>9. RequestIn(b) = k
  <2>3. b[h] = e + h
    BY <1>2, <1>3
  <2>1. b[h] = stream.head[k]
    BY <2>3, <1>1, <1>10
  <2>2. \A j \in Requests : stream.head[j] = stream.head[k] => j = k
    <3> TAKE j \in Requests
    <3> HAVE stream.head[j] = stream.head[k]
    <3>1. ~(j < k) /\ ~(j > k)
      BY <1>1, <1>4, <1>5
    <3> QED
      BY <3>1, <1>1 DEF Requests
  <2> QED
    BY <2>1, <2>2, <1>8 DEF RequestIn
<1> QED
  BY <1>6, <1>8, <1>9, <1>10

\* As long as the head of request k is not complete there is no \r\n\r\n in the
\* window.
LEMMA NoHead ==
  ASSUME IsStream(stream), NEW k \in Requests, NEW m \in Nat,
         m < stream.head[k] - stream.end[k - 1]
  PROVE  HeaderEnds(Bytes(stream.end[k - 1], m)) = {}
<1> DEFINE e == stream.end[k - 1]
           b == Bytes(e, m)
<1>1. /\ stream.n \in Nat
      /\ \A j \in Requests : stream.head[j] \in Nat
      /\ e \in Nat
      /\ stream.end[k] \in Nat
      /\ e + 4 < stream.head[k] /\ stream.head[k] <= stream.end[k]
      /\ \A j, l \in Requests : j < l => stream.head[j] <= stream.end[l - 1]
  BY StreamOrder DEF Requests
<1>2. Len(b) = m /\ \A i \in 1 .. m : b[i] = e + i
  BY <1>1 DEF Bytes
<1>3. \A j \in Requests : j < k => stream.head[j] <= e
  BY <1>1
<1>6. m < stream.head[k] - e
  OBVIOUS
<1> HIDE DEF e, b
<1>4. \A j \in Requests : j > k => stream.head[j] > stream.head[k]
  <2> TAKE j \in Requests
  <2> HAVE j > k
  <2>1. stream.head[k] <= stream.end[j - 1]
    BY <1>1
  <2>2. stream.end[j - 1] + 4 < stream.head[j] /\ stream.end[j - 1] \in Nat
    BY StreamOrder DEF Requests
  <2> QED
    BY <2>1, <2>2, <1>1
<1>5. ASSUME NEW i \in HeaderEnds(b) PROVE FALSE
  <2>1. PICK j \in Requests : i \in 4 .. m /\ b[i] = stream.head[j]
    BY <1>2 DEF HeaderEnds
  <2>2. b[i] = e + i
    BY <2>1, <1>2
  <2>3. j < k \/ j = k \/ j > k
    BY <1>1 DEF Requests
  <2>4. e \in Nat /\ stream.head[j] \in Nat /\ i \in 4 .. m /\ stream.head[j] = e + i
    BY <2>1, <2>2, <1>1
  <2>5. stream.head[k] \in Nat
    BY <1>1
  <2>6. stream.head[j] <= e \/ stream.head[j] >= stream.head[k]
    BY <2>3, <2>4, <2>5, <1>3, <1>4
  <2> QED
    BY <2>4, <2>5, <2>6, <1>6
<1> QED
  BY <1>5 DEF b, e

\* What the parser makes of a window that starts with request k.
LEMMA ParseAligned ==
  ASSUME IsStream(stream), NEW k \in Requests, NEW m \in Nat
  PROVE  LET b == Bytes(stream.end[k - 1], m) IN
         /\ parse_http_request(b) = "PARSE_INCOMPLETE" =>
              m < stream.end[k] - stream.end[k - 1]
         /\ parse_http_request(b) = "PARSE_ERROR" => ~stream.ok[k]
         /\ parse_http_request(b) = "PARSE_OK" =>
              RequestIn(b) = k /\ stream.end[k] - stream.end[k - 1] <= m
<1> DEFINE e == stream.end[k - 1]
           b == Bytes(e, m)
<1>1. /\ e \in Nat /\ stream.end[k] \in Nat /\ stream.head[k] \in Nat
      /\ e + 4 < stream.head[k] /\ stream.head[k] <= stream.end[k]
  BY StreamOrder DEF Requests
<1>2. CASE m < stream.head[k] - e
  <2>1. HeaderEnds(b) = {}
    BY <1>2, NoHead
  <2>2. parse_http_request(b) = "PARSE_INCOMPLETE"
    BY <2>1 DEF parse_http_request
  <2> QED
    BY <2>2, <1>1, <1>2
<1>3. CASE stream.head[k] - e <= m
  <2>1. HeaderEnds(b) # {} /\ BodyStart(b) = stream.head[k] - e /\ RequestIn(b) = k
    BY <1>3, FirstHead
  <2>2. Len(b) = m /\ b[1] = e + 1
    BY <1>1, <1>3 DEF Bytes
  <2> HIDE DEF b
  <2>3. parse_http_request(b) =
          IF ~stream.ok[k] THEN "PARSE_ERROR"
          ELSE IF m - (stream.head[k] - e) < content_length(k) THEN "PARSE_INCOMPLETE"
          ELSE "PARSE_OK"
    BY <2>1, <2>2 DEF parse_http_request
  <2>4. content_length(k) = stream.end[k] - stream.head[k]
    BY DEF content_length
  <2>5. /\ parse_http_request(b) = "PARSE_INCOMPLETE" => m < stream.end[k] - e
        /\ parse_http_request(b) = "PARSE_ERROR" => ~stream.ok[k]
        /\ parse_http_request(b) = "PARSE_OK" => stream.end[k] - e <= m
    BY <2>3, <2>4, <1>1
  <2> QED
    BY <2>1, <2>5 DEF b
<1> QED
  BY <1>1, <1>2, <1>3

-----------------------------------------------------------------------------
(* Windows on the stream.                                                  *)

\* recv() extends a window by the bytes that come next.
LEMMA Extend ==
  ASSUME NEW e \in Nat, NEW m \in Nat, NEW n \in Nat
  PROVE  Bytes(e, m) \o [i \in 1 .. n |-> e + m + i] = Bytes(e, m + n)
<1> DEFINE a == Bytes(e, m)
           b == [i \in 1 .. n |-> e + m + i]
           c == Bytes(e, m + n)
<1>1. a \in Seq(Nat) /\ Len(a) = m /\ \A i \in 1 .. m : a[i] = e + i
  BY DEF Bytes
<1>2. b \in Seq(Nat) /\ Len(b) = n /\ \A i \in 1 .. n : b[i] = e + m + i
  OBVIOUS
<1>3. c \in Seq(Nat) /\ Len(c) = m + n /\ \A i \in 1 .. m + n : c[i] = e + i
  BY DEF Bytes
<1> HIDE DEF a, b, c
<1>4. a \o b \in Seq(Nat) /\ Len(a \o b) = m + n
  BY <1>1, <1>2
<1>5. \A i \in 1 .. m + n : (a \o b)[i] = e + i
  <2> TAKE i \in 1 .. m + n
  <2>1. (a \o b)[i] = IF i <= m THEN a[i] ELSE b[i - m]
    BY <1>1, <1>2, ConcatProperties
  <2>2. CASE i <= m
    BY <2>1, <2>2, <1>1
  <2>3. CASE i > m
    <3>1. i - m \in 1 .. n
      BY <2>3
    <3>2. b[i - m] = e + m + (i - m)
      BY <3>1, <1>2
    <3>3. (a \o b)[i] = b[i - m]
      BY <2>1, <2>3
    <3> QED
      BY <3>2, <3>3
  <2> QED
    <3>1. i <= m \/ i > m
      OBVIOUS
    <3> QED
      BY <2>2, <2>3, <3>1
<1>6. a \o b = c
  <2>1. \A i \in 1 .. Len(a \o b) : (a \o b)[i] = c[i]
    BY <1>3, <1>4, <1>5
  <2> QED
    BY <2>1, <1>3, <1>4, SeqEqual
<1> QED
  BY <1>6 DEF a, b, c

\* The sliding window keeps the bytes behind the ones consumed.
LEMMA SlideWindow ==
  ASSUME NEW e \in Nat, NEW m \in Nat, NEW c \in Nat, c <= m
  PROVE  (IF c >= Len(Bytes(e, m)) THEN <<>> ELSE SubSeq(Bytes(e, m), c + 1, Len(Bytes(e, m))))
           = Bytes(e + c, m - c)
<1> DEFINE a == Bytes(e, m)
           b == Bytes(e + c, m - c)
<1>1. a \in Seq(Nat) /\ Len(a) = m /\ \A i \in 1 .. m : a[i] = e + i
  BY DEF Bytes
<1>2. b \in Seq(Nat) /\ Len(b) = m - c /\ \A i \in 1 .. m - c : b[i] = e + c + i
  BY DEF Bytes
<1> HIDE DEF a, b
<1>3. CASE c = m
  <2>1. b = <<>>
    BY <1>2, <1>3
  <2> QED
    BY <2>1, <1>1, <1>3 DEF a, b
<1>4. CASE c < m
  <2>1. SubSeq(a, c + 1, m) \in Seq(Nat) /\ Len(SubSeq(a, c + 1, m)) = m - c
    BY <1>1, <1>4
  <2>2. \A i \in 1 .. m - c : SubSeq(a, c + 1, m)[i] = e + c + i
    BY <1>1, <1>4
  <2>3. \A i \in 1 .. Len(SubSeq(a, c + 1, m)) : SubSeq(a, c + 1, m)[i] = b[i]
    BY <2>1, <2>2, <1>2
  <2>4. SubSeq(a, c + 1, m) = b
    BY <2>1, <2>3, <1>2, SeqEqual
  <2>5. ~(c >= Len(a)) /\ Len(a) = m
    BY <1>1, <1>4
  <2> QED
    BY <2>4, <2>5 DEF a, b
<1> QED
  BY <1>3, <1>4

-----------------------------------------------------------------------------
(* The inductive invariant.                                                *)

\* buf holds what was received after the first j requests.
Window(j) == stream.end[j] <= rcvd /\ buf = Bytes(stream.end[j], rcvd - stream.end[j])

\* The socket delivers the stream from its start.
Delivery == rcvd <= sent /\ sent <= stream.end[stream.n]

\* Between requests: the window starts at the next one, and is full only if
\* that one is not complete.
Reading ==
  pc = "recv" =>
    /\ Window(req_count)
    /\ Len(responses) = req_count
    /\ \A i \in 1 .. req_count : stream.keep[i]
    /\ KEEPALIVE_MAX_REQUESTS > 0 => req_count < KEEPALIVE_MAX_REQUESTS
    /\ Len(buf) >= Room => req_count < stream.n /\ rcvd < stream.end[req_count + 1]

\* While a request is answered the window still starts with it, and holds all
\* of it.
Answering ==
  pc \in {"dispatch", "dispatched"} =>
    /\ req_count >= 1
    /\ req = req_count
    /\ Window(req_count - 1)
    /\ stream.end[req_count] <= rcvd
    /\ Len(responses) = IF pc = "dispatch" THEN req_count - 1 ELSE req_count
    /\ \A i \in 1 .. req_count - 1 : stream.keep[i]
    /\ KEEPALIVE_MAX_REQUESTS > 0 => req_count <= KEEPALIVE_MAX_REQUESTS

IndInv ==
  /\ TypeOK
  /\ Delivery
  /\ BufferInBounds
  /\ Reading
  /\ Answering
  /\ AnsweredInOrder
  /\ RefusedRightly
  /\ CloseHonoured

Answers == [status : Statuses, to : Requests \cup {NoRequest}, connection : {"keep-alive", "close"}]

\* One more response goes behind the others.
LEMMA AppendResponse ==
  ASSUME NEW A, NEW s \in Seq(A), NEW r \in A
  PROVE  /\ Append(s, r) \in Seq(A)
         /\ Len(Append(s, r)) = Len(s) + 1
         /\ \A i \in 1 .. Len(s) : Append(s, r)[i] = s[i]
         /\ Append(s, r)[Len(s) + 1] = r
  OBVIOUS

\* The invariant holds when a connection is handed over.
LEMMA InitInv == Init => IndInv
<1> SUFFICES ASSUME Init PROVE IndInv
  OBVIOUS
<1>1. IsStream(stream)
  BY KeepAliveAssumption DEF Init
<1>2. stream.n \in Nat /\ stream.end[0] = 0 /\ stream.end[stream.n] \in Nat
  BY <1>1, StreamOrder DEF IsStream
<1>3. KA_RECV_BUFFER_SIZE \in Nat \ {0, 1} /\ KEEPALIVE_MAX_REQUESTS \in Nat
  BY KeepAliveAssumption
<1>4. TypeOK
  BY <1>1, <1>2, <1>3 DEF Init, set_recv_timeout, TypeOK, Reasons, NoRequest
<1>5. Bytes(0, 0) = <<>>
  BY DEF Bytes
<1>6. Window(0)
  BY <1>2, <1>5 DEF Init, set_recv_timeout, Window
<1>7. Reading
  BY <1>2, <1>3, <1>6 DEF Init, set_recv_timeout, Reading, Room
<1> QED
  BY <1>2, <1>3, <1>4, <1>7
     DEF Init, set_recv_timeout, IndInv, Delivery, BufferInBounds, Room, Answering, AnsweredInOrder,
         RefusedRightly, CloseHonoured

-----------------------------------------------------------------------------
(* Every step keeps the invariant: one lemma for each action.              *)

\* The client's steps touch nothing the server has read.
LEMMA ClientSteps == IndInv /\ (Send \/ Leave) => IndInv'
<1> SUFFICES ASSUME IndInv, Send \/ Leave PROVE IndInv'
  OBVIOUS
<1> USE DEF IndInv
<1>1. UNCHANGED <<armed, stream, rcvd, buf, pc, req, req_count, responses, why>>
  BY DEF Send, Leave
<1>2. stream.n \in Nat /\ stream.end[stream.n] \in Nat
  BY StreamOrder DEF TypeOK
<1>3. /\ sent' \in Nat /\ sent <= sent' /\ sent' <= stream.end[stream.n]
      /\ peer' \in {"open", "fin", "reset"}
  BY <1>2 DEF Send, Leave, TypeOK, Delivery
<1>4. TypeOK'
  BY <1>1, <1>3 DEF TypeOK, Requests
<1>5. Delivery'
  BY <1>1, <1>2, <1>3 DEF Delivery, TypeOK
<1>6. BufferInBounds' /\ Reading' /\ Answering'
  BY <1>1 DEF BufferInBounds, Reading, Answering, Window
<1>7. AnsweredInOrder' /\ RefusedRightly' /\ CloseHonoured'
  BY <1>1 DEF AnsweredInOrder, RefusedRightly, CloseHonoured, Requests
<1> QED
  BY <1>4, <1>5, <1>6, <1>7

\* The ways out of the loop that send nothing.
LEMMA SilentEnds ==
  IndInv /\ (RecvTimeout \/ RecvEnd \/ EndAfterResponse \/ CloseConn) => IndInv'
<1> SUFFICES ASSUME IndInv, RecvTimeout \/ RecvEnd \/ EndAfterResponse \/ CloseConn PROVE IndInv'
  OBVIOUS
<1> USE DEF IndInv
<1>1. /\ UNCHANGED <<armed, stream, sent, peer, rcvd, buf, req, req_count, responses>>
      /\ pc' \in {"close_conn", "closed"}
  BY DEF RecvTimeout, RecvEnd, EndAfterResponse, CloseConn, CloseBecause
<1>2. why' \in Reasons
  BY DEF RecvTimeout, RecvEnd, EndAfterResponse, CloseConn, CloseBecause, TypeOK, Reasons
<1>3. TypeOK'
  BY <1>1, <1>2 DEF TypeOK, Requests
<1>4. Delivery' /\ BufferInBounds' /\ Reading' /\ Answering'
  BY <1>1 DEF Delivery, BufferInBounds, Reading, Answering
<1>5. AnsweredInOrder'
  BY <1>1 DEF AnsweredInOrder
<1>6. RefusedRightly' /\ CloseHonoured'
  BY <1>1 DEF RefusedRightly, CloseHonoured, Requests
<1> QED
  BY <1>3, <1>4, <1>5, <1>6

\* A response r written while the loop runs, with what it must fulfil.
LEMMA OneMoreResponse ==
  ASSUME IndInv, pc \in {"recv", "dispatch"}, UNCHANGED stream,
         NEW r \in Answers, responses' = Append(responses, r),
         \/ r.to = Len(responses) + 1
         \/ r.to = NoRequest /\ pc' \in {"close_conn", "closed"},
         r.status = "400" =>
           Len(responses) + 1 \in Requests /\ ~stream.ok[Len(responses) + 1],
         r.status = "413" =>
           /\ Len(responses) + 1 \in Requests
           /\ stream.end[Len(responses) + 1] - stream.end[Len(responses)] > Room
  PROVE  /\ responses' \in Seq(Answers)
         /\ Len(responses') = Len(responses) + 1
         /\ AnsweredInOrder'
         /\ RefusedRightly'
         /\ CloseHonoured'
<1> DEFINE L == Len(responses)
<1>1. responses \in Seq(Answers) /\ L \in Nat
  BY DEF IndInv, TypeOK, Answers
<1>2. /\ responses' \in Seq(Answers) /\ Len(responses') = L + 1
      /\ \A i \in 1 .. L : responses'[i] = responses[i]
      /\ responses'[L + 1] = r
  BY <1>1, AppendResponse
<1>3. \A i \in 1 .. L + 1 : i \in 1 .. L \/ i = L + 1
  BY <1>1
<1>4. \A i \in 1 .. L : responses[i].to = i
  BY DEF IndInv, AnsweredInOrder
<1> HIDE DEF L
<1>5. AnsweredInOrder'
  BY <1>2, <1>3, <1>4 DEF AnsweredInOrder, L
<1>6. RefusedRightly'
  <2> SUFFICES ASSUME NEW i \in 1 .. L + 1
               PROVE  /\ responses'[i].status = "400" => i \in Requests /\ ~stream.ok[i]
                      /\ responses'[i].status = "413" =>
                           i \in Requests /\ stream.end[i] - stream.end[i - 1] > Room
    BY <1>2 DEF RefusedRightly, Requests
  <2>1. CASE i \in 1 .. L
    BY <2>1, <1>2 DEF IndInv, RefusedRightly, L
  <2>2. CASE i = L + 1
    <3>1. L + 1 - 1 = L
      BY <1>1
    <3> QED
      BY <2>2, <3>1, <1>2 DEF L
  <2> QED
    BY <2>1, <2>2, <1>3
<1>7. CloseHonoured'
  <2>0. KEEPALIVE_MAX_REQUESTS \in Nat /\ req_count \in Nat
    BY KeepAliveAssumption DEF IndInv, TypeOK
  <2>1. \A i \in 1 .. L : stream.keep[i]
    <3>1. CASE pc = "recv"
      BY <3>1 DEF IndInv, Reading, L
    <3>2. CASE pc = "dispatch"
      BY <3>2 DEF IndInv, Answering, L
    <3> QED
      BY <3>1, <3>2
  <2>2. KEEPALIVE_MAX_REQUESTS > 0 => L + 1 <= KEEPALIVE_MAX_REQUESTS
    BY <2>0 DEF IndInv, Reading, Answering, L
  <2>3. Len(responses') - 1 = L /\ Len(responses') = L + 1 /\ stream' = stream
    BY <1>1, <1>2
  <2> QED
    BY <2>1, <2>2, <2>3 DEF CloseHonoured
<1> QED
  BY <1>2, <1>5, <1>6, <1>7 DEF L

\* The length of a window.
LEMMA BytesLength ==
  ASSUME NEW e \in Nat, NEW m \in Nat
  PROVE  Bytes(e, m) \in Seq(Nat) /\ Len(Bytes(e, m)) = m
  BY DEF Bytes

\* A request that is refused with 413 is longer than the buffer.
LEMMA TooLargeStep == IndInv /\ TooLarge => IndInv'
<1> SUFFICES ASSUME IndInv, TooLarge PROVE IndInv'
  OBVIOUS
<1> DEFINE k == req_count + 1
           r == Response("413", NoRequest, "close")
<1>1. /\ UNCHANGED <<armed, stream, sent, peer, rcvd, buf, req, req_count>>
      /\ pc = "recv" /\ pc' = "close_conn" /\ why' = "413" /\ Len(buf) >= Room
      /\ responses' = Append(responses, r)
  BY DEF TooLarge, CloseBecause
<1>2. /\ req_count \in Nat /\ rcvd \in Nat /\ IsStream(stream) /\ stream.n \in Nat
      /\ KA_RECV_BUFFER_SIZE \in Nat
  BY StreamOrder, KeepAliveAssumption DEF IndInv, TypeOK
<1>3. req_count < stream.n /\ rcvd < stream.end[k] /\ Window(req_count) /\ Len(responses) = req_count
  BY <1>1 DEF IndInv, Reading
<1>4. k \in Requests /\ stream.end[k] \in Nat /\ stream.end[req_count] \in Nat
  BY <1>2, <1>3, StreamOrder DEF Requests
<1>5. rcvd - stream.end[req_count] \in Nat
  <2> DEFINE e == stream.end[req_count]
  <2>1. rcvd \in Nat /\ e \in Nat /\ e <= rcvd
    BY <1>2, <1>3, <1>4 DEF Window
  <2> HIDE DEF e
  <2>2. rcvd - e \in Nat
    BY <2>1
  <2> QED
    BY <2>2 DEF e
<1>6. Len(buf) = rcvd - stream.end[req_count]
  BY <1>3, <1>4, <1>5, BytesLength DEF Window
<1>7. stream.end[k] - stream.end[req_count] > Room
  <2> DEFINE e == stream.end[req_count]
             f == stream.end[k]
  <2>1. /\ rcvd \in Nat /\ e \in Nat /\ f \in Nat /\ rcvd < f
        /\ rcvd - e >= Room /\ Room \in Int
    BY <1>1, <1>2, <1>3, <1>4, <1>6 DEF Room
  <2> HIDE DEF e, f
  <2>2. f - e > Room
    BY <2>1
  <2> QED
    BY <2>2 DEF e, f
<1>8. r \in Answers /\ r.to = NoRequest /\ r.status = "413"
  BY DEF Response, Answers, Statuses
<1> HIDE DEF r
<1>9. /\ responses' \in Seq(Answers) /\ AnsweredInOrder' /\ RefusedRightly' /\ CloseHonoured'
  BY <1>1, <1>3, <1>4, <1>7, <1>8, OneMoreResponse
<1>10. TypeOK'
  BY <1>1, <1>9 DEF IndInv, TypeOK, Answers, Requests, Reasons
<1>11. Delivery' /\ BufferInBounds' /\ Reading' /\ Answering'
  BY <1>1 DEF IndInv, Delivery, BufferInBounds, Reading, Answering
<1> QED
  BY <1>9, <1>10, <1>11 DEF IndInv

\* What was received is parsed as the next request, refused or waited for.
LEMMA ReceiveStep == IndInv /\ Receive => IndInv'
<1> SUFFICES ASSUME IndInv, Receive PROVE IndInv'
  OBVIOUS
<1> DEFINE k == req_count + 1
           e == stream.end[req_count]
           n == RecvCount
<1>1. /\ UNCHANGED <<armed, stream, sent, peer>>
      /\ pc = "recv" /\ Len(buf) < Room /\ sent > rcvd
      /\ rcvd' = rcvd + n /\ buf' = Filled
  BY DEF Receive
<1>2. /\ req_count \in 0 .. stream.n /\ rcvd \in Nat /\ sent \in Nat
      /\ IsStream(stream) /\ stream.n \in Nat
      /\ Room \in Nat /\ Len(buf) \in Nat
      /\ KEEPALIVE_MAX_REQUESTS \in Nat
  BY StreamOrder, KeepAliveAssumption DEF IndInv, TypeOK, Room
<1>3. /\ Window(req_count) /\ Len(responses) = req_count
      /\ \A i \in 1 .. req_count : stream.keep[i]
      /\ KEEPALIVE_MAX_REQUESTS > 0 => req_count < KEEPALIVE_MAX_REQUESTS
  BY <1>1 DEF IndInv, Reading
<1>4. e \in Nat /\ stream.end[stream.n] \in Nat
  BY <1>2, StreamOrder
<1>5. e <= rcvd /\ buf = Bytes(e, rcvd - e) /\ rcvd - e \in Nat
  BY <1>2, <1>3, <1>4 DEF Window
<1>6. req_count < stream.n
  BY <1>1, <1>2, <1>4, <1>5 DEF IndInv, Delivery
<1>7. /\ k \in Requests /\ k \in 0 .. stream.n /\ k - 1 = req_count
      /\ stream.end[k] \in Nat
  BY <1>2, <1>6, StreamOrder DEF Requests
<1>8. n \in Nat /\ n <= sent - rcvd /\ n <= Room - Len(buf)
  BY <1>1, <1>2 DEF RecvCount
<1>9. Filled = Bytes(e, rcvd - e + n)
  <2>1. e + (rcvd - e) = rcvd
    BY <1>2, <1>4
  <2> HIDE DEF e, n
  <2>2. Filled = Bytes(e, rcvd - e) \o [i \in 1 .. n |-> e + (rcvd - e) + i]
    BY <2>1, <1>5 DEF Filled, n
  <2> QED
    BY <2>2, <1>4, <1>5, <1>8, Extend
<1>10. /\ rcvd - e + n \in Nat /\ rcvd' - e = rcvd - e + n /\ rcvd' \in Nat
       /\ rcvd' <= sent /\ e <= rcvd'
  <2>1. rcvd' = rcvd + n /\ rcvd \in Nat /\ sent \in Nat /\ e \in Nat /\ n \in Nat
    BY <1>1, <1>2, <1>4, <1>8
  <2>2. e <= rcvd /\ n <= sent - rcvd
    BY <1>5, <1>8
  <2> HIDE DEF e, n
  <2> QED
    BY <2>1, <2>2
<1> HIDE DEF n
<1>11. buf' = Bytes(e, rcvd' - e) /\ rcvd' - e \in Nat
  BY <1>1, <1>9, <1>10
<1>12. buf' \in Seq(Nat) /\ Len(buf') = rcvd' - e
  BY <1>4, <1>11, BytesLength
<1>13. Len(buf') <= Room
  <2>1. Len(buf) = rcvd - e
    BY <1>4, <1>5, BytesLength
  <2>2. Len(buf') = rcvd - e + n /\ n <= Room - Len(buf)
    BY <1>8, <1>10, <1>12
  <2>3. rcvd \in Nat /\ e \in Nat /\ n \in Nat /\ Room \in Nat
    BY <1>2, <1>4, <1>8
  <2> HIDE DEF e
  <2> QED
    BY <2>1, <2>2, <2>3
<1>14. Delivery' /\ BufferInBounds'
  BY <1>1, <1>10, <1>13 DEF IndInv, Delivery, BufferInBounds, Room
<1>15. /\ parse_http_request(buf') = "PARSE_INCOMPLETE" => rcvd' - e < stream.end[k] - e
       /\ parse_http_request(buf') = "PARSE_ERROR" => ~stream.ok[k]
       /\ parse_http_request(buf') = "PARSE_OK" =>
            RequestIn(buf') = k /\ stream.end[k] - e <= rcvd' - e
  BY <1>2, <1>7, <1>11, ParseAligned
<1>16. CASE /\ parse_http_request(buf') = "PARSE_INCOMPLETE"
            /\ UNCHANGED <<pc, req, req_count, responses, why>>
  <2>1. rcvd' < stream.end[k]
    BY <1>1, <1>15, <1>16, <1>4, <1>7, <1>10
  <2>2. Window(req_count)'
    BY <1>1, <1>10, <1>11, <1>16 DEF Window
  <2>3. Reading'
    BY <2>1, <2>2, <1>1, <1>3, <1>6, <1>16 DEF Reading, Room
  <2>4. Answering'
    BY <1>1, <1>16 DEF Answering
  <2>5. TypeOK'
    BY <1>1, <1>10, <1>12, <1>16 DEF IndInv, TypeOK, Requests
  <2>6. AnsweredInOrder' /\ RefusedRightly' /\ CloseHonoured'
    BY <1>1, <1>16 DEF IndInv, AnsweredInOrder, RefusedRightly, CloseHonoured, Requests
  <2> QED
    BY <2>3, <2>4, <2>5, <2>6, <1>14 DEF IndInv
<1>17. CASE /\ parse_http_request(buf') = "PARSE_ERROR"
            /\ responses' = Append(responses, Response("400", NoRequest, "close"))
            /\ CloseBecause("400")
            /\ UNCHANGED <<req, req_count>>
  <2> DEFINE r == Response("400", NoRequest, "close")
  <2>1. ~stream.ok[k]
    BY <1>1, <1>15, <1>17
  <2>2. r \in Answers /\ r.to = NoRequest /\ r.status = "400"
    BY DEF Response, Answers, Statuses
  <2>3. pc' = "close_conn" /\ why' = "400" /\ responses' = Append(responses, r)
    BY <1>17 DEF CloseBecause
  <2> HIDE DEF r
  <2>4. responses' \in Seq(Answers) /\ AnsweredInOrder' /\ RefusedRightly' /\ CloseHonoured'
    BY <2>1, <2>2, <2>3, <1>1, <1>3, <1>7, OneMoreResponse
  <2>5. TypeOK'
    BY <2>3, <2>4, <1>1, <1>10, <1>12, <1>17 DEF IndInv, TypeOK, Answers, Requests, Reasons
  <2>6. Reading' /\ Answering'
    BY <2>3 DEF Reading, Answering
  <2> QED
    BY <2>4, <2>5, <2>6, <1>14 DEF IndInv
<1>18. CASE /\ parse_http_request(buf') = "PARSE_OK"
            /\ req' = RequestIn(buf')
            /\ req_count' = req_count + 1
            /\ pc' = "dispatch"
            /\ UNCHANGED <<responses, why>>
  <2>1. req' = k /\ stream.end[k] <= rcvd' /\ req_count' = k /\ pc' = "dispatch"
    BY <1>1, <1>15, <1>18, <1>4, <1>7, <1>10
  <2>2. req_count' - 1 = req_count /\ req_count' >= 1 /\ req_count' \in Nat
    BY <2>1, <1>2
  <2>4. stream.end[req_count' - 1] <= rcvd' /\ buf' = Bytes(stream.end[req_count' - 1], rcvd' - stream.end[req_count' - 1])
    BY <2>2, <1>10, <1>11
  <2>5. KEEPALIVE_MAX_REQUESTS > 0 => req_count' <= KEEPALIVE_MAX_REQUESTS
    BY <2>1, <1>2, <1>3
  <2>6. Answering'
    BY <2>1, <2>2, <2>4, <2>5, <1>1, <1>3, <1>18 DEF Answering, Window
  <2>7. Reading'
    BY <2>1 DEF Reading
  <2>8. TypeOK'
    BY <2>1, <2>5, <1>1, <1>7, <1>10, <1>12, <1>18 DEF IndInv, TypeOK, Requests
  <2>9. AnsweredInOrder' /\ RefusedRightly' /\ CloseHonoured'
    <3>1. \A i \in 1 .. Len(responses) : responses[i].to = i
      BY <1>1 DEF IndInv, AnsweredInOrder
    <3> QED
      BY <3>1, <1>1, <1>18 DEF IndInv, AnsweredInOrder, RefusedRightly, CloseHonoured, Requests
  <2> QED
    BY <2>6, <2>7, <2>8, <2>9, <1>14 DEF IndInv
<1> QED
  BY <1>16, <1>17, <1>18 DEF Receive

\* dispatch() answers the request at the start of the window with one response.
LEMMA DispatchAnswer ==
  ASSUME IndInv, Dispatch
  PROVE  \E r \in Answers : /\ responses' = Append(responses, r)
                            /\ r.to = req /\ r.status \in {"served", "error page"}
<1>1. req \in Requests \cup {NoRequest}
  BY DEF IndInv, TypeOK
<1>2. \A c \in {"keep-alive", "close"}, st \in {"served", "error page"} :
        /\ Response(st, req, c) \in Answers
        /\ Response(st, req, c).to = req /\ Response(st, req, c).status = st
  BY <1>1 DEF Response, Answers, Statuses
<1> QED
  BY <1>2 DEF Dispatch

\* The answer to the request at the start of the window.
LEMMA DispatchStep == IndInv /\ Dispatch => IndInv'
<1> SUFFICES ASSUME IndInv, Dispatch PROVE IndInv'
  OBVIOUS
<1>1. /\ UNCHANGED <<armed, stream, sent, peer, rcvd, buf, req, req_count, why>>
      /\ pc = "dispatch" /\ pc' = "dispatched"
  BY DEF Dispatch
<1>2. PICK r \in Answers :
        /\ responses' = Append(responses, r)
        /\ r.to = req /\ r.status \in {"served", "error page"}
  BY DispatchAnswer
<1>3. /\ req_count >= 1 /\ req = req_count /\ Len(responses) = req_count - 1
      /\ req_count \in Nat
  BY <1>1 DEF IndInv, Answering, TypeOK
<1>4. r.to = Len(responses) + 1
  <2>1. req_count = Len(responses) + 1
    BY <1>3
  <2> QED
    BY <2>1, <1>2, <1>3
<1>5. /\ responses' \in Seq(Answers) /\ Len(responses') = Len(responses) + 1
      /\ AnsweredInOrder' /\ RefusedRightly' /\ CloseHonoured'
  BY <1>1, <1>2, <1>4, OneMoreResponse
<1>6. TypeOK'
  BY <1>1, <1>5 DEF IndInv, TypeOK, Answers, Requests
<1>7. Delivery' /\ BufferInBounds' /\ Reading'
  BY <1>1 DEF IndInv, Delivery, BufferInBounds, Reading
<1>8. Len(responses') = req_count
  BY <1>3, <1>5
<1>9. Answering'
  BY <1>1, <1>8 DEF IndInv, Answering, Window
<1> QED
  BY <1>5, <1>6, <1>7, <1>9 DEF IndInv

\* The window moves to the first byte of the next request.
LEMMA SlideStep == IndInv /\ Slide => IndInv'
<1> SUFFICES ASSUME IndInv, Slide PROVE IndInv'
  OBVIOUS
<1> DEFINE k == req_count
           e == stream.end[k - 1]
           f == stream.end[k]
           c == http_request_consumed_bytes(buf, req)
<1>1. /\ UNCHANGED <<armed, stream, sent, peer, rcvd, req, req_count, responses, why>>
      /\ pc = "dispatched" /\ pc' = "recv" /\ stream.keep[req] /\ ~MaxReached
      /\ buf' = IF c >= Len(buf) THEN <<>> ELSE SubSeq(buf, c + 1, Len(buf))
  BY DEF Slide, keep_alive
<1>2. /\ k \in 0 .. stream.n /\ k >= 1 /\ req = k /\ rcvd \in Nat /\ IsStream(stream)
      /\ stream.n \in Nat /\ Room \in Nat /\ KEEPALIVE_MAX_REQUESTS \in Nat
  BY <1>1, StreamOrder, KeepAliveAssumption DEF IndInv, Answering, TypeOK, Room
<1>3. k \in Requests
  BY <1>2 DEF Requests
<1>4. /\ e \in Nat /\ f \in Nat /\ stream.head[k] \in Nat
      /\ e + 4 < stream.head[k] /\ stream.head[k] <= f
  BY <1>2, <1>3, StreamOrder DEF Requests
<1>5. /\ e <= rcvd /\ buf = Bytes(e, rcvd - e) /\ f <= rcvd /\ Len(responses) = k
      /\ \A i \in 1 .. k - 1 : stream.keep[i]
  BY <1>1 DEF IndInv, Answering, Window
<1>6. rcvd - e \in Nat /\ stream.head[k] - e <= rcvd - e
  <2> DEFINE h == stream.head[k]
  <2>1. /\ e \in Nat /\ h \in Nat /\ rcvd \in Nat
        /\ e <= rcvd /\ h <= f /\ f <= rcvd /\ f \in Nat
    BY <1>2, <1>4, <1>5
  <2> HIDE DEF e, f, h
  <2>2. rcvd - e \in Nat /\ h - e <= rcvd - e
    BY <2>1
  <2> QED
    BY <2>2 DEF h
<1>7. BodyStart(buf) = stream.head[k] - e
  BY <1>2, <1>3, <1>5, <1>6, FirstHead
<1>8. c = f - e
  BY <1>2, <1>4, <1>7 DEF http_request_consumed_bytes, content_length
<1>9. f - e \in Nat /\ f - e <= rcvd - e /\ e + (f - e) = f /\ (rcvd - e) - (f - e) = rcvd - f
  <2>1. e \in Nat /\ f \in Nat /\ rcvd \in Nat /\ e <= f /\ f <= rcvd
    BY <1>2, <1>4, <1>5
  <2> HIDE DEF e, f
  <2> QED
    BY <2>1
<1> HIDE DEF c
<1>10. buf' = Bytes(f, rcvd - f)
  <2> HIDE DEF e, f
  <2>1. buf' = IF f - e >= Len(Bytes(e, rcvd - e)) THEN <<>>
               ELSE SubSeq(Bytes(e, rcvd - e), (f - e) + 1, Len(Bytes(e, rcvd - e)))
    BY <1>1, <1>5, <1>8
  <2>2. buf' = Bytes(e + (f - e), (rcvd - e) - (f - e))
    BY <2>1, <1>4, <1>6, <1>9, SlideWindow
  <2> QED
    BY <2>2, <1>9
<1>11. rcvd - f \in Nat
  <2>1. rcvd \in Nat /\ f \in Nat /\ f <= rcvd
    BY <1>2, <1>4, <1>5
  <2> HIDE DEF f
  <2> QED
    BY <2>1
<1>12. buf' \in Seq(Nat) /\ Len(buf') = rcvd - f
  BY <1>4, <1>10, <1>11, BytesLength
<1>13. Len(buf') < Room
  <2>1. Len(buf) = rcvd - e /\ Len(buf) <= Room
    BY <1>4, <1>5, <1>6, BytesLength DEF IndInv, BufferInBounds
  <2> HIDE DEF e, f
  <2> QED
    BY <2>1, <1>2, <1>4, <1>12
<1>14. Window(req_count)'
  BY <1>1, <1>5, <1>10 DEF Window
<1>15. \A i \in 1 .. k : stream.keep[i]
  <2>1. \A i \in 1 .. k : i \in 1 .. k - 1 \/ i = k
    BY <1>2
  <2> QED
    BY <2>1, <1>1, <1>2, <1>5
<1>16. KEEPALIVE_MAX_REQUESTS > 0 => req_count < KEEPALIVE_MAX_REQUESTS
  BY <1>1, <1>2 DEF MaxReached
<1>17. ~(Len(buf') >= Room)
  BY <1>2, <1>11, <1>12, <1>13
<1>18. Reading'
  BY <1>1, <1>5, <1>14, <1>15, <1>16, <1>17 DEF Reading, Room
<1>19. BufferInBounds'
  BY <1>2, <1>11, <1>12, <1>13 DEF BufferInBounds, Room
<1>20. TypeOK'
  BY <1>1, <1>12 DEF IndInv, TypeOK, Requests
<1>21. Delivery' /\ Answering'
  BY <1>1 DEF IndInv, Delivery, Answering
<1>22. AnsweredInOrder' /\ RefusedRightly' /\ CloseHonoured'
  <2>1. \A i \in 1 .. Len(responses) : responses[i].to = i
    BY <1>1 DEF IndInv, AnsweredInOrder
  <2> QED
    BY <2>1, <1>1 DEF IndInv, AnsweredInOrder, RefusedRightly, CloseHonoured, Requests
<1> QED
  BY <1>18, <1>19, <1>20, <1>21, <1>22 DEF IndInv

-----------------------------------------------------------------------------
(* The theorems.                                                           *)

\* Nothing happens once handle_connection() has returned.
LEMMA StutterStep == IndInv /\ UNCHANGED vars => IndInv'
  BY DEF IndInv, vars, TypeOK, Delivery, BufferInBounds, Reading, Answering, Window,
         AnsweredInOrder, RefusedRightly, CloseHonoured, Requests

\* The invariant of the connection loop holds in every reachable state.
THEOREM Invariance == Spec => []IndInv
<1>1. Init => IndInv
  BY InitInv
<1>2. IndInv /\ [Next]_vars => IndInv'
  BY ClientSteps, SilentEnds, TooLargeStep, ReceiveStep, DispatchStep, SlideStep, StutterStep
     DEF Next, ServerStep, Closed
<1> QED
  BY <1>1, <1>2, PTL DEF Spec

\* Type correctness.
THEOREM TypeCorrect == Spec => []TypeOK
<1>1. IndInv => TypeOK
  BY DEF IndInv
<1> QED
  BY <1>1, Invariance, PTL

\* recv() and the NUL behind it stay inside buf, for every buffer size and
\* however the client's bytes arrive.
THEOREM InBounds == Spec => []BufferInBounds
<1>1. IndInv => BufferInBounds
  BY DEF IndInv
<1> QED
  BY <1>1, Invariance, PTL

\* The sliding window of handle_connection() always starts at a request and
\* neither loses nor repeats a byte.
THEOREM Aligned == Spec => []WindowAligned
<1>1. IndInv => WindowAligned
  BY DEF IndInv, WindowAligned, Slid, Reading, Answering, Window, Bytes
<1> QED
  BY <1>1, Invariance, PTL

\* One response for each request, in order.
THEOREM InOrder == Spec => []AnsweredInOrder
<1>1. IndInv => AnsweredInOrder
  BY DEF IndInv
<1> QED
  BY <1>1, Invariance, PTL

\* 400 only for a malformed head, 413 only for a request too long for the buffer.
THEOREM Refusals == Spec => []RefusedRightly
<1>1. IndInv => RefusedRightly
  BY DEF IndInv
<1> QED
  BY <1>1, Invariance, PTL

\* Nothing is answered after a request that asked to close, nor beyond the limit.
THEOREM Closing == Spec => []CloseHonoured
<1>1. IndInv => CloseHonoured
  BY DEF IndInv
<1> QED
  BY <1>1, Invariance, PTL

-----------------------------------------------------------------------------
(* A client that waits for its answers.                                    *)

\* The loop has not ended.
Running == pc \notin {"close_conn", "closed"} => why = "-"

\* The client has sent no byte behind the request it has yet to be answered.
HeldBack == sent = 0 \/ \E k \in Requests : sent <= stream.end[k] /\ k <= Len(responses) + 1

\* The next request is not complete while it is read, and nothing of the one
\* behind it has been received while it is answered.
OneAtATime ==
  /\ pc = "recv" /\ req_count < stream.n => rcvd < stream.end[req_count + 1]
  /\ pc \in {"dispatch", "dispatched"} => rcvd <= stream.end[req_count]

Waiting == ~stream.pipelining => HeldBack /\ OneAtATime /\ ~Abandoned

WaitInv == Running /\ Waiting

\* A new connection has nothing waiting unanswered.
LEMMA WaitInit == Init => WaitInv
<1> SUFFICES ASSUME Init PROVE WaitInv
  OBVIOUS
<1>1. IsStream(stream)
  BY KeepAliveAssumption DEF Init
<1>2. stream.n > 0 => 0 < stream.end[1]
  <2> HAVE stream.n > 0
  <2>1. 1 \in 1 .. stream.n /\ 1 \in 0 .. stream.n
    BY <1>1, StreamOrder
  <2>2. stream.end[1 - 1] + 4 < stream.head[1] /\ stream.head[1] <= stream.end[1]
    BY <1>1, <2>1, StreamOrder
  <2>3. stream.end[0] = 0 /\ stream.head[1] \in Nat /\ stream.end[1] \in Nat
    BY <1>1, <2>1, StreamOrder DEF IsStream
  <2> QED
    BY <2>2, <2>3
<1> QED
  BY <1>2 DEF Init, WaitInv, Running, Waiting, HeldBack, OneAtATime, Abandoned

\* More answers only let the client send more.
LEMMA HeldBackStays ==
  ASSUME HeldBack, UNCHANGED <<stream, sent>>,
         Len(responses) \in Nat, Len(responses') \in Nat, Len(responses) <= Len(responses')
  PROVE  HeldBack'
<1>1. ASSUME NEW k \in Requests, k <= Len(responses) + 1
      PROVE  k <= Len(responses') + 1
  <2>1. k \in Int
    BY DEF Requests
  <2> QED
    BY <1>1, <2>1
<1> QED
  BY <1>1 DEF HeldBack, Requests

\* Every action is taken with the connection as it should be, and only the
\* receiving ones have more to show than that.
LEMMA WaitStep == IndInv /\ IndInv' /\ WaitInv /\ [Next]_vars => WaitInv'
<1> SUFFICES ASSUME IndInv, IndInv', WaitInv, [Next]_vars PROVE WaitInv'
  OBVIOUS
<1> Running /\ Waiting
  BY DEF WaitInv
<1>s. /\ IsStream(stream) /\ stream.n \in Nat /\ req_count \in 0 .. stream.n
      /\ rcvd \in Nat /\ rcvd' \in Nat /\ sent \in Nat
      /\ Len(responses) \in Nat /\ Len(responses') \in Nat
  BY StreamOrder DEF IndInv, TypeOK
<1>1. CASE Send
  <2>1. /\ UNCHANGED <<stream, rcvd, pc, req_count, responses, why>>
        /\ ~stream.pipelining => MaySend(sent')
    BY <1>1 DEF Send
  <2>2. ~stream.pipelining => HeldBack'
    BY <2>1 DEF MaySend, HeldBack, Requests
  <2> QED
    BY <2>1, <2>2 DEF WaitInv, Running, Waiting, OneAtATime, Abandoned
<1>2. CASE Leave \/ CloseConn \/ UNCHANGED vars
  <2>1. /\ UNCHANGED <<stream, sent, rcvd, req_count, responses, why>>
        /\ \/ pc' = pc
           \/ pc = "close_conn" /\ pc' = "closed"
    BY <1>2 DEF Leave, CloseConn, vars
  <2>2. HeldBack => HeldBack'
    BY <2>1, <1>s, HeldBackStays
  <2> QED
    BY <2>1, <2>2 DEF WaitInv, Running, Waiting, OneAtATime, Abandoned
<1>3. CASE TooLarge
  <2>1. /\ UNCHANGED <<stream, sent>> /\ pc' = "close_conn" /\ why' = "413"
        /\ Len(responses') = Len(responses) + 1
    BY <1>3, <1>s DEF TooLarge, CloseBecause, IndInv, TypeOK
  <2>2. HeldBack => HeldBack'
    BY <2>1, <1>s, HeldBackStays
  <2> QED
    BY <2>1, <2>2 DEF WaitInv, Running, Waiting, OneAtATime, Abandoned
<1>4. CASE Receive
  <2> DEFINE k == req_count + 1
             e == stream.end[req_count]
  <2>1. /\ UNCHANGED <<stream, sent>> /\ pc = "recv"
        /\ Len(responses) = req_count /\ rcvd' <= sent'
    BY <1>4 DEF Receive, IndInv, Reading, Delivery
  <2>2. CASE /\ parse_http_request(buf') = "PARSE_INCOMPLETE"
             /\ UNCHANGED <<pc, req, req_count, responses, why>>
    <3>1. HeldBack => HeldBack'
      BY <2>1, <2>2, <1>s, HeldBackStays
    <3>2. ASSUME req_count < stream.n PROVE rcvd' < stream.end[k]
      <4>1. k \in Requests /\ k - 1 = req_count
        BY <1>s, <3>2 DEF Requests
      <4>2. e \in Nat /\ stream.end[k] \in Nat
        BY <1>s, <3>2, StreamOrder
      <4>3. e <= rcvd' /\ buf' = Bytes(e, rcvd' - e)
        BY <2>1, <2>2 DEF IndInv, Reading, Window
      <4>4. rcvd' - e \in Nat
        BY <4>2, <4>3, <1>s
      <4>5. rcvd' - e < stream.end[k] - e
        BY <2>2, <4>1, <4>3, <4>4, <1>s, ParseAligned
      <4> HIDE DEF e, k
      <4> QED
        BY <4>2, <4>5, <1>s
    <3> QED
      BY <2>1, <2>2, <3>1, <3>2 DEF WaitInv, Running, Waiting, OneAtATime, Abandoned
  <2>3. CASE /\ parse_http_request(buf') = "PARSE_ERROR"
             /\ responses' = Append(responses, Response("400", NoRequest, "close"))
             /\ CloseBecause("400")
    <3>1. Len(responses') = Len(responses) + 1
      BY <2>3, <1>s DEF IndInv, TypeOK
    <3>2. HeldBack => HeldBack'
      BY <2>1, <3>1, <1>s, HeldBackStays
    <3> QED
      BY <2>3, <3>2, <2>1 DEF CloseBecause, WaitInv, Running, Waiting, OneAtATime, Abandoned
  <2>4. CASE /\ req_count' = req_count + 1 /\ pc' = "dispatch"
             /\ UNCHANGED <<responses, why>>
    <3>1. HeldBack => HeldBack'
      BY <2>1, <2>4, <1>s, HeldBackStays
    <3>2. ASSUME HeldBack PROVE rcvd' <= stream.end[k]
      <4>1. k \in 1 .. stream.n /\ stream.end[k] \in Nat /\ k \in Nat
        <5>1. req_count' \in 0 .. stream'.n
          BY DEF IndInv, TypeOK
        <5>2. k \in 0 .. stream.n
          BY <5>1, <2>1, <2>4
        <5>3. k \in 1 .. stream.n /\ k \in Nat
          BY <5>2, <1>s
        <5> QED
          BY <5>3, <1>s, StreamOrder
      <4>2. ASSUME NEW j \in Requests, sent <= stream.end[j], j <= Len(responses) + 1
            PROVE  sent <= stream.end[k]
        <5>1. j \in 1 .. stream.n /\ j <= k /\ stream.end[j] \in Nat
          BY <4>2, <2>1, <1>s, StreamOrder DEF Requests
        <5>2. stream.end[j] <= stream.end[k]
          <6>1. CASE j = k
            BY <6>1, <5>1
          <6>2. CASE j < k
            <7>1. stream.end[j] <= stream.end[k - 1]
              BY <6>2, <4>1, <5>1, <1>s, StreamOrder
            <7>2. /\ stream.end[k - 1] + 4 < stream.head[k] /\ stream.head[k] <= stream.end[k]
                  /\ stream.end[k - 1] \in Nat /\ stream.head[k] \in Nat
              BY <4>1, <1>s, StreamOrder
            <7> QED
              BY <7>1, <7>2, <4>1, <5>1
          <6> QED
            BY <6>1, <6>2, <5>1, <4>1
        <5> QED
          BY <4>1, <4>2, <5>1, <5>2, <1>s
      <4>3. sent <= stream.end[k]
        BY <3>2, <4>1, <4>2 DEF HeldBack
      <4> QED
        BY <4>1, <4>3, <2>1, <1>s
    <3>3. ~Abandoned'
      BY <2>1, <2>4 DEF Running, Abandoned
    <3> QED
      BY <2>1, <2>4, <3>1, <3>2, <3>3 DEF WaitInv, Running, Waiting, OneAtATime
  <2> QED
    BY <1>4, <2>2, <2>3, <2>4 DEF Receive
<1>5. CASE RecvTimeout \/ RecvEnd
  <2>1. /\ UNCHANGED <<stream, sent, rcvd, req_count, responses>>
        /\ pc = "recv" /\ pc' = "close_conn"
    BY <1>5 DEF RecvTimeout, RecvEnd, CloseBecause
  <2>2. HeldBack => HeldBack'
    BY <2>1, <1>s, HeldBackStays
  <2>3. req_count < stream.n => stream.end[req_count + 1] \in Nat
    BY <1>s, StreamOrder
  <2>4. OneAtATime => ~Abandoned'
    BY <2>1, <2>3, <1>s DEF OneAtATime, Abandoned
  <2> QED
    BY <2>1, <2>2, <2>4 DEF WaitInv, Running, Waiting, OneAtATime
<1>6. CASE Dispatch
  <2>1. /\ UNCHANGED <<stream, sent, rcvd, req_count, why>>
        /\ pc = "dispatch" /\ pc' = "dispatched"
    BY <1>6 DEF Dispatch
  <2>r. PICK r \in Answers : responses' = Append(responses, r)
    BY <1>6, DispatchAnswer
  <2>2. Len(responses') = Len(responses) + 1
    BY <2>r, AppendResponse DEF IndInv, TypeOK, Answers
  <2>3. HeldBack => HeldBack'
    BY <2>1, <2>2, <1>s, HeldBackStays
  <2> QED
    BY <2>1, <2>3 DEF WaitInv, Running, Waiting, OneAtATime, Abandoned
<1>7. CASE EndAfterResponse
  <2>1. /\ UNCHANGED <<stream, sent, responses>>
        /\ pc' = "close_conn" /\ why' \in {"Connection: close", "max requests"}
    BY <1>7 DEF EndAfterResponse, CloseBecause
  <2>2. Len(responses) <= Len(responses')
    <3>1. Len(responses') = Len(responses)
      BY <2>1
    <3> QED
      BY <3>1, <1>s
  <2>3. HeldBack => HeldBack'
    BY <2>1, <2>2, <1>s, HeldBackStays
  <2> QED
    BY <2>1, <2>3 DEF WaitInv, Running, Waiting, OneAtATime, Abandoned
<1>8. CASE Slide
  <2>1. /\ UNCHANGED <<stream, sent, rcvd, req_count, responses, why>>
        /\ pc = "dispatched" /\ pc' = "recv"
    BY <1>8 DEF Slide
  <2>2. HeldBack => HeldBack'
    BY <2>1, <1>s, HeldBackStays
  <2>3. ASSUME OneAtATime, req_count < stream.n PROVE rcvd < stream.end[req_count + 1]
    <3> DEFINE k == req_count + 1
    <3>1. k \in 1 .. stream.n /\ k - 1 = req_count
      BY <1>s, <2>3
    <3>2. /\ stream.end[k - 1] + 4 < stream.head[k] /\ stream.head[k] <= stream.end[k]
          /\ stream.end[k - 1] \in Nat /\ stream.head[k] \in Nat /\ stream.end[k] \in Nat
      BY <1>s, <3>1, StreamOrder
    <3>3. rcvd <= stream.end[k - 1]
      BY <2>1, <2>3, <3>1 DEF OneAtATime
    <3> HIDE DEF k
    <3>4. rcvd < stream.end[k]
      BY <3>2, <3>3, <1>s
    <3> QED
      BY <3>4 DEF k
  <2>4. pc' # "dispatch" /\ pc' # "dispatched"
    BY <2>1
  <2>5. OneAtATime => OneAtATime'
    BY <2>1, <2>3, <2>4 DEF OneAtATime
  <2> QED
    BY <2>1, <2>2, <2>5 DEF WaitInv, Running, Waiting, Abandoned
<1> QED
  BY <1>1, <1>2, <1>3, <1>4, <1>5, <1>6, <1>7, <1>8 DEF Next, ServerStep, Closed

\* A client that waits for each answer is never left with a complete request by
\* the receive timeout or its own FIN, wherever TCP cuts its bytes.
THEOREM NoneAbandoned == Spec => []NoRequestAbandoned
<1>1. WaitInv => NoRequestAbandoned
  BY DEF WaitInv, Waiting, NoRequestAbandoned
<1>2. Spec => []WaitInv
  BY WaitInit, WaitStep, Invariance, PTL DEF Spec
<1> QED
  BY <1>1, <1>2, PTL
=============================================================================
