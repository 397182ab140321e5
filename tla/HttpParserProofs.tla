-------------------------- MODULE HttpParserProofs --------------------------
(***************************************************************************)
(* What the parser says of a buffer stays true when more bytes come, for   *)
(* every input and all limits; hence the request that is read does not     *)
(* depend on how TCP cut the bytes into pieces.  And what it makes of a    *)
(* message: the grammar's parts of its lines, hence what the client meant; *)
(* what is accepted can be written out as such a message again; and the    *)
(* connection loop, which counts bytes, may rely on it.                    *)
(***************************************************************************)
EXTENDS RequestReader, CommonLemmas

\* The first bytes of the first bytes.
LEMMA UpToShape ==
  ASSUME NEW t \in Seq(Byte), NEW p \in 0 .. Len(t)
  PROVE  /\ UpTo(t, p) \in Seq(Byte)
         /\ Len(UpTo(t, p)) = p
         /\ \A i \in 1 .. p : UpTo(t, p)[i] = t[i]
  BY DEF UpTo

\* A piece of a sequence.
LEMMA PieceShape ==
  ASSUME NEW t \in Seq(Byte), NEW i \in 1 .. Len(t) + 1, NEW j \in i - 1 .. Len(t)
  PROVE  /\ SubSeq(t, i, j) \in Seq(Byte)
         /\ Len(SubSeq(t, i, j)) = j - i + 1
         /\ \A k \in 1 .. j - i + 1 : SubSeq(t, i, j)[k] = t[i + k - 1]
<1>1. Len(t) \in Nat /\ i \in Nat /\ i >= 1 /\ j \in Int /\ i - 1 <= j /\ j <= Len(t)
  OBVIOUS
<1>2. SubSeq(t, i, j) = [k \in 1 .. j - i + 1 |-> t[i + k - 1]]
  BY <1>1
<1>3. \A k \in 1 .. j - i + 1 : i + k - 1 \in 1 .. Len(t)
  BY <1>1
<1>4. j - i + 1 \in Nat
  BY <1>1
<1>5. SubSeq(t, i, j) \in [1 .. j - i + 1 -> Byte]
  BY <1>2, <1>3
<1> QED
  BY <1>2, <1>4, <1>5

\* Bytes in the middle of the first bytes are those of the whole.
LEMMA MiddleSame ==
  ASSUME NEW t \in Seq(Byte), NEW p \in 0 .. Len(t), NEW i \in 1 .. p + 1, NEW j \in 0 .. p
  PROVE  SubSeq(UpTo(t, p), i, j) = SubSeq(t, i, j)
<1> DEFINE s == UpTo(t, p)
<1>1. s \in Seq(Byte) /\ Len(s) = p /\ \A k \in 1 .. p : s[k] = t[k]
  BY UpToShape
<1>2. i \in Nat /\ j \in Nat /\ p \in Nat /\ i >= 1 /\ j <= p /\ p <= Len(t) /\ Len(t) \in Nat
  OBVIOUS
<1> HIDE DEF s
<1>3. /\ SubSeq(s, i, j) = [k \in 1 .. j - i + 1 |-> s[i + k - 1]]
      /\ SubSeq(t, i, j) = [k \in 1 .. j - i + 1 |-> t[i + k - 1]]
  BY <1>1, <1>2
<1>4. \A k \in 1 .. j - i + 1 : i + k - 1 \in 1 .. p
  BY <1>2
<1> QED
  BY <1>1, <1>3, <1>4 DEF s

\* The separators in the first bytes are those of the whole that fit there.
LEMMA SeparatorsOfPrefix ==
  ASSUME NEW t \in Seq(Byte), NEW p \in 0 .. Len(t)
  PROVE  Separators(UpTo(t, p)) = {i \in Separators(t) : i + 3 <= p}
<1>1. Len(UpTo(t, p)) = p
  BY UpToShape
<1>2. ASSUME NEW i \in 1 .. p - 3
      PROVE  SubSeq(UpTo(t, p), i, i + 3) = SubSeq(t, i, i + 3)
  <2>1. i \in 1 .. p + 1 /\ i + 3 \in 0 .. p
    OBVIOUS
  <2> QED
    BY <2>1, MiddleSame
<1>3. p \in Nat /\ Len(t) \in Nat /\ p <= Len(t)
  OBVIOUS
<1>4. Separators(UpTo(t, p)) = {i \in 1 .. p - 3 : SubSeq(t, i, i + 3) = CRLF \o CRLF}
  BY <1>1, <1>2 DEF Separators
<1>5. \A i : i \in 1 .. p - 3 <=> i \in 1 .. Len(t) - 3 /\ i + 3 <= p
  BY <1>3
<1> QED
  BY <1>4, <1>5 DEF Separators

\* A non-empty set of natural numbers has a least element, and Min is it.
LEMMA MinOfNat ==
  ASSUME NEW S, S \subseteq Nat, S # {}
  PROVE  Min(S) \in S /\ \A j \in S : Min(S) <= j
<1>1. PICK x \in S : \A y \in S : x <= y
  BY LeastOf
<1> QED
  BY <1>1 DEF Min

\* Where a separator may begin, and that header_end is the first.
LEMMA HeaderEndFirst ==
  ASSUME NEW s \in Seq(Byte), Separators(s) # {}
  PROVE  /\ header_end(s) \in Separators(s)
         /\ header_end(s) \in Nat \ {0}
         /\ header_end(s) + 3 <= Len(s)
         /\ \A j \in Separators(s) : header_end(s) <= j
<1>1. Separators(s) \subseteq Nat /\ \A i \in Separators(s) : i # 0 /\ i + 3 <= Len(s)
  <2>1. Len(s) \in Nat
    OBVIOUS
  <2> QED
    BY <2>1 DEF Separators
<1>2. header_end(s) = Min(Separators(s))
  BY DEF header_end
<1> QED
  BY <1>1, <1>2, MinOfNat

\* Once the end of the head has arrived it stays where it is.
LEMMA HeadStays ==
  ASSUME NEW t \in Seq(Byte), NEW p \in 0 .. Len(t), NEW q \in p .. Len(t),
         header_end(UpTo(t, p)) # 0
  PROVE  /\ header_end(UpTo(t, q)) = header_end(UpTo(t, p))
         /\ HeadOf(UpTo(t, q)) = HeadOf(UpTo(t, p))
         /\ header_end(UpTo(t, p)) \in 1 .. p - 3
<1> DEFINE s == UpTo(t, p)
           u == UpTo(t, q)
           h == header_end(s)
           g == header_end(u)
<1>1. p \in Nat /\ q \in Nat /\ p <= q /\ q \in 0 .. Len(t)
  OBVIOUS
<1>2. /\ s \in Seq(Byte) /\ Len(s) = p
      /\ u \in Seq(Byte) /\ Len(u) = q
  BY <1>1, UpToShape
<1>3. Separators(s) # {}
  BY DEF header_end
<1>4. /\ Separators(s) = {i \in Separators(t) : i + 3 <= p}
      /\ Separators(u) = {i \in Separators(t) : i + 3 <= q}
  BY <1>1, SeparatorsOfPrefix
<1>5. /\ h \in Separators(s) /\ h \in Nat \ {0} /\ h + 3 <= p
      /\ \A j \in Separators(s) : h <= j
  BY <1>2, <1>3, HeaderEndFirst
<1>6. h \in Separators(u)
  BY <1>1, <1>4, <1>5
<1>7. /\ g \in Separators(u) /\ g \in Nat \ {0}
      /\ \A j \in Separators(u) : g <= j
  BY <1>2, <1>6, HeaderEndFirst
<1> HIDE DEF h, g, s, u
<1>8. g <= h /\ g + 3 <= p
  BY <1>1, <1>5, <1>6, <1>7
<1>9. g \in Separators(s)
  BY <1>4, <1>7, <1>8
<1>10. g = h
  BY <1>5, <1>7, <1>8, <1>9
<1>11. UpTo(u, g + 1) = UpTo(s, h + 1)
  <2>1. 1 \in 1 .. p + 1 /\ 1 \in 1 .. q + 1 /\ h + 1 \in 0 .. p /\ h + 1 \in 0 .. q
    BY <1>1, <1>5
  <2>2. SubSeq(s, 1, h + 1) = SubSeq(t, 1, h + 1) /\ SubSeq(u, 1, h + 1) = SubSeq(t, 1, h + 1)
    BY <1>1, <2>1, MiddleSame DEF s, u
  <2> QED
    BY <2>2, <1>10 DEF UpTo
<1>12. h \in 1 .. p - 3
  BY <1>1, <1>5
<1> QED
  BY <1>10, <1>11, <1>12 DEF HeadOf, s, u, h, g

\* Whatever the digits are, the number is a size_t.
LEMMA StrtoulType ==
  ASSUME NEW s PROVE strtoul(s) \in 0 .. SIZE_MAX
<1>1. ASSUME NEW number, NEW minus \in BOOLEAN
      PROVE  (IF number \notin 0 .. SIZE_MAX THEN SIZE_MAX
              ELSE IF minus /\ number # 0 THEN SIZE_MAX + 1 - number ELSE number) \in 0 .. SIZE_MAX
  BY ParserAssumption
<1> QED
  BY <1>1 DEF strtoul

\* The Content-Length the parser stores is a number.
LEMMA ContentLengthType ==
  ASSUME NEW req PROVE content_length(req) \in Nat
<1>1. 0 .. SIZE_MAX \subseteq Nat
  BY ParserAssumption
<1> QED
  BY <1>1, StrtoulType DEF content_length

\* A body that was complete is the same body when more bytes are behind it.
LEMMA BodyStays ==
  ASSUME NEW t \in Seq(Byte), NEW p \in 0 .. Len(t), NEW q \in p .. Len(t),
         NEW i \in 1 .. p + 1, NEW r,
         parse_body(r, From(UpTo(t, p), i)) # PARSE_INCOMPLETE
  PROVE  parse_body(r, From(UpTo(t, q), i)) = parse_body(r, From(UpTo(t, p), i))
<1> DEFINE a == From(UpTo(t, p), i)
           b == From(UpTo(t, q), i)
           c == content_length(r.req)
<1>1. p \in Nat /\ q \in Nat /\ p <= q /\ q \in 0 .. Len(t) /\ i \in Nat /\ i >= 1 /\ i <= p + 1
  OBVIOUS
<1>2. a = SubSeq(t, i, p) /\ b = SubSeq(t, i, q)
  <2>1. Len(UpTo(t, p)) = p /\ Len(UpTo(t, q)) = q
    BY <1>1, UpToShape
  <2>2. p \in 0 .. p /\ q \in 0 .. q /\ i \in 1 .. q + 1
    BY <1>1
  <2> QED
    BY <1>1, <2>1, <2>2, MiddleSame DEF From
<1>3. c \in Nat
  BY ContentLengthType
<1> HIDE DEF a, b, c
<1>4. /\ a \in Seq(Byte) /\ Len(a) = p - i + 1 /\ \A k \in 1 .. Len(a) : a[k] = t[i + k - 1]
      /\ b \in Seq(Byte) /\ Len(b) = q - i + 1 /\ \A k \in 1 .. Len(b) : b[k] = t[i + k - 1]
  <2>1. i \in 1 .. Len(t) + 1 /\ p \in i - 1 .. Len(t) /\ q \in i - 1 .. Len(t)
    BY <1>1
  <2> QED
    BY <1>2, <2>1, PieceShape
<1>5. CASE r.result # "PARSE_OK"
  BY <1>5 DEF parse_body
<1>6. CASE r.result = "PARSE_OK"
  <2>1. ~(Len(a) < c)
    BY <1>6 DEF parse_body, a, c
  <2>2. ~(Len(b) < c) /\ c \in 0 .. Len(a) /\ c \in 0 .. Len(b)
    BY <1>1, <1>3, <1>4, <2>1
  <2>3. UpTo(a, c) = UpTo(b, c)
    <3>1. /\ SubSeq(a, 1, c) = [k \in 1 .. c |-> a[k]]
          /\ SubSeq(b, 1, c) = [k \in 1 .. c |-> b[k]]
      BY <1>3, <1>4, <2>2
    <3>2. \A k \in 1 .. c : a[k] = b[k]
      BY <1>3, <1>4, <2>2
    <3> QED
      BY <3>1, <3>2 DEF UpTo
  <2> QED
    BY <1>6, <2>1, <2>2, <2>3 DEF parse_body, a, b, c
<1> QED
  BY <1>5, <1>6

\* The parser of a buffer and of a longer one that begins with it: where the
\* first gives a verdict, the second gives the same, with the same request.
THEOREM VerdictStays ==
  ASSUME NEW t \in Seq(Byte), NEW p \in 0 .. Len(t), NEW q \in p .. Len(t),
         parse_http_request(UpTo(t, p)) # PARSE_INCOMPLETE
  PROVE  parse_http_request(UpTo(t, q)) = parse_http_request(UpTo(t, p))
<1> DEFINE h == header_end(UpTo(t, p))
<1>1. h # 0
  BY DEF parse_http_request
<1>2. /\ header_end(UpTo(t, q)) = h
      /\ HeadOf(UpTo(t, q)) = HeadOf(UpTo(t, p))
      /\ h \in 1 .. p - 3
  BY <1>1, HeadStays
<1> DEFINE r == parse_head(HeadOf(UpTo(t, p)))
<1>3. /\ parse_http_request(UpTo(t, p)) = parse_body(r, From(UpTo(t, p), h + 4))
      /\ parse_http_request(UpTo(t, q)) = parse_body(r, From(UpTo(t, q), h + 4))
  BY <1>1, <1>2 DEF parse_http_request
<1>4. h + 4 \in 1 .. p + 1
  <2> HIDE DEF h
  <2> QED
    BY <1>2
<1> HIDE DEF h, r
<1> QED
  BY <1>3, <1>4, BodyStays

\* An accepted request is there as a whole: the window never slides past the
\* bytes received, and the body is as long as Content-Length says.
THEOREM AcceptedFits ==
  ASSUME NEW s \in Seq(Byte), NEW r, parse_http_request(s) = PARSE_OK(r)
  PROVE  /\ http_request_consumed_bytes(s, r) \in 0 .. Len(s)
         /\ Len(r.body) = r.content_length
<1> DEFINE h == header_end(s)
           b == From(s, h + 4)
           p == parse_head(HeadOf(s))
           c == content_length(p.req)
<1>1. h # 0 /\ parse_body(p, b) = PARSE_OK(r)
  BY DEF parse_http_request, PARSE_OK, PARSE_INCOMPLETE, Result
<1>2. h \in Nat \ {0} /\ h + 3 <= Len(s) /\ Len(s) \in Nat
  BY <1>1, HeaderEndFirst DEF header_end
<1>3. c \in Nat
  BY ContentLengthType
<1>4. b \in Seq(Byte) /\ Len(b) = Len(s) - h - 3
  <2> HIDE DEF h
  <2>1. h + 4 \in 1 .. Len(s) + 1 /\ Len(s) \in h + 4 - 1 .. Len(s)
    BY <1>2
  <2> QED
    BY <1>2, <2>1, PieceShape DEF From
<1> HIDE DEF h, b, p
<1>5. p.result = "PARSE_OK" /\ ~(Len(b) < c)
  BY <1>1 DEF parse_body, PARSE_OK, PARSE_INCOMPLETE, Result
<1>6. r.content_length = c /\ r.body = UpTo(b, c)
  BY <1>1, <1>5 DEF parse_body, PARSE_OK, Result
<1> HIDE DEF c
<1>7. c <= Len(b) /\ Len(b) \in Nat
  BY <1>3, <1>4, <1>5
<1>8. Len(UpTo(b, c)) = c
  <2>1. c \in 0 .. Len(b)
    BY <1>3, <1>7
  <2> QED
    BY <1>4, <2>1, UpToShape
<1>9. http_request_consumed_bytes(s, r) = h + 3 + c
  BY <1>6 DEF http_request_consumed_bytes, h
<1> QED
  BY <1>2, <1>3, <1>4, <1>6, <1>7, <1>8, <1>9

\* The bytes the parser looks for are different bytes.
LEMMA Symbols ==
  /\ CR \in Byte /\ LF \in Byte /\ SP \in Byte /\ TAB \in Byte /\ ":" \in Byte /\ "?" \in Byte
  /\ CR # LF /\ CR # SP /\ CR # TAB /\ CR # ":" /\ CR # "?"
  /\ LF # SP /\ LF # TAB /\ LF # ":" /\ LF # "?"
<1>1. /\ CR # LF /\ CR # SP /\ CR # TAB /\ CR # ":" /\ CR # "?"
      /\ LF # SP /\ LF # TAB /\ LF # ":" /\ LF # "?"
  BY DEF CR, LF, SP, TAB
<1> QED
  BY <1>1, ParserAssumption

\* A sequence of one byte.
LEMMA Single ==
  ASSUME NEW c \in Byte
  PROVE  <<c>> \in Seq(Byte) /\ Len(<<c>>) = 1 /\ <<c>>[1] = c
<1>1. <<c>> \in Seq(Byte)
  OBVIOUS
<1>2. Len(<<c>>) = 1
  OBVIOUS
<1>3. <<c>>[1] = c
  OBVIOUS
<1> QED
  BY <1>1, <1>2, <1>3

-----------------------------------------------------------------------------
(* Looking for a byte, and cutting there.                                  *)

\* memchr() finds the first place, or says that there is none.
LEMMA MemchrDef ==
  ASSUME NEW s \in Seq(Byte), NEW c
  PROVE  /\ memchr(s, c) \in 0 .. Len(s)
         /\ memchr(s, c) = 0 => \A i \in 1 .. Len(s) : s[i] # c
         /\ memchr(s, c) # 0 => /\ s[memchr(s, c)] = c
                                /\ \A i \in 1 .. memchr(s, c) - 1 : s[i] # c
<1> DEFINE I == {i \in 1 .. Len(s) : s[i] = c}
<1>1. memchr(s, c) = IF I # {} THEN Min(I) ELSE 0
  BY DEF memchr, SelectInSeq
<1>2. I \subseteq Nat /\ Len(s) \in Nat
  OBVIOUS
<1>3. CASE I = {}
  BY <1>1, <1>2, <1>3
<1>4. CASE I # {}
  <2>1. Min(I) \in I /\ \A j \in I : Min(I) <= j
    BY <1>2, <1>4, MinOfNat
  <2>2. memchr(s, c) = Min(I)
    BY <1>1, <1>4
  <2> DEFINE m == memchr(s, c)
  <2>3. m \in 1 .. Len(s) /\ s[m] = c /\ \A j \in I : m <= j
    BY <2>1, <2>2
  <2> HIDE DEF m
  <2>4. ASSUME NEW i \in 1 .. m - 1 PROVE s[i] # c
    <3>1. i \in 1 .. Len(s) /\ ~(m <= i)
      BY <1>2, <2>3
    <3> QED
      BY <2>3, <3>1
  <2>5. m \in 0 .. Len(s) /\ m # 0
    BY <1>2, <2>3
  <2> QED
    BY <2>3, <2>4, <2>5 DEF m
<1> QED
  BY <1>3, <1>4

\* The first place is the one with the byte and none before.
LEMMA FirstIs ==
  ASSUME NEW s \in Seq(Byte), NEW c, NEW i \in 1 .. Len(s), s[i] = c,
         \A j \in 1 .. i - 1 : s[j] # c
  PROVE  memchr(s, c) = i
<1> DEFINE m == memchr(s, c)
<1>1. /\ m \in 0 .. Len(s)
      /\ m = 0 => \A k \in 1 .. Len(s) : s[k] # c
      /\ m # 0 => s[m] = c /\ \A k \in 1 .. m - 1 : s[k] # c
  BY MemchrDef
<1>2. Len(s) \in Nat
  OBVIOUS
<1> HIDE DEF m
<1>3. m # 0
  BY <1>1
<1>4. ~(m < i) /\ ~(i < m)
  BY <1>1, <1>2, <1>3
<1> QED
  BY <1>1, <1>2, <1>4 DEF m

\* The elements of a sequence, as a set.
LEMMA ToSetIs ==
  ASSUME NEW s \in Seq(Byte)
  PROVE  /\ \A c : c \notin ToSet(s) <=> \A i \in 1 .. Len(s) : s[i] # c
         /\ ToSet(s) \subseteq Byte
  BY DEF ToSet

\* Pieces of a sequence that is put together.
LEMMA PiecesOfJoin ==
  ASSUME NEW a \in Seq(Byte), NEW b \in Seq(Byte)
  PROVE  /\ UpTo(a \o b, Len(a)) = a
         /\ From(a \o b, Len(a) + 1) = b
<1> DEFINE x == a \o b
           j == Len(a)
           k == Len(b)
<1>1. x \in Seq(Byte) /\ IsJoin(x, a, b, j, k) /\ j \in Nat /\ k \in Nat
  BY Joined
<1> HIDE DEF x
<1>2. Len(x) = j + k
  BY <1>1 DEF IsJoin
<1>3. UpTo(x, j) = a
  <2>1. j \in 0 .. Len(x)
    BY <1>1, <1>2
  <2>2. UpTo(x, j) \in Seq(Byte) /\ Len(UpTo(x, j)) = j /\ \A i \in 1 .. j : UpTo(x, j)[i] = x[i]
    BY <1>1, <2>1, UpToShape
  <2>3. \A i \in 1 .. j : UpTo(x, j)[i] = a[i]
    BY <1>1, <2>2 DEF IsJoin
  <2> HIDE DEF j
  <2>4. Len(a) = j
    BY DEF j
  <2> QED
    BY <2>2, <2>3, <2>4, SeqEqual
<1>4. From(x, j + 1) = b
  <2> DEFINE y == SubSeq(x, j + 1, Len(x))
  <2>1. j + 1 \in 1 .. Len(x) + 1 /\ Len(x) \in j + 1 - 1 .. Len(x) /\ Len(x) - (j + 1) + 1 = k
    BY <1>1, <1>2
  <2>2. y \in Seq(Byte) /\ Len(y) = k /\ \A i \in 1 .. k : y[i] = x[j + 1 + i - 1]
    BY <1>1, <2>1, PieceShape
  <2> HIDE DEF y
  <2>3. ASSUME NEW i \in 1 .. k PROVE y[i] = b[i]
    <3> DEFINE p == j + i
    <3>1. j + 1 + i - 1 = p
      BY <1>1
    <3>2. x[p] = b[i]
      BY <1>1 DEF IsJoin
    <3> HIDE DEF p
    <3>3. y[i] = x[p]
      BY <2>2, <3>1
    <3> QED
      BY <3>2, <3>3
  <2> HIDE DEF k
  <2>4. Len(b) = k
    BY DEF k
  <2>5. y = b
    BY <2>2, <2>3, <2>4, SeqEqual
  <2> QED
    BY <2>5 DEF y, From
<1> QED
  BY <1>3, <1>4 DEF x, j

\* A sequence is what comes before a place and what comes from there on.
LEMMA CutInTwo ==
  ASSUME NEW x \in Seq(Byte), NEW i \in 1 .. Len(x) + 1
  PROVE  /\ x = UpTo(x, i - 1) \o From(x, i)
         /\ UpTo(x, i - 1) \in Seq(Byte) /\ Len(UpTo(x, i - 1)) = i - 1
         /\ From(x, i) \in Seq(Byte) /\ Len(From(x, i)) = Len(x) - i + 1
         /\ \A k \in 1 .. i - 1 : UpTo(x, i - 1)[k] = x[k]
         /\ \A k \in 1 .. Len(x) - i + 1 : From(x, i)[k] = x[i + k - 1]
<1> DEFINE m == Len(x)
<1>1. m \in Nat /\ i \in 1 .. m + 1 /\ i \in Nat
  OBVIOUS
<1>2. 1 \in 1 .. m + 1 /\ i - 1 \in 1 - 1 .. m /\ m \in i - 1 .. m /\ i - 1 \in 0 .. m
  BY <1>1
<1>3. SubSeq(x, 1, i - 1) \o SubSeq(x, i, m) = SubSeq(x, 1, m)
  <2>1. SubSeq(x, 1, i - 1) \o SubSeq(x, (i - 1) + 1, m) = SubSeq(x, 1, m)
    BY <1>2, ConcatAdjacentSubSeq
  <2>2. (i - 1) + 1 = i
    BY <1>1
  <2> QED
    BY <2>1, <2>2
<1>4. SubSeq(x, 1, m) = x
  BY SubSeqFull
<1>5. /\ UpTo(x, i - 1) \in Seq(Byte) /\ Len(UpTo(x, i - 1)) = i - 1
      /\ \A k \in 1 .. i - 1 : UpTo(x, i - 1)[k] = x[k]
  BY <1>2, UpToShape
<1>6. /\ SubSeq(x, i, m) \in Seq(Byte)
      /\ Len(SubSeq(x, i, m)) = m - i + 1
      /\ \A k \in 1 .. m - i + 1 : SubSeq(x, i, m)[k] = x[i + k - 1]
  BY <1>1, <1>2, PieceShape
<1> QED
  BY <1>3, <1>4, <1>5, <1>6 DEF UpTo, From

\* x is cut at the first c.
IsCut(x, a, c, b) ==
  /\ a \in Seq(Byte) /\ b \in Seq(Byte)
  /\ x = a \o <<c>> \o b
  /\ c \notin ToSet(a)

\* What memchr() and the pieces are of a sequence that can be cut at c.
LEMMA CutIs ==
  ASSUME NEW x, NEW a, NEW b, NEW c \in Byte, IsCut(x, a, c, b)
  PROVE  /\ x \in Seq(Byte) /\ Len(x) = Len(a) + 1 + Len(b)
         /\ memchr(x, c) = Len(a) + 1
         /\ UpTo(x, Len(a)) = a
         /\ From(x, Len(a) + 2) = b
<1> DEFINE s == <<c>>
           v == a \o s
           j == Len(a)
           k == Len(b)
<1>1. a \in Seq(Byte) /\ b \in Seq(Byte) /\ x = v \o b /\ c \notin ToSet(a)
  BY DEF IsCut
<1>2. s \in Seq(Byte) /\ Len(s) = 1 /\ s[1] = c
  BY Single
<1> HIDE DEF s
<1>3. v \in Seq(Byte) /\ IsJoin(v, a, s, j, 1)
  BY <1>1, <1>2, Joined
<1>4. j \in Nat /\ k \in Nat /\ 1 \in 1 .. 1
  BY <1>1
<1> HIDE DEF v
<1>5. Len(v) = j + 1 /\ v[j + 1] = c /\ \A i \in 1 .. j : v[i] = a[i]
  BY <1>2, <1>3, <1>4 DEF IsJoin
<1>6. x \in Seq(Byte) /\ IsJoin(x, v, b, j + 1, k)
  BY <1>1, <1>3, <1>5, Joined
<1>7. Len(x) = j + 1 + k /\ x[j + 1] = c /\ \A i \in 1 .. j : x[i] = a[i]
  <2>1. \A i \in 1 .. j + 1 : x[i] = v[i]
    BY <1>6 DEF IsJoin
  <2>2. j + 1 \in 1 .. j + 1 /\ \A i \in 1 .. j : i \in 1 .. j + 1
    BY <1>4
  <2> QED
    BY <1>5, <1>6, <2>1, <2>2 DEF IsJoin
<1>8. memchr(x, c) = j + 1
  <2>1. \A i \in 1 .. j : a[i] # c
    BY <1>1, ToSetIs
  <2> HIDE DEF j, k
  <2>2. j + 1 \in 1 .. Len(x) /\ (j + 1) - 1 = j
    BY <1>4, <1>7
  <2>3. \A i \in 1 .. (j + 1) - 1 : x[i] # c
    BY <1>7, <2>1, <2>2
  <2> QED
    BY <1>6, <1>7, <2>2, <2>3, FirstIs
<1>9. UpTo(x, j) = a
  <2>1. j \in 0 .. Len(x)
    BY <1>4, <1>7
  <2>2. UpTo(x, j) \in Seq(Byte) /\ Len(UpTo(x, j)) = j /\ \A i \in 1 .. j : UpTo(x, j)[i] = x[i]
    BY <1>6, <2>1, UpToShape
  <2>3. \A i \in 1 .. j : UpTo(x, j)[i] = a[i]
    BY <1>7, <2>2
  <2> HIDE DEF j
  <2>4. Len(a) = j
    BY DEF j
  <2> QED
    BY <1>1, <2>2, <2>3, <2>4, SeqEqual
<1>10. From(x, j + 2) = b
  <2>1. From(v \o b, Len(v) + 1) = b
    BY <1>1, <1>3, PiecesOfJoin
  <2>2. Len(v) + 1 = j + 2
    BY <1>4, <1>5
  <2> QED
    BY <1>1, <2>1, <2>2
<1> QED
  BY <1>6, <1>7, <1>8, <1>9, <1>10

\* Where memchr() finds c a sequence can be cut.
LEMMA CutAt ==
  ASSUME NEW x \in Seq(Byte), NEW c \in Byte, memchr(x, c) # 0
  PROVE  /\ memchr(x, c) \in 1 .. Len(x)
         /\ IsCut(x, UpTo(x, memchr(x, c) - 1), c, From(x, memchr(x, c) + 1))
         /\ Len(UpTo(x, memchr(x, c) - 1)) = memchr(x, c) - 1
<1> DEFINE i == memchr(x, c)
           a == UpTo(x, i - 1)
           y == From(x, i)
           b == From(x, i + 1)
<1>1. i \in 1 .. Len(x) /\ x[i] = c /\ \A k \in 1 .. i - 1 : x[k] # c
  <2>1. i \in 0 .. Len(x) /\ i # 0
    BY MemchrDef
  <2>2. x[i] = c
    BY MemchrDef
  <2>3. \A k \in 1 .. i - 1 : x[k] # c
    BY MemchrDef
  <2>4. Len(x) \in Nat
    OBVIOUS
  <2> HIDE DEF i
  <2> QED
    BY <2>1, <2>2, <2>3, <2>4
<1> HIDE DEF i
<1>2. Len(x) \in Nat /\ i \in 1 .. Len(x) + 1 /\ i + 1 \in 1 .. Len(x) + 1
  BY <1>1
<1>3. /\ x = a \o y /\ a \in Seq(Byte) /\ Len(a) = i - 1 /\ y \in Seq(Byte)
      /\ \A k \in 1 .. i - 1 : a[k] = x[k]
  BY <1>2, CutInTwo
<1>4. b \in Seq(Byte)
  BY <1>2, CutInTwo
<1>5. y = <<c>> \o b
  <2>1. SubSeq(x, i, Len(x)) = <<x[i]>> \o SubSeq(x, i + 1, Len(x))
    <3>1. Len(x) \in i .. Len(x)
      BY <1>1, <1>2
    <3> QED
      BY <1>1, <3>1, SubSeqRecursiveFirst
  <2> QED
    BY <1>1, <2>1 DEF From
<1>6. a \o (<<c>> \o b) = (a \o <<c>>) \o b
  <2> DEFINE d == <<c>>
  <2>1. d \in Seq(Byte)
    BY Single
  <2>2. a \in Seq(Byte)
    BY <1>3
  <2>3. b \in Seq(Byte)
    BY <1>4
  <2> HIDE DEF a, b, d
  <2>4. a \o (d \o b) = (a \o d) \o b
    BY <2>1, <2>2, <2>3, ConcatAssociative, SMT
  <2> QED
    BY <2>4 DEF d
<1>7. c \notin ToSet(a)
  BY <1>1, <1>3, ToSetIs
<1> QED
  BY <1>1, <1>3, <1>4, <1>5, <1>6, <1>7 DEF IsCut, i

-----------------------------------------------------------------------------
(* The CR at the end of a line.                                            *)

\* Without a CR at the end nothing is taken away.
LEMMA StripNone ==
  ASSUME NEW s \in Seq(Byte), s = <<>> \/ Last(s) # CR
  PROVE  StripCR(s) = s
  BY DEF StripCR

\* A CR at the end is.
LEMMA StripOne ==
  ASSUME NEW s \in Seq(Byte)
  PROVE  StripCR(s \o <<CR>>) = s
<1> DEFINE c == <<CR>>
           x == s \o c
           j == Len(s)
<1>1. c \in Seq(Byte) /\ Len(c) = 1 /\ c[1] = CR
  BY Single, Symbols
<1> HIDE DEF c
<1>2. x \in Seq(Byte) /\ IsJoin(x, s, c, j, 1)
  BY <1>1, Joined
<1>3. UpTo(x, j) = s
  BY <1>1, PiecesOfJoin
<1>4. j \in Nat /\ 1 \in 1 .. 1
  OBVIOUS
<1> HIDE DEF x, j
<1>5. Len(x) = j + 1 /\ x[j + 1] = CR /\ x # <<>>
  <2>1. Len(x) = j + 1 /\ x[j + 1] = CR
    BY <1>1, <1>2, <1>4 DEF IsJoin
  <2>2. Len(x) # 0
    BY <1>4, <2>1
  <2> QED
    BY <2>1, <2>2
<1>6. Last(x) = CR
  BY <1>5 DEF Last
<1>7. Front(x) = SubSeq(x, 1, j)
  <2>1. Len(x) - 1 = j
    BY <1>4, <1>5
  <2> QED
    BY <2>1 DEF Front
<1> QED
  BY <1>3, <1>5, <1>6, <1>7 DEF StripCR, UpTo, x, c

\* In both cases:
LEMMA StripShape ==
  ASSUME NEW s \in Seq(Byte)
  PROVE  /\ StripCR(s) \in Seq(Byte)
         /\ \/ s = StripCR(s) /\ (s = <<>> \/ Last(s) # CR)
            \/ s = StripCR(s) \o <<CR>>
<1>1. CASE s = <<>> \/ Last(s) # CR
  BY <1>1, StripNone
<1>2. CASE s # <<>> /\ Last(s) = CR
  <2> DEFINE m == Len(s)
             t == UpTo(s, m - 1)
  <2>1. m \in Nat /\ m # 0 /\ m \in 1 .. m + 1 /\ m \in 1 .. m /\ m - m + 1 = 1 /\ 1 \in 1 .. 1 /\ m + 1 - 1 = m
    BY <1>2
  <2>2. StripCR(s) = t
    BY <1>2 DEF StripCR, Front, UpTo
  <2>3. /\ s = t \o From(s, m) /\ t \in Seq(Byte)
        /\ From(s, m) \in Seq(Byte) /\ Len(From(s, m)) = m - m + 1
        /\ \A k \in 1 .. m - m + 1 : From(s, m)[k] = s[m + k - 1]
    BY <2>1, CutInTwo
  <2>4. From(s, m)[1] = CR
    BY <1>2, <2>1, <2>3 DEF Last
  <2>5. From(s, m) = <<CR>>
    <3> DEFINE y == From(s, m)
    <3>1. y \in Seq(Byte) /\ Len(y) = 1 /\ y[1] = CR
      BY <2>1, <2>3, <2>4
    <3> HIDE DEF y
    <3> QED
      BY <3>1 DEF y
  <2> QED
    BY <2>2, <2>3, <2>5
<1> QED
  BY <1>1, <1>2

\* A CR is taken from what comes last.
LEMMA StripJoin ==
  ASSUME NEW a \in Seq(Byte), NEW w \in Seq(Byte), w # <<>> \/ a = <<>> \/ Last(a) # CR
  PROVE  StripCR(a \o w) = a \o StripCR(w)
<1> DEFINE x == a \o w
           j == Len(a)
           k == Len(w)
<1>1. x \in Seq(Byte) /\ IsJoin(x, a, w, j, k) /\ j \in Nat /\ k \in Nat
  BY Joined
<1>2. StripCR(w) \in Seq(Byte)
  BY StripShape
<1>3. CASE w = <<>>
  <2>1. a \o <<>> = a
    BY ConcatEmptySeq
  <2>2. StripCR(<<>>) = <<>>
    BY DEF StripCR
  <2> QED
    BY <1>3, <2>1, <2>2, StripNone
<1>4. CASE w # <<>> /\ Last(w) # CR
  <2>1. Last(x) = Last(w)
    <3> HIDE DEF x, j, k
    <3>1. k # 0 /\ k \in 1 .. k
      BY <1>1, <1>4 DEF k
    <3>2. Len(x) = j + k /\ x[j + k] = w[k]
      BY <1>1, <3>1 DEF IsJoin
    <3>3. Len(w) = k
      BY DEF k
    <3> QED
      BY <3>2, <3>3 DEF Last
  <2> QED
    BY <1>1, <1>4, <2>1, StripNone
<1>5. CASE w # <<>> /\ Last(w) = CR
  <2> DEFINE v == StripCR(w)
             c == <<CR>>
  <2>1. w = v \o c /\ c \in Seq(Byte) /\ v \in Seq(Byte)
    BY <1>5, StripShape, Symbols
  <2> HIDE DEF v, c
  <2>2. a \o (v \o c) = (a \o v) \o c
    BY <2>1, ConcatAssociative, SMT
  <2>3. a \o v \in Seq(Byte)
    BY <2>1, ConcatProperties
  <2>4. StripCR((a \o v) \o c) = a \o v
    BY <2>3, StripOne DEF c
  <2> QED
    BY <2>1, <2>2, <2>4 DEF v
<1> QED
  BY <1>3, <1>4, <1>5

-----------------------------------------------------------------------------
(* A line and the same without the CR at its end.                          *)

LineOf(line, text) ==
  /\ line \in Seq(Byte) /\ text \in Seq(Byte)
  /\ \/ line = text /\ (text = <<>> \/ Last(text) # CR)
     \/ line = text \o <<CR>>

\* The text of a line is what StripCR() leaves of it.
LEMMA TextOfLine ==
  ASSUME NEW line, NEW text, LineOf(line, text)
  PROVE  StripCR(line) = text
BY StripNone, StripOne DEF LineOf

\* The last byte of something put together is the last of its second part.
LEMMA LastOfJoin ==
  ASSUME NEW a \in Seq(Byte), NEW b \in Seq(Byte), b # <<>>
  PROVE  a \o b \in Seq(Byte) /\ a \o b # <<>> /\ Last(a \o b) = Last(b)
<1> DEFINE x == a \o b
           j == Len(a)
           k == Len(b)
<1>1. x \in Seq(Byte) /\ IsJoin(x, a, b, j, k) /\ j \in Nat /\ k \in Nat /\ k # 0
  BY Joined
<1> HIDE DEF x, j, k
<1>2. k \in 1 .. k /\ j + k # 0
  BY <1>1
<1>3. Len(x) = j + k /\ x[j + k] = b[k]
  BY <1>1, <1>2 DEF IsJoin
<1>4. Len(b) = k
  BY DEF k
<1>5. Last(x) = Last(b)
  BY <1>3, <1>4 DEF Last
<1>6. x # <<>>
  BY <1>1, <1>2, <1>3
<1> QED
  BY <1>1, <1>5, <1>6 DEF x

\* The first byte of something put together is the first of its first part.
LEMMA FirstOfJoin ==
  ASSUME NEW a \in Seq(Byte), NEW b \in Seq(Byte), a # <<>>
  PROVE  (a \o b)[1] = a[1]
<1> DEFINE x == a \o b
           j == Len(a)
           k == Len(b)
<1>1. x \in Seq(Byte) /\ IsJoin(x, a, b, j, k) /\ j \in Nat /\ k \in Nat /\ j # 0
  BY Joined
<1> HIDE DEF x, j, k
<1>2. 1 \in 1 .. j
  BY <1>1
<1> QED
  BY <1>1, <1>2 DEF IsJoin, x

\* Three sequences put together in any order of doing so.
LEMMA Associates ==
  ASSUME NEW a \in Seq(Byte), NEW b \in Seq(Byte), NEW c \in Seq(Byte)
  PROVE  /\ a \o b \in Seq(Byte) /\ b \o c \in Seq(Byte) /\ (a \o b) \o c \in Seq(Byte)
         /\ (a \o b) \o c = a \o (b \o c)
<1>1. a \o b \in Seq(Byte) /\ b \o c \in Seq(Byte)
  BY ConcatProperties
<1>2. (a \o b) \o c \in Seq(Byte)
  BY <1>1, ConcatProperties
<1>3. (a \o b) \o c = a \o (b \o c)
  BY ConcatAssociative, SMT
<1> QED
  BY <1>1, <1>2, <1>3

\* The text of a line that is p and something without a CR at the end.
LEMMA LineEnd ==
  ASSUME NEW p \in Seq(Byte), NEW w \in Seq(Byte), NEW text, LineOf(p \o w, text),
         w # <<>> \/ p = <<>> \/ Last(p) # CR
  PROVE  text = p \o StripCR(w)
BY TextOfLine, StripJoin

\* w ends a line as v ends its text.
EndsAs(w, v) == StripCR(w) = v /\ (w = v \/ w = v \o <<CR>>)

\* The line of a text that is p and v.
LEMMA LineTail ==
  ASSUME NEW p \in Seq(Byte), NEW v \in Seq(Byte), NEW line, LineOf(line, p \o v)
  PROVE  \E w \in Seq(Byte) : line = p \o w /\ EndsAs(w, v)
<1>1. CASE line = p \o v /\ (p \o v = <<>> \/ Last(p \o v) # CR)
  <2>1. CASE v = <<>>
    BY <1>1, <2>1, StripNone DEF EndsAs
  <2>2. CASE v # <<>>
    <3>1. Last(v) # CR
      BY <1>1, <2>2, LastOfJoin
    <3> QED
      BY <1>1, <3>1, StripNone DEF EndsAs
  <2> QED
    BY <2>1, <2>2
<1>2. CASE line = (p \o v) \o <<CR>>
  <2> DEFINE c == <<CR>>
             w == v \o c
  <2>1. c \in Seq(Byte)
    BY Single, Symbols
  <2> HIDE DEF c
  <2>2. w \in Seq(Byte) /\ (p \o v) \o c = p \o w
    BY <2>1, Associates
  <2>3. StripCR(w) = v
    BY StripOne DEF c
  <2> QED
    BY <1>2, <2>2, <2>3 DEF c, EndsAs
<1> QED
  BY <1>1, <1>2 DEF LineOf

-----------------------------------------------------------------------------
(* White space before a value.                                             *)

\* White space.
Blanks == {SP, TAB}

\* Where the value begins.
NonBlank(s) == SelectInSeq(Append(s, CR), LAMBDA c : c \notin {SP, TAB})

\* It begins at the first byte that is not white space, or behind all bytes.
LEMMA NonBlankDef ==
  ASSUME NEW s \in Seq(Byte)
  PROVE  /\ NonBlank(s) \in 1 .. Len(s) + 1
         /\ \A i \in 1 .. NonBlank(s) - 1 : s[i] \in Blanks
         /\ NonBlank(s) # Len(s) + 1 => s[NonBlank(s)] \notin Blanks
<1> DEFINE x == Append(s, CR)
           j == Len(s)
           I == {i \in 1 .. Len(x) : x[i] \notin {SP, TAB}}
           m == NonBlank(s)
<1>1. j \in Nat /\ Len(x) = j + 1 /\ x[j + 1] = CR /\ \A i \in 1 .. j : x[i] = s[i]
  BY Symbols
<1>2. m = IF I # {} THEN Min(I) ELSE 0
  BY DEF NonBlank, SelectInSeq
<1> HIDE DEF x, j
<1>3. j + 1 \in I
  BY <1>1, Symbols
<1>4. I \subseteq Nat
  BY <1>1
<1>5. m \in I /\ \A k \in I : m <= k
  BY <1>2, <1>3, <1>4, MinOfNat
<1> HIDE DEF m
<1>6. m \in 1 .. j + 1 /\ x[m] \notin {SP, TAB}
  BY <1>1, <1>5
<1>7. \A i \in 1 .. m - 1 : s[i] \in Blanks
  <2> SUFFICES ASSUME NEW i \in 1 .. m - 1 PROVE s[i] \in Blanks
    OBVIOUS
  <2>1. i \in 1 .. j /\ i \in 1 .. j + 1 /\ ~(m <= i)
    BY <1>1, <1>6
  <2>2. i \notin I
    BY <1>5, <2>1
  <2>3. x[i] \in {SP, TAB}
    BY <1>1, <2>1, <2>2
  <2> QED
    BY <1>1, <2>1, <2>3 DEF Blanks
<1>8. m # j + 1 => s[m] \notin Blanks
  <2> HAVE m # j + 1
  <2>1. m \in 1 .. j
    BY <1>1, <1>6
  <2> QED
    BY <1>1, <1>6, <2>1 DEF Blanks
<1> QED
  BY <1>6, <1>7, <1>8 DEF m, j

\* Behind white space the value is found.
LEMMA ValueIs ==
  ASSUME NEW b \in Seq(Byte), NEW w \in Seq(Byte),
         ToSet(b) \subseteq Blanks, w = <<>> \/ w[1] \notin Blanks
  PROVE  FieldValue(b \o w) = StripCR(w)
<1> DEFINE s == b \o w
           j == Len(b)
           k == Len(w)
           m == NonBlank(s)
<1>1. s \in Seq(Byte) /\ IsJoin(s, b, w, j, k) /\ j \in Nat /\ k \in Nat
  BY Joined
<1>2. \A i \in 1 .. j : b[i] \in Blanks
  BY DEF ToSet
<1>3. k # 0 => w[1] \notin Blanks
  OBVIOUS
<1>4. From(s, j + 1) = w
  BY PiecesOfJoin
<1>5. /\ m \in 1 .. Len(s) + 1
      /\ \A i \in 1 .. m - 1 : s[i] \in Blanks
      /\ m # Len(s) + 1 => s[m] \notin Blanks
  BY <1>1, NonBlankDef
<1>6. FieldValue(s) = StripCR(From(s, m))
  BY DEF FieldValue, NonBlank
<1> HIDE DEF s, j, k, m
<1>7. Len(s) = j + k /\ \A i \in 1 .. j : s[i] \in Blanks
  BY <1>1, <1>2 DEF IsJoin
<1>8. k # 0 => s[j + 1] \notin Blanks
  <2> HAVE k # 0
  <2>1. 1 \in 1 .. k
    BY <1>1
  <2> QED
    BY <1>1, <1>3, <2>1 DEF IsJoin
<1>9. ~(m <= j)
  BY <1>1, <1>5, <1>7
<1>10. ~(m > j + 1)
  <2> SUFFICES ASSUME m > j + 1 PROVE FALSE
    OBVIOUS
  <2>1. k # 0 /\ j + 1 \in 1 .. m - 1
    BY <1>1, <1>5, <1>7
  <2> QED
    BY <1>5, <1>8, <2>1
<1>11. m = j + 1
  BY <1>1, <1>5, <1>9, <1>10
<1> QED
  BY <1>4, <1>6, <1>11 DEF s

\* What comes behind a colon is white space and, from the value on, the rest.
LEMMA ValueCut ==
  ASSUME NEW s \in Seq(Byte)
  PROVE  \E b, w \in Seq(Byte) : /\ s = b \o w
                                 /\ ToSet(b) \subseteq Blanks
                                 /\ w = <<>> \/ w[1] \notin Blanks
                                 /\ FieldValue(s) = StripCR(w)
<1> DEFINE m == NonBlank(s)
           b == UpTo(s, m - 1)
           w == From(s, m)
<1>1. /\ m \in 1 .. Len(s) + 1
      /\ \A i \in 1 .. m - 1 : s[i] \in Blanks
      /\ m # Len(s) + 1 => s[m] \notin Blanks
  BY NonBlankDef
<1>2. FieldValue(s) = StripCR(w)
  BY DEF FieldValue, NonBlank
<1> HIDE DEF m
<1>3. /\ s = b \o w
      /\ b \in Seq(Byte) /\ Len(b) = m - 1
      /\ w \in Seq(Byte) /\ Len(w) = Len(s) - m + 1
      /\ \A i \in 1 .. m - 1 : b[i] = s[i]
      /\ \A i \in 1 .. Len(s) - m + 1 : w[i] = s[m + i - 1]
  BY <1>1, CutInTwo
<1>4. ToSet(b) \subseteq Blanks
  <2> HIDE DEF b, w
  <2> QED
    BY <1>1, <1>3 DEF ToSet
<1>5. w = <<>> \/ w[1] \notin Blanks
  <2> HIDE DEF b, w
  <2>1. Len(s) \in Nat
    OBVIOUS
  <2>2. CASE m = Len(s) + 1
    BY <1>3, <2>1, <2>2
  <2>3. CASE m # Len(s) + 1
    <3>1. 1 \in 1 .. Len(s) - m + 1 /\ m + 1 - 1 = m
      BY <1>1, <2>1, <2>3
    <3> QED
      BY <1>1, <1>3, <2>3, <3>1
  <2> QED
    BY <2>2, <2>3
<1> QED
  BY <1>2, <1>3, <1>4, <1>5

\* The middle of three sequences put together.
LEMMA MiddleOf ==
  ASSUME NEW a \in Seq(Byte), NEW b \in Seq(Byte), NEW c \in Seq(Byte)
  PROVE  /\ SubSeq((a \o b) \o c, Len(a) + 1, Len(a) + Len(b)) = b
         /\ Len((a \o b) \o c) = Len(a) + Len(b) + Len(c)
<1> DEFINE v == a \o b
           x == v \o c
           j == Len(a)
           k == Len(b)
<1>1. v \in Seq(Byte) /\ IsJoin(v, a, b, j, k) /\ j \in Nat /\ k \in Nat /\ Len(c) \in Nat
  BY Joined
<1>2. From(v, j + 1) = b
  BY PiecesOfJoin
<1> HIDE DEF v
<1>3. Len(v) = j + k
  BY <1>1 DEF IsJoin
<1>4. x \in Seq(Byte) /\ IsJoin(x, v, c, Len(v), Len(c)) /\ UpTo(x, Len(v)) = v
  BY <1>1, Joined, PiecesOfJoin
<1> HIDE DEF x
<1>5. Len(x) = j + k + Len(c)
  BY <1>3, <1>4 DEF IsJoin
<1> HIDE DEF j, k
<1>6. j + k \in 0 .. Len(x) /\ j + 1 \in 1 .. j + k + 1 /\ j + k \in 0 .. j + k
  BY <1>1, <1>5
<1>7. SubSeq(UpTo(x, j + k), j + 1, j + k) = SubSeq(x, j + 1, j + k)
  BY <1>4, <1>6, MiddleSame
<1>8. SubSeq(x, j + 1, j + k) = b
  BY <1>2, <1>3, <1>4, <1>7 DEF From
<1> QED
  BY <1>5, <1>8 DEF x, v, j, k

-----------------------------------------------------------------------------
(* Header lines.                                                           *)

\* Name and value within their limits.
HeaderFits(name, value) ==
  /\ name \in Seq(Byte) /\ value \in Seq(Byte)
  /\ name # <<>> /\ Len(name) < MAX_HEADER_NAME /\ ":" \notin ToSet(name)
  /\ value # <<>> => value[1] \notin Blanks
  /\ Len(value) < MAX_HEADER_VALUE

\* The text of a header line.
HeaderText(text, name, value) ==
  \E b \in Seq(Byte) : ToSet(b) \subseteq Blanks /\ text = ((name \o <<":">>) \o b) \o value

\* That is what the grammar says.
LEMMA HeaderGrammar ==
  ASSUME NEW text \in Seq(Byte), NEW name \in Seq(Byte), NEW value \in Seq(Byte)
  PROVE  IsHeaderLine(text, name, value) <=> HeaderFits(name, value) /\ HeaderText(text, name, value)
<1> DEFINE p == name \o <<":">>
           B(k) == SubSeq(text, Len(name) + 2, Len(name) + 1 + k)
           Cut(k) == text = (p \o B(k)) \o value /\ ToSet(B(k)) \subseteq {SP, TAB}
           Some == \E k \in 0 .. Len(text) - Len(name) - 1 : Cut(k)
<1>1. IsHeaderLine(text, name, value) <=> Some /\ HeaderFits(name, value)
  BY DEF IsHeaderLine, HeaderFits, Blanks
<1>2. p \in Seq(Byte) /\ Len(p) = Len(name) + 1 /\ Len(name) \in Nat /\ Len(text) \in Nat /\ Len(value) \in Nat
  <2>1. <<":">> \in Seq(Byte) /\ Len(<<":">>) = 1
    BY Single, Symbols
  <2> QED
    BY <2>1, ConcatProperties
<1> HIDE DEF p
<1>3. ASSUME Some PROVE HeaderText(text, name, value)
  <2>1. PICK k \in 0 .. Len(text) - Len(name) - 1 : Cut(k)
    BY <1>3
  <2>2. B(k) \in Seq(Byte)
    <3>1. Len(name) + 2 \in 1 .. Len(text) + 1 /\ Len(name) + 1 + k \in Len(name) + 2 - 1 .. Len(text)
      BY <1>2
    <3> QED
      BY <3>1, PieceShape
  <2> HIDE DEF B
  <2> QED
    BY <2>1, <2>2 DEF HeaderText, Blanks, p
<1>4. ASSUME HeaderText(text, name, value) PROVE Some
  <2>1. PICK b \in Seq(Byte) : ToSet(b) \subseteq Blanks /\ text = (p \o b) \o value
    BY <1>4 DEF HeaderText, p
  <2>2. /\ SubSeq(text, Len(p) + 1, Len(p) + Len(b)) = b
        /\ Len(text) = Len(p) + Len(b) + Len(value)
    <3> DEFINE x == (p \o b) \o value
    <3>1. SubSeq(x, Len(p) + 1, Len(p) + Len(b)) = b /\ Len(x) = Len(p) + Len(b) + Len(value)
      BY <1>2, MiddleOf
    <3>2. text = x
      BY <2>1
    <3> HIDE DEF x
    <3> QED
      BY <3>1, <3>2
  <2> DEFINE k == Len(b)
  <2>3. k \in Nat
    BY <2>1
  <2>4. Len(p) + 1 = Len(name) + 2 /\ Len(p) + k = Len(name) + 1 + k
    BY <1>2, <2>3
  <2>5. B(k) = b
    BY <2>2, <2>4
  <2>6. k \in 0 .. Len(text) - Len(name) - 1
    BY <1>2, <2>2, <2>3
  <2> HIDE DEF B, k
  <2> QED
    BY <2>1, <2>5, <2>6 DEF Blanks
<1> QED
  BY <1>1, <1>3, <1>4

\* The parts the parser finds in a line.
HeaderParts(line, name, value) ==
  /\ HeaderFits(name, value)
  /\ \E b, w \in Seq(Byte) : /\ IsCut(line, name, ":", b \o w)
                             /\ ToSet(b) \subseteq Blanks
                             /\ w = <<>> \/ w[1] \notin Blanks
                             /\ value = StripCR(w)

\* The first byte is not taken with the CR at the end, but is that CR.
LEMMA FirstOfStrip ==
  ASSUME NEW w \in Seq(Byte), StripCR(w) # <<>>
  PROVE  w # <<>> /\ w[1] = StripCR(w)[1]
<1>1. CASE w = StripCR(w)
  BY <1>1
<1>2. CASE w = StripCR(w) \o <<CR>>
  <2> DEFINE v == StripCR(w)
             c == <<CR>>
  <2>1. v \in Seq(Byte) /\ c \in Seq(Byte) /\ c # <<>>
    BY StripShape, Single, Symbols
  <2> HIDE DEF v, c
  <2>2. w = v \o c /\ v # <<>>
    BY <1>2 DEF v, c
  <2> QED
    BY <2>1, <2>2, LastOfJoin, FirstOfJoin DEF v
<1> QED
  BY <1>1, <1>2, StripShape

\* A line with these parts is parsed as them.
LEMMA HeaderParsed ==
  ASSUME NEW line, NEW name, NEW value, NEW req, HeaderParts(line, name, value)
  PROVE  parse_header_line(req, line) =
           IF Len(req.headers) < MAX_HEADERS
           THEN PARSE_OK([req EXCEPT !.headers = Append(@, [name |-> name, value |-> value])])
           ELSE PARSE_ERROR
<1>1. PICK b, w \in Seq(Byte) : /\ IsCut(line, name, ":", b \o w)
                                /\ ToSet(b) \subseteq Blanks
                                /\ w = <<>> \/ w[1] \notin Blanks
                                /\ value = StripCR(w)
  BY DEF HeaderParts
<1> DEFINE colon == memchr(line, ":")
           j == Len(name)
<1>2. colon = j + 1 /\ UpTo(line, j) = name /\ From(line, j + 2) = b \o w
  <2> DEFINE y == b \o w
             c == ":"
  <2>1. c \in Byte /\ IsCut(line, name, c, y)
    BY <1>1, Symbols
  <2> HIDE DEF c, y
  <2>2. memchr(line, c) = Len(name) + 1 /\ UpTo(line, Len(name)) = name /\ From(line, Len(name) + 2) = y
    BY <2>1, CutIs
  <2> QED
    BY <2>2 DEF c, y
<1>3. FieldValue(b \o w) = value
  BY <1>1, ValueIs
<1>4. j \in Nat /\ j # 0 /\ j < MAX_HEADER_NAME /\ Len(value) < MAX_HEADER_VALUE
  BY DEF HeaderParts, HeaderFits
<1> HIDE DEF colon, j
<1>5. colon \in 2 .. MAX_HEADER_NAME /\ colon - 1 = j /\ colon + 1 = j + 2
  BY <1>2, <1>4, ParserAssumption
<1>6. FieldValue(From(line, colon + 1)) = value /\ UpTo(line, colon - 1) = name
  BY <1>2, <1>3, <1>5
<1> QED
  BY <1>4, <1>5, <1>6 DEF parse_header_line, colon

\* A line that is not refused has such parts.
LEMMA HeaderAccepted ==
  ASSUME NEW line \in Seq(Byte), NEW req, parse_header_line(req, line) # PARSE_ERROR
  PROVE  /\ Len(req.headers) < MAX_HEADERS
         /\ \E name, value \in Seq(Byte) : HeaderParts(line, name, value)
<1> DEFINE colon == memchr(line, ":")
           name == UpTo(line, colon - 1)
           after == From(line, colon + 1)
           value == FieldValue(after)
<1>1. Len(req.headers) < MAX_HEADERS /\ colon \in 2 .. MAX_HEADER_NAME /\ Len(value) < MAX_HEADER_VALUE
  BY DEF parse_header_line
<1>2. IsCut(line, name, ":", after) /\ Len(name) = colon - 1 /\ name \in Seq(Byte) /\ after \in Seq(Byte)
  <2>1. colon # 0
    BY <1>1
  <2> QED
    BY <2>1, CutAt, Symbols DEF IsCut
<1> HIDE DEF colon, name, after
<1>3. PICK b, w \in Seq(Byte) : /\ after = b \o w
                                /\ ToSet(b) \subseteq Blanks
                                /\ w = <<>> \/ w[1] \notin Blanks
                                /\ value = StripCR(w)
  BY <1>2, ValueCut
<1>4. value \in Seq(Byte)
  BY <1>3, StripShape
<1> HIDE DEF value
<1>5. value # <<>> => value[1] \notin Blanks
  BY <1>3, FirstOfStrip
<1>6. name # <<>> /\ Len(name) < MAX_HEADER_NAME
  BY <1>1, <1>2, ParserAssumption
<1>7. ":" \notin ToSet(name)
  BY <1>2 DEF IsCut
<1>8. HeaderFits(name, value)
  BY <1>1, <1>2, <1>4, <1>5, <1>6, <1>7 DEF HeaderFits
<1>9. IsCut(line, name, ":", b \o w)
  BY <1>2, <1>3
<1>10. HeaderParts(line, name, value)
  BY <1>3, <1>8, <1>9 DEF HeaderParts
<1> QED
  BY <1>1, <1>2, <1>4, <1>10

\* The parts of a line are those of its text.
LEMMA HeaderPartsOfText ==
  ASSUME NEW line, NEW text, LineOf(line, text), NEW name \in Seq(Byte), NEW value \in Seq(Byte)
  PROVE  HeaderParts(line, name, value) <=> HeaderFits(name, value) /\ HeaderText(text, name, value)
<1> DEFINE colon == <<":">>
           front == name \o colon
<1>1. colon \in Seq(Byte) /\ front \in Seq(Byte) /\ colon # <<>> /\ Last(colon) = ":"
  <2>1. colon \in Seq(Byte) /\ Len(colon) = 1 /\ colon[1] = ":"
    BY Single, Symbols
  <2>2. colon # <<>> /\ Last(colon) = ":"
    BY <2>1 DEF Last
  <2> QED
    BY <2>1, <2>2, ConcatProperties
<1>2. front # <<>> /\ Last(front) = ":"
  BY <1>1, LastOfJoin
<1>3. line \in Seq(Byte) /\ text \in Seq(Byte)
  BY DEF LineOf
<1> HIDE DEF colon, front
<1>4. ASSUME NEW b \in Seq(Byte), NEW w \in Seq(Byte)
      PROVE  /\ (front \o b) \o w = front \o (b \o w)
             /\ front \o b \in Seq(Byte) /\ b \o w \in Seq(Byte)
  <2>1. front \in Seq(Byte)
    BY <1>1
  <2> QED
    BY <2>1, Associates, Zenon
<1>5. ASSUME HeaderParts(line, name, value) PROVE HeaderText(text, name, value)
  <2>1. PICK b, w \in Seq(Byte) : /\ IsCut(line, name, ":", b \o w)
                                  /\ ToSet(b) \subseteq Blanks
                                  /\ value = StripCR(w)
    BY <1>5 DEF HeaderParts
  <2> DEFINE q == front \o b
  <2>2. line = q \o w /\ q \in Seq(Byte)
    <3>1. line = front \o (b \o w)
      BY <2>1 DEF IsCut, front, colon
    <3> QED
      BY <1>4, <3>1, Zenon
  <2>3. Last(q) # CR
    <3>1. CASE b = <<>>
      <4>1. q = front
        BY <1>1, <3>1, ConcatEmptySeq
      <4> QED
        BY <1>2, <4>1, Symbols
    <3>2. CASE b # <<>>
      <4>1. Last(q) = Last(b)
        BY <1>1, <3>2, LastOfJoin
      <4>2. Last(b) \in ToSet(b)
        <5>1. Len(b) \in 1 .. Len(b)
          BY <3>2
        <5> QED
          BY <5>1 DEF Last, ToSet
      <4>3. Last(b) \in Blanks
        BY <2>1, <4>2
      <4> QED
        BY <4>1, <4>3, Symbols DEF Blanks
    <3> QED
      BY <3>1, <3>2
  <2> HIDE DEF q
  <2>4. text = q \o value
    BY <2>1, <2>2, <2>3, LineEnd
  <2> QED
    BY <2>1, <2>4 DEF HeaderText, q, front, colon
<1>6. ASSUME HeaderFits(name, value), HeaderText(text, name, value) PROVE HeaderParts(line, name, value)
  <2>1. PICK b \in Seq(Byte) : ToSet(b) \subseteq Blanks /\ text = (front \o b) \o value
    BY <1>6 DEF HeaderText, front, colon
  <2>2. front \o b \in Seq(Byte)
    BY <1>4
  <2>3. PICK w \in Seq(Byte) : /\ line = (front \o b) \o w
                               /\ StripCR(w) = value
                               /\ w = value \/ w = value \o <<CR>>
    <3> DEFINE q == front \o b
    <3>1. q \in Seq(Byte)
      BY <2>2
    <3>3. LineOf(line, q \o value)
      BY <2>1
    <3> HIDE DEF q
    <3>2. \E w \in Seq(Byte) : line = q \o w /\ EndsAs(w, value)
      BY <3>1, <3>3, LineTail, Zenon
    <3> QED
      BY <3>2, Zenon DEF q, EndsAs
  <2>4. line = front \o (b \o w) /\ b \o w \in Seq(Byte)
    BY <1>4, <2>3, Zenon
  <2>5. IsCut(line, name, ":", b \o w)
    BY <1>6, <2>4 DEF IsCut, HeaderFits, front, colon
  <2>6. w = <<>> \/ w[1] \notin Blanks
    <3>1. CASE value # <<>>
      <4>1. w[1] = value[1]
        BY <2>3, <3>1, FirstOfStrip
      <4> QED
        BY <1>6, <3>1, <4>1 DEF HeaderFits
    <3>2. CASE value = <<>> /\ w = value
      BY <3>2
    <3>3. CASE value = <<>> /\ w = value \o <<CR>>
      <4> DEFINE d == <<CR>>
      <4>1. d \in Seq(Byte) /\ d[1] = CR
        BY Single, Symbols
      <4> HIDE DEF d
      <4>2. w = d
        <5>1. <<>> \o d = d
          BY <4>1, ConcatEmptySeq
        <5> QED
          BY <3>3, <5>1 DEF d
      <4> QED
        BY <4>1, <4>2, Symbols DEF Blanks
    <3> QED
      BY <2>3, <3>1, <3>2, <3>3
  <2> QED
    BY <1>6, <2>1, <2>3, <2>5, <2>6 DEF HeaderParts
<1>7. HeaderParts(line, name, value) => HeaderFits(name, value)
  BY DEF HeaderParts
<1> QED
  BY <1>5, <1>6, <1>7

-----------------------------------------------------------------------------
(* Request lines.                                                          *)

\* The two parts of a target.
PathOf(target) ==
  IF memchr(target, "?") = 0 THEN target ELSE UpTo(target, memchr(target, "?") - 1)

QueryOf(target) ==
  IF memchr(target, "?") = 0 THEN <<>> ELSE From(target, memchr(target, "?") + 1)

\* They are sequences of bytes.
LEMMA TargetPartsType ==
  ASSUME NEW target \in Seq(Byte)
  PROVE  PathOf(target) \in Seq(Byte) /\ QueryOf(target) \in Seq(Byte)
<1> DEFINE q == "?"
<1>1. q \in Byte
  BY Symbols
<1>2. CASE memchr(target, "?") = 0
  BY <1>2, Symbols DEF PathOf, QueryOf
<1>3. CASE memchr(target, "?") # 0
  <2> HIDE DEF q
  <2>1. memchr(target, q) # 0 => IsCut(target, UpTo(target, memchr(target, q) - 1), q, From(target, memchr(target, q) + 1))
    BY <1>1, CutAt
  <2> QED
    BY <1>3, <2>1, Zenon DEF PathOf, QueryOf, IsCut, q
<1> QED
  BY <1>2, <1>3

\* A target that is a path and a query has these.
LEMMA TargetIs ==
  ASSUME NEW target \in Seq(Byte), NEW path \in Seq(Byte), NEW query \in Seq(Byte),
         IsTarget(target, path, query)
  PROVE  PathOf(target) = path /\ QueryOf(target) = query
<1> DEFINE q == "?"
<1>1. q \in Byte
  BY Symbols
<1>2. CASE target = path /\ query = <<>>
  <2>1. memchr(target, q) = 0
    <3> HIDE DEF q
    <3>1. q \notin ToSet(target)
      BY <1>2 DEF IsTarget, q
    <3>2. \A i \in 1 .. Len(target) : target[i] # q
      BY <3>1, ToSetIs
    <3>3. memchr(target, q) # 0 => memchr(target, q) \in 1 .. Len(target) /\ target[memchr(target, q)] = q
      BY MemchrDef
    <3> QED
      BY <3>2, <3>3
  <2> QED
    BY <1>2, <2>1 DEF PathOf, QueryOf
<1>3. CASE target = path \o <<"?">> \o query
  <2>1. IsCut(target, path, q, query)
    BY <1>3 DEF IsCut, IsTarget
  <2> HIDE DEF q
  <2>2. memchr(target, q) = Len(path) + 1 /\ UpTo(target, Len(path)) = path /\ From(target, Len(path) + 2) = query
    BY <1>1, <2>1, CutIs
  <2> DEFINE m == memchr(target, q)
             j == Len(path)
  <2>3. j \in Nat /\ m = j + 1
    BY <2>2
  <2> HIDE DEF m, j
  <2>4. m # 0 /\ m - 1 = j /\ m + 1 = j + 2
    BY <2>3
  <2>5. UpTo(target, m - 1) = path /\ From(target, m + 1) = query
    BY <2>2, <2>4 DEF j
  <2> QED
    BY <2>4, <2>5 DEF PathOf, QueryOf, m, q
<1> QED
  BY <1>2, <1>3 DEF IsTarget

\* A target is its path and its query, where these are within their limits.
LEMMA TargetParts ==
  ASSUME NEW target \in Seq(Byte),
         Len(PathOf(target)) < MAX_PATH_LEN, Len(QueryOf(target)) < MAX_PATH_LEN
  PROVE  IsTarget(target, PathOf(target), QueryOf(target))
<1> DEFINE q == "?"
<1>1. q \in Byte
  BY Symbols
<1>2. CASE memchr(target, "?") = 0
  <2>1. PathOf(target) = target /\ QueryOf(target) = <<>>
    BY <1>2 DEF PathOf, QueryOf
  <2>2. q \notin ToSet(target)
    <3> HIDE DEF q
    <3>1. memchr(target, q) = 0 => \A i \in 1 .. Len(target) : target[i] # q
      BY MemchrDef
    <3>2. memchr(target, q) = 0
      BY <1>2 DEF q
    <3> QED
      BY <3>1, <3>2, ToSetIs
  <2> QED
    BY <2>1, <2>2 DEF IsTarget
<1>3. CASE memchr(target, "?") # 0
  <2> HIDE DEF q
  <2>1. memchr(target, q) # 0 => IsCut(target, UpTo(target, memchr(target, q) - 1), q, From(target, memchr(target, q) + 1))
    BY <1>1, CutAt
  <2>2. IsCut(target, PathOf(target), q, QueryOf(target))
    BY <1>3, <2>1 DEF PathOf, QueryOf, q
  <2> QED
    BY <2>2 DEF IsTarget, IsCut, q
<1> QED
  BY <1>2, <1>3

Versions == {<<"HTTP/1.0">>, <<"HTTP/1.1">>}

\* A version is one symbol.
LEMMA VersionType ==
  ASSUME NEW version \in Versions
  PROVE  version \in Seq(Byte) /\ version # <<>>
<1>1. ASSUME NEW c \in Byte PROVE <<c>> \in Seq(Byte) /\ <<c>> # <<>>
  BY Single
<1>2. "HTTP/1.0" \in Byte /\ "HTTP/1.1" \in Byte
  BY ParserAssumption
<1> QED
  BY <1>1, <1>2, Zenon DEF Versions

\* What a request line is cut into.
StartParts(line, method, target, version) ==
  /\ method \in Seq(Byte) /\ target \in Seq(Byte) /\ version \in Versions
  /\ method # <<>> /\ Len(method) < MAX_METHOD_LEN
  /\ \E w \in Seq(Byte) : /\ IsCut(line, method, SP, target \o <<SP>> \o w)
                          /\ SP \notin ToSet(target)
                          /\ version = StripCR(w)

\* A line with these parts is parsed as them.
LEMMA StartParsed ==
  ASSUME NEW line, NEW method, NEW target, NEW version, StartParts(line, method, target, version)
  PROVE  parse_request_line(line) =
           IF Len(PathOf(target)) < MAX_PATH_LEN /\ Len(QueryOf(target)) < MAX_PATH_LEN
           THEN PARSE_OK([method |-> method, path |-> PathOf(target), query |-> QueryOf(target),
                          version |-> version, headers |-> <<>>])
           ELSE PARSE_ERROR
<1> DEFINE sp1 == memchr(line, SP)
           rest == From(line, sp1 + 1)
           sp2 == memchr(rest, SP)
           j == Len(method)
           k == Len(target)
<1>1. PICK w \in Seq(Byte) : /\ IsCut(line, method, SP, target \o <<SP>> \o w)
                             /\ SP \notin ToSet(target)
                             /\ version = StripCR(w)
  BY DEF StartParts
<1> DEFINE y == target \o <<SP>> \o w
<1>2. IsCut(y, target, SP, w)
  BY <1>1 DEF StartParts, IsCut
<1>3. IsCut(line, method, SP, y)
  BY <1>1
<1> HIDE DEF y
<1>4. sp1 = j + 1 /\ UpTo(line, j) = method /\ From(line, j + 2) = y
  BY <1>3, CutIs, Symbols
<1>5. memchr(y, SP) = k + 1 /\ UpTo(y, k) = target /\ From(y, k + 2) = w
  BY <1>2, CutIs, Symbols
<1>6. j \in Nat /\ k \in Nat /\ j # 0 /\ j < MAX_METHOD_LEN
  BY DEF StartParts
<1> HIDE DEF sp1, j, k
<1>7. sp1 - 1 = j /\ sp1 + 1 = j + 2 /\ sp1 \in 2 .. MAX_METHOD_LEN
  BY <1>4, <1>6, ParserAssumption
<1>8. rest = y
  BY <1>4, <1>7
<1>9. sp2 = k + 1
  BY <1>5, <1>8
<1> HIDE DEF rest, sp2
<1>10. sp2 - 1 = k /\ sp2 + 1 = k + 2 /\ sp2 # 0
  BY <1>6, <1>9
<1>11. UpTo(line, sp1 - 1) = method /\ UpTo(rest, sp2 - 1) = target /\ StripCR(From(rest, sp2 + 1)) = version
  BY <1>1, <1>4, <1>5, <1>7, <1>8, <1>10
<1>12. version \in {<<"HTTP/1.0">>, <<"HTTP/1.1">>}
  BY DEF StartParts, Versions
<1> QED
  BY <1>7, <1>10, <1>11, <1>12, Zenon DEF parse_request_line, PathOf, QueryOf, sp1, sp2, rest

\* A line that is not refused has such parts.
LEMMA StartAccepted ==
  ASSUME NEW line \in Seq(Byte), parse_request_line(line) # PARSE_ERROR
  PROVE  \E method, target \in Seq(Byte), version \in Versions : StartParts(line, method, target, version)
<1> DEFINE sp1 == memchr(line, SP)
           rest == From(line, sp1 + 1)
           sp2 == memchr(rest, SP)
           method == UpTo(line, sp1 - 1)
           target == UpTo(rest, sp2 - 1)
           w == From(rest, sp2 + 1)
<1>1. sp1 \in 2 .. MAX_METHOD_LEN /\ sp2 # 0 /\ StripCR(w) \in Versions
  BY DEF parse_request_line, Versions
<1>2. IsCut(line, method, SP, rest) /\ Len(method) = sp1 - 1 /\ rest \in Seq(Byte) /\ method \in Seq(Byte)
  <2>1. sp1 # 0
    BY <1>1
  <2> QED
    BY <2>1, CutAt, Symbols DEF IsCut
<1> HIDE DEF method, sp1, rest
<1>3. IsCut(rest, target, SP, w)
  BY <1>1, <1>2, CutAt, Symbols
<1> HIDE DEF target, w
<1>4. target \in Seq(Byte) /\ w \in Seq(Byte) /\ rest = target \o <<SP>> \o w /\ SP \notin ToSet(target)
  BY <1>3 DEF IsCut
<1>5. method # <<>> /\ Len(method) < MAX_METHOD_LEN
  BY <1>1, <1>2, ParserAssumption
<1>6. IsCut(line, method, SP, target \o <<SP>> \o w)
  BY <1>2, <1>4
<1>7. StartParts(line, method, target, StripCR(w))
  BY <1>1, <1>2, <1>4, <1>5, <1>6 DEF StartParts
<1> QED
  BY <1>1, <1>2, <1>4, <1>7

\* The parts of a line are those of its text.
LEMMA StartPartsOfText ==
  ASSUME NEW line, NEW text, LineOf(line, text),
         NEW method \in Seq(Byte), NEW target \in Seq(Byte), NEW version \in Seq(Byte)
  PROVE  StartParts(line, method, target, version) <=> IsRequestLine(text, method, target, version)
<1> DEFINE s == <<SP>>
           ms == method \o s
           mt == ms \o target
           q == mt \o s
<1>1. s \in Seq(Byte)
  BY Single, Symbols
<1> HIDE DEF s
<1>2. ms \in Seq(Byte)
  BY <1>1, ConcatProperties
<1> HIDE DEF ms
<1>3. mt \in Seq(Byte)
  BY <1>2, ConcatProperties
<1> HIDE DEF mt
<1>4. q \in Seq(Byte)
  BY <1>1, <1>3, ConcatProperties
<1> HIDE DEF q
<1>5. ASSUME NEW w \in Seq(Byte)
      PROVE  q \o w = ms \o ((target \o s) \o w) /\ (target \o s) \o w \in Seq(Byte)
  <2> DEFINE ts == target \o s
  <2>1. ts \in Seq(Byte)
    BY <1>1, Associates
  <2>2. mt \o s = ms \o ts
    BY <1>1, <1>2, Associates DEF mt
  <2> HIDE DEF ts
  <2>3. ASSUME NEW x \in Seq(Byte) PROVE (ms \o x) \o w = ms \o (x \o w) /\ x \o w \in Seq(Byte)
    <3>1. ms \in Seq(Byte)
      BY <1>2
    <3>2. (ms \o x) \o w = ms \o (x \o w)
      BY <3>1, Associates, SMT
    <3>3. x \o w \in Seq(Byte)
      BY Associates, SMT
    <3> QED
      BY <3>2, <3>3
  <2>4. (ms \o ts) \o w = ms \o (ts \o w) /\ ts \o w \in Seq(Byte)
    BY <2>1, <2>3, Zenon
  <2> QED
    BY <2>2, <2>4 DEF ts, q
<1>6. ASSUME StartParts(line, method, target, version) PROVE IsRequestLine(text, method, target, version)
  <2>1. PICK w \in Seq(Byte) : /\ IsCut(line, method, SP, target \o <<SP>> \o w)
                               /\ SP \notin ToSet(target)
                               /\ version = StripCR(w)
    BY <1>6 DEF StartParts
  <2>2. line = ms \o ((target \o s) \o w)
    BY <2>1 DEF IsCut, ms, s
  <2>3. LineOf(q \o w, text)
    BY <1>5, <2>2
  <2>4. w # <<>>
    <3>1. StripCR(<<>>) = <<>>
      BY DEF StripCR
    <3>2. version # <<>>
      BY <1>6, VersionType DEF StartParts
    <3> QED
      BY <2>1, <3>1, <3>2
  <2>5. text = q \o version
    BY <1>4, <2>1, <2>3, <2>4, LineEnd
  <2> QED
    BY <1>6, <2>1, <2>5 DEF StartParts, IsRequestLine, IsCut, Versions, q, mt, ms, s
<1>7. ASSUME IsRequestLine(text, method, target, version) PROVE StartParts(line, method, target, version)
  <2>1. LineOf(line, q \o version)
    BY <1>7 DEF IsRequestLine, q, mt, ms, s
  <2>2. PICK w \in Seq(Byte) : line = q \o w /\ EndsAs(w, version)
    BY <1>4, <2>1, LineTail, Zenon
  <2>3. line = ms \o ((target \o s) \o w) /\ (target \o s) \o w \in Seq(Byte)
    BY <1>5, <2>2
  <2>4. SP \notin ToSet(method) /\ SP \notin ToSet(target)
    BY <1>7 DEF IsRequestLine
  <2>5. IsCut(line, method, SP, target \o <<SP>> \o w)
    BY <2>3, <2>4 DEF IsCut, ms, s
  <2>6. version = StripCR(w)
    BY <2>2 DEF EndsAs
  <2> QED
    BY <1>7, <2>4, <2>5, <2>6 DEF StartParts, IsRequestLine, Versions
<1> QED
  BY <1>6, <1>7

\* Two sequences put together, and what they were.
LEMMA JoinPieces ==
  ASSUME NEW a \in Seq(Byte), NEW b \in Seq(Byte)
  PROVE  /\ a \o b \in Seq(Byte) /\ Len(a \o b) = Len(a) + Len(b)
         /\ UpTo(a \o b, Len(a)) = a
         /\ From(a \o b, Len(a) + 1) = b
<1>1. a \o b \in Seq(Byte) /\ Len(a \o b) = Len(a) + Len(b)
  BY ConcatProperties
<1> QED
  BY <1>1, PiecesOfJoin

\* Where the parts of a request line are in its text.
StartAt(text, i, j, method, target, version) ==
  /\ UpTo(text, i - 1) = method
  /\ SubSeq(text, i + 1, j - 1) = target
  /\ From(text, j + 1) = version

\* They are somewhere.
LEMMA StartPieces ==
  ASSUME NEW text \in Seq(Byte), NEW method \in Seq(Byte), NEW target \in Seq(Byte),
         NEW version \in Seq(Byte), IsRequestLine(text, method, target, version)
  PROVE  \E i, j \in DOMAIN text : StartAt(text, i, j, method, target, version)
<1> DEFINE s == <<SP>>
           ms == method \o s
           mt == ms \o target
           q == mt \o s
           a == Len(method)
           b == Len(target)
           d == Len(version)
<1>1. s \in Seq(Byte) /\ Len(s) = 1
  BY Single, Symbols
<1>2. text = q \o version
  BY DEF IsRequestLine
<1>3. UpTo(ms, a) = method /\ ms \in Seq(Byte) /\ Len(ms) = a + 1
  BY <1>1, JoinPieces
<1> HIDE DEF s
<1>4. SubSeq(q, Len(ms) + 1, Len(ms) + Len(target)) = target /\ Len(q) = Len(ms) + Len(target) + Len(s)
  <2>1. ms \in Seq(Byte)
    BY <1>3
  <2> HIDE DEF ms
  <2> QED
    BY <1>1, <2>1, MiddleOf
<1> HIDE DEF ms
<1>5. mt \in Seq(Byte) /\ Len(mt) = a + 1 + b /\ UpTo(mt, Len(ms)) = ms
  <2>1. ms \in Seq(Byte)
    BY <1>3
  <2>2. mt \in Seq(Byte) /\ Len(mt) = Len(ms) + Len(target) /\ UpTo(mt, Len(ms)) = ms
    BY <2>1, JoinPieces
  <2> QED
    BY <1>3, <2>2
<1> HIDE DEF mt
<1>6. q \in Seq(Byte) /\ UpTo(q, Len(mt)) = mt
  BY <1>1, <1>5, JoinPieces
<1> HIDE DEF q
<1>7. From(text, Len(q) + 1) = version /\ UpTo(text, Len(q)) = q /\ Len(text) = Len(q) + d
  BY <1>2, <1>6, JoinPieces
<1>8. a \in Nat /\ b \in Nat /\ d \in Nat
  OBVIOUS
<1> DEFINE i == a + 1
           j == a + b + 2
<1>9. Len(q) = a + 1 + b + 1 /\ Len(ms) = a + 1
  BY <1>1, <1>3, <1>4, <1>8
<1> HIDE DEF a, b, d
<1>10. Len(q) = j /\ Len(text) = j + d
  BY <1>7, <1>8, <1>9
<1>11. UpTo(text, a) = method
  <2>1. /\ 1 \in 1 .. Len(q) + 1 /\ a \in 0 .. Len(q) /\ Len(q) \in 0 .. Len(text)
        /\ 1 \in 1 .. Len(mt) + 1 /\ a \in 0 .. Len(mt) /\ Len(mt) \in 0 .. Len(q)
        /\ 1 \in 1 .. Len(ms) + 1 /\ a \in 0 .. Len(ms) /\ Len(ms) \in 0 .. Len(mt)
    BY <1>5, <1>8, <1>9, <1>10
  <2>2. SubSeq(UpTo(text, Len(q)), 1, a) = SubSeq(text, 1, a)
    BY <2>1, MiddleSame
  <2>3. SubSeq(UpTo(q, Len(mt)), 1, a) = SubSeq(q, 1, a)
    BY <1>6, <2>1, MiddleSame
  <2>4. SubSeq(UpTo(mt, Len(ms)), 1, a) = SubSeq(mt, 1, a)
    BY <1>5, <2>1, MiddleSame
  <2> QED
    BY <1>3, <1>5, <1>6, <1>7, <2>2, <2>3, <2>4 DEF UpTo
<1>12. SubSeq(text, i + 1, j - 1) = target
  <2>1. i + 1 \in 1 .. Len(q) + 1 /\ j - 1 \in 0 .. Len(q) /\ Len(q) \in 0 .. Len(text)
    BY <1>8, <1>10
  <2>2. SubSeq(UpTo(text, Len(q)), i + 1, j - 1) = SubSeq(text, i + 1, j - 1)
    BY <2>1, MiddleSame
  <2>3. i + 1 = Len(ms) + 1 /\ j - 1 = Len(ms) + b
    BY <1>8, <1>9
  <2> QED
    BY <1>4, <1>7, <2>2, <2>3 DEF b
<1>13. i - 1 = a /\ i \in 1 .. Len(text) /\ j \in 1 .. Len(text)
  BY <1>8, <1>10
<1>14. From(text, j + 1) = version
  BY <1>7, <1>10
<1> HIDE DEF i, j
<1>15. DOMAIN text = 1 .. Len(text) /\ UpTo(text, i - 1) = method
  BY <1>11, <1>13
<1>16. StartAt(text, i, j, method, target, version)
  BY <1>12, <1>14, <1>15 DEF StartAt
<1> QED
  BY <1>13, <1>15, <1>16

\* Where the parts of a target are.
LEMMA TargetPieces ==
  ASSUME NEW target \in Seq(Byte)
  PROVE  \E q \in 0 .. Len(target) : /\ UpTo(target, q) = PathOf(target)
                                     /\ From(target, q + 2) = QueryOf(target)
<1> DEFINE c == "?"
           m == memchr(target, c)
           k == Len(target)
<1>1. k \in Nat /\ c \in Byte
  BY Symbols
<1>2. CASE m = 0
  <2>1. PathOf(target) = target /\ QueryOf(target) = <<>>
    BY <1>2 DEF PathOf, QueryOf
  <2>2. UpTo(target, k) = target
    BY SubSeqFull DEF UpTo
  <2>3. From(target, k + 2) = <<>>
    BY DEF From
  <2>4. k \in 0 .. k
    BY <1>1
  <2> QED
    BY <2>1, <2>2, <2>3, <2>4
<1>3. CASE m # 0
  <2> HIDE DEF c
  <2>1. m \in 1 .. k
    BY <1>1, <1>3, CutAt
  <2>2. PathOf(target) = UpTo(target, m - 1) /\ QueryOf(target) = From(target, m + 1)
    BY <1>3, Zenon DEF PathOf, QueryOf, c
  <2> HIDE DEF m, k
  <2>3. m - 1 \in 0 .. k /\ (m - 1) + 2 = m + 1
    BY <1>1, <2>1
  <2> QED
    BY <2>2, <2>3 DEF k
<1> QED
  BY <1>2, <1>3

\* The parser finds in a request line what the client meant, and refuses a malformed one.
LEMMA StartVerdict ==
  ASSUME NEW s, IsStart(s), NEW line, LineOf(line, s.text)
  PROVE  parse_request_line(line) =
           IF s.ok THEN PARSE_OK([method |-> s.method, path |-> s.path, query |-> s.query,
                                  version |-> s.version, headers |-> <<>>])
           ELSE PARSE_ERROR
<1>1. s.text \in Seq(Byte) /\ line \in Seq(Byte)
  BY DEF LineOf
<1>2. CASE s.ok
  <2>1. s.method \in Seq(Byte) /\ s.path \in Seq(Byte) /\ s.query \in Seq(Byte) /\ s.version \in Seq(Byte)
    BY <1>2 DEF IsStart
  <2>2. PICK target \in {s.path, s.path \o <<"?">> \o s.query} :
          IsRequestLine(s.text, s.method, target, s.version) /\ IsTarget(target, s.path, s.query)
    BY <1>2 DEF IsStart
  <2>3. target \in Seq(Byte)
    <3> DEFINE c == <<"?">>
    <3>1. c \in Seq(Byte)
      BY Single, Symbols
    <3> HIDE DEF c
    <3>2. (s.path \o c) \o s.query \in Seq(Byte)
      BY <2>1, <3>1, Associates
    <3> QED
      BY <2>1, <2>2, <3>2 DEF c
  <2>4. StartParts(line, s.method, target, s.version)
    BY <2>1, <2>2, <2>3, StartPartsOfText
  <2>5. PathOf(target) = s.path /\ QueryOf(target) = s.query
    BY <2>1, <2>2, <2>3, TargetIs
  <2>6. Len(s.path) < MAX_PATH_LEN /\ Len(s.query) < MAX_PATH_LEN
    BY <2>2 DEF IsTarget
  <2> QED
    BY <1>2, <2>4, <2>5, <2>6, StartParsed
<1>3. CASE ~s.ok
  <2> SUFFICES ASSUME parse_request_line(line) # PARSE_ERROR PROVE FALSE
    BY <1>3
  <2>1. PICK method, target \in Seq(Byte), version \in Versions : StartParts(line, method, target, version)
    BY <1>1, StartAccepted
  <2>2. version \in Seq(Byte)
    BY VersionType
  <2>3. IsRequestLine(s.text, method, target, version)
    BY <2>1, <2>2, StartPartsOfText
  <2>4. Len(PathOf(target)) < MAX_PATH_LEN /\ Len(QueryOf(target)) < MAX_PATH_LEN
    BY <2>1, StartParsed
  <2>5. IsTarget(target, PathOf(target), QueryOf(target))
    BY <2>4, TargetParts
  <2>6. PICK i, j \in DOMAIN s.text : StartAt(s.text, i, j, method, target, version)
    BY <1>1, <2>2, <2>3, StartPieces
  <2>7. PICK q \in 0 .. Len(target) : UpTo(target, q) = PathOf(target) /\ From(target, q + 2) = QueryOf(target)
    BY TargetPieces
  <2> QED
    BY <1>3, <2>3, <2>5, <2>6, <2>7 DEF IsStart, StartAt
<1> QED
  BY <1>2, <1>3

\* The parser finds in a header line what the client meant, and refuses a
\* malformed one, or one too many.
LEMMA FieldVerdict ==
  ASSUME NEW f, IsField(f), NEW line, LineOf(line, f.text), NEW req
  PROVE  parse_header_line(req, line) =
           IF f.ok /\ Len(req.headers) < MAX_HEADERS
           THEN PARSE_OK([req EXCEPT !.headers = Append(@, [name |-> f.name, value |-> f.value])])
           ELSE PARSE_ERROR
<1>1. f.text \in Seq(Byte) /\ line \in Seq(Byte)
  BY DEF LineOf
<1>2. CASE f.ok
  <2>1. f.name \in Seq(Byte) /\ f.value \in Seq(Byte) /\ IsHeaderLine(f.text, f.name, f.value)
    BY <1>2 DEF IsField
  <2>2. HeaderParts(line, f.name, f.value)
    BY <1>1, <2>1, HeaderGrammar, HeaderPartsOfText
  <2> QED
    BY <1>2, <2>2, HeaderParsed
<1>3. CASE ~f.ok
  <2> SUFFICES ASSUME parse_header_line(req, line) # PARSE_ERROR PROVE FALSE
    BY <1>3
  <2>1. PICK name, value \in Seq(Byte) : HeaderParts(line, name, value)
    BY <1>1, HeaderAccepted
  <2>2. HeaderFits(name, value) /\ HeaderText(f.text, name, value)
    BY <2>1, HeaderPartsOfText
  <2>3. IsHeaderLine(f.text, name, value)
    BY <1>1, <2>2, HeaderGrammar
  <2>4. \E i, j \in 1 .. Len(f.text) + 1 : UpTo(f.text, i - 1) = name /\ From(f.text, j) = value
    <3> DEFINE c == <<":">>
               front == name \o c
    <3>1. PICK b \in Seq(Byte) : f.text = (front \o b) \o value
      BY <2>2 DEF HeaderText
    <3>2. c \in Seq(Byte)
      BY Single, Symbols
    <3> HIDE DEF c
    <3> DEFINE x == front \o b
    <3>3. front \in Seq(Byte) /\ UpTo(front, Len(name)) = name /\ Len(front) = Len(name) + Len(c)
      BY <3>2, JoinPieces
    <3> HIDE DEF front
    <3>4. x \in Seq(Byte) /\ UpTo(x, Len(front)) = front /\ Len(x) = Len(front) + Len(b)
      <4>1. front \in Seq(Byte)
        BY <3>3
      <4> QED
        BY <4>1, JoinPieces
    <3> HIDE DEF x
    <3>5. f.text = x \o value
      BY <3>1 DEF x
    <3>6. UpTo(f.text, Len(x)) = x /\ From(f.text, Len(x) + 1) = value /\ Len(f.text) = Len(x) + Len(value)
      <4>1. x \in Seq(Byte)
        BY <3>4
      <4>2. /\ UpTo(x \o value, Len(x)) = x /\ From(x \o value, Len(x) + 1) = value
            /\ Len(x \o value) = Len(x) + Len(value)
        BY <4>1, JoinPieces
      <4> QED
        BY <3>5, <4>2
    <3> DEFINE i == Len(name)
               j == Len(x)
               k == Len(front)
    <3>7. i \in Nat /\ j \in Nat /\ k \in Nat /\ i <= k /\ k <= j /\ j <= Len(f.text)
      BY <3>2, <3>3, <3>4, <3>6
    <3> HIDE DEF i, j, k
    <3>8. /\ 1 \in 1 .. k + 1 /\ i \in 0 .. k /\ k \in 0 .. j
          /\ 1 \in 1 .. j + 1 /\ i \in 0 .. j /\ j \in 0 .. Len(f.text)
      BY <1>1, <3>7
    <3>9. SubSeq(UpTo(x, k), 1, i) = SubSeq(x, 1, i)
      BY <3>4, <3>8, MiddleSame DEF j
    <3>10. SubSeq(UpTo(f.text, j), 1, i) = SubSeq(f.text, 1, i)
      BY <1>1, <3>8, MiddleSame
    <3>11. UpTo(f.text, i) = name
      BY <3>3, <3>4, <3>6, <3>9, <3>10 DEF UpTo, i, j, k
    <3>12. i + 1 - 1 = i /\ i + 1 \in 1 .. Len(f.text) + 1 /\ j + 1 \in 1 .. Len(f.text) + 1
      BY <1>1, <3>8
    <3>13. From(f.text, j + 1) = value
      BY <3>6 DEF j
    <3> DEFINE p == i + 1
               q == j + 1
    <3> HIDE DEF p, q
    <3>14. p \in 1 .. Len(f.text) + 1 /\ q \in 1 .. Len(f.text) + 1 /\ p - 1 = i
      BY <3>7, <3>12 DEF p, q
    <3>15. UpTo(f.text, p - 1) = name
      BY <3>11, <3>14
    <3>16. From(f.text, q) = value
      BY <3>13 DEF q
    <3> QED
      BY <3>14, <3>15, <3>16
  <2> QED
    BY <1>3, <2>3, <2>4 DEF IsField
<1> QED
  BY <1>2, <1>3

-----------------------------------------------------------------------------
(* Lines put together.                                                     *)

\* Sequences are put together one after the other.
LEMMA FlattenDef ==
  ASSUME NEW seqs, NEW K \in Nat \ {0}, Len(seqs) = K, \A i \in 1 .. K : seqs[i] \in Seq(Byte)
  PROVE  \E f : /\ FlattenSeq(seqs) = f[K] /\ f[1] = seqs[1]
                /\ \A i \in 1 .. K : f[i] \in Seq(Byte)
                /\ \A i \in 2 .. K : f[i] = f[i - 1] \o seqs[i]
<1> DEFINE D == 1 .. K
           S == Seq(Byte)
           stop == {1}
           base == [i \in D |-> seqs[1]]
           prev == [i \in D |-> i - 1]
           step == [x \in D \X S |-> x[2] \o seqs[x[1]]]
           Eq(h) == [i \in D |-> IF i = 1 THEN seqs[i] ELSE h[i - 1] \o seqs[i]]
           f == CHOOSE h : h = Eq(h)
<1>1. 1 \in D /\ K \in D /\ Len(seqs) # 0
  OBVIOUS
<1>2. IsRecursion(D, S, stop, base, prev, step)
  <2>1. base \in [D -> S] /\ D \subseteq Nat
    OBVIOUS
  <2>2. ASSUME NEW x \in D \X S PROVE x[2] \o seqs[x[1]] \in S
    <3>1. x[2] \in S /\ seqs[x[1]] \in S
      OBVIOUS
    <3> QED
      BY <3>1, ConcatProperties
  <2>3. step \in [D \X S -> S]
    BY <2>2
  <2>4. \A m \in D \ stop : prev[m] \in D /\ prev[m] < m
    OBVIOUS
  <2> QED
    BY <2>1, <2>3, <2>4 DEF IsRecursion
<1>3. PICK g \in [D -> S] : \A m \in D : g[m] = Value(g, stop, base, prev, step, m)
  <2> HIDE DEF D, S, stop, base, prev, step
  <2> QED
    BY <1>2, Recursion
<1>4. ASSUME NEW m \in D
      PROVE  g[m] = IF m = 1 THEN seqs[m] ELSE g[m - 1] \o seqs[m]
  <2>1. CASE m = 1
    <3>1. m \in stop /\ base[m] = seqs[m]
      BY <2>1
    <3>2. g[m] = Value(g, stop, base, prev, step, m)
      BY <1>3
    <3> HIDE DEF stop, base, prev, step
    <3>3. g[m] = seqs[m]
      BY <3>1, <3>2 DEF Value
    <3> QED
      BY <2>1, <3>3
  <2>2. CASE m # 1
    <3>1. <<m, g[m - 1]>> \in D \X S
      <4>1. m - 1 \in D
        BY <2>2
      <4>2. g[m - 1] \in S
        BY <4>1
      <4> QED
        BY <4>2
    <3>2. g[m] = step[<<m, g[m - 1]>>]
      BY <2>2, <1>3 DEF Value
    <3> QED
      BY <2>2, <3>1, <3>2
  <2> QED
    BY <2>1, <2>2
<1>5. g = Eq(g)
  BY <1>4
<1>6. f = Eq(f)
  <2> HIDE DEF Eq
  <2> QED
    BY <1>5
<1>7. FlattenSeq(seqs) = f[K]
  BY <1>1 DEF FlattenSeq
<1> HIDE DEF f
<1>8. f[1] = seqs[1] /\ \A i \in 2 .. K : f[i] = f[i - 1] \o seqs[i]
  <2>1. f[1] = seqs[1]
    BY <1>1, <1>6
  <2>2. ASSUME NEW i \in 2 .. K PROVE f[i] = f[i - 1] \o seqs[i]
    <3>1. i \in D /\ i # 1
      OBVIOUS
    <3> QED
      BY <1>6, <3>1
  <2> QED
    BY <2>1, <2>2
<1>9. \A i \in D : f[i] \in Seq(Byte)
  <2> DEFINE P == {i \in Nat : i \in D => f[i] \in Seq(Byte)}
  <2>1. ASSUME NEW i \in Nat, \A m \in Nat : m < i => m \in P
        PROVE  i \in P
    <3>1. CASE i = 1
      BY <1>8, <3>1
    <3>2. CASE i \in 2 .. K
      <4>1. i - 1 \in Nat /\ i - 1 < i /\ i - 1 \in D /\ i \in D
        BY <3>2
      <4>2. f[i - 1] \in Seq(Byte) /\ seqs[i] \in Seq(Byte)
        BY <2>1, <4>1
      <4>3. f[i - 1] \o seqs[i] \in Seq(Byte)
        BY <4>2, ConcatProperties
      <4> QED
        BY <1>8, <3>2, <4>3
    <3> QED
      BY <3>1, <3>2
  <2>2. Nat \subseteq P
    <3> HIDE DEF P
    <3> QED
      BY <2>1, Induction
  <2> QED
    BY <2>2
<1> QED
  BY <1>7, <1>8, <1>9

\* A line with its line feed is at p.
Stands(x, p, line) ==
  /\ p \in Nat \ {0} /\ p + Len(line) <= Len(x)
  /\ \A i \in 1 .. Len(line) : x[p + i - 1] = line[i]
  /\ x[p + Len(line)] = LF

\* The first k lines are what x is made of; line i ends at o[i].
LaidOut(x, lines, o, k) ==
  /\ x \in Seq(Byte) /\ Len(x) = o[k]
  /\ \A i \in 1 .. k : Stands(x, o[i - 1] + 1, lines[i])

\* Where lines end.
Ends(lines, o, K) ==
  /\ o \in [0 .. K -> Nat] /\ o[0] = 0
  /\ \A i \in 1 .. K : o[i] = o[i - 1] + Len(lines[i]) + 1

\* A line stays where it is when something is put behind.
LEMMA StillStands ==
  ASSUME NEW x \in Seq(Byte), NEW y \in Seq(Byte), NEW p, NEW line \in Seq(Byte), Stands(x, p, line)
  PROVE  Stands(x \o y, p, line)
<1> DEFINE z == x \o y
           j == Len(x)
           k == Len(y)
           a == Len(line)
<1>1. z \in Seq(Byte) /\ IsJoin(z, x, y, j, k) /\ j \in Nat /\ k \in Nat /\ a \in Nat
  BY Joined
<1>2. /\ p \in Nat \ {0} /\ p + a <= j
      /\ \A i \in 1 .. a : x[p + i - 1] = line[i]
      /\ x[p + a] = LF
  BY DEF Stands
<1> HIDE DEF z, j, k, a
<1>3. Len(z) = j + k /\ \A i \in 1 .. j : z[i] = x[i]
  BY <1>1 DEF IsJoin
<1>4. p + a <= Len(z)
  BY <1>1, <1>2, <1>3
<1>5. p + a \in 1 .. j /\ \A i \in 1 .. a : p + i - 1 \in 1 .. j
  BY <1>1, <1>2
<1>6. z[p + a] = LF /\ \A i \in 1 .. a : z[p + i - 1] = line[i]
  BY <1>2, <1>3, <1>5
<1> QED
  BY <1>2, <1>4, <1>6 DEF Stands, z, a

\* A line put behind stands there.
LEMMA NextStands ==
  ASSUME NEW x \in Seq(Byte), NEW line \in Seq(Byte), NEW z, z = x \o Append(line, LF)
  PROVE  /\ z \in Seq(Byte) /\ Len(z) = Len(x) + Len(line) + 1
         /\ Stands(z, Len(x) + 1, line)
<1> DEFINE y == Append(line, LF)
           j == Len(x)
           a == Len(line)
<1>1. y \in Seq(Byte) /\ Len(y) = a + 1 /\ y[a + 1] = LF /\ \A i \in 1 .. a : y[i] = line[i]
  BY Symbols
<1> HIDE DEF y
<1>2. z \in Seq(Byte) /\ IsJoin(z, x, y, j, a + 1) /\ j \in Nat /\ a \in Nat
  <2>1. y \in Seq(Byte)
    BY <1>1
  <2>2. x \o y \in Seq(Byte) /\ IsJoin(x \o y, x, y, Len(x), Len(y))
    BY <2>1, Joined
  <2>3. z = x \o y
    BY DEF y
  <2> QED
    BY <1>1, <2>2, <2>3
<1> HIDE DEF j, a
<1>3. Len(z) = j + (a + 1) /\ \A i \in 1 .. a + 1 : z[j + i] = y[i]
  BY <1>2 DEF IsJoin
<1>4. Len(z) = j + a + 1 /\ j + 1 \in Nat \ {0} /\ j + 1 + a <= Len(z)
  BY <1>2, <1>3
<1>5. ASSUME NEW i \in 1 .. a PROVE z[j + 1 + i - 1] = line[i]
  <2>1. j + 1 + i - 1 = j + i /\ i \in 1 .. a + 1
    BY <1>2
  <2>2. z[j + i] = y[i]
    BY <1>3, <2>1
  <2> QED
    BY <1>1, <2>1, <2>2
<1>6. z[j + 1 + a] = LF
  <2> DEFINE b == a + 1
  <2>1. b \in 1 .. a + 1 /\ j + 1 + a = j + b
    BY <1>2
  <2>2. y[b] = LF
    BY <1>1
  <2> HIDE DEF b
  <2>3. z[j + b] = y[b]
    BY <1>3, <2>1
  <2> QED
    BY <2>1, <2>2, <2>3
<1> QED
  BY <1>2, <1>4, <1>5, <1>6 DEF Stands, j, a

\* Lines put together are laid out one after the other.
LEMMA FlattenLaysOut ==
  ASSUME NEW lines, NEW K \in Nat \ {0}, DOMAIN lines = 1 .. K,
         \A i \in 1 .. K : lines[i] \in Seq(Byte)
  PROVE  \E o : /\ Ends(lines, o, K)
                /\ LaidOut(FlattenSeq([i \in DOMAIN lines |-> Append(lines[i], LF)]), lines, o, K)
<1> DEFINE seqs == [i \in DOMAIN lines |-> Append(lines[i], LF)]
<1>1. Len(seqs) = K /\ \A i \in 1 .. K : seqs[i] \in Seq(Byte) /\ seqs[i] = Append(lines[i], LF)
  BY Symbols
<1> HIDE DEF seqs
<1>2. PICK f : /\ FlattenSeq(seqs) = f[K] /\ f[1] = seqs[1]
               /\ \A i \in 1 .. K : f[i] \in Seq(Byte)
               /\ \A i \in 2 .. K : f[i] = f[i - 1] \o seqs[i]
  BY <1>1, FlattenDef
<1> DEFINE o == [i \in 0 .. K |-> IF i = 0 THEN 0 ELSE Len(f[i])]
           P == {i \in Nat : i \in 1 .. K => LaidOut(f[i], lines, o, i) /\ o[i] = o[i - 1] + Len(lines[i]) + 1}
<1>3. o \in [0 .. K -> Nat] /\ o[0] = 0 /\ \A i \in 1 .. K : o[i] = Len(f[i])
  BY <1>2
<1> HIDE DEF o
<1>4. ASSUME NEW i \in Nat, \A m \in Nat : m < i => m \in P
      PROVE  i \in P
  <2> SUFFICES ASSUME i \in 1 .. K
               PROVE  LaidOut(f[i], lines, o, i) /\ o[i] = o[i - 1] + Len(lines[i]) + 1
    OBVIOUS
  <2>1. lines[i] \in Seq(Byte)
    OBVIOUS
  <2> DEFINE e == <<>>
             line == lines[i]
  <2>2. CASE i = 1
    <3>1. Append(line, LF) \in Seq(Byte)
      BY <2>1, Symbols
    <3>2. f[1] = e \o Append(line, LF)
      BY <1>1, <1>2, <2>2, <3>1, ConcatEmptySeq
    <3>3. e \in Seq(Byte) /\ Len(e) = 0
      OBVIOUS
    <3> HIDE DEF e, line
    <3>4. f[1] \in Seq(Byte) /\ Len(f[1]) = Len(e) + Len(line) + 1 /\ Stands(f[1], Len(e) + 1, line)
      BY <2>1, <3>2, <3>3, NextStands DEF line
    <3>5. o[i] = 0 + Len(line) + 1 /\ i - 1 = 0
      BY <1>3, <2>2, <3>3, <3>4
    <3>6. Stands(f[i], o[i - 1] + 1, line)
      BY <1>3, <2>2, <3>3, <3>4, <3>5
    <3>7. \A k \in 1 .. i : k = i
      BY <2>2
    <3> QED
      BY <1>2, <1>3, <3>5, <3>6, <3>7 DEF LaidOut, line
  <2>3. CASE i # 1
    <3> DEFINE m == i - 1
    <3>1. m \in 1 .. K /\ m \in Nat /\ m < i /\ i \in 2 .. K
      BY <2>3
    <3>2. LaidOut(f[m], lines, o, m)
      BY <1>4, <3>1
    <3>3. f[i] = f[m] \o Append(line, LF) /\ f[m] \in Seq(Byte)
      BY <1>1, <1>2, <3>1
    <3>4. o[m] = Len(f[m]) /\ o[i] = Len(f[i])
      BY <1>3, <3>1
    <3> HIDE DEF m, line
    <3>5. /\ f[i] \in Seq(Byte) /\ Len(f[i]) = Len(f[m]) + Len(line) + 1
          /\ Stands(f[i], Len(f[m]) + 1, line)
      BY <2>1, <3>3, NextStands DEF line
    <3>6. ASSUME NEW k \in 1 .. i PROVE Stands(f[i], o[k - 1] + 1, lines[k])
      <4>1. CASE k = i
        BY <3>4, <3>5, <4>1 DEF m, line
      <4>2. CASE k # i
        <5>1. k \in 1 .. m /\ k \in 1 .. K
          BY <3>1, <4>2 DEF m
        <5>2. Stands(f[m], o[k - 1] + 1, lines[k])
          BY <3>2, <5>1 DEF LaidOut
        <5>3. lines[k] \in Seq(Byte)
          BY <5>1
        <5>4. Append(line, LF) \in Seq(Byte)
          BY <2>1, Symbols DEF line
        <5>5. Stands(f[m] \o Append(line, LF), o[k - 1] + 1, lines[k])
          BY <3>3, <5>2, <5>3, <5>4, StillStands
        <5> QED
          BY <3>3, <5>5
      <4> QED
        BY <4>1, <4>2
    <3>7. LaidOut(f[i], lines, o, i)
      BY <3>4, <3>5, <3>6 DEF LaidOut
    <3>8. o[i] = o[m] + Len(line) + 1
      BY <3>4, <3>5
    <3> QED
      BY <3>7, <3>8 DEF m, line
  <2> QED
    BY <2>2, <2>3
<1>5. Nat \subseteq P
  <2> HIDE DEF P
  <2> QED
    BY <1>4, Induction
<1>6. \A i \in 1 .. K : LaidOut(f[i], lines, o, i) /\ o[i] = o[i - 1] + Len(lines[i]) + 1
  BY <1>5
<1>7. Ends(lines, o, K)
  BY <1>3, <1>6 DEF Ends
<1>8. LaidOut(f[K], lines, o, K)
  BY <1>6
<1> QED
  BY <1>2, <1>7, <1>8 DEF seqs

-----------------------------------------------------------------------------
(* Where a head ends.                                                      *)

\* A separator, byte by byte.
LEMMA SeparatorBytes ==
  ASSUME NEW s \in Seq(Byte), NEW i
  PROVE  i \in Separators(s) <=> /\ i \in 1 .. Len(s) - 3
                                 /\ s[i] = CR /\ s[i + 1] = LF /\ s[i + 2] = CR /\ s[i + 3] = LF
<1> DEFINE q == CRLF \o CRLF
           y == SubSeq(s, i, i + 3)
<1>1. q \in Seq(Byte) /\ Len(q) = 4 /\ q[1] = CR /\ q[2] = LF /\ q[3] = CR /\ q[4] = LF
  BY Symbols DEF CRLF
<1>2. CASE i \notin 1 .. Len(s) - 3
  BY <1>2 DEF Separators
<1>3. CASE i \in 1 .. Len(s) - 3
  <2>1. i \in Nat /\ i \in 1 .. Len(s) + 1 /\ i + 3 \in i - 1 .. Len(s) /\ i + 3 - i + 1 = 4
    BY <1>3
  <2>2. y \in Seq(Byte) /\ Len(y) = 4 /\ \A k \in 1 .. 4 : y[k] = s[i + k - 1]
    BY <2>1, PieceShape
  <2> HIDE DEF y, q
  <2>3. y = q <=> \A k \in 1 .. 4 : y[k] = q[k]
    <3>1. ASSUME \A k \in 1 .. 4 : y[k] = q[k] PROVE y = q
      BY <1>1, <2>2, <3>1, SeqEqual
    <3> QED
      BY <3>1
  <2>4. y[1] = s[i] /\ y[2] = s[i + 1] /\ y[3] = s[i + 2] /\ y[4] = s[i + 3]
    <3>1. 1 \in 1 .. 4 /\ 2 \in 1 .. 4 /\ 3 \in 1 .. 4 /\ 4 \in 1 .. 4
      OBVIOUS
    <3>2. i + 1 - 1 = i /\ i + 2 - 1 = i + 1 /\ i + 3 - 1 = i + 2 /\ i + 4 - 1 = i + 3
      BY <2>1
    <3> QED
      BY <2>2, <3>1, <3>2
  <2>5. y = q <=> y[1] = CR /\ y[2] = LF /\ y[3] = CR /\ y[4] = LF
    <3>1. \A k \in 1 .. 4 : k = 1 \/ k = 2 \/ k = 3 \/ k = 4
      OBVIOUS
    <3>2. 1 \in 1 .. 4 /\ 2 \in 1 .. 4 /\ 3 \in 1 .. 4 /\ 4 \in 1 .. 4
      OBVIOUS
    <3> QED
      BY <1>1, <2>3, <3>1, <3>2
  <2> QED
    BY <1>3, <2>4, <2>5 DEF Separators, y, q
<1> QED
  BY <1>2, <1>3

\* Lines as a client sends them.
IsLines(lines, K) ==
  /\ K \in Nat \ {0}
  /\ \A i \in 1 .. K : lines[i] \in Seq(Byte) /\ LF \notin ToSet(lines[i])
  /\ \A i \in 2 .. K : Len(lines[i]) > 1
  /\ lines[K] # <<>> /\ Last(lines[K]) = CR

\* raw begins with x and a line that is empty.
Begins(raw, x) ==
  /\ raw \in Seq(Byte) /\ Len(raw) >= Len(x) + 2
  /\ \A i \in 1 .. Len(x) : raw[i] = x[i]
  /\ raw[Len(x) + 1] = CR /\ raw[Len(x) + 2] = LF

\* A line feed among lines is at the end of one.
LEMMA FeedEndsLine ==
  ASSUME NEW lines, NEW K, NEW o, NEW x, IsLines(lines, K), Ends(lines, o, K), LaidOut(x, lines, o, K),
         NEW p \in 1 .. Len(x), x[p] = LF
  PROVE  \E k \in 1 .. K : p = o[k]
<1> DEFINE S == {k \in 1 .. K : p <= o[k]}
<1>1. K \in Nat \ {0} /\ o[0] = 0 /\ Len(x) = o[K] /\ \A k \in 0 .. K : o[k] \in Nat
  BY DEF IsLines, Ends, LaidOut
<1>2. K \in S
  BY <1>1
<1>3. PICK k \in S : \A i \in S : k <= i
  <2>1. S \subseteq Nat
    OBVIOUS
  <2> HIDE DEF S
  <2> QED
    BY <1>2, <2>1, LeastOf
<1> DEFINE line == lines[k]
           m == o[k - 1]
           a == Len(line)
<1>4. k \in 1 .. K /\ p <= o[k] /\ k - 1 \in 0 .. K /\ m \in Nat
  BY <1>1
<1>5. o[k] = m + a + 1 /\ Stands(x, m + 1, line) /\ line \in Seq(Byte) /\ LF \notin ToSet(line)
  BY <1>4 DEF Ends, LaidOut, IsLines
<1>6. m < p
  <2>1. CASE k = 1
    BY <1>1, <2>1
  <2>2. CASE k # 1
    <3>1. k - 1 \in 1 .. K /\ ~(k <= k - 1)
      BY <1>4, <2>2
    <3>2. k - 1 \notin S
      BY <1>3, <3>1
    <3>3. ~(p <= m)
      BY <3>1, <3>2
    <3> QED
      BY <1>4, <3>3
  <2> QED
    BY <2>1, <2>2
<1>7. a \in Nat /\ p \in Nat
  BY <1>5
<1>8. \A i \in 1 .. a : x[m + 1 + i - 1] = line[i] /\ line[i] # LF
  BY <1>5, ToSetIs DEF Stands
<1> HIDE DEF m, a, line
<1> DEFINE i == p - m
<1>9. ~(i \in 1 .. a)
  <2> SUFFICES ASSUME i \in 1 .. a PROVE FALSE
    OBVIOUS
  <2>1. m + 1 + i - 1 = p
    BY <1>4, <1>7
  <2> HIDE DEF i
  <2> QED
    BY <1>8, <2>1
<1>10. p = o[k]
  BY <1>4, <1>5, <1>6, <1>7, <1>9
<1> QED
  BY <1>4, <1>10

\* The head of a message ends with its last line, and nowhere before.
LEMMA HeadSeparator ==
  ASSUME NEW lines, NEW K, NEW o, NEW x, IsLines(lines, K), Ends(lines, o, K), LaidOut(x, lines, o, K),
         NEW raw, Begins(raw, x)
  PROVE  /\ Len(x) \in Nat /\ Len(x) > 1
         /\ Len(x) - 1 \in Separators(raw)
         /\ \A j \in Separators(raw) : Len(x) - 1 <= j
<1> DEFINE h == Len(x)
           line == lines[K]
           a == Len(line)
           m == o[K - 1]
<1>1. K \in Nat \ {0} /\ h = o[K] /\ \A k \in 0 .. K : o[k] \in Nat
  BY DEF IsLines, Ends, LaidOut
<1>2. K \in 1 .. K /\ K - 1 \in 0 .. K
  BY <1>1
<1>3. /\ line \in Seq(Byte) /\ a \in Nat /\ a # 0 /\ line[a] = CR
      /\ h = m + a + 1 /\ m \in Nat /\ Stands(x, m + 1, line)
  BY <1>1, <1>2 DEF IsLines, Ends, LaidOut, Last
<1>4. raw \in Seq(Byte) /\ Len(raw) \in Nat /\ Len(raw) >= h + 2 /\ raw[h + 1] = CR /\ raw[h + 2] = LF
  BY DEF Begins
<1>5. \A i \in 1 .. h : raw[i] = x[i]
  BY DEF Begins
<1>6. x[m + 1 + a - 1] = CR /\ x[m + 1 + a] = LF
  <2>1. a \in 1 .. a
    BY <1>3
  <2> HIDE DEF a, m
  <2> QED
    BY <1>3, <2>1 DEF Stands, a
<1> HIDE DEF h, a, m, line
<1>7. h - 1 \in Separators(raw)
  <2> DEFINE i == h - 1
  <2>1. m + 1 + a - 1 = i /\ m + 1 + a = h /\ i \in 1 .. h /\ h \in 1 .. h
    BY <1>3
  <2>2. i \in 1 .. Len(raw) - 3 /\ i + 1 = h /\ i + 2 = h + 1 /\ i + 3 = h + 2
    BY <1>3, <1>4
  <2> HIDE DEF i
  <2>3. raw[i] = CR /\ raw[h] = LF
    BY <1>5, <1>6, <2>1
  <2>4. i \in Separators(raw)
    BY <1>4, <2>2, <2>3, SeparatorBytes
  <2> QED
    BY <2>4 DEF i
<1>8. ASSUME NEW j \in Separators(raw), ~(h - 1 <= j) PROVE FALSE
  <2> DEFINE p == j + 1
  <2>1. j \in 1 .. Len(raw) - 3 /\ raw[p] = LF /\ raw[j + 3] = LF
    BY <1>4, SeparatorBytes
  <2>2. p \in 1 .. h /\ p < h
    BY <1>3, <1>4, <1>8, <2>1
  <2> HIDE DEF p
  <2>3. x[p] = LF
    BY <1>5, <2>1, <2>2
  <2>4. PICK k \in 1 .. K : p = o[k]
    BY <2>2, <2>3, FeedEndsLine DEF h
  <2>5. k # K
    BY <1>1, <2>2, <2>4
  <2> DEFINE n1 == k + 1
             next == lines[n1]
             b == Len(next)
  <2>6. n1 \in 1 .. K /\ n1 \in 2 .. K /\ n1 - 1 = k
    BY <1>1, <2>5
  <2>7. next \in Seq(Byte) /\ LF \notin ToSet(next) /\ b > 1 /\ b \in Nat
    BY <2>6 DEF IsLines
  <2>8. Stands(x, p + 1, next)
    BY <2>4, <2>6 DEF LaidOut
  <2>9. 2 \in 1 .. b /\ next[2] # LF
    <3>1. 2 \in 1 .. b
      BY <2>7
    <3> QED
      BY <2>7, <3>1, ToSetIs
  <2>10. p + 1 + b <= h /\ x[p + 1 + 2 - 1] = next[2]
    BY <2>8, <2>9 DEF Stands, h
  <2> HIDE DEF b, next, n1
  <2>11. p + 1 + 2 - 1 = j + 3 /\ j + 3 \in 1 .. h
    BY <2>1, <2>2, <2>7, <2>10, <1>3 DEF p
  <2> QED
    BY <1>5, <2>1, <2>9, <2>10, <2>11
<1>9. h \in Nat /\ h > 1
  BY <1>3
<1> QED
  BY <1>7, <1>8, <1>9 DEF h

\* Before the whole head has arrived there is no head; then the head is the lines.
LEMMA HeadFound ==
  ASSUME NEW lines, NEW K, NEW o, NEW x, IsLines(lines, K), Ends(lines, o, K), LaidOut(x, lines, o, K),
         NEW raw, Begins(raw, x), NEW p \in 0 .. Len(raw)
  PROVE  /\ p < Len(x) + 2 => header_end(UpTo(raw, p)) = 0
         /\ ~(p < Len(x) + 2) => /\ header_end(UpTo(raw, p)) = Len(x) - 1
                                 /\ HeadOf(UpTo(raw, p)) = x
                                 /\ Len(x) \in Nat \ {0, 1}
<1> DEFINE h == Len(x)
           s == UpTo(raw, p)
<1>1. /\ h \in Nat /\ h > 1 /\ h - 1 \in Separators(raw)
      /\ \A j \in Separators(raw) : h - 1 <= j
  BY HeadSeparator
<1>2. raw \in Seq(Byte) /\ x \in Seq(Byte) /\ Len(raw) \in Nat /\ p \in Nat
  BY DEF Begins, LaidOut
<1>3. Separators(s) = {i \in Separators(raw) : i + 3 <= p}
  BY <1>2, SeparatorsOfPrefix
<1>4. s \in Seq(Byte) /\ Len(s) = p /\ \A i \in 1 .. p : s[i] = raw[i]
  BY <1>2, UpToShape
<1>5. \A i \in Separators(raw) : i \in Nat
  BY <1>2, SeparatorBytes
<1>6. \A i \in 1 .. h : raw[i] = x[i]
  BY DEF Begins
<1> HIDE DEF h, s
<1>7. ASSUME p < h + 2 PROVE header_end(s) = 0
  <2>1. Separators(s) = {}
    BY <1>1, <1>2, <1>3, <1>5, <1>7
  <2> QED
    BY <2>1 DEF header_end
<1>8. ASSUME ~(p < h + 2) PROVE header_end(s) = h - 1 /\ HeadOf(s) = x
  <2>1. h - 1 \in Separators(s)
    BY <1>1, <1>2, <1>3, <1>8
  <2>2. header_end(s) \in Separators(s) /\ header_end(s) \in Nat /\ header_end(s) <= h - 1
    BY <1>4, <2>1, HeaderEndFirst
  <2>3. header_end(s) = h - 1
    BY <1>1, <1>3, <2>2
  <2>4. UpTo(s, h) = x
    <3>1. h \in 0 .. p /\ \A i \in 1 .. h : i \in 1 .. p
      BY <1>1, <1>2, <1>8
    <3> DEFINE y == UpTo(s, h)
    <3>2. y \in Seq(Byte) /\ Len(y) = h /\ \A i \in 1 .. h : y[i] = s[i]
      BY <1>4, <3>1, UpToShape
    <3> HIDE DEF y
    <3>3. \A i \in 1 .. h : y[i] = x[i]
      BY <1>4, <1>6, <3>1, <3>2
    <3>4. Len(x) = h
      BY DEF h
    <3>5. y = x
      BY <1>2, <3>2, <3>3, <3>4, SeqEqual
    <3> QED
      BY <3>5 DEF y
  <2>5. (h - 1) + 1 = h
    BY <1>1
  <2> QED
    BY <2>3, <2>4, <2>5 DEF HeadOf
<1>9. h \in Nat \ {0, 1}
  BY <1>1
<1> QED
  BY <1>7, <1>8, <1>9, Zenon DEF h, s

-----------------------------------------------------------------------------
(* What the parser makes of any head.                                      *)

\* What is in neither of two sequences is not in both put together.
LEMMA NotInJoin ==
  ASSUME NEW a \in Seq(Byte), NEW b \in Seq(Byte), NEW c
  PROVE  c \notin ToSet(a \o b) <=> c \notin ToSet(a) /\ c \notin ToSet(b)
<1> DEFINE x == a \o b
           j == Len(a)
           k == Len(b)
<1>1. x \in Seq(Byte) /\ IsJoin(x, a, b, j, k) /\ j \in Nat /\ k \in Nat
  BY Joined
<1>2. /\ c \notin ToSet(a) <=> \A i \in 1 .. j : a[i] # c
      /\ c \notin ToSet(b) <=> \A i \in 1 .. k : b[i] # c
      /\ c \notin ToSet(x) <=> \A i \in 1 .. Len(x) : x[i] # c
  <2> HIDE DEF x
  <2> QED
    BY <1>1, ToSetIs
<1> HIDE DEF x, j, k
<1>3. ASSUME \A i \in 1 .. Len(x) : x[i] # c
      PROVE  (\A i \in 1 .. j : a[i] # c) /\ \A i \in 1 .. k : b[i] # c
  <2>1. ASSUME NEW i \in 1 .. j PROVE a[i] # c
    <3>1. i \in 1 .. Len(x) /\ x[i] = a[i]
      BY <1>1 DEF IsJoin
    <3> QED
      BY <1>3, <3>1
  <2>2. ASSUME NEW i \in 1 .. k PROVE b[i] # c
    <3> DEFINE m == j + i
    <3>1. m \in 1 .. Len(x) /\ x[m] = b[i]
      BY <1>1 DEF IsJoin
    <3> HIDE DEF m
    <3> QED
      BY <1>3, <3>1
  <2> QED
    BY <2>1, <2>2
<1>4. ASSUME \A i \in 1 .. j : a[i] # c, \A i \in 1 .. k : b[i] # c, NEW m \in 1 .. Len(x)
      PROVE  x[m] # c
  <2>1. Len(x) = j + k
    BY <1>1 DEF IsJoin
  <2>2. CASE m <= j
    <3>1. m \in 1 .. j
      BY <1>1, <2>1, <2>2
    <3> QED
      BY <1>1, <1>4, <3>1 DEF IsJoin
  <2>3. CASE ~(m <= j)
    <3> DEFINE i == m - j
    <3>1. i \in 1 .. k /\ j + i = m
      BY <1>1, <2>1, <2>3
    <3> HIDE DEF i
    <3>2. x[j + i] = b[i]
      BY <1>1, <3>1 DEF IsJoin
    <3> QED
      BY <1>4, <3>1, <3>2
  <2> QED
    BY <2>2, <2>3
<1>5. (\A i \in 1 .. Len(x) : x[i] # c) <=> (\A i \in 1 .. j : a[i] # c) /\ \A i \in 1 .. k : b[i] # c
  BY <1>3, <1>4
<1> QED
  BY <1>2, <1>5 DEF x

\* Headers as the parser stores them.
Headers == {h \in [name : Seq(Byte), value : Seq(Byte)] :
              HeaderFits(h.name, h.value) /\ LF \notin ToSet(h.name) /\ LF \notin ToSet(h.value)}

\* Method, path and query as the parser stores them.
StartFits(r) ==
  /\ r.method # <<>> /\ Len(r.method) < MAX_METHOD_LEN
  /\ Len(r.path) < MAX_PATH_LEN /\ Len(r.query) < MAX_PATH_LEN
  /\ "?" \notin ToSet(r.path)
  /\ \A s \in {r.method, r.path, r.query} : SP \notin ToSet(s) /\ LF \notin ToSet(s)

\* Requests as the parser fills them in.
Requests ==
  {r \in [method : Seq(Byte), path : Seq(Byte), query : Seq(Byte), version : Versions,
          headers : Seq(Headers)] :
     StartFits(r) /\ Len(r.headers) <= MAX_HEADERS}

\* Verdicts on a part of a head, and the states of the loop over the lines.
Verdicts == {PARSE_ERROR} \cup {PARSE_OK(r) : r \in Requests}

LoopStates == [cursor : Nat \ {0}, parsed : Verdicts]

\* A request line is refused, or the request is filled in within the limits.
LEMMA StartShape ==
  ASSUME NEW line \in Seq(Byte), LF \notin ToSet(line)
  PROVE  parse_request_line(line) \in Verdicts
<1> SUFFICES ASSUME parse_request_line(line) # PARSE_ERROR PROVE parse_request_line(line) \in Verdicts
  BY DEF Verdicts
<1>1. PICK method, target \in Seq(Byte), version \in Versions : StartParts(line, method, target, version)
  BY StartAccepted
<1> DEFINE path == PathOf(target)
           query == QueryOf(target)
           s == <<SP>>
           q == <<"?">>
           r == [method |-> method, path |-> path, query |-> query, version |-> version, headers |-> <<>>]
<1>2. /\ parse_request_line(line) = PARSE_OK(r)
      /\ Len(path) < MAX_PATH_LEN /\ Len(query) < MAX_PATH_LEN
  BY <1>1, StartParsed
<1>3. IsTarget(target, path, query) /\ path \in Seq(Byte) /\ query \in Seq(Byte)
  BY <1>2, TargetParts, TargetPartsType
<1> HIDE DEF path, query
<1>4. s \in Seq(Byte) /\ q \in Seq(Byte)
  BY Single, Symbols
<1>5. /\ method # <<>> /\ Len(method) < MAX_METHOD_LEN
      /\ SP \notin ToSet(method) /\ SP \notin ToSet(target)
  BY <1>1 DEF StartParts, IsCut
<1>6. LF \notin ToSet(method) /\ LF \notin ToSet(target)
  <2>1. PICK w \in Seq(Byte) : line = (method \o s) \o ((target \o s) \o w)
    BY <1>1 DEF StartParts, IsCut
  <2> HIDE DEF s
  <2> DEFINE a == method \o s
             b == target \o s
             d == b \o w
  <2>2. a \in Seq(Byte) /\ (LF \notin ToSet(a) => LF \notin ToSet(method))
    BY <1>4, NotInJoin, ConcatProperties
  <2>3. b \in Seq(Byte) /\ (LF \notin ToSet(b) => LF \notin ToSet(target))
    BY <1>4, NotInJoin, ConcatProperties
  <2>4. line = a \o d
    BY <2>1
  <2> HIDE DEF a, b
  <2>5. d \in Seq(Byte) /\ (LF \notin ToSet(d) => LF \notin ToSet(b))
    BY <2>3, NotInJoin, ConcatProperties
  <2> HIDE DEF d
  <2>6. LF \notin ToSet(a) /\ LF \notin ToSet(d)
    BY <2>2, <2>4, <2>5, NotInJoin
  <2> QED
    BY <2>2, <2>3, <2>5, <2>6
<1>7. \A c \in {SP, LF} : c \notin ToSet(path) /\ c \notin ToSet(query)
  <2> SUFFICES ASSUME NEW c \in {SP, LF} PROVE c \notin ToSet(path) /\ c \notin ToSet(query)
    OBVIOUS
  <2>1. c \notin ToSet(target)
    BY <1>5, <1>6
  <2>2. CASE target = path /\ query = <<>>
    <3>1. c \notin ToSet(<<>>)
      BY DEF ToSet
    <3> QED
      BY <2>1, <2>2, <3>1
  <2>3. CASE target = (path \o q) \o query
    <3> HIDE DEF q
    <3> DEFINE a == path \o q
    <3>1. a \in Seq(Byte) /\ (c \notin ToSet(a) => c \notin ToSet(path))
      BY <1>3, <1>4, NotInJoin, ConcatProperties
    <3>2. target = a \o query
      BY <2>3
    <3> HIDE DEF a
    <3>3. c \notin ToSet(a) /\ c \notin ToSet(query)
      BY <1>3, <2>1, <3>1, <3>2, NotInJoin
    <3> QED
      BY <3>1, <3>3
  <2> QED
    BY <1>3, <2>2, <2>3 DEF IsTarget
<1>8. "?" \notin ToSet(path)
  BY <1>3 DEF IsTarget
<1>9. StartFits(r)
  BY <1>2, <1>5, <1>6, <1>7, <1>8 DEF StartFits
<1>10. <<>> \in Seq(Headers) /\ Len(<<>>) <= MAX_HEADERS
  BY ParserAssumption
<1>11. r \in Requests
  BY <1>3, <1>9, <1>10 DEF Requests
<1> HIDE DEF r
<1> QED
  BY <1>2, <1>11 DEF Verdicts

\* A header line is refused, or there is one header more, within the limits.
LEMMA HeaderShape ==
  ASSUME NEW line \in Seq(Byte), LF \notin ToSet(line), NEW req \in Requests
  PROVE  parse_header_line(req, line) \in Verdicts
<1> SUFFICES ASSUME parse_header_line(req, line) # PARSE_ERROR PROVE parse_header_line(req, line) \in Verdicts
  BY DEF Verdicts
<1>1. PICK name, value \in Seq(Byte) : HeaderParts(line, name, value)
  BY HeaderAccepted
<1>2. Len(req.headers) < MAX_HEADERS
  BY HeaderAccepted
<1> DEFINE h == [name |-> name, value |-> value]
           hs == Append(req.headers, h)
           r == [req EXCEPT !.headers = hs]
<1>3. parse_header_line(req, line) = PARSE_OK(r)
  BY <1>1, <1>2, HeaderParsed
<1>4. PICK b, w \in Seq(Byte) : line = (name \o <<":">>) \o (b \o w) /\ value = StripCR(w)
  BY <1>1 DEF HeaderParts, IsCut
<1>5. LF \notin ToSet(name) /\ LF \notin ToSet(w)
  <2> DEFINE c == <<":">>
             x == name \o c
             y == b \o w
  <2>1. c \in Seq(Byte)
    BY Single, Symbols
  <2>2. line = x \o y
    BY <1>4
  <2> HIDE DEF c
  <2>3. x \in Seq(Byte) /\ (LF \notin ToSet(x) => LF \notin ToSet(name))
    BY <2>1, NotInJoin, ConcatProperties
  <2>4. y \in Seq(Byte) /\ (LF \notin ToSet(y) => LF \notin ToSet(w))
    BY NotInJoin, ConcatProperties
  <2> HIDE DEF x, y
  <2>5. LF \notin ToSet(x) /\ LF \notin ToSet(y)
    BY <2>2, <2>3, <2>4, NotInJoin
  <2> QED
    BY <2>3, <2>4, <2>5
<1>6. LF \notin ToSet(value)
  <2>1. CASE w = StripCR(w)
    BY <1>4, <1>5, <2>1
  <2>2. CASE w = StripCR(w) \o <<CR>>
    <3> DEFINE c == <<CR>>
    <3>1. c \in Seq(Byte)
      BY Single, Symbols
    <3>2. w = value \o c
      BY <1>4, <2>2
    <3> HIDE DEF c
    <3> QED
      BY <1>5, <3>1, <3>2, NotInJoin
  <2> QED
    BY <2>1, <2>2, StripShape
<1>7. HeaderFits(name, value)
  BY <1>1 DEF HeaderParts
<1>8. h \in Headers
  BY <1>5, <1>6, <1>7 DEF Headers
<1> HIDE DEF h
<1>9. req.headers \in Seq(Headers) /\ StartFits(req)
  BY DEF Requests
<1>10. hs \in Seq(Headers) /\ Len(hs) <= MAX_HEADERS
  <2>1. hs \in Seq(Headers) /\ Len(hs) = Len(req.headers) + 1
    BY <1>8, <1>9
  <2>2. Len(req.headers) \in Nat /\ MAX_HEADERS \in Nat
    BY <1>9, ParserAssumption
  <2> HIDE DEF hs
  <2> QED
    BY <1>2, <2>1, <2>2
<1> HIDE DEF hs
<1>11. r \in [method : Seq(Byte), path : Seq(Byte), query : Seq(Byte), version : Versions, headers : Seq(Headers)]
  BY <1>10 DEF Requests
<1>12. /\ r.method = req.method /\ r.path = req.path /\ r.query = req.query
       /\ r.headers = hs
  BY DEF Requests
<1> HIDE DEF r
<1>13. StartFits(r)
  BY <1>9, <1>12 DEF StartFits
<1>14. r \in Requests
  BY <1>10, <1>11, <1>12, <1>13 DEF Requests
<1> QED
  BY <1>3, <1>14 DEF Verdicts

\* A line has no line feed in it.
LEMMA LineAtShape ==
  ASSUME NEW head \in Seq(Byte), NEW i \in Nat \ {0}
  PROVE  LineAt(head, i) \in Seq(Byte) /\ LF \notin ToSet(LineAt(head, i))
<1> DEFINE h == Len(head)
           y == From(head, i)
           m == memchr(y, LF)
           line == LineAt(head, i)
<1>1. h \in Nat /\ line = SubSeq(head, i, i + m - 2)
  BY DEF LineAt
<1>2. CASE i > h
  <2>1. y = <<>>
    BY <1>2 DEF From
  <2>2. y \in Seq(Byte) /\ Len(y) = 0
    BY <2>1
  <2> HIDE DEF y
  <2>3. m \in 0 .. Len(y)
    BY <2>2, MemchrDef
  <2>4. m = 0
    BY <2>2, <2>3
  <2> HIDE DEF m
  <2>5. line = <<>>
    BY <1>1, <1>2, <2>4
  <2>6. ToSet(<<>>) = {}
    BY DEF ToSet
  <2> QED
    BY <2>5, <2>6
<1>3. CASE i <= h
  <2>1. i \in 1 .. h + 1
    BY <1>1, <1>3
  <2>2. y \in Seq(Byte) /\ Len(y) = h - i + 1 /\ \A k \in 1 .. h - i + 1 : y[k] = head[i + k - 1]
    BY <2>1, CutInTwo
  <2> HIDE DEF y
  <2>3. m \in 0 .. Len(y) /\ (m # 0 => \A k \in 1 .. m - 1 : y[k] # LF)
    BY <2>2, MemchrDef
  <2> HIDE DEF m
  <2>4. CASE m = 0
    <3>1. line = <<>>
      BY <1>1, <2>4
    <3>2. ToSet(<<>>) = {}
      BY DEF ToSet
    <3> QED
      BY <3>1, <3>2
  <2>5. CASE m # 0
    <3> DEFINE j == i + m - 2
    <3>1. j \in i - 1 .. h /\ j - i + 1 = m - 1 /\ i \in 1 .. h + 1 /\ m - 1 \in Nat
      BY <1>1, <1>3, <2>2, <2>3, <2>5
    <3> HIDE DEF j
    <3>2. line = SubSeq(head, i, j)
      BY <1>1 DEF j
    <3> HIDE DEF line
    <3>3. line \in Seq(Byte) /\ Len(line) = m - 1 /\ \A k \in 1 .. m - 1 : line[k] = head[i + k - 1]
      BY <3>1, <3>2, PieceShape
    <3>4. \A k \in 1 .. m - 1 : k \in 1 .. h - i + 1
      BY <1>1, <1>3, <2>2, <2>3, <2>5
    <3>5. \A k \in 1 .. Len(line) : line[k] # LF
      BY <2>2, <2>3, <2>5, <3>3, <3>4
    <3>6. LF \notin ToSet(line)
      BY <3>3, <3>5, ToSetIs
    <3> QED
      BY <3>3, <3>6 DEF line
  <2> QED
    BY <2>4, <2>5
<1> QED
  BY <1>1, <1>2, <1>3

\* A round of the loop leaves a state of the loop.
LEMMA RoundShape ==
  ASSUME NEW head \in Seq(Byte), NEW s \in LoopStates
  PROVE  HeaderRound(head, s) \in LoopStates
<1> DEFINE line == LineAt(head, s.cursor)
           p == IF Len(line) <= 1 THEN s.parsed ELSE parse_header_line(s.parsed.req, line)
           c == s.cursor + Len(line) + 1
           stay == s.parsed.result # "PARSE_OK" \/ s.cursor >= Len(head) - 1 \/ memchr(From(head, s.cursor), LF) = 0
<1>1. s.cursor \in Nat \ {0} /\ s.parsed \in Verdicts
  BY DEF LoopStates
<1>2. HeaderRound(head, s) = IF stay THEN s ELSE [cursor |-> c, parsed |-> p]
  BY DEF HeaderRound
<1>3. CASE stay
  BY <1>2, <1>3
<1>4. CASE ~stay
  <2>1. line \in Seq(Byte) /\ LF \notin ToSet(line)
    BY <1>1, LineAtShape
  <2>2. s.parsed # PARSE_ERROR
    BY <1>4 DEF PARSE_ERROR, Result
  <2>3. PICK r \in Requests : s.parsed = PARSE_OK(r)
    BY <1>1, <2>2 DEF Verdicts
  <2>4. s.parsed.req = r
    BY <2>3 DEF PARSE_OK, Result
  <2>5. parse_header_line(s.parsed.req, line) \in Verdicts
    BY <2>1, <2>4, HeaderShape
  <2> HIDE DEF line
  <2>6. p \in Verdicts
    BY <1>1, <2>5
  <2>7. c \in Nat \ {0}
    BY <1>1, <2>1
  <2> HIDE DEF p, c, stay
  <2> QED
    BY <1>2, <1>4, <2>6, <2>7 DEF LoopStates
<1> QED
  BY <1>3, <1>4

\* What the head's parser goes through, round by round.
IsRounds(head, after) ==
  /\ after \in [0 .. Len(head) -> LoopStates]
  /\ after[0] = [cursor |-> Len(LineAt(head, 1)) + 2, parsed |-> parse_request_line(LineAt(head, 1))]
  /\ \A k \in 1 .. Len(head) : after[k] = HeaderRound(head, after[k - 1])

\* There is such a function, and its last value is the verdict.
LEMMA ParseHeadDef ==
  ASSUME NEW head \in Seq(Byte)
  PROVE  \E after : /\ IsRounds(head, after)
                    /\ parse_head(head) = IF Len(LineAt(head, 1)) + 1 >= Len(head) THEN PARSE_ERROR
                                          ELSE after[Len(head)].parsed
<1> DEFINE N == Len(head)
           first == LineAt(head, 1)
           D == 0 .. N
           S == LoopStates
           stop == {0}
           start == [cursor |-> Len(first) + 2, parsed |-> parse_request_line(first)]
           base == [k \in D |-> start]
           prev == [k \in D |-> k - 1]
           step == [x \in D \X S |-> HeaderRound(head, x[2])]
           Eq(h) == [k \in D |-> IF k = 0 THEN start ELSE HeaderRound(head, h[k - 1])]
           f == CHOOSE h : h = Eq(h)
<1>1. N \in Nat /\ 0 \in D /\ N \in D /\ 1 \in Nat \ {0}
  OBVIOUS
<1>2. start \in S
  <2>1. first \in Seq(Byte) /\ LF \notin ToSet(first)
    BY <1>1, LineAtShape
  <2> HIDE DEF first
  <2>2. parse_request_line(first) \in Verdicts /\ Len(first) + 2 \in Nat \ {0}
    BY <2>1, StartShape
  <2> QED
    BY <2>2 DEF LoopStates
<1> HIDE DEF start
<1>3. \A s \in S : HeaderRound(head, s) \in S
  BY RoundShape
<1> HIDE DEF S
<1>4. IsRecursion(D, S, stop, base, prev, step)
  <2>1. base \in [D -> S] /\ D \subseteq Nat
    BY <1>2
  <2>2. step \in [D \X S -> S]
    BY <1>3
  <2>3. \A m \in D \ stop : prev[m] \in D /\ prev[m] < m
    BY <1>1
  <2> QED
    BY <2>1, <2>2, <2>3 DEF IsRecursion
<1>5. PICK g \in [D -> S] : \A m \in D : g[m] = Value(g, stop, base, prev, step, m)
  <2> HIDE DEF D, stop, base, prev, step
  <2> QED
    BY <1>4, Recursion
<1>6. ASSUME NEW m \in D
      PROVE  g[m] = IF m = 0 THEN start ELSE HeaderRound(head, g[m - 1])
  <2>1. CASE m = 0
    <3>1. m \in stop /\ base[m] = start
      BY <2>1
    <3>2. g[m] = Value(g, stop, base, prev, step, m)
      BY <1>5
    <3> HIDE DEF stop, base, prev, step
    <3>3. g[m] = start
      BY <3>1, <3>2 DEF Value
    <3> QED
      BY <2>1, <3>3
  <2>2. CASE m # 0
    <3>1. <<m, g[m - 1]>> \in D \X S
      <4>1. m - 1 \in D
        BY <1>1, <2>2
      <4>2. g[m - 1] \in S
        BY <4>1
      <4> QED
        BY <4>2
    <3>2. g[m] = step[<<m, g[m - 1]>>]
      BY <2>2, <1>5 DEF Value
    <3> QED
      BY <2>2, <3>1, <3>2
  <2> QED
    BY <2>1, <2>2
<1>7. g = Eq(g)
  BY <1>6
<1>8. f = Eq(f)
  <2> HIDE DEF Eq
  <2> QED
    BY <1>7
<1>9. parse_head(head) = IF Len(first) + 1 >= N THEN PARSE_ERROR ELSE f[N].parsed
  BY DEF parse_head, start
<1> HIDE DEF f
<1>10. f[0] = start /\ \A k \in 1 .. N : f[k] = HeaderRound(head, f[k - 1])
  <2>1. f[0] = start
    BY <1>1, <1>8
  <2>2. ASSUME NEW k \in 1 .. N PROVE f[k] = HeaderRound(head, f[k - 1])
    <3>1. k \in D /\ k # 0
      BY <1>1
    <3> QED
      BY <1>8, <3>1
  <2> QED
    BY <2>1, <2>2
<1>11. \A k \in D : f[k] \in S
  <2> DEFINE P == {k \in Nat : k \in D => f[k] \in S}
  <2>1. ASSUME NEW k \in Nat, \A m \in Nat : m < k => m \in P
        PROVE  k \in P
    <3>1. CASE k = 0
      BY <1>2, <1>10, <3>1
    <3>2. CASE k \in 1 .. N
      <4>1. k - 1 \in Nat /\ k - 1 < k /\ k - 1 \in D
        BY <1>1, <3>2
      <4>2. f[k - 1] \in S
        BY <2>1, <4>1
      <4> QED
        BY <1>3, <1>10, <3>2, <4>2
    <3> QED
      BY <1>1, <3>1, <3>2
  <2>2. Nat \subseteq P
    <3> HIDE DEF P
    <3> QED
      BY <2>1, Induction
  <2> QED
    BY <1>1, <2>2
<1>12. f \in [D -> S]
  BY <1>8, <1>11
<1>13. IsRounds(head, f)
  BY <1>10, <1>12 DEF IsRounds, start, S
<1> QED
  BY <1>9, <1>13

\* Whatever the bytes are, the head is refused or a request is filled in within
\* the limits: no part is too long, the method and the header names are not
\* empty, and no part has its delimiter or a line feed inside.
THEOREM HeadVerdict ==
  ASSUME NEW head \in Seq(Byte)
  PROVE  parse_head(head) \in Verdicts
<1>1. PICK after : /\ IsRounds(head, after)
                   /\ parse_head(head) = IF Len(LineAt(head, 1)) + 1 >= Len(head) THEN PARSE_ERROR
                                         ELSE after[Len(head)].parsed
  BY ParseHeadDef
<1>2. after[Len(head)] \in LoopStates
  <2>1. Len(head) \in 0 .. Len(head)
    OBVIOUS
  <2> QED
    BY <1>1, <2>1 DEF IsRounds
<1>3. after[Len(head)].parsed \in Verdicts
  BY <1>2 DEF LoopStates
<1> QED
  BY <1>1, <1>3 DEF Verdicts

-----------------------------------------------------------------------------
(* What the parser makes of the head of a message.                         *)

\* A line at p is what the parser finds there.
LEMMA LineThere ==
  ASSUME NEW x \in Seq(Byte), NEW line \in Seq(Byte), LF \notin ToSet(line), NEW p, Stands(x, p, line)
  PROVE  LineAt(x, p) = line /\ memchr(From(x, p), LF) = Len(line) + 1
<1> DEFINE h == Len(x)
           a == Len(line)
           y == From(x, p)
<1>1. /\ h \in Nat /\ a \in Nat /\ p \in Nat \ {0} /\ p + a <= h
      /\ \A i \in 1 .. a : x[p + i - 1] = line[i]
      /\ x[p + a] = LF
  BY DEF Stands
<1>2. \A i \in 1 .. a : line[i] # LF
  BY ToSetIs
<1>3. y \in Seq(Byte) /\ Len(y) = h - p + 1 /\ \A k \in 1 .. h - p + 1 : y[k] = x[p + k - 1]
  <2>1. p \in 1 .. h + 1
    BY <1>1
  <2> QED
    BY <2>1, CutInTwo
<1> HIDE DEF y, h, a
<1> DEFINE m == a + 1
<1>4. m \in 1 .. Len(y) /\ m - 1 = a /\ p + m - 1 = p + a /\ m \in 1 .. h - p + 1
  BY <1>1, <1>3
<1> HIDE DEF m
<1>5. y[m] = LF
  BY <1>1, <1>3, <1>4
<1>6. \A i \in 1 .. m - 1 : y[i] # LF
  <2> SUFFICES ASSUME NEW i \in 1 .. m - 1 PROVE y[i] # LF
    OBVIOUS
  <2>1. i \in 1 .. a /\ i \in 1 .. h - p + 1
    BY <1>1, <1>4
  <2> QED
    BY <1>1, <1>2, <1>3, <2>1
<1>7. memchr(y, LF) = m
  BY <1>3, <1>4, <1>5, <1>6, FirstIs
<1>8. LineAt(x, p) = SubSeq(x, p, p + m - 2)
  BY <1>7 DEF LineAt, y
<1> DEFINE j == p + m - 2
           z == SubSeq(x, p, j)
<1>9. j \in p - 1 .. h /\ j - p + 1 = a /\ p \in 1 .. h + 1
  BY <1>1, <1>4
<1> HIDE DEF j
<1>10. z \in Seq(Byte) /\ Len(z) = a /\ \A k \in 1 .. a : z[k] = x[p + k - 1]
  BY <1>9, PieceShape DEF h
<1> HIDE DEF z
<1>11. \A k \in 1 .. a : z[k] = line[k]
  BY <1>1, <1>10
<1>12. Len(line) = a
  BY DEF a
<1>13. z = line
  BY <1>10, <1>11, <1>12, SeqEqual
<1> QED
  BY <1>7, <1>8, <1>13 DEF y, z, j, m, a

\* The line of a text, with or without a CR.
LEMMA SentLine ==
  ASSUME NEW text \in Seq(Byte), LF \notin ToSet(text), NEW bare, bare /\ text # <<>> => Last(text) # CR,
         NEW line, line = IF bare THEN text ELSE Append(text, CR)
  PROVE  /\ LineOf(line, text) /\ line \in Seq(Byte) /\ LF \notin ToSet(line)
         /\ Len(line) >= Len(text)
         /\ ~bare => line # <<>> /\ Last(line) = CR
<1>1. CASE bare
  <2>1. Len(text) \in Nat
    OBVIOUS
  <2> QED
    BY <1>1, <2>1 DEF LineOf
<1>2. CASE ~bare
  <2> DEFINE c == <<CR>>
             x == text \o c
  <2>1. line = x
    BY <1>2, AppendIsConcat, Symbols
  <2>2. c \in Seq(Byte) /\ c # <<>> /\ Last(c) = CR /\ LF \notin ToSet(c) /\ Len(c) = 1
    <3>1. c \in Seq(Byte) /\ Len(c) = 1 /\ c[1] = CR
      BY Single, Symbols
    <3>2. c # <<>>
      OBVIOUS
    <3>3. Last(c) = CR
      BY <3>1 DEF Last
    <3> HIDE DEF c
    <3>4. \A i \in 1 .. Len(c) : c[i] # LF
      BY <3>1, Symbols
    <3>5. LF \notin ToSet(c)
      BY <3>1, <3>4, ToSetIs
    <3> QED
      BY <3>1, <3>2, <3>3, <3>5
  <2> HIDE DEF c
  <2>3. x \in Seq(Byte) /\ Len(x) = Len(text) + Len(c)
    BY <2>2, ConcatProperties
  <2>4. x # <<>> /\ Last(x) = CR
    BY <2>2, LastOfJoin
  <2>5. LF \notin ToSet(x)
    BY <2>2, NotInJoin
  <2>6. Len(text) \in Nat
    OBVIOUS
  <2>7. LineOf(line, text)
    BY <2>1, <2>3 DEF LineOf, c
  <2>8. Len(x) >= Len(text)
    BY <2>2, <2>3, <2>6
  <2> HIDE DEF x
  <2> QED
    BY <2>1, <2>3, <2>4, <2>5, <2>7, <2>8, Zenon
<1> QED
  BY <1>1, <1>2

\* The lines of a message are such lines, of its texts.
LEMMA SentLinesAre ==
  ASSUME NEW m, IsText(m), NEW K, K = Len(m.fields) + 1
  PROVE  /\ DOMAIN SentLines(m) = 1 .. K
         /\ IsLines(SentLines(m), K)
         /\ LineOf(SentLines(m)[1], m.start.text)
         /\ \A i \in 1 .. Len(m.fields) : LineOf(SentLines(m)[i + 1], m.fields[i].text)
<1> DEFINE N == Len(m.fields)
           fs == [i \in DOMAIN m.fields |-> m.fields[i].text]
           st == <<m.start.text>>
           texts == st \o fs
           bare(i) == m.bare /\ i < Len(texts)
           sent == [i \in DOMAIN texts |-> IF bare(i) THEN texts[i] ELSE Append(texts[i], CR)]
<1>1. N \in Nat /\ DOMAIN m.fields = 1 .. N /\ K = N + 1
  BY DEF IsText
<1>2. /\ m.start.text \in Seq(Byte) /\ LF \notin ToSet(m.start.text)
      /\ m.bare /\ m.start.text # <<>> => Last(m.start.text) # CR
  BY DEF IsText, IsStart
<1>3. \A i \in 1 .. N : /\ m.fields[i].text \in Seq(Byte) /\ LF \notin ToSet(m.fields[i].text)
                        /\ m.bare /\ m.fields[i].text # <<>> => Last(m.fields[i].text) # CR
                        /\ Len(m.fields[i].text) > 1
  BY <1>1 DEF IsText, IsField
<1>4. fs \in Seq(Seq(Byte)) /\ Len(fs) = N /\ \A i \in 1 .. N : fs[i] = m.fields[i].text
  BY <1>1, <1>3
<1>5. st \in Seq(Seq(Byte)) /\ Len(st) = 1 /\ st[1] = m.start.text
  BY <1>2
<1>6. SentLines(m) = sent
  BY DEF SentLines
<1> HIDE DEF fs, st
<1>7. texts \in Seq(Seq(Byte)) /\ IsJoin(texts, st, fs, 1, N)
  <2>1. st \in Seq(Seq(Byte))
    BY <1>5
  <2>2. fs \in Seq(Seq(Byte))
    BY <1>4
  <2>3. texts \in Seq(Seq(Byte)) /\ IsJoin(texts, st, fs, Len(st), Len(fs))
    BY <2>1, <2>2, Joined
  <2> QED
    BY <1>4, <1>5, <2>3
<1> HIDE DEF texts
<1>8. Len(texts) = K /\ DOMAIN texts = 1 .. K
  BY <1>1, <1>7 DEF IsJoin
<1>9. texts[1] = m.start.text /\ \A i \in 1 .. N : texts[1 + i] = m.fields[i].text
  <2>1. 1 \in 1 .. 1
    OBVIOUS
  <2> QED
    BY <1>4, <1>5, <1>7, <2>1 DEF IsJoin
<1>10. ASSUME NEW i \in 1 .. K
       PROVE  /\ texts[i] \in Seq(Byte) /\ LF \notin ToSet(texts[i])
              /\ m.bare /\ texts[i] # <<>> => Last(texts[i]) # CR
              /\ i # 1 => Len(texts[i]) > 1
  <2>1. CASE i = 1
    BY <1>2, <1>9, <2>1
  <2>2. CASE i # 1
    <3> DEFINE k == i - 1
    <3>1. k \in 1 .. N /\ 1 + k = i
      BY <1>1, <2>2
    <3> HIDE DEF k
    <3>2. texts[i] = m.fields[k].text
      BY <1>9, <3>1
    <3> QED
      BY <1>3, <3>1, <3>2
  <2> QED
    BY <2>1, <2>2
<1>11. ASSUME NEW i \in 1 .. K
       PROVE  /\ LineOf(sent[i], texts[i]) /\ sent[i] \in Seq(Byte) /\ LF \notin ToSet(sent[i])
              /\ Len(sent[i]) >= Len(texts[i])
              /\ i = K => sent[i] # <<>> /\ Last(sent[i]) = CR
  <2> DEFINE b == bare(i)
             line == sent[i]
             text == texts[i]
  <2>1. line = IF b THEN text ELSE Append(text, CR)
    BY <1>8
  <2>2. text \in Seq(Byte) /\ LF \notin ToSet(text) /\ (b /\ text # <<>> => Last(text) # CR)
    BY <1>10
  <2>3. i = K => ~b
    BY <1>1, <1>8
  <2> HIDE DEF b, line, text
  <2>4. /\ LineOf(line, text) /\ line \in Seq(Byte) /\ LF \notin ToSet(line)
        /\ Len(line) >= Len(text)
        /\ ~b => line # <<>> /\ Last(line) = CR
    BY <2>1, <2>2, SentLine
  <2> QED
    BY <2>3, <2>4 DEF line, text
<1>12. DOMAIN sent = 1 .. K
  BY <1>8
<1> HIDE DEF sent
<1>13. \A i \in 2 .. K : Len(sent[i]) > 1
  <2> SUFFICES ASSUME NEW i \in 2 .. K PROVE Len(sent[i]) > 1
    OBVIOUS
  <2>1. i \in 1 .. K /\ i # 1
    BY <1>1
  <2>2. Len(sent[i]) \in Nat /\ Len(texts[i]) \in Nat /\ Len(texts[i]) > 1 /\ Len(sent[i]) >= Len(texts[i])
    BY <1>10, <1>11, <2>1
  <2> QED
    BY <2>2
<1>14. K \in Nat \ {0} /\ K \in 1 .. K /\ 1 \in 1 .. K
  BY <1>1
<1>15. IsLines(sent, K)
  BY <1>11, <1>13, <1>14 DEF IsLines
<1>16. LineOf(sent[1], m.start.text)
  BY <1>9, <1>11, <1>14
<1>17. ASSUME NEW i \in 1 .. N PROVE LineOf(sent[i + 1], m.fields[i].text)
  <2> DEFINE k == i + 1
  <2>1. k \in 1 .. K /\ 1 + i = k
    BY <1>1
  <2> HIDE DEF k
  <2>2. LineOf(sent[k], m.fields[i].text)
    BY <1>9, <1>11, <2>1
  <2> QED
    BY <2>2 DEF k
<1> QED
  BY <1>6, <1>12, <1>15, <1>16, <1>17

\* The request line and the first k header lines are well formed.
Good(m, k) == m.start.ok /\ k <= MAX_HEADERS /\ \A i \in 1 .. k : m.fields[i].ok

\* The request with its first k headers.
Filled(m, k) ==
  [method |-> m.start.method, path |-> m.start.path, query |-> m.start.query,
   version |-> m.start.version,
   headers |-> [i \in 1 .. k |-> [name |-> m.fields[i].name, value |-> m.fields[i].value]]]

\* Behind k header lines the loop is in this state.
Reached(m, o, k, s) ==
  /\ s.parsed = IF Good(m, k) THEN PARSE_OK(Filled(m, k)) ELSE PARSE_ERROR
  /\ Good(m, k) => s.cursor = o[k + 1] + 1

\* One header more.
LEMMA FilledNext ==
  ASSUME NEW m, NEW k \in Nat
  PROVE  /\ Len(Filled(m, k).headers) = k
         /\ [Filled(m, k) EXCEPT !.headers =
               Append(@, [name |-> m.fields[k + 1].name, value |-> m.fields[k + 1].value])]
              = Filled(m, k + 1)
<1> DEFINE h(i) == [name |-> m.fields[i].name, value |-> m.fields[i].value]
           a == [i \in 1 .. k |-> h(i)]
           b == [i \in 1 .. k + 1 |-> h(i)]
<1>1. Append(a, h(k + 1)) = b /\ Len(a) = k
  <2> DEFINE W == {h(i) : i \in Nat}
  <2>1. a \in Seq(W) /\ h(k + 1) \in W /\ b \in Seq(W) /\ Len(b) = k + 1 /\ Len(a) = k
    BY SMT
  <2> HIDE DEF W
  <2> DEFINE c == Append(a, h(k + 1))
  <2>2. /\ c \in Seq(W) /\ Len(c) = Len(a) + 1
        /\ \A i \in 1 .. Len(a) : c[i] = a[i]
        /\ c[Len(a) + 1] = h(k + 1)
    BY <2>1, AppendProperties
  <2>3. /\ Len(c) = k + 1 /\ c[k + 1] = h(k + 1) /\ \A i \in 1 .. k : c[i] = h(i)
        /\ \A i \in 1 .. k + 1 : b[i] = h(i)
    BY <2>1, <2>2
  <2> HIDE DEF c, h, b
  <2>4. \A i \in 1 .. k + 1 : c[i] = b[i]
    <3>1. \A i \in 1 .. k + 1 : i \in 1 .. k \/ i = k + 1
      OBVIOUS
    <3> QED
      BY <2>3, <3>1
  <2>5. c = b
    BY <2>1, <2>2, <2>3, <2>4, SeqEqual
  <2> QED
    BY <2>1, <2>5 DEF c
<1>2. Filled(m, k).headers = a /\ Filled(m, k + 1).headers = b
  BY DEF Filled
<1>3. [Filled(m, k) EXCEPT !.headers = Append(@, h(k + 1))] = [Filled(m, k) EXCEPT !.headers = b]
  BY <1>1, <1>2
<1>4. [Filled(m, k) EXCEPT !.headers = b] = Filled(m, k + 1)
  <2> DEFINE F(hs) == [method |-> m.start.method, path |-> m.start.path, query |-> m.start.query,
                       version |-> m.start.version, headers |-> hs]
  <2>1. Filled(m, k) = F(a) /\ Filled(m, k + 1) = F(b)
    BY DEF Filled
  <2> HIDE DEF a, b
  <2>2. [F(a) EXCEPT !.headers = b] = F(b)
    OBVIOUS
  <2> QED
    BY <2>1, <2>2
<1> QED
  BY <1>1, <1>2, <1>3, <1>4

\* x is the head of m without the empty line.
HeadLines(m, x, o) ==
  /\ IsText(m)
  /\ Ends(SentLines(m), o, Len(m.fields) + 1)
  /\ LaidOut(x, SentLines(m), o, Len(m.fields) + 1)

\* Line k, where it is and where it ends.
LEMMA LineOfHead ==
  ASSUME NEW m, NEW x, NEW o, HeadLines(m, x, o), NEW k \in 1 .. Len(m.fields) + 1
  PROVE  /\ x \in Seq(Byte) /\ Len(x) = o[Len(m.fields) + 1] /\ Len(m.fields) \in Nat
         /\ o[0] = 0 /\ o[k - 1] \in Nat /\ o[k] \in Nat /\ o[k] <= Len(x)
         /\ SentLines(m)[k] \in Seq(Byte) /\ Len(SentLines(m)[k]) \in Nat
         /\ o[k] = o[k - 1] + Len(SentLines(m)[k]) + 1
         /\ LineAt(x, o[k - 1] + 1) = SentLines(m)[k]
         /\ memchr(From(x, o[k - 1] + 1), LF) # 0
         /\ k > 1 => Len(SentLines(m)[k]) > 1
<1> DEFINE K == Len(m.fields) + 1
           line == SentLines(m)[k]
           p == o[k - 1] + 1
<1>1. IsLines(SentLines(m), K) /\ Len(m.fields) \in Nat
  BY SentLinesAre DEF HeadLines, IsText
<1>2. K \in Nat \ {0} /\ k \in 1 .. K /\ k - 1 \in 0 .. K /\ k \in 0 .. K
  BY <1>1
<1>3. x \in Seq(Byte) /\ Len(x) = o[K] /\ Stands(x, p, line) /\ o[0] = 0
  BY <1>2 DEF HeadLines, LaidOut, Ends
<1>4. o[k - 1] \in Nat /\ o[k] \in Nat /\ o[k] = o[k - 1] + Len(line) + 1
  BY <1>2 DEF HeadLines, Ends
<1>5. line \in Seq(Byte) /\ LF \notin ToSet(line)
  BY <1>1, <1>2 DEF IsLines
<1>6. k > 1 => Len(line) > 1
  <2> HAVE k > 1
  <2>1. k \in 2 .. K
    BY <1>2
  <2> QED
    BY <1>1, <2>1 DEF IsLines
<1> HIDE DEF line, p
<1>7. LineAt(x, p) = line /\ memchr(From(x, p), LF) = Len(line) + 1
  BY <1>3, <1>5, LineThere
<1>8. Len(line) \in Nat /\ Len(line) + 1 # 0
  BY <1>5
<1>9. p + Len(line) <= Len(x)
  BY <1>3 DEF Stands
<1>10. o[k] <= Len(x)
  BY <1>4, <1>8, <1>9 DEF p
<1>11. memchr(From(x, p), LF) # 0
  BY <1>7, <1>8
<1> QED
  BY <1>1, <1>3, <1>4, <1>5, <1>6, <1>7, <1>8, <1>10, <1>11 DEF line, p

\* The loop starts behind the request line.
LEMMA FirstRound ==
  ASSUME NEW m, NEW x, NEW o, HeadLines(m, x, o), NEW after, IsRounds(x, after)
  PROVE  Reached(m, o, 0, after[0]) /\ LineAt(x, 1) = SentLines(m)[1]
<1> DEFINE line == SentLines(m)[1]
           K == Len(m.fields) + 1
<1>1. Len(m.fields) \in Nat
  BY DEF HeadLines, IsText
<1>2. 1 \in 1 .. K /\ 1 - 1 = 0 /\ 0 + 1 = 1
  BY <1>1
<1>3. o[0] = 0 /\ o[1] = o[0] + Len(line) + 1 /\ LineAt(x, o[0] + 1) = line /\ Len(line) \in Nat
  <2> DEFINE k == 1
  <2>1. k \in 1 .. Len(m.fields) + 1 /\ k - 1 = 0
    BY <1>2
  <2> HIDE DEF k
  <2>2. o[0] = 0 /\ o[k] = o[k - 1] + Len(SentLines(m)[k]) + 1 /\ LineAt(x, o[k - 1] + 1) = SentLines(m)[k]
        /\ Len(SentLines(m)[k]) \in Nat
    BY <2>1, LineOfHead
  <2> QED
    BY <2>1, <2>2 DEF k
<1>4. LineOf(line, m.start.text) /\ IsStart(m.start)
  BY SentLinesAre DEF HeadLines, IsText
<1> HIDE DEF line
<1>5. LineAt(x, 1) = line
  BY <1>2, <1>3
<1>6. after[0] = [cursor |-> Len(line) + 2, parsed |-> parse_request_line(line)]
  BY <1>5 DEF IsRounds
<1>7. parse_request_line(line) =
        IF m.start.ok THEN PARSE_OK([method |-> m.start.method, path |-> m.start.path, query |-> m.start.query,
                                     version |-> m.start.version, headers |-> <<>>])
        ELSE PARSE_ERROR
  BY <1>4, StartVerdict
<1>8. Filled(m, 0) = [method |-> m.start.method, path |-> m.start.path, query |-> m.start.query,
                      version |-> m.start.version, headers |-> <<>>]
  BY DEF Filled
<1>9. Good(m, 0) <=> m.start.ok
  BY ParserAssumption DEF Good
<1>10. after[0].parsed = IF Good(m, 0) THEN PARSE_OK(Filled(m, 0)) ELSE PARSE_ERROR
  <2>1. after[0].parsed = parse_request_line(line)
    BY <1>6
  <2> QED
    BY <1>7, <1>8, <1>9, <2>1, Zenon
<1>11. after[0].cursor = o[0 + 1] + 1
  BY <1>2, <1>3, <1>6
<1> QED
  BY <1>5, <1>10, <1>11 DEF Reached, line

\* A round takes the next header line, unless there was an error.
LEMMA NextRound ==
  ASSUME NEW m, NEW x, NEW o, HeadLines(m, x, o), NEW k \in Nat, k < Len(m.fields),
         NEW s, Reached(m, o, k, s)
  PROVE  Reached(m, o, k + 1, HeaderRound(x, s))
<1> DEFINE N == Len(m.fields)
           next == k + 1
           K == N + 1
           i == k + 2
           line == SentLines(m)[i]
           f == m.fields[next]
<1>1. N \in Nat /\ DOMAIN m.fields = 1 .. N
  BY DEF HeadLines, IsText
<1>2. next \in 1 .. N /\ i \in 1 .. K /\ i - 1 = next /\ next + 1 = i /\ i > 1 /\ next \in 1 .. K /\ next \in Nat
  BY <1>1
<1>3. /\ Len(x) \in Nat /\ o[i - 1] \in Nat /\ o[i] \in Nat /\ o[i] <= Len(x)
      /\ line \in Seq(Byte) /\ Len(line) \in Nat /\ Len(line) > 1
      /\ o[i] = o[i - 1] + Len(line) + 1
      /\ LineAt(x, o[i - 1] + 1) = line
      /\ memchr(From(x, o[i - 1] + 1), LF) # 0
  <2> HIDE DEF i
  <2>1. /\ x \in Seq(Byte) /\ o[i - 1] \in Nat /\ o[i] \in Nat /\ o[i] <= Len(x)
        /\ SentLines(m)[i] \in Seq(Byte) /\ Len(SentLines(m)[i]) \in Nat
        /\ o[i] = o[i - 1] + Len(SentLines(m)[i]) + 1
        /\ LineAt(x, o[i - 1] + 1) = SentLines(m)[i]
        /\ memchr(From(x, o[i - 1] + 1), LF) # 0
        /\ i > 1 => Len(SentLines(m)[i]) > 1
    BY <1>2, LineOfHead
  <2> QED
    BY <1>2, <2>1
<1>4. IsField(f) /\ LineOf(line, f.text)
  <2>1. IsField(f)
    BY <1>1, <1>2 DEF HeadLines, IsText
  <2>2. LineOf(SentLines(m)[next + 1], m.fields[next].text)
    <3> HIDE DEF next
    <3> QED
      BY <1>2, SentLinesAre DEF HeadLines
  <2> QED
    BY <1>2, <2>1, <2>2
<1>5. k \in Nat /\ k < N
  OBVIOUS
<1> HIDE DEF i, line, f
<1>6. CASE Good(m, k)
  <2> DEFINE c == o[next] + 1
             req == Filled(m, k)
  <2>1. s.parsed = PARSE_OK(req) /\ s.cursor = c
    BY <1>6 DEF Reached
  <2>2. s.parsed.result = "PARSE_OK" /\ s.parsed.req = req
    BY <2>1 DEF PARSE_OK, Result
  <2>3. o[i - 1] = o[next] /\ o[next] \in Nat
    BY <1>2, <1>3
  <2>4. LineAt(x, s.cursor) = line /\ memchr(From(x, s.cursor), LF) # 0
    BY <1>3, <2>1, <2>3
  <2>5. ~(s.cursor >= Len(x) - 1) /\ ~(Len(line) <= 1) /\ s.cursor + Len(line) + 1 = o[i] + 1
    <3> HIDE DEF next
    <3> QED
      BY <1>3, <2>1, <2>3
  <2>6. HeaderRound(x, s) = [cursor |-> s.cursor + Len(line) + 1, parsed |-> parse_header_line(req, line)]
    BY <2>2, <2>4, <2>5 DEF HeaderRound
  <2>7. Len(req.headers) = k /\
        [req EXCEPT !.headers = Append(@, [name |-> f.name, value |-> f.value])] = Filled(m, next)
    BY FilledNext DEF f
  <2> HIDE DEF req, c, next
  <2>8. parse_header_line(req, line) = IF f.ok /\ Len(req.headers) < MAX_HEADERS
                                       THEN PARSE_OK([req EXCEPT !.headers = Append(@, [name |-> f.name, value |-> f.value])])
                                       ELSE PARSE_ERROR
    BY <1>4, FieldVerdict
  <2>9. Good(m, next) <=> f.ok /\ k < MAX_HEADERS
    <3>1. next <= MAX_HEADERS <=> k < MAX_HEADERS
      BY <1>5, ParserAssumption DEF next
    <3>2. \A j \in 1 .. next : j \in 1 .. k \/ j = next
      BY <1>5 DEF next
    <3>3. next \in 1 .. next
      BY <1>2
    <3> QED
      BY <1>6, <3>1, <3>2, <3>3 DEF Good, f
  <2>10. parse_header_line(req, line) = IF Good(m, next) THEN PARSE_OK(Filled(m, next)) ELSE PARSE_ERROR
    BY <2>7, <2>8, <2>9, Zenon
  <2>11. HeaderRound(x, s).cursor = o[next + 1] + 1 /\ HeaderRound(x, s).parsed = parse_header_line(req, line)
    BY <1>2, <2>5, <2>6
  <2> QED
    BY <2>10, <2>11 DEF Reached, next
<1>7. CASE ~Good(m, k)
  <2>1. s.parsed = PARSE_ERROR
    BY <1>7 DEF Reached
  <2>2. s.parsed.result # "PARSE_OK"
    BY <2>1 DEF PARSE_ERROR, Result
  <2>3. HeaderRound(x, s) = s
    BY <2>2 DEF HeaderRound
  <2>4. ~Good(m, next)
    <3>1. next <= MAX_HEADERS => k <= MAX_HEADERS
      BY <1>5, ParserAssumption
    <3>2. \A j \in 1 .. k : j \in 1 .. next
      BY <1>5
    <3> HIDE DEF next
    <3> QED
      BY <1>7, <3>1, <3>2 DEF Good
  <2> HIDE DEF next
  <2> QED
    BY <2>1, <2>3, <2>4 DEF Reached, next
<1> QED
  BY <1>6, <1>7

\* Behind the last line the loop stands still.
LEMMA LastRound ==
  ASSUME NEW m, NEW x, NEW o, HeadLines(m, x, o), NEW s, Reached(m, o, Len(m.fields), s)
  PROVE  HeaderRound(x, s) = s
<1> DEFINE N == Len(m.fields)
           K == N + 1
<1>1. N \in Nat
  BY DEF HeadLines, IsText
<1>2. Len(x) \in Nat /\ Len(x) = o[K]
  <2>1. 1 \in 1 .. Len(m.fields) + 1
    BY <1>1
  <2> QED
    BY <2>1, LineOfHead
<1>3. CASE Good(m, N)
  <2>1. s.cursor = o[K] + 1
    BY <1>3 DEF Reached
  <2> HIDE DEF K
  <2>2. s.cursor >= Len(x) - 1
    BY <1>2, <2>1
  <2> QED
    BY <2>2 DEF HeaderRound
<1>4. CASE ~Good(m, N)
  <2>1. s.parsed = PARSE_ERROR
    BY <1>4 DEF Reached
  <2>2. s.parsed.result # "PARSE_OK"
    BY <2>1 DEF PARSE_ERROR, Result
  <2> QED
    BY <2>2 DEF HeaderRound
<1> QED
  BY <1>3, <1>4

\* There are fewer lines than bytes.
LEMMA FewerLines ==
  ASSUME NEW m, NEW x, NEW o, HeadLines(m, x, o)
  PROVE  Len(m.fields) + 1 <= Len(x)
<1> DEFINE K == Len(m.fields) + 1
           P == {k \in Nat : k \in 0 .. K => o[k] \in Nat /\ k <= o[k]}
<1>1. K \in Nat /\ K \in 0 .. K /\ 1 \in 1 .. K
  BY DEF HeadLines, IsText
<1>2. Len(x) = o[K] /\ o[0] = 0
  BY <1>1, LineOfHead
<1>3. ASSUME NEW k \in Nat, \A i \in Nat : i < k => i \in P
      PROVE  k \in P
  <2>1. CASE k = 0
    BY <1>2, <2>1
  <2>2. CASE k \in 1 .. K
    <3> DEFINE i == k - 1
    <3>1. i \in Nat /\ i < k /\ i \in 0 .. K /\ i + 1 = k
      BY <1>1, <2>2
    <3>2. o[i] \in Nat /\ i <= o[i]
      BY <1>3, <3>1
    <3>3. o[k] \in Nat /\ Len(SentLines(m)[k]) \in Nat /\ o[k] = o[i] + Len(SentLines(m)[k]) + 1
      BY <2>2, LineOfHead
    <3> HIDE DEF i
    <3> QED
      BY <3>1, <3>2, <3>3
  <2>3. CASE k \notin 0 .. K
    BY <2>3
  <2> QED
    BY <1>1, <2>1, <2>2, <2>3
<1>4. Nat \subseteq P
  <2> HIDE DEF P
  <2> QED
    BY <1>3, Induction
<1> QED
  BY <1>1, <1>2, <1>4

\* The head of a message is parsed as what the client meant, refused when that is
\* not well formed or there are no header lines.
THEOREM HeadOfMessage ==
  ASSUME NEW m, NEW x, NEW o, HeadLines(m, x, o)
  PROVE  parse_head(x) = IF Acceptable(m) THEN PARSE_OK(Filled(m, Len(m.fields))) ELSE PARSE_ERROR
<1> DEFINE N == Len(m.fields)
           H == Len(x)
           first == LineAt(x, 1)
<1>1. N \in Nat /\ DOMAIN m.fields = 1 .. N
  BY DEF HeadLines, IsText
<1>2. x \in Seq(Byte) /\ H \in Nat
  BY DEF HeadLines, LaidOut
<1>3. N + 1 <= H
  BY FewerLines
<1>4. PICK after : IsRounds(x, after) /\
                   parse_head(x) = IF Len(first) + 1 >= H THEN PARSE_ERROR ELSE after[H].parsed
  BY <1>2, ParseHeadDef
<1>5. first = SentLines(m)[1] /\ Reached(m, o, 0, after[0])
  BY <1>4, FirstRound
<1>6. /\ o[1] = Len(first) + 1 /\ H = o[N + 1] /\ Len(first) \in Nat
      /\ N > 0 => o[1] < H
  <2>1. 1 \in 1 .. N + 1 /\ (N > 0 => 2 \in 1 .. N + 1)
    BY <1>1
  <2> DEFINE k == 1
             l == 2
  <2>2. k \in 1 .. N + 1 /\ (N > 0 => l \in 1 .. N + 1) /\ k - 1 = 0 /\ l - 1 = 1
    BY <2>1
  <2> HIDE DEF k, l
  <2>3. o[0] = 0 /\ o[k] = o[k - 1] + Len(SentLines(m)[k]) + 1 /\ H = o[N + 1] /\ Len(SentLines(m)[k]) \in Nat
    BY <2>2, LineOfHead
  <2>4. N > 0 => o[l - 1] \in Nat /\ Len(SentLines(m)[l]) \in Nat /\ o[l] = o[l - 1] + Len(SentLines(m)[l]) + 1 /\ o[l] <= H
    BY <2>2, LineOfHead
  <2>5. o[1] = Len(first) + 1 /\ Len(first) \in Nat
    BY <1>5, <2>2, <2>3 DEF k
  <2>6. N > 0 => o[1] < H
    BY <1>2, <2>2, <2>4
  <2> QED
    BY <2>3, <2>5, <2>6
<1> HIDE DEF N, H, first
<1>7. CASE N = 0
  <2>1. parse_head(x) = PARSE_ERROR
    BY <1>2, <1>4, <1>6, <1>7
  <2>2. ~Acceptable(m)
    BY <1>7 DEF Acceptable, N
  <2> QED
    BY <2>1, <2>2
<1>8. CASE N # 0
  <2>1. parse_head(x) = after[H].parsed
    BY <1>1, <1>2, <1>4, <1>6, <1>8
  <2>2. ASSUME NEW k \in 1 .. H PROVE after[k] = HeaderRound(x, after[k - 1])
    BY <1>4 DEF IsRounds, H
  <2> DEFINE P == {k \in Nat : k \in 0 .. N => Reached(m, o, k, after[k])}
             Q == {k \in Nat : k \in N .. H => Reached(m, o, N, after[k])}
  <2>3. ASSUME NEW k \in Nat, \A i \in Nat : i < k => i \in P
        PROVE  k \in P
    <3>1. CASE k = 0
      BY <1>5, <3>1
    <3>2. CASE k \in 1 .. N
      <4> DEFINE i == k - 1
      <4>1. i \in Nat /\ i < k /\ i \in 0 .. N /\ i + 1 = k /\ i < N /\ k \in 1 .. H
        BY <1>1, <1>2, <1>3, <3>2
      <4>2. Reached(m, o, i, after[i])
        BY <2>3, <4>1
      <4>3. after[k] = HeaderRound(x, after[i])
        BY <2>2, <4>1
      <4> HIDE DEF i
      <4>4. Reached(m, o, i + 1, HeaderRound(x, after[i]))
        BY <4>1, <4>2, NextRound DEF N
      <4> QED
        BY <4>1, <4>3, <4>4
    <3>3. CASE k \notin 0 .. N
      BY <3>3
    <3> QED
      BY <1>1, <3>1, <3>2, <3>3
  <2>4. Nat \subseteq P
    <3> HIDE DEF P
    <3> QED
      BY <2>3, Induction
  <2>5. Reached(m, o, N, after[N])
    <3>1. N \in 0 .. N
      BY <1>1
    <3> QED
      BY <1>1, <2>4, <3>1
  <2>6. ASSUME NEW k \in Nat, \A i \in Nat : i < k => i \in Q
        PROVE  k \in Q
    <3>1. CASE k = N
      BY <2>5, <3>1
    <3>2. CASE k \in N .. H /\ k # N
      <4> DEFINE i == k - 1
      <4>1. i \in Nat /\ i < k /\ i \in N .. H /\ k \in 1 .. H
        BY <1>1, <1>2, <1>3, <3>2
      <4>2. Reached(m, o, N, after[i])
        BY <2>6, <4>1
      <4>3. after[k] = HeaderRound(x, after[i])
        BY <2>2, <4>1
      <4> HIDE DEF i
      <4>4. HeaderRound(x, after[i]) = after[i]
        BY <4>2, LastRound DEF N
      <4> QED
        BY <4>2, <4>3, <4>4
    <3>3. CASE k \notin N .. H
      BY <3>3
    <3> QED
      BY <3>1, <3>2, <3>3
  <2>7. Nat \subseteq Q
    <3> HIDE DEF Q
    <3> QED
      BY <2>6, Induction
  <2>8. Reached(m, o, N, after[H])
    <3>1. H \in N .. H
      BY <1>1, <1>2, <1>3
    <3> QED
      BY <1>2, <2>7, <3>1
  <2>9. Good(m, N) <=> Acceptable(m)
    <3>1. N > 0
      BY <1>1, <1>8
    <3> QED
      BY <1>1, <3>1 DEF Good, Acceptable, WellFormed, N
  <2> QED
    BY <2>1, <2>8, <2>9 DEF Reached, N
<1> QED
  BY <1>7, <1>8

-----------------------------------------------------------------------------
(* What the parser makes of a message.                                     *)

\* The lines of a message, one behind the other.
HeadText(m) == FlattenSeq([i \in DOMAIN SentLines(m) |-> Append(SentLines(m)[i], LF)])

\* They are laid out one behind the other, and the empty line is behind them.
LEMMA HeadLaidOut ==
  ASSUME NEW m, IsText(m)
  PROVE  /\ \E o : HeadLines(m, HeadText(m), o)
         /\ HeadText(m) \in Seq(Byte)
         /\ RenderHead(m) = HeadText(m) \o CRLF
<1> DEFINE K == Len(m.fields) + 1
<1>1. Len(m.fields) \in Nat
  BY DEF IsText
<1>2. DOMAIN SentLines(m) = 1 .. K /\ IsLines(SentLines(m), K)
  BY SentLinesAre
<1>3. K \in Nat \ {0} /\ \A i \in 1 .. K : SentLines(m)[i] \in Seq(Byte)
  BY <1>2 DEF IsLines
<1>4. \E o : Ends(SentLines(m), o, K) /\ LaidOut(HeadText(m), SentLines(m), o, K)
  <2> DEFINE lines == SentLines(m)
  <2>1. DOMAIN lines = 1 .. K /\ \A i \in 1 .. K : lines[i] \in Seq(Byte)
    BY <1>2, <1>3
  <2> HIDE DEF lines, K
  <2>2. \E o : /\ Ends(lines, o, K)
               /\ LaidOut(FlattenSeq([i \in DOMAIN lines |-> Append(lines[i], LF)]), lines, o, K)
    BY <1>3, <2>1, FlattenLaysOut
  <2> QED
    BY <2>2 DEF HeadText, lines
<1>5. PICK o : Ends(SentLines(m), o, K) /\ LaidOut(HeadText(m), SentLines(m), o, K)
  BY <1>4
<1>6. HeadLines(m, HeadText(m), o)
  BY <1>5 DEF HeadLines
<1>7. HeadText(m) \in Seq(Byte)
  BY <1>5 DEF LaidOut
<1>8. RenderHead(m) = HeadText(m) \o CRLF
  BY DEF RenderHead, HeadText
<1> QED
  BY <1>6, <1>7, <1>8

\* The empty line.
LEMMA EmptyLine == CRLF \in Seq(Byte) /\ Len(CRLF) = 2 /\ CRLF[1] = CR /\ CRLF[2] = LF
  BY Symbols DEF CRLF

\* b is in raw behind the first k bytes.
Carries(raw, k, b) == \A i \in 1 .. Len(b) : raw[k + i] = b[i]

\* A message is bytes, and with what comes next its bytes begin with its lines and
\* the empty line; the body is behind them.
LEMMA RenderShape ==
  ASSUME NEW m, IsText(m), NEW rest \in Seq(Byte), NEW raw, raw = Render(m) \o rest
  PROVE  /\ RenderHead(m) \in Seq(Byte) /\ Render(m) \in Seq(Byte)
         /\ Len(RenderHead(m)) = Len(HeadText(m)) + 2
         /\ Len(Render(m)) = Len(HeadText(m)) + 2 + Len(m.body)
         /\ Len(raw) = Len(HeadText(m)) + 2 + Len(m.body) + Len(rest)
         /\ Begins(raw, HeadText(m))
         /\ Carries(raw, Len(HeadText(m)) + 2, m.body)
<1> DEFINE x == HeadText(m)
           y == RenderHead(m)
           z == Render(m)
           b == m.body
           h == Len(x)
           c == Len(b)
           r == Len(rest)
<1>1. x \in Seq(Byte) /\ y = x \o CRLF
  BY HeadLaidOut
<1>2. b \in Seq(Byte) /\ z = y \o b
  BY DEF IsText, Render
<1> HIDE DEF x, y, z, b
<1>3. h \in Nat /\ c \in Nat /\ r \in Nat
  BY <1>1, <1>2
<1>4. y \in Seq(Byte) /\ IsJoin(y, x, CRLF, h, 2)
  <2>1. CRLF \in Seq(Byte) /\ Len(CRLF) = 2
    BY EmptyLine
  <2>2. x \o CRLF \in Seq(Byte) /\ IsJoin(x \o CRLF, x, CRLF, Len(x), Len(CRLF))
    BY <1>1, <2>1, Joined
  <2> QED
    BY <1>1, <2>1, <2>2
<1>5. z \in Seq(Byte) /\ IsJoin(z, y, b, h + 2, c)
  <2>1. y \o b \in Seq(Byte) /\ IsJoin(y \o b, y, b, Len(y), Len(b))
    BY <1>2, <1>4, Joined
  <2>2. Len(y) = h + 2
    BY <1>4 DEF IsJoin
  <2> QED
    BY <1>2, <2>1, <2>2
<1>6. raw \in Seq(Byte) /\ IsJoin(raw, z, rest, h + 2 + c, r)
  <2>1. z \o rest \in Seq(Byte) /\ IsJoin(z \o rest, z, rest, Len(z), Len(rest))
    BY <1>5, Joined
  <2>2. Len(z) = h + 2 + c
    BY <1>5 DEF IsJoin
  <2>3. raw = z \o rest
    BY DEF z
  <2> QED
    BY <2>1, <2>2, <2>3
<1> HIDE DEF h, c, r
<1>7. Len(y) = h + 2 /\ Len(z) = h + 2 + c /\ Len(raw) = h + 2 + c + r
  BY <1>4, <1>5, <1>6 DEF IsJoin
<1>8. ASSUME NEW i \in 1 .. h PROVE raw[i] = x[i]
  <2>1. i \in 1 .. h + 2 /\ i \in 1 .. h + 2 + c
    BY <1>3
  <2> QED
    BY <1>4, <1>5, <1>6, <2>1 DEF IsJoin
<1>9. ASSUME NEW i \in 1 .. 2 PROVE raw[h + i] = CRLF[i]
  <2> DEFINE k == h + i
  <2>1. k \in 1 .. h + 2 /\ k \in 1 .. h + 2 + c
    BY <1>3
  <2>2. y[k] = CRLF[i]
    BY <1>4 DEF IsJoin
  <2> HIDE DEF k
  <2>3. raw[k] = CRLF[i]
    BY <1>5, <1>6, <2>1, <2>2 DEF IsJoin
  <2> QED
    BY <2>3 DEF k
<1>10. ASSUME NEW i \in 1 .. c PROVE raw[h + 2 + i] = b[i]
  <2> DEFINE k == h + 2 + i
  <2>1. k \in 1 .. h + 2 + c
    BY <1>3
  <2>2. z[k] = b[i]
    BY <1>5 DEF IsJoin
  <2> HIDE DEF k
  <2>3. raw[k] = b[i]
    BY <1>6, <2>1, <2>2 DEF IsJoin
  <2> QED
    BY <2>3 DEF k
<1>11. raw[h + 1] = CR /\ raw[h + 2] = LF
  <2>1. 1 \in 1 .. 2 /\ 2 \in 1 .. 2
    OBVIOUS
  <2> QED
    BY <1>9, <2>1, EmptyLine
<1>12. Len(raw) >= h + 2
  BY <1>3, <1>7
<1>13. Begins(raw, x)
  BY <1>6, <1>8, <1>11, <1>12 DEF Begins, h
<1>14. Carries(raw, h + 2, b)
  BY <1>10 DEF Carries, c
<1> QED
  BY <1>4, <1>5, <1>7, <1>13, <1>14 DEF x, y, z, b, h, c, r

\* What the parser says of the first p bytes of raw, which begin with m.
Verdict(m, raw, p) ==
  LET H == Len(RenderHead(m))
      F == Filled(m, Len(m.fields))
      c == content_length(F)
  IN  IF p < H THEN PARSE_INCOMPLETE
      ELSE IF ~Acceptable(m) THEN PARSE_ERROR
      ELSE IF p < H + c THEN PARSE_INCOMPLETE
      ELSE PARSE_OK([request |-> F, keep_alive |-> keep_alive(F), content_length |-> c,
                     body |-> SubSeq(raw, H + 1, H + c)])

\* A message is parsed with the last byte of its head, and its body is what is behind.
LEMMA MessageParsed ==
  ASSUME NEW m, IsText(m), NEW rest \in Seq(Byte), NEW raw, raw = Render(m) \o rest,
         NEW p \in 0 .. Len(raw)
  PROVE  parse_http_request(UpTo(raw, p)) = Verdict(m, raw, p)
<1> DEFINE x == HeadText(m)
           h == Len(x)
           H == Len(RenderHead(m))
           F == Filled(m, Len(m.fields))
           c == content_length(F)
           s == UpTo(raw, p)
<1>1. Begins(raw, x) /\ H = h + 2
  BY RenderShape
<1>2. PICK o : HeadLines(m, x, o)
  BY HeadLaidOut
<1>3. parse_head(x) = IF Acceptable(m) THEN PARSE_OK(F) ELSE PARSE_ERROR
  BY <1>2, HeadOfMessage
<1>4. /\ p < h + 2 => header_end(s) = 0
      /\ ~(p < h + 2) => /\ header_end(s) = h - 1
                         /\ HeadOf(s) = x
                         /\ h \in Nat \ {0, 1}
  <2> DEFINE lines == SentLines(m)
             K == Len(m.fields) + 1
  <2>1. Ends(lines, o, K) /\ LaidOut(x, lines, o, K)
    BY <1>2 DEF HeadLines
  <2>2. IsLines(lines, K)
    BY SentLinesAre
  <2> HIDE DEF lines, K, x
  <2> QED
    BY <1>1, <2>1, <2>2, HeadFound
<1>5. raw \in Seq(Byte) /\ Len(raw) \in Nat /\ p \in Nat /\ p <= Len(raw) /\ h \in Nat
  <2>1. raw \in Seq(Byte)
    BY <1>1 DEF Begins
  <2>2. x \in Seq(Byte)
    BY HeadLaidOut
  <2> QED
    BY <2>1, <2>2
<1>6. c \in Nat
  BY ContentLengthType
<1> HIDE DEF x, h, H, F, c
<1>7. CASE p < H
  <2>1. header_end(s) = 0
    BY <1>1, <1>4, <1>7
  <2> QED
    BY <1>7, <2>1 DEF parse_http_request, Verdict, H
<1>8. CASE ~(p < H)
  <2>1. header_end(s) = h - 1 /\ HeadOf(s) = x /\ h \in Nat \ {0, 1}
    BY <1>1, <1>4, <1>8
  <2>2. header_end(s) # 0 /\ header_end(s) + 4 = H + 1
    BY <1>1, <2>1
  <2> DEFINE b == From(s, H + 1)
  <2>3. parse_http_request(s) = parse_body(parse_head(x), b)
    BY <2>1, <2>2 DEF parse_http_request
  <2>4. CASE ~Acceptable(m)
    <3>1. parse_head(x).result # "PARSE_OK" /\ parse_head(x) = PARSE_ERROR
      BY <1>3, <2>4 DEF PARSE_ERROR, Result
    <3>2. parse_http_request(s) = PARSE_ERROR
      BY <2>3, <3>1 DEF parse_body
    <3> QED
      BY <1>8, <2>4, <3>2 DEF Verdict, H
  <2>5. CASE Acceptable(m)
    <3>1. parse_head(x).result = "PARSE_OK" /\ parse_head(x).req = F
      BY <1>3, <2>5 DEF PARSE_OK, Result
    <3>2. H \in Nat /\ H + 1 \in 1 .. p + 1 /\ p \in 0 .. p
      BY <1>1, <1>5, <1>8
    <3>3. b = SubSeq(raw, H + 1, p)
      <4>1. Len(s) = p
        BY <1>5, UpToShape
      <4>2. b = SubSeq(s, H + 1, p)
        BY <4>1 DEF From
      <4> DEFINE i == H + 1
      <4>3. i \in 1 .. p + 1
        BY <3>2
      <4> HIDE DEF i
      <4>4. SubSeq(s, i, p) = SubSeq(raw, i, p)
        BY <1>5, <3>2, <4>3, MiddleSame
      <4> QED
        BY <4>2, <4>4 DEF i
    <3>4. /\ b \in Seq(Byte) /\ Len(b) = p - H
          /\ \A k \in 1 .. p - H : b[k] = raw[H + k]
      <4> DEFINE i == H + 1
      <4>1. i \in 1 .. Len(raw) + 1 /\ p \in i - 1 .. Len(raw) /\ p - i + 1 = p - H /\ i - 1 = H
        BY <1>5, <3>2
      <4>2. H \in Nat /\ \A k \in 1 .. p - H : i + k - 1 = H + k
        BY <3>2
      <4> HIDE DEF i
      <4>3. /\ SubSeq(raw, i, p) \in Seq(Byte) /\ Len(SubSeq(raw, i, p)) = p - i + 1
            /\ \A k \in 1 .. p - i + 1 : SubSeq(raw, i, p)[k] = raw[i + k - 1]
        BY <1>5, <4>1, PieceShape
      <4>4. b = SubSeq(raw, i, p)
        BY <3>3 DEF i
      <4> QED
        BY <4>1, <4>2, <4>3, <4>4
    <3> HIDE DEF b, s
    <3>5. Len(b) < c <=> p < H + c
      BY <1>5, <1>6, <3>2, <3>4
    <3>6. CASE p < H + c
      <4>1. parse_http_request(s) = PARSE_INCOMPLETE
        BY <2>3, <3>1, <3>5, <3>6 DEF parse_body, c
      <4> QED
        BY <1>8, <2>5, <3>6, <4>1 DEF Verdict, H, F, c, s
    <3>7. CASE ~(p < H + c)
      <4>1. parse_http_request(s) =
              PARSE_OK([request |-> F, keep_alive |-> keep_alive(F), content_length |-> c,
                        body |-> UpTo(b, c)])
        BY <2>3, <3>1, <3>5, <3>7 DEF parse_body, c
      <4>2. UpTo(b, c) = SubSeq(raw, H + 1, H + c)
        <5>1. c \in 0 .. Len(b) /\ c <= p - H
          BY <1>5, <1>6, <3>2, <3>4, <3>7
        <5>2. UpTo(b, c) \in Seq(Byte) /\ Len(UpTo(b, c)) = c /\ \A k \in 1 .. c : UpTo(b, c)[k] = b[k]
          BY <3>4, <5>1, UpToShape
        <5> DEFINE i == H + 1
                   j == H + c
        <5>3. i \in 1 .. Len(raw) + 1 /\ j \in i - 1 .. Len(raw) /\ j - i + 1 = c
          BY <1>5, <1>6, <3>2, <5>1
        <5>4. \A k \in 1 .. c : i + k - 1 = H + k /\ k \in 1 .. p - H
          BY <1>5, <1>6, <3>2, <5>1
        <5> HIDE DEF i, j
        <5>5. /\ SubSeq(raw, i, j) \in Seq(Byte) /\ Len(SubSeq(raw, i, j)) = c
              /\ \A k \in 1 .. c : SubSeq(raw, i, j)[k] = raw[i + k - 1]
          BY <1>5, <5>3, PieceShape
        <5>6. \A k \in 1 .. c : UpTo(b, c)[k] = SubSeq(raw, i, j)[k]
          <6> SUFFICES ASSUME NEW k \in 1 .. c PROVE UpTo(b, c)[k] = SubSeq(raw, i, j)[k]
            OBVIOUS
          <6>1. UpTo(b, c)[k] = b[k]
            BY <5>2
          <6>2. SubSeq(raw, i, j)[k] = raw[i + k - 1]
            BY <5>5
          <6>3. b[k] = raw[H + k] /\ i + k - 1 = H + k
            BY <3>4, <5>4
          <6> QED
            BY <6>1, <6>2, <6>3
        <5> DEFINE u == UpTo(b, c)
                   v == SubSeq(raw, i, j)
        <5>7. u \in Seq(Byte) /\ v \in Seq(Byte) /\ Len(u) = Len(v) /\ \A k \in 1 .. Len(u) : u[k] = v[k]
          BY <5>2, <5>5, <5>6
        <5> HIDE DEF u, v
        <5>8. u = v
          BY <5>7, SeqEqual
        <5> QED
          BY <5>8 DEF u, v, i, j
      <4> QED
        BY <1>8, <2>5, <3>7, <4>1, <4>2, Zenon DEF Verdict, H, F, c, s
    <3> QED
      BY <3>6, <3>7
  <2> QED
    BY <2>4, <2>5
<1> QED
  BY <1>7, <1>8

\* The body is taken as sent, if it is as long as announced.
LEMMA BodyAsSent ==
  ASSUME NEW m, IsText(m), NEW rest \in Seq(Byte), NEW raw, raw = Render(m) \o rest
  PROVE  SubSeq(raw, Len(RenderHead(m)) + 1, Len(RenderHead(m)) + Len(m.body)) = m.body
<1>0. Carries(raw, Len(HeadText(m)) + 2, m.body)
  BY RenderShape
<1> DEFINE h == Len(HeadText(m))
           H == Len(RenderHead(m))
           b == m.body
           c == Len(b)
           r == Len(rest)
<1>1. b \in Seq(Byte) /\ c \in Nat /\ r \in Nat
  BY DEF IsText
<1>2. /\ H = h + 2 /\ Len(raw) = h + 2 + c + r /\ Begins(raw, HeadText(m))
      /\ \A k \in 1 .. c : raw[h + 2 + k] = b[k]
  <2>1. H = h + 2 /\ Len(raw) = h + 2 + c + r /\ Begins(raw, HeadText(m))
    BY RenderShape
  <2>2. \A k \in 1 .. c : raw[h + 2 + k] = b[k]
    BY <1>0 DEF Carries
  <2> QED
    BY <2>1, <2>2
<1>3. raw \in Seq(Byte) /\ h \in Nat
  BY <1>2, HeadLaidOut DEF Begins
<1> HIDE DEF h, H, b, c, r
<1> DEFINE i == H + 1
           j == H + c
           v == SubSeq(raw, i, j)
<1>4. i \in 1 .. Len(raw) + 1 /\ j \in i - 1 .. Len(raw) /\ j - i + 1 = c /\ \A k \in 1 .. c : i + k - 1 = h + 2 + k
  BY <1>1, <1>2, <1>3
<1> HIDE DEF i, j
<1>5. v \in Seq(Byte) /\ Len(v) = c /\ \A k \in 1 .. c : v[k] = raw[i + k - 1]
  BY <1>3, <1>4, PieceShape
<1>6. \A k \in 1 .. c : v[k] = b[k]
  BY <1>2, <1>4, <1>5
<1> HIDE DEF v
<1>7. Len(b) = c
  BY DEF c
<1>8. v = b
  BY <1>1, <1>5, <1>6, <1>7, SeqEqual
<1> QED
  BY <1>8 DEF v, i, j, H, b, c

-----------------------------------------------------------------------------
(* What the two headers mean.                                              *)

\* The fields with a name.
IsNamed(J, m, name) == J = {i \in 1 .. Len(m.fields) : SameLower(m.fields[i].name, name)}

\* v is what the first field of J has as its value.
IsFound(v, J, m) == /\ J = {} => v = NULL
                    /\ J # {} => Min(J) \in J /\ v = m.fields[Min(J)].value /\ v # NULL

\* Looking a name up among the headers of a request finds the first field that has
\* it, and its value.
LEMMA LookedUp ==
  ASSUME NEW m, IsText(m), WellFormed(m), NEW name, NEW J, IsNamed(J, m, name)
  PROVE  IsFound(http_get_header(Filled(m, Len(m.fields)).headers, name), J, m)
<1> DEFINE N == Len(m.fields)
           hs == Filled(m, N).headers
           I == {i \in 1 .. Len(hs) : SameLower(hs[i].name, name)}
<1>1. N \in Nat /\ DOMAIN m.fields = 1 .. N
  BY DEF IsText
<1>2. Len(hs) = N
  BY <1>1, FilledNext
<1>3. \A i \in 1 .. N : hs[i].name = m.fields[i].name /\ hs[i].value = m.fields[i].value
  BY DEF Filled
<1> HIDE DEF hs
<1>4. I = J
  BY <1>2, <1>3 DEF IsNamed
<1>5. http_get_header(hs, name) = IF I # {} THEN (IF Min(I) = 0 THEN NULL ELSE hs[Min(I)].value) ELSE NULL
  BY DEF http_get_header, SelectInSeq
<1> HIDE DEF I
<1>6. CASE J = {}
  BY <1>4, <1>5, <1>6 DEF hs, IsFound
<1>7. CASE J # {}
  <2> DEFINE i == Min(J)
  <2>1. J \subseteq Nat /\ J \subseteq 1 .. N
    BY <1>1 DEF IsNamed
  <2>2. i \in J
    BY <1>7, <2>1, MinOfNat
  <2> HIDE DEF i
  <2>3. i \in 1 .. N /\ i # 0
    <3>1. i \in 1 .. N
      BY <2>1, <2>2
    <3> HIDE DEF N
    <3> QED
      BY <3>1
  <2>4. http_get_header(hs, name) = hs[i].value
    BY <1>4, <1>5, <1>7, <2>3 DEF i
  <2>5. m.fields[i].value \in Seq(Byte)
    BY <1>1, <2>3 DEF IsText, IsField, WellFormed
  <2>6. m.fields[i].value # NULL
    BY <2>5, ParserAssumption
  <2>7. hs[i].value = m.fields[i].value
    BY <1>3, <2>3
  <2> QED
    BY <1>7, <2>2, <2>4, <2>6, <2>7 DEF i, hs, IsFound
<1> QED
  BY <1>6, <1>7

\* The first field of a kind.
LEMMA FirstFieldIs ==
  ASSUME NEW m, NEW kind, NEW J, J = {i \in 1 .. Len(m.fields) : m.fields[i].kind = kind}
  PROVE  FirstField(m, kind) = IF J # {} THEN Min(J) ELSE 0
  BY DEF FirstField, SelectInSeq

\* The Content-Length is the one that is meant.
LEMMA LengthMeant ==
  ASSUME NEW m, IsMessage(m), WellFormed(m)
  PROVE  content_length(Filled(m, Len(m.fields))) = BodyLength(m)
<1> DEFINE name == <<"content-length">>
           kind == "Content-Length"
           J == {i \in 1 .. Len(m.fields) : SameLower(m.fields[i].name, name)}
           F == Filled(m, Len(m.fields))
           v == http_get_header(F.headers, name)
<1>1. IsText(m) /\ DOMAIN m.fields = 1 .. Len(m.fields) /\ Len(m.fields) \in Nat
  BY DEF IsMessage, IsText
<1>2. \A i \in 1 .. Len(m.fields) : /\ m.fields[i].kind = kind <=> SameLower(m.fields[i].name, name)
                                    /\ m.fields[i].kind = kind => m.fields[i].means = strtoul(m.fields[i].value)
  BY <1>1, Zenon DEF IsMessage, WellFormed
<1>3. content_length(F) = IF v = NULL THEN 0 ELSE strtoul(v)
  BY DEF content_length
<1>4. BodyLength(m) = IF FirstField(m, kind) = 0 THEN 0 ELSE m.fields[FirstField(m, kind)].means
  BY DEF BodyLength
<1> HIDE DEF name, kind
<1>5. J = {i \in 1 .. Len(m.fields) : m.fields[i].kind = kind}
  BY <1>2
<1>6. FirstField(m, kind) = IF J # {} THEN Min(J) ELSE 0
  BY <1>5, FirstFieldIs
<1>7. /\ J = {} => v = NULL
      /\ J # {} => Min(J) \in J /\ v = m.fields[Min(J)].value /\ v # NULL
  <2>1. IsNamed(J, m, name)
    BY DEF IsNamed
  <2> HIDE DEF J
  <2>2. IsFound(v, J, m)
    BY <1>1, <2>1, LookedUp
  <2> QED
    BY <2>2 DEF IsFound
<1>8. \A i \in J : i \in 1 .. Len(m.fields) /\ m.fields[i].kind = kind /\ i # 0
  BY <1>1, <1>5
<1> HIDE DEF J, v, F
<1>9. CASE J = {}
  BY <1>3, <1>4, <1>6, <1>7, <1>9 DEF F
<1>10. CASE J # {}
  <2> DEFINE i == Min(J)
  <2>1. i \in J
    BY <1>7, <1>10
  <2>2. m.fields[i].means = strtoul(m.fields[i].value)
    BY <1>2, <1>8, <2>1
  <2> QED
    BY <1>3, <1>4, <1>6, <1>7, <1>8, <1>10, <2>1, <2>2 DEF F
<1> QED
  BY <1>9, <1>10

\* The connection is kept when that is meant.
LEMMA PersistenceMeant ==
  ASSUME NEW m, IsMessage(m), WellFormed(m)
  PROVE  keep_alive(Filled(m, Len(m.fields))) = Persistent(m)
<1> DEFINE name == <<"connection">>
           kind == "Connection"
           same(w) == SameLower(w, <<"keep-alive">>)
           other == m.start.version = <<"HTTP/1.1">>
           J == {i \in 1 .. Len(m.fields) : SameLower(m.fields[i].name, name)}
           F == Filled(m, Len(m.fields))
           v == http_get_header(F.headers, name)
<1>1. IsText(m) /\ DOMAIN m.fields = 1 .. Len(m.fields) /\ Len(m.fields) \in Nat
  BY DEF IsMessage, IsText
<1>2. \A i \in 1 .. Len(m.fields) : /\ m.fields[i].kind = kind <=> SameLower(m.fields[i].name, name)
                                    /\ m.fields[i].kind = kind => m.fields[i].means = same(m.fields[i].value)
  BY <1>1, Zenon DEF IsMessage, WellFormed
<1>3. keep_alive(F) = IF v = NULL THEN other ELSE same(v)
  <2>1. F.version = m.start.version
    BY DEF Filled
  <2> QED
    BY <2>1 DEF keep_alive
<1>4. Persistent(m) = IF FirstField(m, kind) = 0 THEN other ELSE m.fields[FirstField(m, kind)].means
  BY DEF Persistent
<1> HIDE DEF name, kind, same, other
<1>5. J = {i \in 1 .. Len(m.fields) : m.fields[i].kind = kind}
  BY <1>2
<1>6. FirstField(m, kind) = IF J # {} THEN Min(J) ELSE 0
  BY <1>5, FirstFieldIs
<1>7. /\ J = {} => v = NULL
      /\ J # {} => Min(J) \in J /\ v = m.fields[Min(J)].value /\ v # NULL
  <2>1. IsNamed(J, m, name)
    BY DEF IsNamed
  <2> HIDE DEF J
  <2>2. IsFound(v, J, m)
    BY <1>1, <2>1, LookedUp
  <2> QED
    BY <2>2 DEF IsFound
<1>8. \A i \in J : i \in 1 .. Len(m.fields) /\ m.fields[i].kind = kind /\ i # 0
  BY <1>1, <1>5
<1> HIDE DEF J, v, F
<1>9. CASE J = {}
  BY <1>3, <1>4, <1>6, <1>7, <1>9 DEF F
<1>10. CASE J # {}
  <2> DEFINE i == Min(J)
  <2>1. i \in J
    BY <1>7, <1>10
  <2>2. m.fields[i].means = same(m.fields[i].value)
    BY <1>2, <1>8, <2>1
  <2> QED
    BY <1>3, <1>4, <1>6, <1>7, <1>8, <1>10, <2>1, <2>2 DEF F
<1> QED
  BY <1>9, <1>10

-----------------------------------------------------------------------------
(* The parser and the positions the connection loop sees.                  *)

\* Where the head of the first message ends in the bytes.
LEMMA MessageHead ==
  ASSUME NEW m, IsText(m), NEW rest \in Seq(Byte), NEW raw, raw = Render(m) \o rest,
         NEW p \in 0 .. Len(raw), p >= Len(RenderHead(m))
  PROVE  header_end(UpTo(raw, p)) + 3 = Len(RenderHead(m))
<1> DEFINE x == HeadText(m)
           lines == SentLines(m)
           K == Len(m.fields) + 1
           h == Len(x)
           H == Len(RenderHead(m))
<1>1. Begins(raw, x) /\ H = h + 2
  BY RenderShape
<1>2. PICK o : HeadLines(m, x, o)
  BY HeadLaidOut
<1>3. Ends(lines, o, K) /\ LaidOut(x, lines, o, K)
  BY <1>2 DEF HeadLines
<1>4. IsLines(lines, K)
  BY SentLinesAre
<1>5. h \in Nat /\ Len(raw) \in Nat
  BY <1>1, HeadLaidOut DEF Begins
<1>6. p \in Nat /\ ~(p < h + 2)
  BY <1>1, <1>5
<1> HIDE DEF lines, K, x, H
<1>7. header_end(UpTo(raw, p)) = h - 1
  BY <1>1, <1>3, <1>4, <1>6, HeadFound
<1> HIDE DEF h
<1>8. h - 1 + 3 = h + 2
  BY <1>5
<1> QED
  BY <1>1, <1>7, <1>8 DEF H

\* A head is longer than an empty line.
LEMMA HeadLength ==
  ASSUME NEW m, IsText(m)
  PROVE  Len(RenderHead(m)) \in Nat /\ Len(RenderHead(m)) >= 4
<1> DEFINE x == HeadText(m)
           lines == SentLines(m)
           K == Len(m.fields) + 1
           h == Len(x)
           H == Len(RenderHead(m))
           e == <<>>
           raw == Render(m) \o e
<1>1. e \in Seq(Byte)
  OBVIOUS
<1> HIDE DEF e
<1>2. raw = Render(m) \o e
  OBVIOUS
<1> HIDE DEF raw
<1>3. Begins(raw, x) /\ H = h + 2
  BY <1>1, <1>2, RenderShape
<1>4. PICK o : HeadLines(m, x, o)
  BY HeadLaidOut
<1>5. Ends(lines, o, K) /\ LaidOut(x, lines, o, K)
  BY <1>4 DEF HeadLines
<1>6. IsLines(lines, K)
  BY SentLinesAre
<1> HIDE DEF lines, K, x, H
<1>7. h \in Nat /\ h > 1
  BY <1>3, <1>5, <1>6, HeadSeparator
<1> HIDE DEF h
<1>8. H \in Nat /\ H >= 4
  BY <1>3, <1>7
<1> QED
  BY <1>8 DEF H

\* What a message says of its body's length is a number.
LEMMA BodyLengthType ==
  ASSUME NEW m, IsMessage(m)
  PROVE  BodyLength(m) \in Nat
<1> DEFINE kind == "Content-Length"
           J == {i \in 1 .. Len(m.fields) : m.fields[i].kind = kind}
<1>1. DOMAIN m.fields = 1 .. Len(m.fields) /\ Len(m.fields) \in Nat
  BY DEF IsMessage, IsText
<1>2. \A i \in 1 .. Len(m.fields) : m.fields[i].kind = kind => m.fields[i].means = strtoul(m.fields[i].value)
  BY <1>1, Zenon DEF IsMessage
<1>3. BodyLength(m) = IF FirstField(m, kind) = 0 THEN 0 ELSE m.fields[FirstField(m, kind)].means
  BY DEF BodyLength
<1> HIDE DEF kind
<1>4. FirstField(m, kind) = IF J # {} THEN Min(J) ELSE 0
  BY FirstFieldIs
<1>5. J \subseteq Nat /\ \A i \in J : i \in 1 .. Len(m.fields) /\ m.fields[i].kind = kind
  BY <1>1
<1> HIDE DEF J
<1>6. CASE J = {}
  BY <1>3, <1>4, <1>6
<1>7. CASE J # {}
  <2> DEFINE i == Min(J)
  <2>1. i \in J
    BY <1>5, <1>7, MinOfNat
  <2> HIDE DEF i
  <2>2. i \in 1 .. Len(m.fields) /\ m.fields[i].means = strtoul(m.fields[i].value)
    BY <1>2, <1>5, <2>1
  <2>3. i # 0
    BY <1>1, <2>2
  <2>4. BodyLength(m) = strtoul(m.fields[i].value)
    BY <1>3, <1>4, <1>7, <2>2, <2>3 DEF i
  <2>5. 0 .. SIZE_MAX \subseteq Nat
    BY ParserAssumption
  <2> QED
    BY <2>4, <2>5, StrtoulType
<1> QED
  BY <1>6, <1>7

\* The connection loop's view of the first of the two messages, and that the
\* second is behind it.
LEMMA StreamIs ==
  ASSUME NEW H, H = Len(RenderHead(msg)), NEW c, c = BodyLength(msg),
         NEW g, g = Len(RenderHead(Following))
  PROVE  /\ TheStream.n = 2
         /\ TheStream.head[1] = H /\ TheStream.head[2] = H + c + g
         /\ TheStream.end[0] = 0 /\ TheStream.end[1] = H + c
         /\ TheStream.ok[1] = Acceptable(msg)
         /\ TheStream.keep[1] = Persistent(msg)
<1>1. TheStream.n = 2
  BY DEF TheStream
<1>2. TheStream.head[1] = H /\ TheStream.head[2] = H + c + g
  BY DEF TheStream
<1>3. TheStream.end[0] = 0 /\ TheStream.end[1] = H + c
  BY DEF TheStream
<1>4. TheStream.ok[1] = Acceptable(msg)
  BY DEF TheStream
<1>5. TheStream.keep[1] = Persistent(msg)
  BY DEF TheStream
<1> QED
  BY <1>1, <1>2, <1>3, <1>4, <1>5

\* What the connection loop's parser says of positions.
LEMMA PositionsParsed ==
  ASSUME n \in Nat, NEW H \in Nat, H = Len(RenderHead(msg)), H >= 4,
         NEW c \in Nat, c = BodyLength(msg),
         NEW g \in Nat, g = Len(RenderHead(Following)), g >= 4,
         NEW window, window = [i \in 1 .. n |-> i]
  PROVE  /\ KA!parse_http_request(window) =
              IF n < H THEN "PARSE_INCOMPLETE"
              ELSE IF ~Acceptable(msg) THEN "PARSE_ERROR"
              ELSE IF n < H + c THEN "PARSE_INCOMPLETE"
              ELSE "PARSE_OK"
         /\ ~(n < H) => KA!http_request_consumed_bytes(window, 1) = H + c
<1>1. /\ TheStream.n = 2
      /\ TheStream.head[1] = H /\ TheStream.head[2] = H + c + g
      /\ TheStream.end[0] = 0 /\ TheStream.end[1] = H + c
      /\ TheStream.ok[1] = Acceptable(msg)
  BY StreamIs
<1>2. Len(window) = n /\ \A i \in 1 .. n : window[i] = i
  OBVIOUS
<1>3. KA!Requests = 1 .. 2
  BY <1>1 DEF KA!Requests
<1> DEFINE E == KA!HeaderEnds(window)
<1>4. E = {i \in 4 .. n : i = H \/ i = H + c + g}
  <2>1. E = {i \in 4 .. n : \E k \in 1 .. 2 : window[i] = TheStream.head[k] /\ window[i - 3] = window[i] - 3}
    BY <1>2, <1>3 DEF KA!HeaderEnds
  <2>2. ASSUME NEW i \in 4 .. n
        PROVE  window[i] = i /\ window[i - 3] = i - 3
    <3> DEFINE k == i - 3
    <3>1. k \in 1 .. n /\ i \in 1 .. n
      OBVIOUS
    <3> HIDE DEF k
    <3>2. window[k] = k
      BY <1>2, <3>1
    <3> QED
      BY <1>2, <3>1, <3>2 DEF k
  <2>3. ASSUME NEW i \in 4 .. n
        PROVE  (\E k \in 1 .. 2 : window[i] = TheStream.head[k] /\ window[i - 3] = window[i] - 3)
                 <=> i = H \/ i = H + c + g
    <3>1. \A k \in 1 .. 2 : k = 1 \/ k = 2
      OBVIOUS
    <3>2. 1 \in 1 .. 2 /\ 2 \in 1 .. 2
      OBVIOUS
    <3> QED
      BY <1>1, <2>2, <3>1, <3>2
  <2> HIDE DEF E
  <2> QED
    BY <2>1, <2>3
<1> HIDE DEF E
<1>5. CASE n < H
  <2>1. E = {}
    BY <1>4, <1>5
  <2> QED
    BY <1>5, <2>1 DEF KA!parse_http_request, E
<1>6. CASE ~(n < H)
  <2>1. H \in E /\ \A j \in E : H <= j
    BY <1>4, <1>6
  <2>2. E # {}
    BY <2>1
  <2>3. KA!BodyStart(window) = H
    <3>1. KA!BodyStart(window) = CHOOSE i \in E : \A j \in E : i <= j
      BY DEF KA!BodyStart, E
    <3>2. \A i \in E : i \in Nat
      BY <1>4
    <3>3. \A i \in E : (\A j \in E : i <= j) => i = H
      BY <2>1, <3>2
    <3> QED
      BY <2>1, <3>1, <3>3
  <2>4. window[H] = H
    BY <1>2, <1>6
  <2>5. KA!RequestIn(window) = 1
    <3>1. KA!RequestIn(window) = CHOOSE k \in 1 .. 2 : H = TheStream.head[k]
      BY <1>3, <2>3, <2>4 DEF KA!RequestIn
    <3>2. 1 \in 1 .. 2 /\ H = TheStream.head[1]
      BY <1>1
    <3>3. \A k \in 1 .. 2 : H = TheStream.head[k] => k = 1
      <4>1. \A k \in 1 .. 2 : k = 1 \/ k = 2
        OBVIOUS
      <4>2. H # H + c + g
        OBVIOUS
      <4> QED
        BY <1>1, <4>1, <4>2
    <3> QED
      BY <3>1, <3>2, <3>3
  <2>6. KA!content_length(1) = c
    <3>1. KA!content_length(1) = TheStream.end[1] - TheStream.head[1]
      BY DEF KA!content_length
    <3>2. H + c - H = c
      OBVIOUS
    <3> QED
      BY <1>1, <3>1, <3>2
  <2>7. window[1] = TheStream.end[1 - 1] + 1
    <3>1. 1 \in 1 .. n /\ 1 - 1 = 0
      BY <1>6
    <3> QED
      BY <1>1, <1>2, <3>1
  <2>8. KA!parse_http_request(window) =
          IF ~Acceptable(msg) THEN "PARSE_ERROR"
          ELSE IF n - H < c THEN "PARSE_INCOMPLETE" ELSE "PARSE_OK"
    <3>1. KA!parse_http_request(window) =
            IF ~TheStream.ok[1] \/ window[1] # TheStream.end[1 - 1] + 1 THEN "PARSE_ERROR"
            ELSE IF Len(window) - KA!BodyStart(window) < KA!content_length(1) THEN "PARSE_INCOMPLETE"
            ELSE "PARSE_OK"
      BY <2>2, <2>5 DEF KA!parse_http_request, E
    <3> QED
      BY <1>1, <1>2, <2>3, <2>6, <2>7, <3>1, Zenon
  <2>9. n - H < c <=> n < H + c
    OBVIOUS
  <2>10. KA!http_request_consumed_bytes(window, 1) = H + c
    BY <2>3, <2>6 DEF KA!http_request_consumed_bytes
  <2> QED
    BY <1>6, <2>8, <2>9, <2>10, Zenon
<1> QED
  BY <1>5, <1>6

-----------------------------------------------------------------------------
(* A request written out again.                                            *)

\* Only the texts of a message are sent.
LEMMA SameTexts ==
  ASSUME NEW a, NEW b, a.start.text = b.start.text, a.bare = b.bare, a.body = b.body,
         [i \in DOMAIN a.fields |-> a.fields[i].text] = [i \in DOMAIN b.fields |-> b.fields[i].text]
  PROVE  Render(a) = Render(b)
<1> DEFINE fs(m) == [i \in DOMAIN m.fields |-> m.fields[i].text]
           texts(m) == <<m.start.text>> \o fs(m)
           sent(t, bare) == [i \in DOMAIN t |-> IF bare /\ i < Len(t) THEN t[i] ELSE Append(t[i], CR)]
<1>1. fs(a) = fs(b)
  OBVIOUS
<1>2. ASSUME NEW m PROVE SentLines(m) = sent(texts(m), m.bare)
  BY DEF SentLines
<1> HIDE DEF fs
<1>3. texts(a) = texts(b)
  BY <1>1
<1> HIDE DEF texts, sent
<1>4. SentLines(a) = SentLines(b)
  BY <1>2, <1>3
<1>5. RenderHead(a) = RenderHead(b)
  BY <1>4 DEF RenderHead
<1> QED
  BY <1>5 DEF Render

\* The texts a request is written with.
TargetText(q) == IF q.query = <<>> THEN q.path ELSE q.path \o <<"?">> \o q.query
StartText(q) == q.method \o <<SP>> \o TargetText(q) \o <<SP>> \o q.version
HeaderLine(h) == h.name \o <<":">> \o <<SP>> \o h.value

\* The message that is, meaning included.
StartOf(q) ==
  [text |-> StartText(q), ok |-> TRUE, method |-> q.method, path |-> q.path, query |-> q.query,
   version |-> q.version]
FieldOf(h) == [text |-> HeaderLine(h), ok |-> TRUE, name |-> h.name, value |-> h.value]
MessageOf(q, body) ==
  [start |-> StartOf(q), fields |-> [i \in DOMAIN q.headers |-> FieldOf(q.headers[i])],
   bare |-> FALSE, body |-> body]

\* It is what is written.
LEMMA WrittenIs ==
  ASSUME NEW r
  PROVE  Written(r) = Render(MessageOf(r.request, r.body))
<1> DEFINE q == r.request
           a == [start |-> [text |-> StartText(q)],
                 fields |-> [i \in DOMAIN q.headers |-> [text |-> HeaderLine(q.headers[i])]],
                 bare |-> FALSE, body |-> r.body]
           b == MessageOf(q, r.body)
<1>1. Written(r) = Render(a)
  BY Zenon DEF Written, StartText, TargetText, HeaderLine
<1>2. a.start.text = b.start.text /\ a.bare = b.bare /\ a.body = b.body
  BY DEF MessageOf, StartOf
<1>3. /\ DOMAIN a.fields = DOMAIN q.headers /\ \A i \in DOMAIN q.headers : a.fields[i].text = HeaderLine(q.headers[i])
      /\ DOMAIN b.fields = DOMAIN q.headers /\ \A i \in DOMAIN q.headers : b.fields[i].text = HeaderLine(q.headers[i])
  BY DEF MessageOf, FieldOf
<1>4. [i \in DOMAIN a.fields |-> a.fields[i].text] = [i \in DOMAIN b.fields |-> b.fields[i].text]
  <2> HIDE DEF a, b
  <2> QED
    BY <1>3
<1> HIDE DEF a, b
<1>5. Render(a) = Render(b)
  BY <1>2, <1>4, SameTexts
<1> QED
  BY <1>1, <1>5 DEF b

\* A target is written as it is parsed.
LEMMA TargetWritten ==
  ASSUME NEW q \in Requests
  PROVE  /\ TargetText(q) \in Seq(Byte)
         /\ TargetText(q) \in {q.path, q.path \o <<"?">> \o q.query}
         /\ IsTarget(TargetText(q), q.path, q.query)
         /\ SP \notin ToSet(TargetText(q)) /\ LF \notin ToSet(TargetText(q))
<1> DEFINE s == <<"?">>
           a == q.path \o s
           t == a \o q.query
<1>1. /\ q.path \in Seq(Byte) /\ q.query \in Seq(Byte)
      /\ Len(q.path) < MAX_PATH_LEN /\ Len(q.query) < MAX_PATH_LEN
      /\ "?" \notin ToSet(q.path)
      /\ SP \notin ToSet(q.path) /\ LF \notin ToSet(q.path)
      /\ SP \notin ToSet(q.query) /\ LF \notin ToSet(q.query)
  BY DEF Requests, StartFits
<1>2. TargetText(q) = IF q.query = <<>> THEN q.path ELSE t
  BY DEF TargetText
<1>3. CASE q.query = <<>>
  <2>1. IsTarget(q.path, q.path, q.query)
    BY <1>1, <1>3 DEF IsTarget
  <2> QED
    BY <1>1, <1>2, <1>3, <2>1
<1>4. CASE q.query # <<>>
  <2>1. s \in Seq(Byte) /\ Len(s) = 1 /\ s[1] = "?"
    BY Single, Symbols
  <2>2. IsTarget(t, q.path, q.query)
    BY <1>1 DEF IsTarget
  <2>3. "?" # SP /\ "?" # LF
    BY DEF SP, LF
  <2> HIDE DEF s
  <2>4. \A i \in 1 .. Len(s) : s[i] # SP /\ s[i] # LF
    BY <2>1, <2>3
  <2>5. SP \notin ToSet(s) /\ LF \notin ToSet(s)
    BY <2>1, <2>4, ToSetIs
  <2>6. a \in Seq(Byte) /\ SP \notin ToSet(a) /\ LF \notin ToSet(a)
    BY <1>1, <2>1, <2>5, NotInJoin, ConcatProperties
  <2> HIDE DEF a
  <2>7. t \in Seq(Byte) /\ SP \notin ToSet(t) /\ LF \notin ToSet(t)
    BY <1>1, <2>6, NotInJoin, ConcatProperties
  <2>8. TargetText(q) = t
    BY <1>2, <1>4
  <2> QED
    BY <2>2, <2>7, <2>8 DEF a, s
<1> QED
  BY <1>3, <1>4

\* So is a request line.
LEMMA StartWritten ==
  ASSUME NEW q \in Requests
  PROVE  IsStart(StartOf(q)) /\ LF \notin ToSet(StartText(q))
<1> DEFINE s == <<SP>>
           t == TargetText(q)
           a == q.method \o s
           b == a \o t
           c == b \o s
           x == c \o q.version
<1>1. /\ q.method \in Seq(Byte) /\ q.path \in Seq(Byte) /\ q.query \in Seq(Byte)
      /\ q.version \in Versions
      /\ q.method # <<>> /\ Len(q.method) < MAX_METHOD_LEN
      /\ SP \notin ToSet(q.method) /\ LF \notin ToSet(q.method)
  BY DEF Requests, StartFits
<1>2. /\ t \in Seq(Byte)
      /\ t \in {q.path, q.path \o <<"?">> \o q.query}
      /\ IsTarget(t, q.path, q.query)
      /\ SP \notin ToSet(t) /\ LF \notin ToSet(t)
  BY TargetWritten
<1>3. s \in Seq(Byte) /\ Len(s) = 1 /\ s[1] = SP
  BY Single, Symbols
<1>4. StartText(q) = x
  BY DEF StartText
<1>5. LF \notin ToSet(q.version) /\ q.version \in Seq(Byte)
  <2>1. q.version \in Seq(Byte)
    BY <1>1, VersionType
  <2>2. CASE q.version = <<"HTTP/1.0">>
    <3> DEFINE v == "HTTP/1.0"
    <3>1. v \in Byte /\ v # LF
      BY ParserAssumption DEF LF
    <3>2. q.version = <<v>>
      BY <2>2
    <3> HIDE DEF v
    <3>3. Len(<<v>>) = 1 /\ <<v>>[1] = v
      BY <3>1, Single
    <3>4. \A i \in 1 .. Len(q.version) : q.version[i] # LF
      BY <3>1, <3>2, <3>3
    <3> QED
      BY <2>1, <3>4, ToSetIs
  <2>3. CASE q.version = <<"HTTP/1.1">>
    <3> DEFINE v == "HTTP/1.1"
    <3>1. v \in Byte /\ v # LF
      BY ParserAssumption DEF LF
    <3>2. q.version = <<v>>
      BY <2>3
    <3> HIDE DEF v
    <3>3. Len(<<v>>) = 1 /\ <<v>>[1] = v
      BY <3>1, Single
    <3>4. \A i \in 1 .. Len(q.version) : q.version[i] # LF
      BY <3>1, <3>2, <3>3
    <3> QED
      BY <2>1, <3>4, ToSetIs
  <2> QED
    BY <1>1, <2>1, <2>2, <2>3 DEF Versions
<1>6. LF \notin ToSet(s)
  <2> HIDE DEF s
  <2>1. \A i \in 1 .. Len(s) : s[i] # LF
    BY <1>3, Symbols
  <2> QED
    BY <1>3, <2>1, ToSetIs
<1>7. IsRequestLine(x, q.method, t, q.version)
  BY <1>1, <1>2 DEF IsRequestLine, Versions
<1> HIDE DEF s, t
<1>8. a \in Seq(Byte) /\ LF \notin ToSet(a)
  BY <1>1, <1>3, <1>6, NotInJoin, ConcatProperties
<1> HIDE DEF a
<1>9. b \in Seq(Byte) /\ LF \notin ToSet(b)
  BY <1>2, <1>8, NotInJoin, ConcatProperties
<1> HIDE DEF b
<1>10. c \in Seq(Byte) /\ LF \notin ToSet(c)
  BY <1>3, <1>6, <1>9, NotInJoin, ConcatProperties
<1> HIDE DEF c
<1>11. x \in Seq(Byte) /\ LF \notin ToSet(x)
  BY <1>5, <1>10, NotInJoin, ConcatProperties
<1> HIDE DEF x
<1>12. /\ StartOf(q).text = x /\ StartOf(q).ok = TRUE /\ StartOf(q).method = q.method
       /\ StartOf(q).path = q.path /\ StartOf(q).query = q.query /\ StartOf(q).version = q.version
  BY <1>4 DEF StartOf
<1>13. IsStart(StartOf(q))
  <2>1. {q.method, q.path, q.query, q.version} \subseteq Seq(Byte)
    BY <1>1, <1>5
  <2> QED
    BY <1>2, <1>7, <1>11, <1>12, <2>1, Zenon DEF IsStart
<1> QED
  BY <1>4, <1>11, <1>13

\* And a header line.
LEMMA FieldWritten ==
  ASSUME NEW h \in Headers
  PROVE  IsField(FieldOf(h)) /\ LF \notin ToSet(HeaderLine(h)) /\ Len(HeaderLine(h)) > 1
<1> DEFINE s == <<SP>>
           e == <<":">>
           a == h.name \o e
           b == a \o s
           x == b \o h.value
<1>1. /\ h.name \in Seq(Byte) /\ h.value \in Seq(Byte) /\ HeaderFits(h.name, h.value)
      /\ LF \notin ToSet(h.name) /\ LF \notin ToSet(h.value)
  BY DEF Headers
<1>2. s \in Seq(Byte) /\ Len(s) = 1 /\ s[1] = SP
  BY Single, Symbols
<1>3. e \in Seq(Byte) /\ Len(e) = 1 /\ e[1] = ":"
  BY Single, Symbols
<1>4. HeaderLine(h) = x
  BY DEF HeaderLine
<1>5. LF \notin ToSet(s) /\ ToSet(s) \subseteq Blanks
  <2> HIDE DEF s
  <2>1. \A i \in 1 .. Len(s) : s[i] # LF /\ s[i] = SP
    BY <1>2, Symbols
  <2>2. LF \notin ToSet(s)
    BY <1>2, <2>1, ToSetIs
  <2>3. \A c : c # SP => c \notin ToSet(s)
    <3> SUFFICES ASSUME NEW c, c # SP PROVE c \notin ToSet(s)
      OBVIOUS
    <3>1. \A i \in 1 .. Len(s) : s[i] # c
      BY <2>1
    <3> QED
      BY <1>2, <3>1, ToSetIs
  <2> QED
    BY <2>2, <2>3 DEF Blanks
<1>6. LF \notin ToSet(e)
  <2>1. LF # ":"
    BY DEF LF
  <2> HIDE DEF e
  <2>2. \A i \in 1 .. Len(e) : e[i] # LF
    BY <1>3, <2>1
  <2> QED
    BY <1>3, <2>2, ToSetIs
<1>7. HeaderText(x, h.name, h.value)
  BY <1>2, <1>5, Zenon DEF HeaderText
<1> HIDE DEF s, e
<1>8. a \in Seq(Byte) /\ LF \notin ToSet(a) /\ Len(a) = Len(h.name) + 1
  <2>1. h.name \in Seq(Byte) /\ LF \notin ToSet(h.name)
    BY <1>1
  <2>2. a \in Seq(Byte) /\ Len(a) = Len(h.name) + Len(e)
    BY <1>3, <2>1, ConcatProperties
  <2>3. LF \notin ToSet(a)
    BY <1>3, <1>6, <2>1, NotInJoin
  <2> QED
    BY <1>3, <2>2, <2>3
<1>9. Len(h.name) \in Nat /\ Len(h.name) # 0
  BY <1>1 DEF HeaderFits
<1> HIDE DEF a
<1>10. b \in Seq(Byte) /\ LF \notin ToSet(b) /\ Len(b) = Len(a) + 1
  <2>1. a \in Seq(Byte) /\ LF \notin ToSet(a)
    BY <1>8
  <2>2. b \in Seq(Byte) /\ Len(b) = Len(a) + Len(s)
    BY <1>2, <2>1, ConcatProperties
  <2>3. LF \notin ToSet(b)
    BY <1>2, <1>5, <2>1, NotInJoin
  <2> QED
    BY <1>2, <2>2, <2>3
<1> HIDE DEF b
<1>11. x \in Seq(Byte) /\ LF \notin ToSet(x) /\ Len(x) = Len(b) + Len(h.value)
  BY <1>1, <1>10, NotInJoin, ConcatProperties
<1> HIDE DEF x
<1>12. Len(x) > 1
  <2>1. Len(h.value) \in Nat
    BY <1>1
  <2>2. Len(a) \in Nat /\ Len(a) > 1
    BY <1>8, <1>9
  <2>3. Len(b) \in Nat /\ Len(b) > 2
    BY <1>10, <2>2
  <2> QED
    BY <1>11, <2>1, <2>3
<1>13. IsHeaderLine(x, h.name, h.value)
  BY <1>1, <1>7, <1>11, HeaderGrammar
<1>14. FieldOf(h).text = x /\ FieldOf(h).ok = TRUE /\ FieldOf(h).name = h.name /\ FieldOf(h).value = h.value
  BY <1>4 DEF FieldOf
<1>15. IsField(FieldOf(h))
  BY <1>1, <1>11, <1>13, <1>14 DEF IsField
<1> QED
  BY <1>4, <1>11, <1>12, <1>15

\* A request written out is a message that is parsed as the request.
LEMMA RequestWritten ==
  ASSUME NEW q \in Requests, q.headers # <<>>, NEW body \in Seq(Byte),
         NEW m, m = MessageOf(q, body)
  PROVE  /\ IsText(m) /\ Acceptable(m)
         /\ Filled(m, Len(m.fields)) = q
         /\ m.body = body
<1> DEFINE N == Len(q.headers)
<1>1. /\ q.headers \in Seq(Headers) /\ N \in Nat /\ DOMAIN q.headers = 1 .. N /\ N <= MAX_HEADERS
      /\ \A i \in 1 .. N : q.headers[i] \in Headers
  BY DEF Requests
<1>2. N # 0
  BY <1>1
<1>3. m.start = StartOf(q) /\ m.bare = FALSE /\ m.body = body
  BY DEF MessageOf
<1>4. DOMAIN m.fields = 1 .. N /\ \A i \in 1 .. N : m.fields[i] = FieldOf(q.headers[i])
  BY <1>1 DEF MessageOf
<1>5. Len(m.fields) = N
  <2>1. m.fields = [i \in 1 .. N |-> FieldOf(q.headers[i])]
    BY <1>1 DEF MessageOf
  <2> HIDE DEF N
  <2> QED
    BY <1>1, <2>1
<1>6. IsStart(m.start) /\ m.start.text = StartText(q) /\ LF \notin ToSet(m.start.text)
  BY <1>3, StartWritten DEF StartOf
<1>7. \A i \in 1 .. N : /\ IsField(m.fields[i]) /\ Len(m.fields[i].text) > 1
                        /\ LF \notin ToSet(m.fields[i].text)
  <2> SUFFICES ASSUME NEW i \in 1 .. N
               PROVE  /\ IsField(m.fields[i]) /\ Len(m.fields[i].text) > 1
                      /\ LF \notin ToSet(m.fields[i].text)
    OBVIOUS
  <2>1. m.fields[i] = FieldOf(q.headers[i]) /\ q.headers[i] \in Headers
    BY <1>1, <1>4
  <2>2. m.fields[i].text = HeaderLine(q.headers[i])
    BY <2>1 DEF FieldOf
  <2> QED
    BY <2>1, <2>2, FieldWritten
<1>8. IsText(m)
  <2>1. \A text \in {m.start.text} \cup {m.fields[i].text : i \in DOMAIN m.fields} :
          LF \notin ToSet(text) /\ (m.bare /\ text # <<>> => Last(text) # CR)
    BY <1>3, <1>4, <1>6, <1>7
  <2> QED
    BY <1>1, <1>3, <1>4, <1>5, <1>6, <1>7, <2>1 DEF IsText
<1>9. Acceptable(m)
  <2>1. m.start.ok = TRUE
    BY <1>3 DEF StartOf
  <2>2. \A i \in DOMAIN m.fields : m.fields[i].ok = TRUE
    <3>1. \A h : FieldOf(h).ok = TRUE
      BY DEF FieldOf
    <3> QED
      BY <1>4, <3>1
  <2> QED
    BY <1>1, <1>2, <1>5, <2>1, <2>2 DEF Acceptable, WellFormed
<1>10. Filled(m, N) = q
  <2> DEFINE hs == [i \in 1 .. N |-> [name |-> m.fields[i].name, value |-> m.fields[i].value]]
  <2>1. \A i \in 1 .. N : [name |-> m.fields[i].name, value |-> m.fields[i].value] = q.headers[i]
    <3> SUFFICES ASSUME NEW i \in 1 .. N
                 PROVE  [name |-> m.fields[i].name, value |-> m.fields[i].value] = q.headers[i]
      OBVIOUS
    <3>1. q.headers[i] \in [name : Seq(Byte), value : Seq(Byte)]
      BY <1>1 DEF Headers
    <3>2. m.fields[i].name = q.headers[i].name /\ m.fields[i].value = q.headers[i].value
      <4>1. \A h : FieldOf(h).name = h.name /\ FieldOf(h).value = h.value
        BY DEF FieldOf
      <4> QED
        BY <1>4, <4>1
    <3> QED
      BY <3>1, <3>2
  <2>2. q.headers = [i \in 1 .. N |-> q.headers[i]]
    BY <1>1
  <2>3. hs = q.headers
    <3> HIDE DEF N
    <3> QED
      BY <2>1, <2>2, Zenon
  <2>4. /\ m.start.method = q.method /\ m.start.path = q.path /\ m.start.query = q.query
        /\ m.start.version = q.version
    BY <1>3 DEF StartOf
  <2> HIDE DEF hs
  <2>5. Filled(m, N) = [method |-> q.method, path |-> q.path, query |-> q.query,
                        version |-> q.version, headers |-> q.headers]
    BY <2>3, <2>4, Zenon DEF Filled, hs
  <2>6. q \in [method : Seq(Byte), path : Seq(Byte), query : Seq(Byte), version : Versions,
               headers : Seq(Headers)]
    BY DEF Requests
  <2> QED
    BY <2>5, <2>6
<1> QED
  BY <1>3, <1>5, <1>8, <1>9, <1>10

\* What the parser stores.
Stored(q, body) ==
  [request |-> q, keep_alive |-> keep_alive(q), content_length |-> content_length(q), body |-> body]

\* What is accepted is such a request with a body as long as it says.
LEMMA AcceptedRequest ==
  ASSUME NEW s \in Seq(Byte), parse_http_request(s).result = "PARSE_OK"
  PROVE  \E q \in Requests, body \in Seq(Byte) :
           Len(body) = content_length(q) /\ parse_http_request(s) = PARSE_OK(Stored(q, body))
<1> DEFINE h == header_end(s)
           b == From(s, h + 4)
           r == parse_head(HeadOf(s))
           q == r.req
           c == content_length(q)
           body == UpTo(b, c)
<1>1. PARSE_INCOMPLETE.result # "PARSE_OK" /\ PARSE_ERROR.result # "PARSE_OK"
  BY DEF PARSE_INCOMPLETE, PARSE_ERROR, Result
<1>2. h # 0 /\ parse_http_request(s) = parse_body(r, b)
  BY <1>1 DEF parse_http_request
<1>3. h \in Nat \ {0} /\ h + 3 <= Len(s) /\ Len(s) \in Nat
  BY <1>2, HeaderEndFirst DEF header_end
<1>4. b \in Seq(Byte)
  <2> HIDE DEF h
  <2>1. h + 4 \in 1 .. Len(s) + 1 /\ Len(s) \in h + 4 - 1 .. Len(s)
    BY <1>3
  <2> QED
    BY <2>1, PieceShape DEF From
<1>5. r \in Verdicts
  <2> DEFINE x == HeadOf(s)
  <2>1. h + 1 \in 0 .. Len(s)
    <3> HIDE DEF h
    <3> QED
      BY <1>3
  <2>2. x \in Seq(Byte)
    BY <2>1, UpToShape DEF HeadOf
  <2> HIDE DEF x
  <2> QED
    BY <2>2, HeadVerdict DEF x
<1>6. c \in Nat
  BY ContentLengthType
<1> HIDE DEF h, b, r
<1>7. r.result = "PARSE_OK" /\ ~(Len(b) < c) /\ parse_http_request(s) = PARSE_OK(Stored(q, body))
  <2>1. parse_body(r, b).result = "PARSE_OK"
    BY <1>2
  <2>2. r.result = "PARSE_OK"
    BY <2>1 DEF parse_body
  <2>3. ~(Len(b) < c)
    BY <1>1, <2>1, <2>2 DEF parse_body
  <2>4. parse_body(r, b) = PARSE_OK(Stored(q, body))
    BY <2>2, <2>3, Zenon DEF parse_body, Stored
  <2> QED
    BY <1>2, <2>2, <2>3, <2>4
<1>8. q \in Requests
  <2>1. r # PARSE_ERROR
    BY <1>1, <1>7
  <2>2. PICK w \in Requests : r = PARSE_OK(w)
    BY <1>5, <2>1 DEF Verdicts
  <2>3. q = w
    BY <2>2 DEF PARSE_OK, Result
  <2> QED
    BY <2>3
<1>9. body \in Seq(Byte) /\ Len(body) = c
  <2>1. c \in 0 .. Len(b)
    <3>1. Len(b) \in Nat
      BY <1>4
    <3> HIDE DEF c
    <3> QED
      BY <1>6, <1>7, <3>1
  <2> HIDE DEF c
  <2> QED
    BY <1>4, <2>1, UpToShape
<1> HIDE DEF q, body
<1> QED
  BY <1>7, <1>8, <1>9

\* The parser takes it back.
LEMMA WrittenParsed ==
  ASSUME NEW q \in Requests, q.headers # <<>>, NEW body \in Seq(Byte), Len(body) = content_length(q)
  PROVE  parse_http_request(Written(Stored(q, body))) = PARSE_OK(Stored(q, body))
<1> DEFINE m == MessageOf(q, body)
           raw == Render(m)
           e == <<>>
           H == Len(RenderHead(m))
           p == Len(raw)
           c == content_length(q)
<1>1. Written(Stored(q, body)) = raw
  <2>1. Stored(q, body).request = q /\ Stored(q, body).body = body
    BY DEF Stored
  <2> QED
    BY <2>1, WrittenIs
<1>2. IsText(m) /\ Acceptable(m) /\ Filled(m, Len(m.fields)) = q /\ m.body = body
  <2> HIDE DEF m
  <2>1. m = MessageOf(q, body)
    BY DEF m
  <2> QED
    BY <2>1, RequestWritten
<1> HIDE DEF m
<1>3. e \in Seq(Byte) /\ Len(e) = 0
  OBVIOUS
<1> HIDE DEF e
<1>4. raw \in Seq(Byte) /\ p = H + Len(body) /\ H \in Nat
  <2> DEFINE z == Render(m) \o e
             h == Len(HeadText(m))
  <2>1. z = Render(m) \o e
    OBVIOUS
  <2> HIDE DEF z
  <2>2. Render(m) \in Seq(Byte) /\ H = h + 2 /\ Len(Render(m)) = h + 2 + Len(m.body)
    BY <1>2, <1>3, <2>1, RenderShape
  <2>3. H \in Nat
    BY <1>2, HeadLength
  <2> QED
    BY <1>2, <2>2, <2>3
<1>5. raw = Render(m) \o e
  <2>1. raw \o <<>> = raw
    BY <1>4, ConcatEmptySeq
  <2> QED
    BY <2>1 DEF e
<1>6. UpTo(raw, p) = raw
  BY <1>4, SubSeqFull DEF UpTo
<1>7. parse_http_request(raw) = Verdict(m, raw, p)
  <2>1. p \in 0 .. Len(raw)
    BY <1>4
  <2>2. parse_http_request(UpTo(raw, p)) = Verdict(m, raw, p)
    <3> HIDE DEF raw, p
    <3> QED
      BY <1>2, <1>3, <1>5, <2>1, MessageParsed DEF raw
  <2> QED
    BY <1>6, <2>2
<1>8. SubSeq(raw, H + 1, H + c) = body
  <2>1. SubSeq(raw, Len(RenderHead(m)) + 1, Len(RenderHead(m)) + Len(m.body)) = m.body
    <3> HIDE DEF raw
    <3> QED
      BY <1>2, <1>3, <1>5, BodyAsSent
  <2>2. Len(m.body) = c
    BY <1>2
  <2> QED
    BY <1>2, <2>1, <2>2
<1>9. c \in Nat /\ p = H + c
  BY <1>4, ContentLengthType
<1> HIDE DEF raw, p, H, c
<1>10. ~(p < H) /\ ~(p < H + c)
  BY <1>4, <1>9
<1>11. Verdict(m, raw, p) = PARSE_OK(Stored(q, body))
  BY <1>2, <1>8, <1>10, Zenon DEF Verdict, Stored, H, c
<1> QED
  BY <1>1, <1>7, <1>11 DEF raw

-----------------------------------------------------------------------------
(* The reader.                                                             *)

\* The message that follows is bytes.
LEMMA FollowingIsBytes == Render(Following) \in Seq(Byte)
<1>1. IsText(Following)
  BY ReaderAssumption DEF IsMessage
<1> DEFINE e == <<>>
           raw == Render(Following) \o e
<1>2. e \in Seq(Byte)
  OBVIOUS
<1> HIDE DEF e
<1>3. raw = Render(Following) \o e
  OBVIOUS
<1> HIDE DEF raw
<1> QED
  BY <1>1, <1>2, <1>3, RenderShape

\* The reader has parsed exactly what it has received.
UpToDate ==
  /\ bytes \in Seq(Byte)
  /\ n \in 0 .. Len(bytes)
  /\ parsed = parse_http_request(UpTo(bytes, n))

\* Before the first byte the parser is where parsing no bytes leaves it.
LEMMA InitUpToDate == Init => UpToDate
<1> SUFFICES ASSUME Init PROVE UpToDate
  OBVIOUS
<1>1. bytes \in Seq(Byte)
  <2>1. CASE msg \in Messages /\ bytes = Render(msg) \o Render(Following)
    <3>1. IsText(msg) /\ Render(Following) \in Seq(Byte) /\ bytes = Render(msg) \o Render(Following)
      BY <2>1, ReaderAssumption, FollowingIsBytes DEF IsMessage
    <3> DEFINE rest == Render(Following)
    <3> HIDE DEF rest
    <3>2. Begins(bytes, HeadText(msg))
      BY <3>1, RenderShape DEF rest
    <3> QED
      BY <3>2 DEF Begins
  <2>2. CASE bytes \in Junk
    BY <2>2, ReaderAssumption
  <2> QED
    BY <2>1, <2>2 DEF Init
<1>2. n = 0 /\ n \in 0 .. Len(bytes) /\ parsed = PARSE_INCOMPLETE
  BY <1>1 DEF Init
<1>3. Len(UpTo(bytes, 0)) = 0
  BY <1>1, <1>2, UpToShape
<1>4. Separators(UpTo(bytes, 0)) = {}
  BY <1>3 DEF Separators
<1> QED
  BY <1>1, <1>2, <1>4 DEF UpToDate, parse_http_request, header_end

\* Each recv() keeps the parser where parsing all bytes so far would leave it.
LEMMA RecvUpToDate == UpToDate /\ [Recv]_readerVars => UpToDate'
<1> SUFFICES ASSUME UpToDate, [Recv]_readerVars PROVE UpToDate'
  OBVIOUS
<1>1. CASE Recv
  <2>1. bytes' = bytes /\ n' \in n + 1 .. Len(bytes) /\ parsed' = parse_http_request(UpTo(bytes, n'))
    BY <1>1 DEF Recv
  <2>2. n' \in 0 .. Len(bytes)
    BY <2>1 DEF UpToDate
  <2> QED
    BY <2>1, <2>2 DEF UpToDate
<1>2. CASE UNCHANGED readerVars
  BY <1>2 DEF UpToDate, readerVars
<1> QED
  BY <1>1, <1>2

\* A parser that is up to date has a result that does not depend on how the bytes
\* were split over recv() calls.
LEMMA UpToDateIndependent == UpToDate => SegmentationIndependent
<1> SUFFICES ASSUME UpToDate, NEW p \in 0 .. Len(bytes)
             PROVE  LET r == parse_http_request(UpTo(bytes, p)) IN
                      /\ p <= n => r = PARSE_INCOMPLETE \/ r = parsed
                      /\ p >= n /\ parsed # PARSE_INCOMPLETE => r = parsed
  BY DEF SegmentationIndependent
<1>1. /\ bytes \in Seq(Byte) /\ n \in 0 .. Len(bytes) /\ Len(bytes) \in Nat
      /\ parsed = parse_http_request(UpTo(bytes, n))
  BY DEF UpToDate
<1>2. ASSUME p <= n, parse_http_request(UpTo(bytes, p)) # PARSE_INCOMPLETE
      PROVE  parse_http_request(UpTo(bytes, p)) = parsed
  <2>1. n \in p .. Len(bytes)
    BY <1>1, <1>2
  <2> QED
    BY <1>1, <1>2, <2>1, VerdictStays
<1>3. ASSUME p >= n, parsed # PARSE_INCOMPLETE
      PROVE  parse_http_request(UpTo(bytes, p)) = parsed
  <2>1. p \in n .. Len(bytes)
    BY <1>1, <1>3
  <2> QED
    BY <1>1, <1>3, <2>1, VerdictStays
<1> QED
  BY <1>2, <1>3

\* What is on its way is the message and the one that follows.
AsSent == msg # NULL => msg \in Messages /\ bytes = Render(msg) \o Render(Following)

\* No byte that is sent changes.
LEMMA AsSentStays ==
  /\ Init => AsSent
  /\ AsSent /\ [Recv]_readerVars => AsSent'
<1>1. Init => AsSent
  BY DEF Init, AsSent
<1>2. AsSent /\ [Recv]_readerVars => AsSent'
  BY DEF AsSent, Recv, readerVars
<1> QED
  BY <1>1, <1>2

\* A parser that is up to date takes what was sent as it was meant.
LEMMA UpToDateMeant == UpToDate /\ AsSent => AsMeant
<1> SUFFICES ASSUME UpToDate, AsSent, msg # NULL
             PROVE  parsed = IF n < Len(RenderHead(msg)) THEN PARSE_INCOMPLETE
                             ELSE IF ~Acceptable(msg) THEN PARSE_ERROR
                             ELSE IF n < Len(RenderHead(msg)) + BodyLength(msg) THEN PARSE_INCOMPLETE
                             ELSE PARSE_OK(Meaning(msg))
  BY DEF AsMeant
<1> DEFINE rest == Render(Following)
           N == Len(msg.fields)
           F == Filled(msg, N)
           H == Len(RenderHead(msg))
           h == Len(HeadText(msg))
           c == content_length(F)
           b == Len(msg.body)
           r == Len(rest)
<1>1. IsMessage(msg) /\ IsText(msg) /\ (Acceptable(msg) => IsWhole(msg)) /\ bytes = Render(msg) \o rest
  BY ReaderAssumption DEF AsSent, IsMessage
<1>2. rest \in Seq(Byte) /\ r \in Nat
  BY FollowingIsBytes
<1>3. n \in 0 .. Len(bytes) /\ bytes \in Seq(Byte) /\ parsed = parse_http_request(UpTo(bytes, n))
  BY DEF UpToDate
<1>4. parsed = Verdict(msg, bytes, n)
  <2> HIDE DEF rest
  <2> QED
    BY <1>1, <1>2, <1>3, MessageParsed
<1>5. H = h + 2 /\ Len(bytes) = h + 2 + b + r /\ h \in Nat /\ b \in Nat
  <2>1. H = h + 2 /\ Len(bytes) = h + 2 + b + r
    <3> HIDE DEF rest
    <3> QED
      BY <1>1, <1>2, RenderShape DEF rest
  <2>2. h \in Nat
    BY <1>1, HeadLaidOut
  <2>3. b \in Nat
    BY <1>1 DEF IsText
  <2> QED
    BY <2>1, <2>2, <2>3
<1>6. N \in Nat /\ DOMAIN msg.fields = 1 .. N
  BY <1>1 DEF IsText
<1>7. c \in Nat
  BY ContentLengthType
<1> HIDE DEF H, h, b, r, c
<1>8. CASE Acceptable(msg)
  <2>1. WellFormed(msg) /\ IsWhole(msg)
    BY <1>1, <1>8 DEF Acceptable
  <2>2. c = BodyLength(msg)
    BY <1>1, <2>1, LengthMeant DEF c
  <2>3. keep_alive(F) = Persistent(msg)
    BY <1>1, <2>1, PersistenceMeant
  <2>4. F = Meaning(msg).request
    <3>1. Meaning(msg).request =
            [method |-> msg.start.method, path |-> msg.start.path, query |-> msg.start.query,
             version |-> msg.start.version,
             headers |-> [i \in DOMAIN msg.fields |->
                            [name |-> msg.fields[i].name, value |-> msg.fields[i].value]]]
      BY DEF Meaning
    <3> QED
      BY <1>6, <3>1, Zenon DEF Filled
  <2>5. CASE n < H \/ n < H + c
    BY <1>4, <1>8, <2>2, <2>5, Zenon DEF Verdict, H, c
  <2>6. CASE ~(n < H) /\ ~(n < H + c)
    <3> DEFINE v == SubSeq(bytes, H + 1, H + c)
               R == [request |-> F, keep_alive |-> keep_alive(F), content_length |-> c, body |-> v]
    <3>1. parsed = PARSE_OK(R)
      BY <1>4, <1>8, <2>6, Zenon DEF Verdict, H, c
    <3>2. b = c
      <4>1. n <= h + 2 + b + r /\ n >= h + 2 + c /\ n \in Nat
        BY <1>3, <1>5, <1>7, <2>6
      <4>2. ~(b + r < c)
        BY <1>2, <1>5, <1>7, <4>1
      <4> QED
        BY <2>1, <2>2, <4>2 DEF IsWhole, b, r
    <3>3. v = msg.body
      <4> HIDE DEF rest
      <4>1. SubSeq(bytes, Len(RenderHead(msg)) + 1, Len(RenderHead(msg)) + Len(msg.body)) = msg.body
        BY <1>1, <1>2, BodyAsSent
      <4> QED
        BY <3>2, <4>1 DEF H, b
    <3>4. R = Meaning(msg)
      <4> HIDE DEF F, v
      <4>1. Meaning(msg) = [request |-> F, keep_alive |-> Persistent(msg),
                            content_length |-> BodyLength(msg), body |-> msg.body]
        BY <2>4 DEF Meaning
      <4> QED
        BY <2>2, <2>3, <3>3, <4>1
    <3> HIDE DEF R
    <3> QED
      BY <1>8, <2>2, <2>6, <3>1, <3>4, Zenon DEF H
  <2> QED
    BY <2>5, <2>6
<1>9. CASE ~Acceptable(msg)
  BY <1>4, <1>9, Zenon DEF Verdict, H
<1> QED
  BY <1>8, <1>9

\* A parser that is up to date agrees with the connection loop's.
LEMMA UpToDateAgrees == UpToDate /\ AsSent => AgreesWithKeepAlive
<1> SUFFICES ASSUME UpToDate, AsSent, msg # NULL
             PROVE  LET window == [i \in 1 .. n |-> i] IN
                      /\ KA!parse_http_request(window) = parsed.result
                      /\ parsed.result = "PARSE_OK" =>
                           /\ http_request_consumed_bytes(UpTo(bytes, n), parsed.req)
                                = KA!http_request_consumed_bytes(window, 1)
                           /\ parsed.req.keep_alive = TheStream.keep[1]
  BY DEF AgreesWithKeepAlive
<1> DEFINE H == Len(RenderHead(msg))
           c == BodyLength(msg)
           g == Len(RenderHead(Following))
           rest == Render(Following)
           window == [i \in 1 .. n |-> i]
<1>1. IsMessage(msg) /\ IsText(msg) /\ bytes = Render(msg) \o rest
  BY ReaderAssumption DEF AsSent, IsMessage
<1>2. IsText(Following)
  BY ReaderAssumption DEF IsMessage
<1>3. H \in Nat /\ H >= 4 /\ g \in Nat /\ g >= 4 /\ c \in Nat
  BY <1>1, <1>2, HeadLength, BodyLengthType
<1>4. n \in 0 .. Len(bytes) /\ n \in Nat
  BY DEF UpToDate
<1>5. /\ KA!parse_http_request(window) =
              IF n < H THEN "PARSE_INCOMPLETE"
              ELSE IF ~Acceptable(msg) THEN "PARSE_ERROR"
              ELSE IF n < H + c THEN "PARSE_INCOMPLETE"
              ELSE "PARSE_OK"
      /\ ~(n < H) => KA!http_request_consumed_bytes(window, 1) = H + c
  <2> HIDE DEF window
  <2>1. window = [i \in 1 .. n |-> i]
    BY DEF window
  <2> QED
    BY <1>3, <1>4, <2>1, PositionsParsed
<1>6. parsed = IF n < H THEN PARSE_INCOMPLETE
               ELSE IF ~Acceptable(msg) THEN PARSE_ERROR
               ELSE IF n < H + c THEN PARSE_INCOMPLETE
               ELSE PARSE_OK(Meaning(msg))
  BY UpToDateMeant DEF AsMeant
<1>7. TheStream.keep[1] = Persistent(msg)
  BY StreamIs
<1>8. Meaning(msg).keep_alive = Persistent(msg) /\ Meaning(msg).content_length = c
  BY DEF Meaning
<1> HIDE DEF H, c, g, window
<1>9. KA!parse_http_request(window) = parsed.result
  <2>1. /\ PARSE_INCOMPLETE.result = "PARSE_INCOMPLETE" /\ PARSE_ERROR.result = "PARSE_ERROR"
        /\ PARSE_OK(Meaning(msg)).result = "PARSE_OK"
    BY DEF PARSE_INCOMPLETE, PARSE_ERROR, PARSE_OK, Result
  <2> QED
    BY <1>5, <1>6, <2>1, Zenon
<1>10. ASSUME parsed.result = "PARSE_OK"
       PROVE  /\ ~(n < H) /\ parsed = PARSE_OK(Meaning(msg))
  <2>1. PARSE_INCOMPLETE.result # "PARSE_OK" /\ PARSE_ERROR.result # "PARSE_OK"
    BY DEF PARSE_INCOMPLETE, PARSE_ERROR, Result
  <2> QED
    BY <1>6, <1>10, <2>1, Zenon
<1>11. ASSUME parsed.result = "PARSE_OK"
       PROVE  http_request_consumed_bytes(UpTo(bytes, n), parsed.req)
                = KA!http_request_consumed_bytes(window, 1)
  <2>1. ~(n < H) /\ parsed.req = Meaning(msg)
    BY <1>10, <1>11 DEF PARSE_OK, Result
  <2>2. header_end(UpTo(bytes, n)) + 3 = H
    <3>1. rest \in Seq(Byte)
      BY FollowingIsBytes
    <3>2. n >= H
      BY <1>3, <1>4, <2>1
    <3> HIDE DEF rest
    <3> QED
      BY <1>1, <1>4, <3>1, <3>2, MessageHead DEF H
  <2>3. http_request_consumed_bytes(UpTo(bytes, n), parsed.req) = H + c
    BY <1>8, <2>1, <2>2 DEF http_request_consumed_bytes
  <2> QED
    BY <1>5, <2>1, <2>3
<1>12. ASSUME parsed.result = "PARSE_OK"
       PROVE  parsed.req.keep_alive = TheStream.keep[1]
  <2>1. parsed.req = Meaning(msg)
    BY <1>10, <1>12 DEF PARSE_OK, Result
  <2> QED
    BY <1>7, <1>8, <2>1
<1> QED
  BY <1>9, <1>11, <1>12 DEF window

\* What the parser has accepted is parsed as itself when it is written out.
LEMMA UpToDateWritten == UpToDate => RoundTrip
<1> SUFFICES ASSUME UpToDate, parsed.result = "PARSE_OK", parsed.req.request.headers # <<>>
             PROVE  parse_http_request(Written(parsed.req)) = parsed
  BY DEF RoundTrip
<1> DEFINE s == UpTo(bytes, n)
<1>1. s \in Seq(Byte) /\ parsed = parse_http_request(s)
  BY UpToShape DEF UpToDate
<1> HIDE DEF s
<1>2. PICK q \in Requests, body \in Seq(Byte) :
        Len(body) = content_length(q) /\ parsed = PARSE_OK(Stored(q, body))
  BY <1>1, AcceptedRequest
<1>3. parsed.req = Stored(q, body)
  BY <1>2 DEF PARSE_OK, Result
<1>4. parsed.req.request = q
  BY <1>3 DEF Stored
<1> QED
  BY <1>2, <1>3, <1>4, WrittenParsed

\* The parser is up to date and the bytes are those that were sent, at all times.
LEMMA ReaderInvariant == Spec => [](UpToDate /\ AsSent)
<1>1. Spec => []UpToDate
  BY InitUpToDate, RecvUpToDate, PTL DEF Spec
<1>2. Spec => []AsSent
  BY AsSentStays, PTL DEF Spec
<1> QED
  BY <1>1, <1>2, PTL

\* The request read from a socket is the one the bytes make, however they were
\* cut into pieces, for every input and all limits.
THEOREM Independence == Spec => []SegmentationIndependent
  BY ReaderInvariant, UpToDateIndependent, PTL

\* Every message the client may send is read as it was meant, by the time its last
\* byte is there: with its method, path, query, version, headers and body, and with
\* what Content-Length and Connection say; what is not well formed is refused.
THEOREM Faithful == Spec => []AsMeant
  BY ReaderInvariant, UpToDateMeant, PTL

\* Whatever bytes a request was made of, writing it out and parsing that gives it
\* back: no limit, no delimiter and no stripped CR has mangled it.
THEOREM Rewritable == Spec => []RoundTrip
  BY ReaderInvariant, UpToDateWritten, PTL

\* The connection loop's model of the parser, which counts positions in place of
\* bytes, gives the verdict of the parser itself, slides the window as far, and
\* keeps the connection for the same requests.
THEOREM ViewOfPositions == Spec => []AgreesWithKeepAlive
  BY ReaderInvariant, UpToDateAgrees, PTL
=============================================================================
