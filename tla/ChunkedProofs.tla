--------------------------- MODULE ChunkedProofs ----------------------------
(***************************************************************************)
(* A chunked body arrives as the body that was sent, and the caller is     *)
(* told the truth about it, for all lengths of the pieces, for any number  *)
(* of them and in every base.                                              *)
(***************************************************************************)
EXTENDS Chunked, CommonLemmas, TLAPS

-----------------------------------------------------------------------------
(* Sizes and their digits.                                                 *)

\* Division by the base leaves less to be written.
LEMMA Division ==
  ASSUME NEW n \in Nat
  PROVE  /\ n \div Base \in Nat /\ n % Base \in Nat
         /\ n = Base * (n \div Base) + (n % Base)
         /\ ~(n < Base) => n \div Base < n
<1>1. Base \in Int /\ Base > 1
  BY ChunkedAssumption
<1>2. n \div Base \in Int /\ n % Base \in Int /\ 0 <= n % Base
  BY <1>1
<1>3. n = Base * (n \div Base) + (n % Base)
  BY <1>1
<1>4. 0 <= n \div Base
  BY <1>1
<1>5. ~(n < Base) => n \div Base < n
  BY <1>1
<1> QED
  BY <1>2, <1>3, <1>4, <1>5

\* The client's view of a size: its value after each of the digits.
Values[n \in Nat] == IF n < Base THEN <<n>> ELSE Append(Values[n \div Base], n)

\* Recursion from n to n \div Base defines a function.
LEMMA DigitRecursion ==
  ASSUME NEW last \in [Nat -> Nat]
  PROVE  \E g \in [Nat -> Seq(Nat)] : \A h :
           h = [n \in Nat |-> IF n < Base THEN <<n>> ELSE Append(h[n \div Base], last[n])] <=> h = g
<1> DEFINE S == Seq(Nat)
           stop == {n \in Nat : n < Base}
           base == [n \in Nat |-> <<n>>]
           prev == [n \in Nat |-> n \div Base]
           step == [x \in Nat \X S |-> Append(x[2], last[x[1]])]
           Eq(h) == [n \in Nat |-> IF n < Base THEN <<n>> ELSE Append(h[n \div Base], last[n])]
<1>1. IsRecursion(Nat, S, stop, base, prev, step)
  <2>1. base \in [Nat -> S]
    OBVIOUS
  <2>2. ASSUME NEW x \in Nat \X S PROVE Append(x[2], last[x[1]]) \in S
    <3>1. x[2] \in Seq(Nat) /\ last[x[1]] \in Nat
      OBVIOUS
    <3> QED
      BY <3>1, AppendProperties
  <2>3. step \in [Nat \X S -> S]
    BY <2>2
  <2>4. \A m \in Nat \ stop : prev[m] \in Nat /\ prev[m] < m
    BY Division, ChunkedAssumption
  <2> QED
    BY <2>1, <2>3, <2>4 DEF IsRecursion
<1>2. PICK g \in [Nat -> S] : \A m \in Nat : g[m] = Value(g, stop, base, prev, step, m)
  <2> HIDE DEF S, stop, base, prev, step
  <2> QED
    BY <1>1, Recursion
<1>3. ASSUME NEW m \in Nat
      PROVE  g[m] = IF m < Base THEN <<m>> ELSE Append(g[m \div Base], last[m])
  <2>1. CASE m < Base
    BY <2>1, <1>2 DEF Value
  <2>2. CASE ~(m < Base)
    <3>1. <<m, g[m \div Base]>> \in Nat \X S
      BY Division
    <3>2. g[m] = step[<<m, g[m \div Base]>>]
      BY <2>2, <1>2 DEF Value
    <3> QED
      BY <2>2, <3>1, <3>2
  <2> QED
    BY <2>1, <2>2
<1>4. ASSUME NEW h, h = Eq(h)
      PROVE  h = g
  <2> DEFINE P == {n \in Nat : h[n] = g[n]}
  <2>1. ASSUME NEW n \in Nat, \A k \in Nat : k < n => k \in P
        PROVE  n \in P
    <3>1. h[n] = IF n < Base THEN <<n>> ELSE Append(h[n \div Base], last[n])
      BY <1>4
    <3>2. CASE n < Base
      BY <3>1, <3>2, <1>3
    <3>3. CASE ~(n < Base)
      <4>1. n \div Base \in Nat /\ n \div Base < n
        BY <3>3, Division
      <4>2. h[n \div Base] = g[n \div Base]
        BY <4>1, <2>1
      <4> QED
        BY <3>1, <3>3, <4>2, <1>3
    <3> QED
      BY <3>2, <3>3
  <2>2. Nat \subseteq P
    <3> HIDE DEF P
    <3> QED
      BY <2>1, Induction
  <2> QED
    BY <2>2, <1>4
<1>5. g = Eq(g)
  BY <1>3
<1>6. \A h : h = Eq(h) <=> h = g
  <2> HIDE DEF Eq
  <2> QED
    BY <1>4, <1>5
<1>7. g \in [Nat -> Seq(Nat)]
  OBVIOUS
<1> QED
  BY <1>6, <1>7, Zenon

\* Digits and Values are what their definitions say.
LEMMA DigitsDef ==
  /\ Digits \in [Nat -> Seq(Nat)]
  /\ \A n \in Nat : Digits[n] = IF n < Base THEN <<n>> ELSE Append(Digits[n \div Base], n % Base)
<1> DEFINE last == [n \in Nat |-> n % Base]
           Eq(h) == [n \in Nat |-> IF n < Base THEN <<n>> ELSE Append(h[n \div Base], n % Base)]
<1>1. last \in [Nat -> Nat]
  BY Division
<1>2. PICK g \in [Nat -> Seq(Nat)] : \A h :
        h = [n \in Nat |-> IF n < Base THEN <<n>> ELSE Append(h[n \div Base], last[n])] <=> h = g
  BY <1>1, DigitRecursion
<1>3. \A h : [n \in Nat |-> IF n < Base THEN <<n>> ELSE Append(h[n \div Base], last[n])] = Eq(h)
  OBVIOUS
<1>4. \A h : h = Eq(h) <=> h = g
  BY <1>2, <1>3, Zenon
<1>5. Digits = Eq(Digits)
  BY <1>4 DEF Digits
<1>6. Digits = g
  BY <1>4, <1>5, Zenon
<1> QED
  BY <1>5, <1>6

\* What the digits read so far amount to, after each of them.
LEMMA ValuesDef ==
  /\ Values \in [Nat -> Seq(Nat)]
  /\ \A n \in Nat : Values[n] = IF n < Base THEN <<n>> ELSE Append(Values[n \div Base], n)
<1> DEFINE last == [n \in Nat |-> n]
           Eq(h) == [n \in Nat |-> IF n < Base THEN <<n>> ELSE Append(h[n \div Base], n)]
<1>1. last \in [Nat -> Nat]
  OBVIOUS
<1>2. PICK g \in [Nat -> Seq(Nat)] : \A h :
        h = [n \in Nat |-> IF n < Base THEN <<n>> ELSE Append(h[n \div Base], last[n])] <=> h = g
  BY <1>1, DigitRecursion
<1>3. \A h : [n \in Nat |-> IF n < Base THEN <<n>> ELSE Append(h[n \div Base], last[n])] = Eq(h)
  OBVIOUS
<1>4. \A h : h = Eq(h) <=> h = g
  BY <1>2, <1>3, Zenon
<1>5. Values = Eq(Values)
  BY <1>4 DEF Values
<1>6. Values = g
  BY <1>4, <1>5, Zenon
<1> QED
  BY <1>5, <1>6

\* Reading the digits of n one after the other gives its values, and n with the
\* last.
Spelled(n) ==
  /\ Len(Values[n]) = Len(Digits[n])
  /\ Len(Digits[n]) >= 1
  /\ Values[n][1] = Digits[n][1]
  /\ \A i \in 1 .. Len(Digits[n]) - 1 : Values[n][i + 1] = Base * Values[n][i] + Digits[n][i + 1]
  /\ Values[n][Len(Digits[n])] = n

\* The digits of every size lead a reader to that size.
LEMMA SpellsOut == \A n \in Nat : Spelled(n)
<1> DEFINE P == {n \in Nat : Spelled(n)}
<1>1. ASSUME NEW n \in Nat, \A k \in Nat : k < n => k \in P
      PROVE  n \in P
  <2>1. CASE n < Base
    <3>1. Digits[n] = <<n>> /\ Values[n] = <<n>>
      BY <2>1, DigitsDef, ValuesDef
    <3>2. /\ Len(Digits[n]) = 1 /\ Len(Values[n]) = 1
          /\ Digits[n][1] = n /\ Values[n][1] = n
      BY <3>1
    <3> QED
      BY <3>2 DEF Spelled
  <2>2. CASE ~(n < Base)
    <3> DEFINE q == n \div Base
               d == Digits[q]
               v == Values[q]
    <3>1. q \in Nat /\ n % Base \in Nat /\ n = Base * q + (n % Base)
      BY Division
    <3>2. q < n
      BY <2>2, Division
    <3>3. Spelled(q)
      BY <1>1, <3>1, <3>2
    <3>4. d \in Seq(Nat) /\ v \in Seq(Nat)
      BY <3>1, DigitsDef, ValuesDef
    <3>5. Digits[n] = Append(d, n % Base) /\ Values[n] = Append(v, n)
      BY <2>2, DigitsDef, ValuesDef
    <3> HIDE DEF q
    <3>6. /\ Len(Digits[n]) = Len(d) + 1 /\ Len(Values[n]) = Len(v) + 1
          /\ \A i \in 1 .. Len(d) : Digits[n][i] = d[i]
          /\ \A i \in 1 .. Len(v) : Values[n][i] = v[i]
          /\ Digits[n][Len(d) + 1] = n % Base /\ Values[n][Len(v) + 1] = n
      BY <3>1, <3>4, <3>5, AppendProperties
    <3>7. Len(v) = Len(d) /\ Len(d) \in Nat /\ Len(d) >= 1 /\ v[1] = d[1] /\ v[Len(d)] = q
      BY <3>3, <3>4 DEF Spelled
    <3>8. ASSUME NEW i \in 1 .. Len(Digits[n]) - 1
          PROVE  Values[n][i + 1] = Base * Values[n][i] + Digits[n][i + 1]
      <4>1. CASE i = Len(d)
        BY <4>1, <3>1, <3>6, <3>7
      <4>2. CASE i # Len(d)
        <5>1. i \in 1 .. Len(d) - 1 /\ i + 1 \in 1 .. Len(d) /\ i \in 1 .. Len(d)
          BY <4>2, <3>6, <3>7
        <5>2. v[i + 1] = Base * v[i] + d[i + 1]
          BY <5>1, <3>3 DEF Spelled
        <5> QED
          BY <5>1, <5>2, <3>6, <3>7
      <4> QED
        BY <4>1, <4>2
    <3> QED
      BY <3>6, <3>7, <3>8 DEF Spelled
  <2> QED
    BY <2>1, <2>2
<1>2. Nat \subseteq P
  <2> HIDE DEF P
  <2> QED
    BY <1>1, Induction
<1> QED
  BY <1>2

-----------------------------------------------------------------------------
(* The bytes of a call, one by one.                                        *)

Width(len) == Len(Digits[len])

\* Bytes of a chunk; none is sent for an empty piece.
ChunkLen(len) == IF len = 0 THEN 0 ELSE Width(len) + len + 4

\* What a call writes for len bytes behind the first ones.
Message(op, first, len) ==
  (IF len = 0 THEN <<>> ELSE Chunk(first, len)) \o (IF op = "send" THEN <<>> ELSE TerminalChunk)

WireByte == [kind : {"digit", "CR", "LF", "data"}, n : Nat]

\* The two bytes of a line's end.
LEMMA LineEnd ==
  /\ CRLF \in Seq(WireByte) /\ Len(CRLF) = 2
  /\ CRLF[1] = Byte("CR", 0) /\ CRLF[2] = Byte("LF", 0)
<1>1. Byte("CR", 0) \in WireByte /\ Byte("LF", 0) \in WireByte
  BY DEF Byte, WireByte
<1> QED
  BY <1>1 DEF CRLF

\* A size line is its digits, CR and LF.
LEMMA SizeLineBytes ==
  ASSUME NEW len \in Nat
  PROVE  /\ SizeLine(len) \in Seq(WireByte)
         /\ Width(len) \in Nat /\ Width(len) >= 1
         /\ Len(SizeLine(len)) = Width(len) + 2
         /\ \A i \in 1 .. Width(len) : SizeLine(len)[i] = Byte("digit", Digits[len][i])
         /\ SizeLine(len)[Width(len) + 1] = Byte("CR", 0)
         /\ SizeLine(len)[Width(len) + 2] = Byte("LF", 0)
<1> DEFINE d == Digits[len]
           w == Width(len)
           s == [i \in DOMAIN d |-> Byte("digit", d[i])]
<1>1. d \in Seq(Nat) /\ w \in Nat /\ w >= 1 /\ DOMAIN d = 1 .. w
  BY DigitsDef, SpellsOut DEF Spelled, Width
<1>2. \A i \in 1 .. w : Byte("digit", d[i]) \in WireByte
  <2>1. \A i \in 1 .. w : d[i] \in Nat
    BY <1>1 DEF Width
  <2> QED
    BY <2>1 DEF Byte, WireByte
<1>3. s \in [1 .. w -> WireByte]
  BY <1>1, <1>2
<1>4. s \in Seq(WireByte) /\ Len(s) = w
  BY <1>1, <1>3
<1>5. CRLF \in Seq(WireByte) /\ Len(CRLF) = 2
  BY LineEnd
<1> HIDE DEF s
<1>6. s \o CRLF \in Seq(WireByte) /\ IsJoin(s \o CRLF, s, CRLF, w, 2)
  BY <1>4, <1>5, Joined
<1>7. SizeLine(len) = s \o CRLF
  BY DEF SizeLine, s
<1>8. \A i \in 1 .. w : s[i] = Byte("digit", d[i])
  BY <1>1 DEF s
<1> HIDE DEF w
<1>9. /\ SizeLine(len) \in Seq(WireByte) /\ Len(SizeLine(len)) = w + 2
      /\ \A i \in 1 .. w : SizeLine(len)[i] = s[i]
      /\ \A i \in 1 .. 2 : SizeLine(len)[w + i] = CRLF[i]
  BY <1>6, <1>7 DEF IsJoin
<1> QED
  BY <1>1, <1>8, <1>9, LineEnd DEF w

\* A chunk is a size line, the data and a line's end.
LEMMA ChunkBytes ==
  ASSUME NEW first \in Nat, NEW len \in Nat
  PROVE  LET w == Width(len)
             c == Chunk(first, len)
         IN  /\ c \in Seq(WireByte) /\ Len(c) = w + len + 4
             /\ \A i \in 1 .. w : c[i] = Byte("digit", Digits[len][i])
             /\ c[w + 1] = Byte("CR", 0)
             /\ c[w + 2] = Byte("LF", 0)
             /\ \A i \in 1 .. len : c[w + 2 + i] = Byte("data", first + i)
             /\ c[w + len + 3] = Byte("CR", 0)
             /\ c[w + len + 4] = Byte("LF", 0)
<1> DEFINE w == Width(len)
           size == SizeLine(len)
           data == [i \in 1 .. len |-> Byte("data", first + i)]
           c == Chunk(first, len)
           t == data \o CRLF
<1>1. /\ size \in Seq(WireByte) /\ w \in Nat /\ w >= 1 /\ Len(size) = w + 2
      /\ \A i \in 1 .. w : size[i] = Byte("digit", Digits[len][i])
      /\ size[w + 1] = Byte("CR", 0) /\ size[w + 2] = Byte("LF", 0)
  BY SizeLineBytes
<1>2. \A i \in 1 .. len : Byte("data", first + i) \in WireByte
  BY DEF Byte, WireByte
<1>3. data \in Seq(WireByte) /\ Len(data) = len
  BY <1>2
<1>4. \A i \in 1 .. len : data[i] = Byte("data", first + i)
  OBVIOUS
<1> HIDE DEF w, size, data
<1>5. /\ t \in Seq(WireByte) /\ Len(t) = len + 2
      /\ \A i \in 1 .. len : t[i] = data[i]
      /\ \A i \in 1 .. 2 : t[len + i] = CRLF[i]
  <2>1. t \in Seq(WireByte) /\ IsJoin(t, data, CRLF, len, 2)
    BY <1>3, LineEnd, Joined
  <2> QED
    BY <2>1 DEF IsJoin
<1>6. c = size \o t
  <2>1. c = (size \o data) \o CRLF
    BY DEF Chunk, size, data
  <2>2. (size \o data) \o CRLF = size \o (data \o CRLF)
    <3>1. size \in Seq(WireByte) /\ data \in Seq(WireByte) /\ CRLF \in Seq(WireByte)
      BY <1>1, <1>3, LineEnd
    <3> QED
      BY <3>1, ConcatAssociative
  <2> HIDE DEF c
  <2> QED
    BY <2>1, <2>2 DEF t
<1> HIDE DEF c, t
<1>7. /\ c \in Seq(WireByte) /\ Len(c) = (w + 2) + (len + 2)
      /\ \A i \in 1 .. w + 2 : c[i] = size[i]
      /\ \A i \in 1 .. len + 2 : c[w + 2 + i] = t[i]
  <2>1. c \in Seq(WireByte) /\ IsJoin(c, size, t, w + 2, len + 2)
    BY <1>1, <1>5, <1>6, Joined
  <2> QED
    BY <2>1 DEF IsJoin
<1>8. \A i \in 1 .. w : c[i] = Byte("digit", Digits[len][i])
  BY <1>1, <1>7
<1>9. c[w + 1] = Byte("CR", 0) /\ c[w + 2] = Byte("LF", 0)
  BY <1>1, <1>7
<1>10. \A i \in 1 .. len : c[w + 2 + i] = Byte("data", first + i)
  BY <1>4, <1>5, <1>7
<1>11. c[w + len + 3] = CRLF[1] /\ c[w + len + 4] = CRLF[2]
  <2>1. /\ w + 2 + (len + 1) = w + len + 3 /\ w + 2 + (len + 2) = w + len + 4
        /\ len + 1 \in 1 .. len + 2 /\ len + 2 \in 1 .. len + 2
    BY <1>1
  <2>2. c[w + 2 + (len + 1)] = t[len + 1] /\ c[w + 2 + (len + 2)] = t[len + 2]
    BY <2>1, <1>7
  <2>3. t[len + 1] = CRLF[1] /\ t[len + 2] = CRLF[2]
    BY <1>5
  <2> QED
    BY <2>1, <2>2, <2>3
<1>12. Len(c) = w + len + 4
  BY <1>1, <1>7
<1> QED
  BY <1>7, <1>8, <1>9, <1>10, <1>11, <1>12, LineEnd DEF w, c

\* The terminal chunk is a zero and two line ends.
LEMMA TerminalBytes ==
  /\ TerminalChunk \in Seq(WireByte) /\ Len(TerminalChunk) = 5
  /\ TerminalChunk[1] = Byte("digit", 0)
  /\ TerminalChunk[2] = Byte("CR", 0) /\ TerminalChunk[3] = Byte("LF", 0)
  /\ TerminalChunk[4] = Byte("CR", 0) /\ TerminalChunk[5] = Byte("LF", 0)
<1> DEFINE z == Byte("digit", 0)
           r == Byte("CR", 0)
           l == Byte("LF", 0)
<1>1. z \in WireByte /\ r \in WireByte /\ l \in WireByte
  BY DEF Byte, WireByte
<1>2. CRLF = <<r, l>> /\ TerminalChunk = (<<z>> \o CRLF) \o CRLF
  BY DEF CRLF, TerminalChunk
<1> HIDE DEF z, r, l
<1>3. <<z>> \in Seq(WireByte) /\ Len(<<z>>) = 1 /\ <<z>>[1] = z
  BY <1>1
<1>4. /\ CRLF \in Seq(WireByte) /\ Len(CRLF) = 2 /\ CRLF[1] = r /\ CRLF[2] = l
  BY LineEnd DEF r, l
<1> DEFINE x == <<z>> \o CRLF
<1>5. x \in Seq(WireByte) /\ Len(x) = 3 /\ x[1] = z /\ x[2] = r /\ x[3] = l
  <2>1. x \in Seq(WireByte) /\ IsJoin(x, <<z>>, CRLF, 1, 2)
    BY <1>3, <1>4, Joined
  <2>2. Len(x) = 3 /\ x[1] = z /\ x[1 + 1] = r /\ x[1 + 2] = l
    BY <2>1, <1>3, <1>4 DEF IsJoin
  <2> HIDE DEF x
  <2> QED
    BY <2>1, <2>2
<1>6. TerminalChunk = x \o CRLF
  BY <1>2
<1> HIDE DEF x
<1>7. /\ TerminalChunk \in Seq(WireByte) /\ Len(TerminalChunk) = 3 + 2
      /\ \A i \in 1 .. 3 : TerminalChunk[i] = x[i]
      /\ \A i \in 1 .. 2 : TerminalChunk[3 + i] = CRLF[i]
  <2>1. TerminalChunk \in Seq(WireByte) /\ IsJoin(TerminalChunk, x, CRLF, 3, 2)
    BY <1>4, <1>5, <1>6, Joined
  <2> QED
    BY <2>1 DEF IsJoin
<1>8. TerminalChunk[3 + 1] = r /\ TerminalChunk[3 + 2] = l
  BY <1>4, <1>7
<1> QED
  BY <1>5, <1>7, <1>8 DEF z, r, l

\* A call writes its chunk, if there is anything to send, and the terminal chunk
\* if nothing is to follow.
LEMMA MessageBytes ==
  ASSUME NEW op, NEW first \in Nat, NEW len \in Nat
  PROVE  LET m == Message(op, first, len)
             t == ChunkLen(len)
         IN  /\ t \in Nat
             /\ m \in Seq(WireByte)
             /\ Len(m) = IF op = "send" THEN t ELSE t + 5
             /\ len > 0 => \A i \in 1 .. t : m[i] = Chunk(first, len)[i]
             /\ op # "send" => \A i \in 1 .. 5 : m[t + i] = TerminalChunk[i]
<1> DEFINE a == IF len = 0 THEN <<>> ELSE Chunk(first, len)
           b == IF op = "send" THEN <<>> ELSE TerminalChunk
           t == ChunkLen(len)
           m == Message(op, first, len)
<1>1. a \in Seq(WireByte) /\ Len(a) = t /\ t \in Nat
  <2>1. CASE len = 0
    BY <2>1 DEF ChunkLen
  <2>2. CASE len # 0
    <3>1. Chunk(first, len) \in Seq(WireByte) /\ Len(Chunk(first, len)) = Width(len) + len + 4
      BY ChunkBytes
    <3>2. Width(len) \in Nat
      BY SizeLineBytes
    <3> QED
      BY <2>2, <3>1, <3>2 DEF ChunkLen
  <2> QED
    BY <2>1, <2>2
<1>2. b \in Seq(WireByte) /\ Len(b) = IF op = "send" THEN 0 ELSE 5
  <2>1. CASE op = "send"
    BY <2>1
  <2>2. CASE op # "send"
    BY <2>2, TerminalBytes
  <2> QED
    BY <2>1, <2>2
<1>3. m = a \o b
  BY DEF Message
<1>4. len > 0 => a = Chunk(first, len)
  OBVIOUS
<1>5. op # "send" => b = TerminalChunk
  OBVIOUS
<1> HIDE DEF a, b, m, t
<1>6. /\ m \in Seq(WireByte) /\ Len(m) = t + Len(b)
      /\ \A i \in 1 .. t : m[i] = a[i]
      /\ \A i \in 1 .. Len(b) : m[t + i] = b[i]
  <2>1. m \in Seq(WireByte) /\ IsJoin(m, a, b, t, Len(b))
    BY <1>1, <1>2, <1>3, Joined
  <2> QED
    BY <2>1 DEF IsJoin
<1>7. Len(m) = IF op = "send" THEN t ELSE t + 5
  BY <1>1, <1>2, <1>6
<1>8. len > 0 => \A i \in 1 .. t : m[i] = Chunk(first, len)[i]
  BY <1>4, <1>6
<1>9. op # "send" => \A i \in 1 .. 5 : m[t + i] = TerminalChunk[i]
  BY <1>2, <1>5, <1>6
<1> QED
  BY <1>1, <1>6, <1>7, <1>8, <1>9 DEF m, t

-----------------------------------------------------------------------------
(* The invariant.                                                          *)

\* The first data bytes of the body.
Numbers(k) == [i \in 1 .. k |-> i]

\* The client after j bytes of the chunk of len data bytes behind the first.
InChunk(c, first, len, j) ==
  LET w == Width(len) IN
    /\ j = 0 => c.at = "size"
    /\ j \in 1 .. w => c.at = "digits" /\ c.left = Values[len][j]
    /\ j = w + 1 => c.at = "sizeLF" /\ c.left = len
    /\ j \in w + 2 .. w + len + 1 => c.at = "data" /\ c.left = len - (j - w - 2)
    /\ j = w + len + 2 => c.at = "dataCR"
    /\ j = w + len + 3 => c.at = "dataLF"
    /\ j = w + len + 4 => c.at = "size"
    /\ j <= w + 2 => c.got = Numbers(first)
    /\ j \in w + 2 .. w + len + 2 => c.got = Numbers(first + (j - w - 2))
    /\ j >= w + len + 2 => c.got = Numbers(first + len)

\* The client after j bytes of the terminal chunk of a body.
InEnd(c, total, j) ==
  /\ j = 0 => c.at = "size"
  /\ j = 1 => c.at = "digits" /\ c.left = 0
  /\ j = 2 => c.at = "sizeLF" /\ c.left = 0
  /\ j = 3 => c.at = "lastCR"
  /\ j = 4 => c.at = "lastLF"
  /\ j = 5 => c.at = "end"
  /\ c.got = Numbers(total)

Client == [at : Places, left : Nat, got : Seq(Nat)]

ChunkedTypeOK ==
  /\ pc \in {"ready", "writing", "finished"}
  /\ call \in [op : {"-", "body", "send", "finish"}, len : Nat]
  /\ sends \in Nat
  /\ given \in Nat /\ call.len <= given
  /\ out \in Seq(WireByte)
  /\ cw \in [bytes_sent : Nat, error : BOOLEAN]
  /\ result \in Int
  /\ gone \in BOOLEAN
  /\ client \in Client

\* Data bytes handed over before the call.
Earlier == given - call.len

\* The client after j bytes of what a call writes, with the rest still out.
Position(c, o, op, first, len, j) ==
  LET m == Message(op, first, len)
      t == ChunkLen(len)
  IN  /\ j < Len(m)
      /\ o = SubSeq(m, j + 1, Len(m))
      /\ j <= t => InChunk(c, first, len, j)
      /\ j >= t => InEnd(c, first + len, j - t)

Taken(j) == Position(client, out, call.op, Earlier, call.len, j)

Writing ==
  pc = "writing" =>
    /\ call.op \in {"body", "send", "finish"}
    /\ call.op = "send" => call.len > 0 /\ sends > 0
    /\ call.op = "finish" => call.len = 0
    /\ call.op = "body" => call.len = given
    /\ ~cw.error /\ cw.bytes_sent = Earlier
    /\ \E j \in Nat : Taken(j)

Ready ==
  pc = "ready" =>
    /\ call.op \in {"-", "send"}
    /\ sends = 0 => given = 0 /\ ~cw.error
    /\ ~cw.error => /\ client.at = "size" /\ client.got = Numbers(given)
                    /\ cw.bytes_sent = given /\ result = 0

Failed == cw.error => result = -1 /\ client.at # "end"

Finishing ==
  pc = "finished" =>
    /\ call.op \in {"body", "finish"}
    /\ result >= 0 => /\ client.at = "end" /\ client.got = Numbers(given)
                      /\ call.op = "body" => result = given
    /\ result < 0 => client.at # "end"

ChunkedInv ==
  /\ ChunkedTypeOK
  /\ client.at # "bad"
  /\ cw.bytes_sent <= Len(client.got)
  /\ Writing
  /\ Ready
  /\ Failed
  /\ Finishing

-----------------------------------------------------------------------------
(* The client's steps.                                                     *)

\* The data bytes, one more.
LEMMA NumbersFacts ==
  ASSUME NEW k \in Nat
  PROVE  /\ Numbers(k) \in Seq(Nat) /\ Len(Numbers(k)) = k
         /\ Append(Numbers(k), k + 1) = Numbers(k + 1)
<1> DEFINE a == Numbers(k)
           b == Numbers(k + 1)
           c == Append(a, k + 1)
<1>1. a \in Seq(Nat) /\ Len(a) = k /\ b \in Seq(Nat) /\ Len(b) = k + 1
  BY DEF Numbers
<1>2. (\A i \in 1 .. k : a[i] = i) /\ (\A i \in 1 .. k + 1 : b[i] = i)
  BY DEF Numbers
<1> HIDE DEF a, b
<1>3. /\ c \in Seq(Nat) /\ Len(c) = k + 1
      /\ \A i \in 1 .. k : c[i] = a[i]
      /\ c[k + 1] = k + 1
  BY <1>1, AppendProperties
<1>4. \A i \in 1 .. k + 1 : c[i] = b[i]
  BY <1>2, <1>3
<1>5. c = b
  <2> HIDE DEF c
  <2> QED
    BY <1>1, <1>3, <1>4, SeqEqual
<1> QED
  BY <1>1, <1>5 DEF a, b

\* The grammar expects one byte in each of its places.
LEMMA GrammarFacts ==
  ASSUME NEW e \in Grammar
  PROVE  /\ e.at \in {"digits", "dataCR", "dataLF", "lastCR", "lastLF"}
         /\ e.at = "digits" => e.kind = "CR"
         /\ \A f \in Grammar : f.at = e.at => f = e
<1> DEFINE e1 == Expects("digits", "CR", "sizeLF")
           e2 == Expects("dataCR", "CR", "dataLF")
           e3 == Expects("dataLF", "LF", "size")
           e4 == Expects("lastCR", "CR", "lastLF")
           e5 == Expects("lastLF", "LF", "end")
<1>1. /\ e1.at = "digits" /\ e2.at = "dataCR" /\ e3.at = "dataLF" /\ e4.at = "lastCR"
      /\ e5.at = "lastLF" /\ e1.kind = "CR"
  BY DEF Expects
<1>2. Grammar = {e1, e2, e3, e4, e5}
  BY DEF Grammar
<1> HIDE DEF e1, e2, e3, e4, e5
<1>3. \A f \in Grammar : /\ f.at = "digits" => f = e1
                         /\ f.at = "dataCR" => f = e2
                         /\ f.at = "dataLF" => f = e3
                         /\ f.at = "lastCR" => f = e4
                         /\ f.at = "lastLF" => f = e5
  BY <1>1, <1>2
<1>4. e.at \in {"digits", "dataCR", "dataLF", "lastCR", "lastLF"}
  BY <1>1, <1>2
<1> QED
  BY <1>1, <1>3, <1>4

\* What a digit or a data byte does to the client.
LEMMA ReadStep ==
  ASSUME NEW c \in Client, NEW k \in Nat
  PROVE  /\ c.at = "size" =>
              Read(c, Byte("digit", k)) = [at |-> "digits", left |-> k, got |-> c.got]
         /\ c.at = "digits" =>
              Read(c, Byte("digit", k)) = [at |-> "digits", left |-> Base * c.left + k, got |-> c.got]
         /\ c.at = "data" =>
              Read(c, Byte("data", k))
                = [at |-> IF c.left = 1 THEN "dataCR" ELSE "data",
                   left |-> c.left - 1, got |-> Append(c.got, k)]
<1>1. \A kind, n : Byte(kind, n).kind = kind /\ Byte(kind, n).n = n
  BY DEF Byte
<1>2. c = [at |-> c.at, left |-> c.left, got |-> c.got]
  BY DEF Client
<1>3. ASSUME c.at = "size"
      PROVE  Read(c, Byte("digit", k)) = [at |-> "digits", left |-> k, got |-> c.got]
  <2> DEFINE b == Byte("digit", k)
  <2>1. ~(\E e \in Grammar : e.at = c.at /\ e.kind = b.kind)
    BY <1>3, GrammarFacts
  <2>2. b.kind = "digit" /\ b.n = k
    BY <1>1
  <2> HIDE DEF b
  <2>3. Read(c, b) = [c EXCEPT !.at = "digits", !.left = b.n]
    BY <2>1, <2>2, <1>3, Zenon DEF Read
  <2> QED
    BY <2>2, <2>3, <1>2 DEF b, Client
<1>4. ASSUME c.at = "digits"
      PROVE  Read(c, Byte("digit", k)) = [at |-> "digits", left |-> Base * c.left + k, got |-> c.got]
  <2> DEFINE b == Byte("digit", k)
  <2>1. b.kind = "digit" /\ b.n = k
    BY <1>1
  <2>2. ~(\E e \in Grammar : e.at = c.at /\ e.kind = b.kind)
    BY <1>4, <2>1, GrammarFacts
  <2> HIDE DEF b
  <2>3. Read(c, b) = [c EXCEPT !.left = Base * c.left + b.n]
    BY <2>1, <2>2, <1>4, Zenon DEF Read
  <2> QED
    BY <2>1, <2>3, <1>2, <1>4 DEF b, Client
<1>5. ASSUME c.at = "data"
      PROVE  Read(c, Byte("data", k))
               = [at |-> IF c.left = 1 THEN "dataCR" ELSE "data",
                  left |-> c.left - 1, got |-> Append(c.got, k)]
  <2> DEFINE b == Byte("data", k)
  <2>1. b.n = k
    BY <1>1
  <2>2. ~(\E e \in Grammar : e.at = c.at /\ e.kind = b.kind)
    BY <1>5, GrammarFacts
  <2> HIDE DEF b
  <2>3. Read(c, b) = [at |-> IF c.left = 1 THEN "dataCR" ELSE "data",
                      left |-> c.left - 1, got |-> Append(c.got, b.n)]
    BY <2>2, <1>5, Zenon DEF Read
  <2> QED
    BY <2>1, <2>3 DEF b
<1> QED
  BY <1>3, <1>4, <1>5

\* A byte the grammar expects leads to the next place.
LEMMA ReadGrammar ==
  ASSUME NEW c \in Client, NEW e \in Grammar, c.at = e.at
  PROVE  Read(c, Byte(e.kind, 0)) = [at |-> e.next, left |-> c.left, got |-> c.got]
<1> DEFINE b == Byte(e.kind, 0)
<1>1. b.kind = e.kind
  BY DEF Byte
<1>2. (CHOOSE f \in Grammar : f.at = c.at /\ f.kind = b.kind) = e
  BY <1>1, GrammarFacts
<1>3. /\ c.at \in {"digits", "dataCR", "dataLF", "lastCR", "lastLF"}
      /\ c.at = "digits" => b.kind = "CR"
  BY <1>1, GrammarFacts
<1>4. Read(c, b) = [c EXCEPT !.at = e.next]
  <2> HIDE DEF b
  <2>1. \E f \in Grammar : f.at = c.at /\ f.kind = b.kind
    BY <1>1
  <2> QED
    BY <1>2, <1>3, <2>1, Zenon DEF Read
<1> QED
  BY <1>4 DEF Client

\* A byte that brings no data, or the next byte of the body.
Advances(c, d, total) ==
  /\ d \in Client
  /\ \/ d.got = c.got
     \/ /\ Len(c.got) < total /\ c.at = "data" /\ d.at # "end"
        /\ d.got = Append(c.got, Len(c.got) + 1)

\* The bytes that the grammar names one by one.
LEMMA ReadLines ==
  ASSUME NEW c \in Client
  PROVE  /\ c.at = "digits" => Read(c, Byte("CR", 0)) = [at |-> "sizeLF", left |-> c.left, got |-> c.got]
         /\ c.at = "sizeLF" => Read(c, Byte("LF", 0))
              = [at |-> IF c.left = 0 THEN "lastCR" ELSE "data", left |-> c.left, got |-> c.got]
         /\ c.at = "dataCR" => Read(c, Byte("CR", 0)) = [at |-> "dataLF", left |-> c.left, got |-> c.got]
         /\ c.at = "dataLF" => Read(c, Byte("LF", 0)) = [at |-> "size", left |-> c.left, got |-> c.got]
         /\ c.at = "lastCR" => Read(c, Byte("CR", 0)) = [at |-> "lastLF", left |-> c.left, got |-> c.got]
         /\ c.at = "lastLF" => Read(c, Byte("LF", 0)) = [at |-> "end", left |-> c.left, got |-> c.got]
<1>1. \A x, y, z : /\ Expects(x, y, z).at = x /\ Expects(x, y, z).kind = y
                   /\ Expects(x, y, z).next = z
  BY DEF Expects
<1>2. /\ Expects("digits", "CR", "sizeLF") \in Grammar
      /\ Expects("dataCR", "CR", "dataLF") \in Grammar
      /\ Expects("dataLF", "LF", "size") \in Grammar
      /\ Expects("lastCR", "CR", "lastLF") \in Grammar
      /\ Expects("lastLF", "LF", "end") \in Grammar
  BY DEF Grammar
<1>3. ASSUME NEW x, NEW y, NEW z, Expects(x, y, z) \in Grammar, c.at = x
      PROVE  Read(c, Byte(y, 0)) = [at |-> z, left |-> c.left, got |-> c.got]
  <2> DEFINE e == Expects(x, y, z)
  <2>1. e \in Grammar /\ e.at = x /\ e.kind = y /\ e.next = z
    BY <1>1, <1>3
  <2> HIDE DEF e
  <2> QED
    BY <2>1, <1>3, ReadGrammar
<1>4. \A kind, n : Byte(kind, n).kind = kind
  BY DEF Byte
<1>5. c = [at |-> c.at, left |-> c.left, got |-> c.got]
  BY DEF Client
<1>6. ASSUME c.at = "sizeLF"
      PROVE  Read(c, Byte("LF", 0))
               = [at |-> IF c.left = 0 THEN "lastCR" ELSE "data", left |-> c.left, got |-> c.got]
  <2> DEFINE b == Byte("LF", 0)
  <2>1. b.kind = "LF"
    BY <1>4
  <2>2. ~(\E e \in Grammar : e.at = c.at /\ e.kind = b.kind)
    BY <1>6, GrammarFacts
  <2> HIDE DEF b
  <2>3. Read(c, b) = [c EXCEPT !.at = IF c.left = 0 THEN "lastCR" ELSE "data"]
    BY <2>1, <2>2, <1>6, Zenon DEF Read
  <2> QED
    BY <2>3, <1>5 DEF b, Client
<1> QED
  BY <1>2, <1>3, <1>6

\* A byte that brings no data.
LEMMA Moves ==
  ASSUME NEW c \in Client, NEW p \in Places, NEW l \in Nat, NEW total,
         NEW d, d = [at |-> p, left |-> l, got |-> c.got]
  PROVE  Advances(c, d, total)
<1>1. d \in Client
  <2>1. c.got \in Seq(Nat)
    BY DEF Client
  <2> QED
    BY <2>1 DEF Client
<1>2. d.got = c.got
  OBVIOUS
<1> QED
  BY <1>1, <1>2 DEF Advances

\* Every byte of a chunk takes the client one place further.
LEMMA ChunkStep ==
  ASSUME NEW c \in Client, NEW first \in Nat, NEW len \in Nat, len > 0, NEW j \in Nat,
         j < Width(len) + len + 4, InChunk(c, first, len, j),
         NEW b, b = Chunk(first, len)[j + 1], NEW d, d = Read(c, b)
  PROVE  InChunk(d, first, len, j + 1) /\ Advances(c, d, first + len)
<1> DEFINE w == Width(len)
           k == first + len
<1>1. w \in Nat /\ w >= 1 /\ w = Width(len) /\ k \in Nat /\ k = first + len
  BY SizeLineBytes
<1>2. /\ \A i \in 1 .. w : Chunk(first, len)[i] = Byte("digit", Digits[len][i])
      /\ Chunk(first, len)[w + 1] = Byte("CR", 0)
      /\ Chunk(first, len)[w + 2] = Byte("LF", 0)
      /\ \A i \in 1 .. len : Chunk(first, len)[w + 2 + i] = Byte("data", first + i)
      /\ Chunk(first, len)[w + len + 3] = Byte("CR", 0)
      /\ Chunk(first, len)[w + len + 4] = Byte("LF", 0)
  BY ChunkBytes
<1>3. /\ \A i \in 1 .. w : Digits[len][i] \in Nat /\ Values[len][i] \in Nat
      /\ Values[len][1] = Digits[len][1]
      /\ \A i \in 1 .. w - 1 : Values[len][i + 1] = Base * Values[len][i] + Digits[len][i + 1]
      /\ Values[len][w] = len
  <2>1. /\ Digits[len] \in Seq(Nat) /\ Values[len] \in Seq(Nat)
        /\ Len(Digits[len]) = w /\ Len(Values[len]) = w
    BY DigitsDef, ValuesDef, SpellsOut DEF Spelled, Width
  <2> HIDE DEF w
  <2>2. \A i \in 1 .. w : Digits[len][i] \in Nat /\ Values[len][i] \in Nat
    BY <2>1, ElementOfSeq
  <2>3. Spelled(len)
    BY SpellsOut
  <2> QED
    BY <2>1, <2>2, <2>3, Zenon DEF Spelled
<1> HIDE DEF w, k
<1>4. CASE j = 0
  <2>1. b = Byte("digit", Digits[len][1]) /\ Digits[len][1] \in Nat /\ j + 1 = 1
    BY <1>1, <1>2, <1>3, <1>4
  <2>2. c.at = "size" /\ c.got = Numbers(first)
    BY <1>1, <1>4 DEF InChunk
  <2>3. d = [at |-> "digits", left |-> Digits[len][1], got |-> c.got]
    BY <2>1, <2>2, ReadStep
  <2>4. d.at = "digits" /\ d.left = Values[len][1] /\ d.got = Numbers(first)
    BY <1>3, <2>2, <2>3
  <2>5. InChunk(d, first, len, 1)
    BY <1>1, <2>4 DEF InChunk
  <2>6. Advances(c, d, k)
    BY <2>1, <2>3, Moves DEF Places
  <2> QED
    BY <1>1, <2>1, <2>5, <2>6
<1>5. CASE j \in 1 .. w - 1
  <2>1. /\ b = Byte("digit", Digits[len][j + 1]) /\ Digits[len][j + 1] \in Nat
        /\ Values[len][j + 1] = Base * Values[len][j] + Digits[len][j + 1]
        /\ Values[len][j + 1] \in Nat
    BY <1>1, <1>2, <1>3, <1>5
  <2>2. c.at = "digits" /\ c.left = Values[len][j] /\ c.got = Numbers(first)
    BY <1>1, <1>5 DEF InChunk
  <2>3. d = [at |-> "digits", left |-> Values[len][j + 1], got |-> c.got]
    BY <2>1, <2>2, ReadStep
  <2>4. d.at = "digits" /\ d.left = Values[len][j + 1] /\ d.got = Numbers(first)
    BY <2>2, <2>3
  <2>5. InChunk(d, first, len, j + 1)
    BY <1>1, <1>5, <2>4 DEF InChunk
  <2>6. Advances(c, d, k)
    BY <2>1, <2>3, Moves DEF Places
  <2> QED
    BY <1>1, <2>5, <2>6
<1>6. CASE j = w
  <2>1. b = Byte("CR", 0)
    BY <1>2, <1>6
  <2>2. c.at = "digits" /\ c.left = len /\ c.got = Numbers(first)
    BY <1>1, <1>3, <1>6 DEF InChunk
  <2>3. d = [at |-> "sizeLF", left |-> len, got |-> c.got]
    BY <2>1, <2>2, ReadLines
  <2>4. d.at = "sizeLF" /\ d.left = len /\ d.got = Numbers(first)
    BY <2>2, <2>3
  <2>5. InChunk(d, first, len, j + 1)
    BY <1>1, <1>6, <2>4 DEF InChunk
  <2>6. Advances(c, d, k)
    BY <2>3, Moves DEF Places
  <2> QED
    BY <1>1, <2>5, <2>6
<1>7. CASE j = w + 1
  <2>1. b = Byte("LF", 0) /\ j + 1 = w + 2
    <3>1. j + 1 = w + 2
      BY <1>1, <1>7
    <3> QED
      BY <1>2, <3>1
  <2>2. c.at = "sizeLF" /\ c.left = len /\ c.got = Numbers(first)
    BY <1>1, <1>7 DEF InChunk
  <2>3. d = [at |-> "data", left |-> len, got |-> c.got]
    BY <2>1, <2>2, ReadLines
  <2>4. d.at = "data" /\ d.left = len /\ d.got = Numbers(first)
    BY <2>2, <2>3
  <2>5. InChunk(d, first, len, w + 2)
    <3>1. first + ((w + 2) - w - 2) = first /\ len - ((w + 2) - w - 2) = len
      BY <1>1
    <3> QED
      BY <1>1, <2>4, <3>1 DEF InChunk
  <2>6. Advances(c, d, k)
    BY <2>3, Moves DEF Places
  <2> QED
    BY <1>1, <2>1, <2>5, <2>6
<1>8. CASE j \in w + 2 .. w + len + 1
  <2> DEFINE i == j - w - 2
             x == first + i
  <2>1. /\ i \in 0 .. len - 1 /\ x \in Nat /\ x < k /\ j = w + 2 + i /\ j + 1 = w + 2 + (i + 1)
        /\ x + 1 = first + (i + 1) /\ i + 1 = j + 1 - w - 2
    BY <1>1, <1>8
  <2> HIDE DEF i
  <2>2. b = Byte("data", x + 1)
    BY <1>2, <2>1
  <2>3. c.at = "data" /\ c.left = len - i /\ c.got = Numbers(x)
    BY <1>1, <1>8 DEF InChunk, i
  <2> HIDE DEF x
  <2>4. d = [at |-> IF c.left = 1 THEN "dataCR" ELSE "data", left |-> c.left - 1,
             got |-> Append(c.got, x + 1)]
    <3>1. x + 1 \in Nat
      BY <2>1
    <3> QED
      BY <2>2, <2>3, <3>1, ReadStep
  <2>5. Append(c.got, x + 1) = Numbers(x + 1) /\ Len(c.got) = x /\ Numbers(x + 1) \in Seq(Nat)
    <3>1. x + 1 \in Nat
      BY <2>1
    <3> QED
      BY <2>1, <2>3, <3>1, NumbersFacts
  <2>6. /\ d.at = IF i + 1 = len THEN "dataCR" ELSE "data"
        /\ d.left = len - (i + 1) /\ d.left \in Nat
        /\ d.got = Numbers(x + 1)
    <3>1. c.left - 1 = len - (i + 1) /\ c.left - 1 \in Nat /\ (c.left = 1 <=> i + 1 = len)
      BY <2>1, <2>3
    <3> QED
      BY <2>4, <2>5, <3>1
  <2>7. InChunk(d, first, len, j + 1)
    <3>1. CASE i + 1 = len
      <4>1. d.at = "dataCR" /\ d.got = Numbers(first + len) /\ j + 1 = w + len + 2
            /\ first + (j + 1 - w - 2) = first + len
        BY <1>1, <2>1, <2>6, <3>1
      <4> QED
        BY <1>1, <4>1 DEF InChunk
    <3>2. CASE i + 1 # len
      <4>1. /\ d.at = "data" /\ d.left = len - (j + 1 - w - 2)
            /\ d.got = Numbers(first + (j + 1 - w - 2))
        BY <2>1, <2>6, <3>2
      <4>2. j + 1 \in w + 3 .. w + len + 1
        BY <1>1, <2>1, <3>2
      <4> QED
        BY <1>1, <4>1, <4>2 DEF InChunk
    <3> QED
      BY <3>1, <3>2
  <2>8. Advances(c, d, k)
    <3>1. d \in Client
      <4>1. d.at \in Places /\ d.left \in Nat /\ d.got \in Seq(Nat)
        BY <2>5, <2>6 DEF Places
      <4> QED
        BY <2>4, <4>1 DEF Client
    <3>2. d.got = Append(c.got, Len(c.got) + 1) /\ Len(c.got) < k /\ d.at # "end"
      BY <2>1, <2>5, <2>6
    <3> QED
      BY <3>1, <3>2, <2>3 DEF Advances
  <2> QED
    BY <1>1, <2>7, <2>8
<1>9. CASE j = w + len + 2
  <2>1. b = Byte("CR", 0)
    <3>1. j + 1 = w + len + 3
      BY <1>1, <1>9
    <3> QED
      BY <1>2, <3>1
  <2>2. c.at = "dataCR" /\ c.got = Numbers(first + len)
    BY <1>1, <1>9 DEF InChunk
  <2>3. d = [at |-> "dataLF", left |-> c.left, got |-> c.got]
    BY <2>1, <2>2, ReadLines
  <2>4. d.at = "dataLF" /\ d.got = Numbers(first + len)
    BY <2>2, <2>3
  <2>5. InChunk(d, first, len, j + 1)
    BY <1>1, <1>9, <2>4 DEF InChunk
  <2>6. Advances(c, d, k)
    <3>1. c.left \in Nat
      BY DEF Client
    <3> QED
      BY <2>3, <3>1, Moves DEF Places
  <2> QED
    BY <1>1, <2>5, <2>6
<1>10. CASE j = w + len + 3
  <2>1. b = Byte("LF", 0)
    <3>1. j + 1 = w + len + 4
      BY <1>1, <1>10
    <3> QED
      BY <1>2, <3>1
  <2>2. c.at = "dataLF" /\ c.got = Numbers(first + len)
    BY <1>1, <1>10 DEF InChunk
  <2>3. d = [at |-> "size", left |-> c.left, got |-> c.got]
    BY <2>1, <2>2, ReadLines
  <2>4. d.at = "size" /\ d.got = Numbers(first + len)
    BY <2>2, <2>3
  <2>5. InChunk(d, first, len, j + 1)
    BY <1>1, <1>10, <2>4 DEF InChunk
  <2>6. Advances(c, d, k)
    <3>1. c.left \in Nat
      BY DEF Client
    <3> QED
      BY <2>3, <3>1, Moves DEF Places
  <2> QED
    BY <1>1, <2>5, <2>6
<1>11. \/ j = 0 \/ j \in 1 .. w - 1 \/ j = w \/ j = w + 1 \/ j \in w + 2 .. w + len + 1
       \/ j = w + len + 2 \/ j = w + len + 3
  BY <1>1
<1> QED
  BY <1>4, <1>5, <1>6, <1>7, <1>8, <1>9, <1>10, <1>11

\* So does every byte of the terminal chunk, and the last one is the end.
LEMMA EndStep ==
  ASSUME NEW c \in Client, NEW total \in Nat, NEW j \in 0 .. 4, InEnd(c, total, j),
         NEW b, b = TerminalChunk[j + 1], NEW d, d = Read(c, b)
  PROVE  InEnd(d, total, j + 1) /\ d \in Client /\ d.got = c.got
<1>1. c.left \in Nat /\ c.got \in Seq(Nat)
  BY DEF Client
<1>2. CASE j = 0
  <2>1. b = Byte("digit", 0) /\ c.at = "size"
    BY <1>2, TerminalBytes DEF InEnd
  <2>2. d = [at |-> "digits", left |-> 0, got |-> c.got]
    BY <2>1, ReadStep
  <2> QED
    BY <1>1, <1>2, <2>2 DEF InEnd, Client, Places
<1>3. CASE j = 1
  <2>1. b = Byte("CR", 0) /\ c.at = "digits" /\ c.left = 0
    BY <1>3, TerminalBytes DEF InEnd
  <2>2. d = [at |-> "sizeLF", left |-> 0, got |-> c.got]
    BY <2>1, ReadLines
  <2> QED
    BY <1>1, <1>3, <2>2 DEF InEnd, Client, Places
<1>4. CASE j = 2
  <2>1. b = Byte("LF", 0) /\ c.at = "sizeLF" /\ c.left = 0
    BY <1>4, TerminalBytes DEF InEnd
  <2>2. d = [at |-> "lastCR", left |-> 0, got |-> c.got]
    BY <2>1, ReadLines
  <2> QED
    BY <1>1, <1>4, <2>2 DEF InEnd, Client, Places
<1>5. CASE j = 3
  <2>1. b = Byte("CR", 0) /\ c.at = "lastCR"
    BY <1>5, TerminalBytes DEF InEnd
  <2>2. d = [at |-> "lastLF", left |-> c.left, got |-> c.got]
    BY <2>1, ReadLines
  <2> QED
    BY <1>1, <1>5, <2>2 DEF InEnd, Client, Places
<1>6. CASE j = 4
  <2>1. b = Byte("LF", 0) /\ c.at = "lastLF"
    BY <1>6, TerminalBytes DEF InEnd
  <2>2. d = [at |-> "end", left |-> c.left, got |-> c.got]
    BY <2>1, ReadLines
  <2> QED
    BY <1>1, <1>6, <2>2 DEF InEnd, Client, Places
<1> QED
  BY <1>2, <1>3, <1>4, <1>5, <1>6

\* Before the first byte the client stands between two chunks.
LEMMA Starts ==
  ASSUME NEW op, NEW first \in Nat, NEW len \in Nat, op = "send" => len > 0,
         NEW c, c.at = "size", c.got = Numbers(first)
  PROVE  Position(c, Message(op, first, len), op, first, len, 0)
<1> DEFINE m == Message(op, first, len)
           t == ChunkLen(len)
<1>1. m \in Seq(WireByte) /\ Len(m) \in Nat /\ t \in Nat /\ (len = 0 <=> t = 0) /\ Len(m) > 0
  <2>1. Width(len) \in Nat
    BY SizeLineBytes
  <2>2. t \in Nat /\ (len = 0 <=> t = 0)
    BY <2>1 DEF ChunkLen
  <2>3. m \in Seq(WireByte) /\ Len(m) = IF op = "send" THEN t ELSE t + 5
    BY MessageBytes
  <2> HIDE DEF m, t
  <2> QED
    BY <2>2, <2>3
<1>2. m = SubSeq(m, 1, Len(m))
  BY <1>1, SubSeqFull
<1>3. InChunk(c, first, len, 0)
  <2>1. Width(len) \in Nat /\ Width(len) >= 1
    BY SizeLineBytes
  <2> QED
    BY <2>1 DEF InChunk
<1>4. ASSUME 0 >= t PROVE InEnd(c, first + len, 0 - t)
  <2>1. first + len = first /\ 0 - t = 0
    BY <1>1, <1>4
  <2> QED
    BY <2>1 DEF InEnd
<1> HIDE DEF m, t
<1>5. 0 + 1 = 1
  OBVIOUS
<1> QED
  BY <1>1, <1>2, <1>3, <1>4, <1>5 DEF Position, m, t

\* In the middle of what a call writes the client is neither at the end nor lost.
LEMMA Midway ==
  ASSUME NEW op, NEW first \in Nat, NEW len \in Nat, NEW c, NEW o, NEW j \in Nat,
         Position(c, o, op, first, len, j)
  PROVE  c.at \notin {"end", "bad"}
<1> DEFINE m == Message(op, first, len)
           t == ChunkLen(len)
           w == Width(len)
<1>1. t \in Nat /\ w \in Nat /\ t = (IF len = 0 THEN 0 ELSE w + len + 4)
  <2>1. w \in Nat
    BY SizeLineBytes
  <2> HIDE DEF w
  <2>2. t = (IF len = 0 THEN 0 ELSE w + len + 4)
    BY DEF ChunkLen, w
  <2> QED
    BY <2>1, <2>2
<1>2. j < Len(m) /\ (j <= t => InChunk(c, first, len, j)) /\ (j >= t => InEnd(c, first + len, j - t))
  BY DEF Position
<1>3. Len(m) = IF op = "send" THEN t ELSE t + 5
  BY MessageBytes
<1>4. w = Width(len)
  OBVIOUS
<1> HIDE DEF m, t, w
<1>5. CASE j < t
  <2>1. InChunk(c, first, len, j) /\ j < w + len + 4
    BY <1>1, <1>2, <1>5
  <2>2. j = 0 \/ j \in 1 .. w \/ j = w + 1 \/ j \in w + 2 .. w + len + 1 \/ j = w + len + 2 \/ j = w + len + 3
    BY <1>1, <2>1
  <2> QED
    BY <1>4, <2>1, <2>2 DEF InChunk
<1>6. CASE j >= t
  <2> DEFINE i == j - t
  <2>1. i \in 0 .. 4 /\ InEnd(c, first + len, i)
    BY <1>1, <1>2, <1>3, <1>6
  <2> HIDE DEF i
  <2>2. i = 0 \/ i = 1 \/ i = 2 \/ i = 3 \/ i = 4
    BY <2>1
  <2> QED
    BY <2>1, <2>2 DEF InEnd
<1> QED
  BY <1>1, <1>5, <1>6

\* The next byte takes the client one place further, and the last one to where a
\* call leaves it.
LEMMA Continues ==
  ASSUME NEW op, NEW first \in Nat, NEW len \in Nat, NEW c \in Client, NEW o, NEW j \in Nat,
         Position(c, o, op, first, len, j), NEW d, d = Read(c, Head(o))
  PROVE  /\ o \in Seq(WireByte) /\ o # <<>>
         /\ Advances(c, d, first + len)
         /\ Len(o) > 1 => Position(d, Tail(o), op, first, len, j + 1)
         /\ Len(o) <= 1 =>
              /\ d.got = Numbers(first + len) /\ d.at = (IF op = "send" THEN "size" ELSE "end")
              /\ op # "send" => d.got = c.got
<1> DEFINE m == Message(op, first, len)
           t == ChunkLen(len)
           n == Len(m)
           total == first + len
<1>1. /\ t \in Nat /\ Width(len) \in Nat /\ total \in Nat /\ total = first + len
      /\ len > 0 => t = Width(len) + len + 4
      /\ len = 0 => t = 0
  <2>1. Width(len) \in Nat
    BY SizeLineBytes
  <2> QED
    BY <2>1 DEF ChunkLen
<1>2. n \in Nat /\ j < n /\ (op = "send" => n = t) /\ (op # "send" => n = t + 5)
  <2>1. Len(m) = (IF op = "send" THEN t ELSE t + 5)
    BY MessageBytes
  <2>2. j < Len(m)
    BY DEF Position
  <2> HIDE DEF m, t
  <2> QED
    BY <1>1, <2>1, <2>2
<1>3. /\ m \in Seq(WireByte)
      /\ len > 0 => \A i \in 1 .. t : m[i] = Chunk(first, len)[i]
      /\ op # "send" => \A i \in 1 .. 5 : m[t + i] = TerminalChunk[i]
  <2>1. m \in Seq(WireByte)
    BY MessageBytes
  <2>2. len > 0 => \A i \in 1 .. t : m[i] = Chunk(first, len)[i]
    BY MessageBytes
  <2>3. op # "send" => \A i \in 1 .. 5 : m[t + i] = TerminalChunk[i]
    <3> SUFFICES ASSUME op # "send", NEW i \in 1 .. 5
                 PROVE  m[t + i] = TerminalChunk[i]
      OBVIOUS
    <3> QED
      BY MessageBytes
  <2> QED
    BY <2>1, <2>2, <2>3
<1>4. /\ o = SubSeq(m, j + 1, n)
      /\ j <= t => InChunk(c, first, len, j)
      /\ j >= t => InEnd(c, total, j - t)
  BY DEF Position
<1>5. m = Message(op, first, len) /\ t = ChunkLen(len) /\ n = Len(m)
  OBVIOUS
<1> HIDE DEF m, t, n, total
<1>6. /\ o \in Seq(WireByte) /\ Len(o) = n - j /\ Head(o) = m[j + 1]
      /\ Tail(o) = SubSeq(m, (j + 1) + 1, n)
  <2>1. j + 1 \in 1 .. n /\ n \in j + 1 .. n
    BY <1>2
  <2>2. \A i \in j + 1 .. n : m[i] \in WireByte
    <3>1. \A i \in 1 .. n : m[i] \in WireByte
      BY <1>3, <1>5
    <3> QED
      BY <1>2, <3>1
  <2>3. o \in Seq(WireByte) /\ Len(o) = n - j
    <3>1. /\ SubSeq(m, j + 1, n) \in Seq(WireByte)
          /\ Len(SubSeq(m, j + 1, n)) = IF j + 1 <= n THEN n - (j + 1) + 1 ELSE 0
      BY <1>2, <2>2, SubSeqProperties
    <3> QED
      BY <1>2, <1>4, <3>1
  <2> QED
    BY <1>3, <1>4, <1>5, <2>1, <2>3, HeadTailOfSubSeq
<1>7. CASE j < t
  <2>1. Len(o) = n - j
    BY <1>6
  <2>2. len > 0 /\ j < Width(len) + len + 4 /\ t = Width(len) + len + 4 /\ j + 1 \in 1 .. t /\ j <= t
    BY <1>1, <1>7
  <2>3. Head(o) = Chunk(first, len)[j + 1]
    BY <1>3, <1>6, <2>2
  <2>4. InChunk(d, first, len, j + 1) /\ Advances(c, d, total)
    <3>1. InChunk(c, first, len, j)
      BY <1>4, <2>2
    <3> QED
      BY <1>1, <2>2, <2>3, <3>1, ChunkStep
  <2>5. ASSUME j + 1 = t
        PROVE  d.at = "size" /\ d.got = Numbers(total) /\ InEnd(d, total, 0)
    <3>1. j + 1 = Width(len) + len + 4
      BY <2>2, <2>5
    <3>2. d.at = "size" /\ d.got = Numbers(total)
      BY <1>1, <2>4, <3>1 DEF InChunk
    <3> QED
      BY <3>2 DEF InEnd
  <2>6. ASSUME Len(o) > 1 PROVE Position(d, Tail(o), op, first, len, j + 1)
    <3>1. j + 1 < n /\ j + 1 <= t
      BY <1>1, <1>2, <2>1, <1>7, <2>6
    <3>2. ASSUME j + 1 >= t PROVE InEnd(d, total, (j + 1) - t)
      <4>1. j + 1 = t /\ (j + 1) - t = 0
        BY <1>1, <3>1, <3>2
      <4> QED
        BY <2>5, <4>1
    <3> QED
      BY <1>1, <1>5, <1>6, <2>4, <3>1, <3>2, Zenon DEF Position
  <2>7. ASSUME Len(o) <= 1
        PROVE  d.got = Numbers(total) /\ d.at = "size" /\ op = "send"
    <3>1. op = "send" /\ j + 1 = t
      BY <1>1, <1>2, <2>1, <1>7, <2>7
    <3> QED
      BY <2>5, <3>1
  <2>8. o # <<>>
    BY <1>2, <2>1
  <2> QED
    BY <1>1, <1>6, <2>4, <2>6, <2>7, <2>8
<1>8. CASE j >= t
  <2> DEFINE i == j - t
  <2>1. Len(o) = n - j
    BY <1>6
  <2>2. op # "send" /\ i \in 0 .. 4 /\ i + 1 \in 1 .. 5 /\ j + 1 = t + (i + 1) /\ (j + 1) - t = i + 1
    BY <1>1, <1>2, <1>8
  <2>3. InEnd(c, total, i)
    BY <1>4, <1>8
  <2> HIDE DEF i
  <2>4. Head(o) = TerminalChunk[i + 1]
    BY <1>3, <1>6, <2>2
  <2>5. InEnd(d, total, i + 1) /\ d \in Client /\ d.got = c.got
    BY <1>1, <2>2, <2>3, <2>4, EndStep
  <2>6. Advances(c, d, total)
    BY <2>5 DEF Advances
  <2>7. ASSUME Len(o) > 1 PROVE Position(d, Tail(o), op, first, len, j + 1)
    <3>1. j + 1 < n /\ ~(j + 1 <= t)
      BY <1>1, <1>2, <2>1, <1>8, <2>7
    <3> QED
      BY <1>1, <1>5, <1>6, <2>2, <2>5, <3>1, Zenon DEF Position
  <2>8. ASSUME Len(o) <= 1
        PROVE  d.got = Numbers(total) /\ d.at = "end"
    <3>1. i + 1 = 5
      BY <1>1, <1>2, <2>1, <2>2, <2>8
    <3> QED
      BY <2>5, <3>1 DEF InEnd
  <2>9. o # <<>>
    BY <1>2, <2>1
  <2> QED
    BY <1>1, <1>6, <2>2, <2>5, <2>6, <2>7, <2>8, <2>9
<1> QED
  BY <1>1, <1>7, <1>8

-----------------------------------------------------------------------------
(* The invariant holds.                                                    *)

\* The writer starts with the client between two chunks.
LEMMA InvInit == Init => ChunkedInv
<1> SUFFICES ASSUME Init PROVE ChunkedInv
  OBVIOUS
<1>1. ChunkedTypeOK
  <2>1. client \in Client
    BY DEF Init, Client, Places
  <2>2. call \in [op : {"-", "body", "send", "finish"}, len : Nat] /\ call.len = 0
    BY DEF Init, Call
  <2>3. out \in Seq(WireByte) /\ cw \in [bytes_sent : Nat, error : BOOLEAN]
    BY DEF Init
  <2>4. /\ pc \in {"ready", "writing", "finished"} /\ sends \in Nat /\ given \in Nat
        /\ result \in Int
    <3> USE DEF Init
    <3>1. pc \in {"ready", "writing", "finished"}
      OBVIOUS
    <3>2. sends \in Nat /\ given \in Nat /\ result \in Int
      OBVIOUS
    <3> QED
      BY <3>1, <3>2
  <2>5. gone \in BOOLEAN
    BY DEF Init
  <2>6. call.len <= given
    <3>1. given = 0
      BY DEF Init
    <3> QED
      BY <2>2, <3>1
  <2> QED
    BY <2>1, <2>2, <2>3, <2>4, <2>5, <2>6 DEF ChunkedTypeOK
<1>2. client.got = Numbers(0) /\ Len(client.got) = 0
  BY NumbersFacts DEF Init, Numbers
<1>3. Writing /\ Failed /\ Finishing /\ client.at # "bad" /\ cw.bytes_sent <= Len(client.got)
  BY <1>2 DEF Init, Writing, Failed, Finishing
<1>4. Ready
  BY <1>2 DEF Init, Ready, Call
<1> QED
  BY <1>1, <1>3, <1>4 DEF ChunkedInv

\* A call that starts to write what it has to.
LEMMA BeginsCall ==
  ASSUME ChunkedInv, NEW op \in {"body", "send", "finish"}, NEW len \in Nat,
         pc = "ready", ~cw.error, call' = Call(op, len), given' = given + len,
         Begin(Message(op, given, len)), UNCHANGED <<cw, gone, client>>, sends' \in Nat,
         op = "send" => len > 0 /\ sends' > 0, op = "finish" => len = 0, op = "body" => len = given'
  PROVE  ChunkedInv'
<1>1. /\ given \in Nat /\ client \in Client /\ client.at = "size" /\ client.got = Numbers(given)
      /\ cw.bytes_sent = given /\ cw \in [bytes_sent : Nat, error : BOOLEAN]
      /\ result \in Int /\ gone \in BOOLEAN
  BY DEF ChunkedInv, ChunkedTypeOK, Ready
<1>2. call'.op = op /\ call'.len = len /\ Earlier' = given /\ call' \in [op : {"-", "body", "send", "finish"}, len : Nat]
  BY <1>1 DEF Call, Earlier
<1>3. pc' = "writing" /\ out' = Message(op, given, len) /\ result' = result
  BY DEF Begin
<1>4. Message(op, given, len) \in Seq(WireByte)
  BY <1>1, MessageBytes
<1>5. ChunkedTypeOK'
  BY <1>1, <1>2, <1>3, <1>4 DEF ChunkedTypeOK
<1>6. Position(client, Message(op, given, len), op, given, len, 0)
  BY <1>1, Starts
<1>7. Taken(0)'
  BY <1>2, <1>3, <1>6 DEF Taken
<1>8. \E j \in Nat : Taken(j)'
  BY <1>7
<1>9. Writing'
  BY <1>1, <1>2, <1>3, <1>8 DEF Writing
<1>10. Ready' /\ Finishing' /\ Failed'
  BY <1>3 DEF Ready, Finishing, Failed
<1>11. client'.at # "bad" /\ cw'.bytes_sent <= Len(client'.got)
  BY <1>1 DEF ChunkedInv
<1> QED
  BY <1>5, <1>9, <1>10, <1>11 DEF ChunkedInv

\* chunked_send_body begins with nothing written yet.
LEMMA BodyCall ==
  ASSUME ChunkedInv, NEW len \in Nat, chunked_send_body(len)
  PROVE  ChunkedInv'
<1>1. given = 0 /\ ~cw.error /\ sends \in Nat
  BY DEF chunked_send_body, ChunkedInv, ChunkedTypeOK, Ready
<1>2. Begin(Message("body", given, len))
  BY <1>1 DEF chunked_send_body, Message
<1>3. /\ pc = "ready" /\ call' = Call("body", len) /\ given' = given + len /\ len = given'
      /\ sends' = sends /\ UNCHANGED <<cw, gone, client>>
  BY <1>1 DEF chunked_send_body
<1> QED
  BY <1>1, <1>2, <1>3, BeginsCall

\* chunked_writer_send begins a chunk, or returns at once.
LEMMA SendingCall ==
  ASSUME ChunkedInv, NEW len \in Nat, chunked_writer_send(len)
  PROVE  ChunkedInv'
<1>1. /\ pc = "ready" /\ sends' = sends + 1 /\ call' = Call("send", len) /\ given' = given + len
      /\ UNCHANGED <<cw, gone, client>>
  BY DEF chunked_writer_send, SendCall
<1>2. sends' \in Nat /\ sends' > 0 /\ given' \in Nat /\ len <= given'
  BY <1>1 DEF ChunkedInv, ChunkedTypeOK
<1>3. CASE ~cw.error /\ len # 0 /\ Begin(Chunk(given, len))
  <2>1. Chunk(given, len) \in Seq(WireByte)
    BY ChunkBytes DEF ChunkedInv, ChunkedTypeOK
  <2>2. Chunk(given, len) \o <<>> = Chunk(given, len)
    BY <2>1
  <2>3. Message("send", given, len) = Chunk(given, len)
    BY <1>3, <2>2 DEF Message
  <2> QED
    BY <1>1, <1>2, <1>3, <2>3, BeginsCall
<1>4. CASE \/ cw.error /\ Return(-1)
           \/ ~cw.error /\ len = 0 /\ Return(0)
  <2>1. /\ pc' = "ready" /\ out' = out /\ result' \in Int
        /\ cw.error => result' = -1
        /\ ~cw.error => result' = 0 /\ given' = given
    BY <1>1, <1>4 DEF Return, ChunkedInv, ChunkedTypeOK
  <2>2. call'.op = "send" /\ call'.len = len /\ call' \in [op : {"-", "body", "send", "finish"}, len : Nat]
    BY <1>1 DEF Call
  <2>3. ChunkedTypeOK'
    BY <1>1, <1>2, <2>1, <2>2 DEF ChunkedInv, ChunkedTypeOK
  <2>4. Ready'
    BY <1>1, <1>2, <2>1, <2>2 DEF ChunkedInv, Ready
  <2>5. Writing' /\ Finishing'
    BY <2>1 DEF Writing, Finishing
  <2>6. Failed'
    BY <1>1, <2>1 DEF ChunkedInv, Failed
  <2> QED
    BY <1>1, <2>3, <2>4, <2>5, <2>6 DEF ChunkedInv
<1> QED
  BY <1>3, <1>4 DEF chunked_writer_send

\* chunked_writer_finish begins the terminal chunk, or returns at once.
LEMMA FinishCall ==
  ASSUME ChunkedInv, chunked_writer_finish
  PROVE  ChunkedInv'
<1>1. pc = "ready" /\ call' = Call("finish", 0) /\ UNCHANGED <<sends, given, cw, gone, client>>
  BY DEF chunked_writer_finish
<1>2. given \in Nat /\ given' = given + 0 /\ sends' \in Nat
  BY <1>1 DEF ChunkedInv, ChunkedTypeOK
<1>3. CASE ~cw.error /\ Begin(TerminalChunk)
  <2>1. <<>> \o TerminalChunk = TerminalChunk
    BY TerminalBytes
  <2>2. Message("finish", given, 0) = TerminalChunk
    BY <2>1 DEF Message
  <2> QED
    BY <1>1, <1>2, <1>3, <2>2, BeginsCall
<1>4. CASE cw.error /\ pc' = "finished" /\ result' = -1 /\ UNCHANGED out
  <2>1. call'.op = "finish" /\ call'.len = 0 /\ call' \in [op : {"-", "body", "send", "finish"}, len : Nat]
    BY <1>1 DEF Call
  <2>2. ChunkedTypeOK'
    BY <1>1, <1>2, <1>4, <2>1 DEF ChunkedInv, ChunkedTypeOK
  <2>3. Writing' /\ Ready'
    BY <1>4 DEF Writing, Ready
  <2>4. client'.at # "end"
    BY <1>1, <1>4 DEF ChunkedInv, Failed
  <2>5. Failed' /\ Finishing'
    BY <1>4, <2>1, <2>4 DEF Failed, Finishing
  <2> QED
    BY <1>1, <2>2, <2>3, <2>5 DEF ChunkedInv
<1> QED
  BY <1>3, <1>4 DEF chunked_writer_finish

\* In a call the client is where the bytes that are written have led it.
LEMMA InCall ==
  ASSUME ChunkedInv, pc = "writing"
  PROVE  /\ Earlier \in Nat /\ Earlier + call.len = given /\ call.len \in Nat
         /\ client \in Client /\ client.at \notin {"end", "bad"}
         /\ \E j \in Nat : Taken(j)
<1>1. call.len \in Nat /\ Earlier \in Nat /\ Earlier + call.len = given /\ client \in Client
  BY DEF ChunkedInv, ChunkedTypeOK, Earlier
<1>2. PICK j \in Nat : Taken(j)
  BY DEF ChunkedInv, Writing
<1>3. client.at \notin {"end", "bad"}
  BY <1>1, <1>2, Midway DEF Taken
<1> QED
  BY <1>1, <1>2, <1>3

\* What write() does to the client.
LEMMA WriteStep ==
  ASSUME ChunkedInv, Write
  PROVE  /\ out' \in Seq(WireByte)
         /\ Advances(client, client', given)
         /\ Len(client.got) <= Len(client'.got)
         /\ Len(out) > 1 => \E j \in Nat : Taken(j)'
         /\ ~(Len(out) > 1) =>
              /\ client'.got = Numbers(given) /\ client'.at = (IF call.op = "send" THEN "size" ELSE "end")
              /\ call.op # "send" => client'.got = client.got
<1>1. /\ pc = "writing" /\ client' = Read(client, Head(out)) /\ out' = Tail(out)
      /\ call' = call /\ given' = given
  BY DEF Write
<1>2. /\ Earlier \in Nat /\ Earlier + call.len = given /\ call.len \in Nat
      /\ client \in Client
  BY <1>1, InCall
<1>3. PICK j \in Nat : Taken(j)
  BY <1>1, InCall
<1>4. /\ out \in Seq(WireByte) /\ out # <<>>
      /\ Advances(client, client', given)
      /\ Len(out) > 1 => Position(client', Tail(out), call.op, Earlier, call.len, j + 1)
      /\ Len(out) <= 1 =>
           /\ client'.got = Numbers(given) /\ client'.at = (IF call.op = "send" THEN "size" ELSE "end")
           /\ call.op # "send" => client'.got = client.got
  <2>1. Position(client, out, call.op, Earlier, call.len, j)
    BY <1>3 DEF Taken
  <2> QED
    BY <1>1, <1>2, <2>1, Continues
<1>5. out' \in Seq(WireByte)
  BY <1>1, <1>4, HeadTailProperties
<1>6. Len(client.got) <= Len(client'.got)
  <2>1. client.got \in Seq(Nat) /\ Len(client.got) \in Nat
    BY <1>2 DEF Client
  <2>2. CASE client'.got = client.got
    BY <2>1, <2>2
  <2>3. CASE client'.got = Append(client.got, Len(client.got) + 1)
    <3>1. Len(client'.got) = Len(client.got) + 1
      BY <2>1, <2>3, AppendProperties
    <3> QED
      BY <2>1, <3>1
  <2> QED
    BY <1>4, <2>2, <2>3 DEF Advances
<1>7. Earlier' = Earlier
  BY <1>1 DEF Earlier
<1>8. ASSUME Len(out) > 1 PROVE \E i \in Nat : Taken(i)'
  <2>1. Taken(j + 1)'
    BY <1>1, <1>4, <1>7, <1>8 DEF Taken
  <2>2. j + 1 \in Nat
    BY <1>3
  <2> QED
    BY <2>1, <2>2
<1>9. ~(Len(out) > 1) => Len(out) <= 1
  BY <1>4
<1> QED
  BY <1>4, <1>5, <1>6, <1>8, <1>9

\* A byte more keeps the invariant, and so does the return with the last.
LEMMA Writes ==
  ASSUME ChunkedInv, Write
  PROVE  ChunkedInv'
<1>1. /\ pc = "writing" /\ UNCHANGED <<call, sends, given, gone>>
      /\ Len(out) > 1 => UNCHANGED <<pc, cw, result>>
      /\ ~(Len(out) > 1) =>
           /\ pc' = (IF call.op = "send" THEN "ready" ELSE "finished")
           /\ result' = IF call.op = "body" THEN call.len ELSE 0
           /\ cw' = IF call.op = "send" THEN [cw EXCEPT !.bytes_sent = @ + call.len] ELSE cw
  BY DEF Write, AfterCall
<1>2. /\ out' \in Seq(WireByte) /\ client' \in Client
      /\ Len(client.got) <= Len(client'.got)
      /\ Len(out) > 1 => \E j \in Nat : Taken(j)'
      /\ ~(Len(out) > 1) =>
           client'.got = Numbers(given) /\ client'.at = (IF call.op = "send" THEN "size" ELSE "end")
  BY WriteStep DEF Advances
<1>3. /\ call.op \in {"body", "send", "finish"}
      /\ call.op = "send" => call.len > 0 /\ sends > 0
      /\ call.op = "finish" => call.len = 0
      /\ call.op = "body" => call.len = given
      /\ ~cw.error /\ cw.bytes_sent = Earlier
  BY <1>1 DEF ChunkedInv, Writing
<1>4. /\ Earlier \in Nat /\ Earlier + call.len = given /\ call.len \in Nat /\ given \in Nat
      /\ call \in [op : {"-", "body", "send", "finish"}, len : Nat] /\ call.len <= given
      /\ sends \in Nat /\ result \in Int /\ gone \in BOOLEAN
      /\ cw \in [bytes_sent : Nat, error : BOOLEAN]
  <2>1. /\ call \in [op : {"-", "body", "send", "finish"}, len : Nat] /\ call.len <= given /\ given \in Nat
        /\ sends \in Nat /\ result \in Int /\ gone \in BOOLEAN
        /\ cw \in [bytes_sent : Nat, error : BOOLEAN]
    BY DEF ChunkedInv, ChunkedTypeOK
  <2> QED
    BY <1>1, <2>1, InCall
<1>5. Len(client.got) \in Nat /\ cw.bytes_sent <= Len(client.got)
  BY DEF ChunkedInv, ChunkedTypeOK, Client
<1>6. CASE Len(out) > 1
  <2>1. pc' = "writing" /\ cw' = cw /\ result' = result /\ Earlier' = Earlier
    BY <1>1, <1>6 DEF Earlier
  <2>2. ChunkedTypeOK'
    BY <1>1, <1>2, <1>4, <2>1 DEF ChunkedTypeOK
  <2>3. Writing'
    BY <1>1, <1>2, <1>3, <1>6, <2>1 DEF Writing
  <2>4. client'.at # "bad"
    <3>1. PICK j \in Nat : Taken(j)'
      BY <1>2, <1>6
    <3>2. Position(client', out', call.op, Earlier, call.len, j)
      BY <1>1, <2>1, <3>1 DEF Taken
    <3> QED
      BY <1>4, <3>2, Midway
  <2>5. Ready' /\ Finishing' /\ Failed'
    BY <1>3, <2>1 DEF Ready, Finishing, Failed
  <2>6. cw'.bytes_sent <= Len(client'.got)
    <3>1. Len(client'.got) \in Nat
      BY <1>2 DEF Client
    <3> QED
      BY <1>2, <1>4, <1>5, <2>1, <3>1
  <2> QED
    BY <2>2, <2>3, <2>4, <2>5, <2>6 DEF ChunkedInv
<1>7. CASE ~(Len(out) > 1)
  <2>1. client'.got = Numbers(given) /\ Len(client'.got) = given
    BY <1>2, <1>4, <1>7, NumbersFacts
  <2>2. CASE call.op = "send"
    <3>1. pc' = "ready" /\ result' = 0 /\ cw' = [cw EXCEPT !.bytes_sent = @ + call.len]
      BY <1>1, <1>7, <2>2
    <3>2. cw' \in [bytes_sent : Nat, error : BOOLEAN] /\ cw'.bytes_sent = given /\ ~cw'.error
      BY <1>3, <1>4, <3>1
    <3>3. client'.at = "size"
      BY <1>2, <1>7, <2>2
    <3>4. ChunkedTypeOK'
      BY <1>1, <1>2, <1>4, <3>1, <3>2 DEF ChunkedTypeOK
    <3>5. Ready'
      BY <1>1, <1>3, <1>4, <2>1, <2>2, <3>1, <3>2, <3>3 DEF Ready
    <3>6. Writing' /\ Finishing' /\ Failed'
      BY <3>1, <3>2 DEF Writing, Finishing, Failed
    <3>7. cw'.bytes_sent <= Len(client'.got)
      BY <1>4, <2>1, <3>2
    <3> QED
      BY <3>3, <3>4, <3>5, <3>6, <3>7 DEF ChunkedInv
  <2>3. CASE call.op # "send"
    <3>1. pc' = "finished" /\ result' = (IF call.op = "body" THEN call.len ELSE 0) /\ cw' = cw
      BY <1>1, <1>7, <2>3
    <3>2. client'.at = "end"
      BY <1>2, <1>7, <2>3
    <3>3. ChunkedTypeOK'
      BY <1>1, <1>2, <1>4, <3>1 DEF ChunkedTypeOK
    <3>4. result' >= 0 /\ (call.op = "body" => result' = given)
      BY <1>3, <1>4, <3>1
    <3>5. Finishing'
      BY <1>1, <1>3, <2>1, <2>3, <3>1, <3>2, <3>3, <3>4 DEF Finishing, ChunkedTypeOK
    <3>6. Writing' /\ Ready' /\ Failed'
      BY <1>3, <3>1 DEF Writing, Ready, Failed
    <3>7. cw'.bytes_sent <= Len(client'.got)
      BY <1>3, <1>4, <2>1, <3>1
    <3> QED
      BY <3>2, <3>3, <3>5, <3>6, <3>7 DEF ChunkedInv
  <2> QED
    BY <2>2, <2>3
<1> QED
  BY <1>6, <1>7

\* A write that fails leaves the client in the middle of a chunk.
LEMMA WriteBreaks ==
  ASSUME ChunkedInv, WriteFails
  PROVE  ChunkedInv'
<1>1. /\ pc = "writing" /\ out' = <<>> /\ result' = -1
      /\ pc' = (IF call.op = "send" THEN "ready" ELSE "finished")
      /\ cw' = IF call.op = "body" THEN cw ELSE [cw EXCEPT !.error = TRUE]
      /\ UNCHANGED <<call, sends, given, gone, client>>
  BY DEF WriteFails, AfterCall
<1>2. client.at \notin {"end", "bad"}
  BY <1>1, InCall
<1>3. /\ call.op \in {"body", "send", "finish"}
      /\ call.op = "send" => sends > 0
      /\ ~cw.error
  BY <1>1 DEF ChunkedInv, Writing
<1>4. /\ cw \in [bytes_sent : Nat, error : BOOLEAN] /\ cw.bytes_sent <= Len(client.got)
      /\ sends \in Nat
  BY DEF ChunkedInv, ChunkedTypeOK
<1>5. /\ cw' \in [bytes_sent : Nat, error : BOOLEAN] /\ cw'.bytes_sent = cw.bytes_sent
      /\ call.op # "body" => cw'.error
      /\ out' \in Seq(WireByte) /\ result' \in Int
      /\ pc' \in {"ready", "finished"} /\ result' < 0
  <2>1. /\ cw' \in [bytes_sent : Nat, error : BOOLEAN] /\ cw'.bytes_sent = cw.bytes_sent
        /\ call.op # "body" => cw'.error
    BY <1>1, <1>4
  <2>2. out' \in Seq(WireByte) /\ result' \in Int /\ result' < 0
    BY <1>1
  <2>3. pc' \in {"ready", "finished"}
    BY <1>1
  <2> QED
    BY <2>1, <2>2, <2>3
<1>6. ChunkedTypeOK'
  BY <1>1, <1>5 DEF ChunkedInv, ChunkedTypeOK
<1>7. Writing' /\ Failed'
  BY <1>1, <1>2, <1>5 DEF Writing, Failed
<1>8. Ready'
  <2> SUFFICES ASSUME pc' = "ready" PROVE Ready'
    BY DEF Ready
  <2>1. call.op = "send"
    BY <1>1
  <2>2. sends' > 0 /\ cw'.error /\ call'.op = "send"
    BY <1>1, <1>3, <1>5, <2>1
  <2>3. sends' # 0
    BY <1>1, <1>4, <2>2
  <2> QED
    BY <2>2, <2>3 DEF Ready
<1>9. Finishing'
  <2> SUFFICES ASSUME pc' = "finished" PROVE Finishing'
    BY DEF Finishing
  <2>1. call'.op \in {"body", "finish"} /\ client'.at # "end" /\ ~(result' >= 0)
    BY <1>1, <1>2, <1>3, <1>5
  <2> QED
    BY <2>1 DEF Finishing
<1>10. client'.at # "bad" /\ cw'.bytes_sent <= Len(client'.got)
  BY <1>1, <1>2, <1>4, <1>5
<1> QED
  BY <1>6, <1>7, <1>8, <1>9, <1>10 DEF ChunkedInv

\* The client's going, and stuttering.
LEMMA Unmoved ==
  ASSUME ChunkedInv, gone' \in BOOLEAN,
         UNCHANGED <<pc, call, sends, given, out, cw, result, client>>
  PROVE  ChunkedInv'
<1>1. ChunkedTypeOK'
  BY DEF ChunkedInv, ChunkedTypeOK
<1>2. \A j : Taken(j)' = Taken(j)
  BY DEF Taken, Earlier
<1>3. Writing'
  BY <1>2 DEF ChunkedInv, Writing, Earlier
<1>4. Ready' /\ Failed' /\ Finishing'
  BY DEF ChunkedInv, Ready, Failed, Finishing
<1> QED
  BY <1>1, <1>3, <1>4 DEF ChunkedInv

\* Every step keeps the invariant.
LEMMA InvNext ==
  ASSUME ChunkedInv, [Next]_vars
  PROVE  ChunkedInv'
<1>1. ASSUME NEW len \in 0 .. MaxChunk, chunked_send_body(len) \/ chunked_writer_send(len)
      PROVE  ChunkedInv'
  <2>1. len \in Nat
    BY ChunkedAssumption
  <2> QED
    BY <1>1, <2>1, BodyCall, SendingCall
<1>2. CASE chunked_writer_finish
  BY <1>2, FinishCall
<1>3. CASE Write
  BY <1>3, Writes
<1>4. CASE WriteFails
  BY <1>4, WriteBreaks
<1>5. CASE ClientGoes
  BY <1>5, Unmoved DEF ClientGoes
<1>6. CASE Finished \/ UNCHANGED vars
  <2>1. gone' \in BOOLEAN /\ UNCHANGED vars
    BY <1>6 DEF Finished, vars, ChunkedInv, ChunkedTypeOK
  <2> QED
    BY <2>1, Unmoved DEF vars
<1> QED
  BY <1>1, <1>2, <1>3, <1>4, <1>5, <1>6 DEF Next

\* What the sender has written and the client has read fit together, always.
THEOREM ChunkedInvariance == Spec => []ChunkedInv
<1>1. Init => ChunkedInv
  BY InvInit
<1>2. ChunkedInv /\ [Next]_vars => ChunkedInv'
  BY InvNext
<1> QED
  BY <1>1, <1>2, PTL DEF Spec

\* chunked.c tells its caller the truth: a success is a whole body or a whole
\* chunk with the client, and after a failure the client never sees the end.
THEOREM TruthfulAlways == Spec => []Truthful
<1>1. ChunkedInv => Truthful
  <2> SUFFICES ASSUME ChunkedInv PROVE Truthful
    OBVIOUS
  <2>1. pc \in {"ready", "writing", "finished"} /\ Numbers(given) = [i \in 1 .. given |-> i]
    BY DEF ChunkedInv, ChunkedTypeOK, Numbers
  <2>2. CASE pc = "ready"
    <3>1. cw.error => result = -1 /\ client.at # "end"
      BY DEF ChunkedInv, Failed
    <3>2. ~cw.error => /\ client.at = "size" /\ client.got = Numbers(given)
                       /\ cw.bytes_sent = given /\ result = 0
      BY <2>2 DEF ChunkedInv, Ready
    <3>3. call.op # "body"
      BY <2>2 DEF ChunkedInv, Ready
    <3> QED
      BY <2>1, <2>2, <3>1, <3>2, <3>3 DEF Truthful, ChunkedInv
  <2>3. CASE pc = "finished"
    BY <2>1, <2>3 DEF Truthful, ChunkedInv, Finishing
  <2>4. CASE pc = "writing"
    BY <2>4 DEF Truthful, ChunkedInv
  <2> QED
    BY <2>1, <2>2, <2>3, <2>4
<1> QED
  BY <1>1, ChunkedInvariance, PTL

-----------------------------------------------------------------------------
(* The body as the client sees it.                                         *)

\* Every step is a step of BodyStream or is not seen there.
LEMMA BodyStep ==
  ASSUME ChunkedInv, [Next]_vars
  PROVE  [Body!Give \/ Body!Deliver \/ Body!End]_(Body!bodyVars)
<1> USE DEF Body!bodyVars
<1>1. given \in Nat /\ client \in Client
  BY DEF ChunkedInv, ChunkedTypeOK
<1>2. ASSUME pc = "ready", given' \in Nat, given' >= given, client' = client
      PROVE  Body!Give
  <2>1. ~(call.op \in {"finish", "body"})
    BY <1>2 DEF ChunkedInv, Ready
  <2>2. (call.op \in {"finish", "body"})' \in BOOLEAN
    OBVIOUS
  <2> QED
    BY <1>2, <2>1, <2>2 DEF Body!Give
<1>3. ASSUME NEW len \in 0 .. MaxChunk, chunked_send_body(len) \/ chunked_writer_send(len)
      PROVE  Body!Give
  <2>1. len \in Nat
    BY ChunkedAssumption
  <2>2. CASE chunked_send_body(len)
    <3>1. pc = "ready" /\ sends = 0 /\ given' = len /\ client' = client
      BY <2>2 DEF chunked_send_body
    <3>2. given = 0
      BY <3>1 DEF ChunkedInv, Ready
    <3> QED
      BY <1>2, <2>1, <3>1, <3>2
  <2>3. CASE chunked_writer_send(len)
    <3>1. pc = "ready" /\ given' = given + len /\ client' = client
      BY <2>3 DEF chunked_writer_send, SendCall
    <3> QED
      BY <1>1, <1>2, <2>1, <3>1
  <2> QED
    BY <1>3, <2>2, <2>3
<1>4. CASE chunked_writer_finish
  <2>1. pc = "ready" /\ given' = given /\ client' = client
    BY <1>4 DEF chunked_writer_finish
  <2> QED
    BY <1>1, <1>2, <2>1
<1>5. CASE Write
  <2>1. pc = "writing" /\ call' = call /\ given' = given
    BY <1>5 DEF Write
  <2>2. client.at # "end"
    BY <2>1, InCall
  <2>3. /\ Advances(client, client', given)
        /\ Len(out) > 1 => \E j \in Nat : Taken(j)'
        /\ ~(Len(out) > 1) =>
              /\ client'.got = Numbers(given) /\ client'.at = (IF call.op = "send" THEN "size" ELSE "end")
              /\ call.op # "send" => client'.got = client.got
    BY <1>5, WriteStep
  <2>4. CASE client'.got # client.got
    <3>1. Len(client.got) < given /\ client'.at # "end" /\ client'.got = Append(client.got, Len(client.got) + 1)
      BY <2>3, <2>4 DEF Advances
    <3> QED
      BY <2>1, <2>2, <3>1 DEF Body!Deliver
  <2>5. CASE client'.got = client.got /\ client'.at = "end"
    <3>1. ~(Len(out) > 1)
      <4> SUFFICES ASSUME Len(out) > 1 PROVE FALSE
        OBVIOUS
      <4>1. PICK j \in Nat : Taken(j)'
        BY <2>3
      <4>2. Earlier' = Earlier
        BY <2>1 DEF Earlier
      <4>3. Position(client', out', call.op, Earlier, call.len, j)
        BY <2>1, <4>1, <4>2 DEF Taken
      <4>4. Earlier \in Nat /\ call.len \in Nat
        BY <2>1, InCall
      <4> QED
        BY <2>5, <4>3, <4>4, Midway
    <3>2. client.got = Numbers(given) /\ call.op # "send"
      BY <2>3, <2>5, <3>1
    <3>3. Len(client.got) = given
      BY <1>1, <3>2, NumbersFacts
    <3>4. call.op \in {"finish", "body"}
      BY <2>1, <3>2 DEF ChunkedInv, Writing
    <3> QED
      BY <2>1, <2>5, <3>3, <3>4 DEF Body!End
  <2>6. CASE client'.got = client.got /\ client'.at # "end"
    BY <2>1, <2>2, <2>6
  <2> QED
    BY <2>4, <2>5, <2>6
<1>6. CASE WriteFails \/ ClientGoes \/ Finished \/ UNCHANGED vars
  <2>1. call' = call /\ given' = given /\ client' = client
    BY <1>6 DEF WriteFails, ClientGoes, Finished, vars
  <2> QED
    BY <2>1
<1> QED
  BY <1>3, <1>4, <1>5, <1>6 DEF Next

\* chunked.c implements BodyStream: the reader has the bytes in order, each once,
\* and sees the end only when the sender has finished and nothing is missing.
THEOREM SendsABody == Spec => ImplementsBody
<1>1. Init => Body!Init
  BY DEF Init, Body!Init, Call
<1>2. ChunkedInv /\ [Next]_vars => [Body!Give \/ Body!Deliver \/ Body!End]_(Body!bodyVars)
  BY BodyStep
<1> QED
  BY <1>1, <1>2, ChunkedInvariance, PTL DEF Spec, ImplementsBody, Body!Spec
=============================================================================
