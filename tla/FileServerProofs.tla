-------------------------- MODULE FileServerProofs --------------------------
(***************************************************************************)
(* What serve_static() puts on the wire agrees with the Content-Length it  *)
(* announced, for all sizes of files and pages and all changes to files.   *)
(***************************************************************************)
EXTENDS FileServer, CommonLemmas, TLAPS

\* Before a file is open, and while one is.
Looking == {"method", "resolve", "stat", "index", "open"}
WithFile == {"headers", "sendfile", "close"}

\* body and remaining share out what was announced.
Accounting ==
  /\ pc \in Looking \cup {"headers"} => body = 0
  /\ res # NoResponse => /\ res.content_length \in Nat
                         /\ body + remaining = res.content_length
  /\ pc \in {"send_body", "done", "sendfile", "close"} => res # NoResponse

\* A file is open in WithFile only, and least is below what it holds.
Descriptor ==
  /\ pc \in WithFile => file_fd # NotOpen /\ least # NotOpen /\ least <= file_fd
  /\ pc \in Looking \cup {"send_body"} => file_fd = NotOpen /\ least = NotOpen
  /\ pc = "done" => file_fd = NotOpen

\* The file's size according to stat() is what is announced, and the ways out
\* of the loops.
Progress ==
  /\ pc \in {"sendfile", "close"} => res.content_length = st.size
  /\ pc = "sendfile" => ~is_head
  /\ pc = "close" /\ connected => remaining = 0 \/ is_head \/ least < st.size
  /\ pc = "done" /\ connected =>
       remaining = 0 \/ (least # NotOpen /\ (least < st.size \/ is_head))

FileInv ==
  /\ FileTypeOK
  /\ pc \in Looking \cup WithFile \cup {"send_body", "done"}
  /\ Accounting
  /\ Descriptor
  /\ Progress

-----------------------------------------------------------------------------
\* Sizes are natural numbers.
LEMMA NodeFacts == Absent \in Nodes /\ \A f \in Nodes : f.size \in Nat /\ f.size <= MaxSize
  BY FileAssumption DEF Nodes, Absent, Regular

\* A response record is not NoResponse.
LEMMA ResponseFacts ==
  ASSUME NEW s \in Int, NEW c \in {"keep-alive", "close"}, NEW n \in Nat
  PROVE  /\ HttpResponse(s, c, n) # NoResponse
         /\ HttpResponse(s, c, n).content_length = n
<1>1. HttpResponse(s, c, n)
        \in [status : Int, connection : {"keep-alive", "close"}, content_length : Nat]
  BY DEF HttpResponse
<1>2. HttpResponse(s, c, n).content_length = n
  BY DEF HttpResponse
<1> QED
  BY <1>1, <1>2, ResponseAssumption

\* Sending a head while no file is open.
LEMMA HeadSent ==
  ASSUME FileInv, pc \in Looking,
         NEW s \in Int, NEW c \in {"keep-alive", "close"}, NEW n \in Nat,
         http_response_send_headers(HttpResponse(s, c, n)),
         pc' = "send_body" \/ (pc' = "done" /\ n = 0),
         UNCHANGED <<fs, file_fd, least>>,
         st' \in Nodes, name' \in Names, rc' \in {1, 0, -1, -2}
  PROVE  FileInv'
<1>1. /\ res' = HttpResponse(s, c, n) /\ remaining' = n
      /\ connected' = connected /\ body' = body
  BY ResponseFacts DEF http_response_send_headers
<1>2. head' \in 0 .. HeadLen
  BY ResponseAssumption DEF http_response_send_headers
<1>3. res' # NoResponse /\ res'.content_length = n
  BY <1>1, ResponseFacts
<1>4. body = 0 /\ file_fd = NotOpen /\ least = NotOpen
  BY DEF FileInv, Accounting, Descriptor
<1>5. FileTypeOK'
  BY <1>1, <1>2 DEF FileInv, FileTypeOK
<1>6. Accounting'
  BY <1>1, <1>3, <1>4 DEF Accounting, Looking
<1>7. Descriptor'
  BY <1>4 DEF Descriptor, Looking, WithFile
<1>8. Progress'
  BY <1>1 DEF Progress
<1> QED
  BY <1>5, <1>6, <1>7, <1>8 DEF FileInv

\* A step on to another look at the file system.
LEMMA LooksOn ==
  ASSUME FileInv, pc \in Looking, UNCHANGED wireVars, pc' \in Looking,
         UNCHANGED <<fs, file_fd, least>>,
         st' \in Nodes, name' \in Names, rc' \in {1, 0, -1, -2}
  PROVE  FileInv'
<1> USE DEF FileInv
<1>1. FileTypeOK'
  BY DEF FileTypeOK, wireVars
<1>2. Accounting'
  BY DEF Accounting, wireVars, Looking
<1>3. Descriptor' /\ Progress'
  BY DEF Descriptor, Progress, Looking, WithFile
<1> QED
  BY <1>1, <1>2, <1>3

-----------------------------------------------------------------------------
(* The actions, one by one.                                                *)

\* 405, or on to the path.
LEMMA CheckMethodStep == FileInv /\ CheckMethod => FileInv'
<1> SUFFICES ASSUME FileInv, CheckMethod PROVE FileInv'
  OBVIOUS
<1> USE DEF CheckMethod, Goto
<1>1. pc \in Looking /\ UNCHANGED <<fs, file_fd, least>>
      /\ st' \in Nodes /\ name' \in Names /\ rc' \in {1, 0, -1, -2}
  BY DEF FileInv, FileTypeOK, Looking
<1>2. CASE http_response_send_headers(HttpResponse(405, "close", 0)) /\ pc' = "done"
  BY <1>1, <1>2, HeadSent
<1>3. CASE UNCHANGED wireVars /\ pc' = "resolve"
  BY <1>1, <1>3, LooksOn DEF Looking
<1> QED
  BY <1>2, <1>3

\* An error page.
LEMMA ErrorPage ==
  ASSUME FileInv, pc \in Looking, NEW s \in Int, http_response_error(s),
         UNCHANGED <<fs, file_fd, least>>,
         st' \in Nodes, name' \in Names, rc' \in {1, 0, -1, -2}
  PROVE  FileInv'
  BY HeadSent, ResponseAssumption DEF http_response_error, Goto

\* Each verdict of resolve_safe_path().
LEMMA ResolveStep == FileInv /\ Resolve => FileInv'
<1> SUFFICES ASSUME FileInv, Resolve PROVE FileInv'
  OBVIOUS
<1>1. pc \in Looking /\ UNCHANGED <<fs, file_fd, least>>
      /\ st' \in Nodes /\ name' \in Names
  BY DEF FileInv, FileTypeOK, Looking, Resolve
<1>2. CASE rc' = -2 /\ http_response_error(403)
  BY <1>1, <1>2, ErrorPage
<1>3. CASE rc' = -1 /\ http_response_error(404)
  BY <1>1, <1>3, ErrorPage
<1>4. CASE rc' = 0 /\ pc' = "stat" /\ UNCHANGED wireVars
  BY <1>1, <1>4, LooksOn DEF Looking
<1> QED
  BY <1>2, <1>3, <1>4 DEF Resolve, Goto

\* Each kind of file stat() can find.
LEMMA StatStep == FileInv /\ Stat => FileInv'
<1> SUFFICES ASSUME FileInv, Stat PROVE FileInv'
  OBVIOUS
<1>1. pc \in Looking /\ UNCHANGED <<fs, file_fd, least>>
      /\ st' \in Nodes /\ name' \in Names /\ rc' \in {1, 0, -1, -2}
  BY DEF FileInv, FileTypeOK, Looking, Stat, Names
<1>2. CASE http_response_error(404)
  BY <1>1, <1>2, ErrorPage
<1>3. CASE http_response_error(403)
  BY <1>1, <1>3, ErrorPage
<1>4. CASE pc' \in {"index", "open"} /\ UNCHANGED wireVars
  BY <1>1, <1>4, LooksOn DEF Looking
<1> QED
  BY <1>2, <1>3, <1>4 DEF Stat, Goto

\* The index file, the listing, or an error page.
LEMMA StatIndexStep == FileInv /\ StatIndex => FileInv'
<1> SUFFICES ASSUME FileInv, StatIndex PROVE FileInv'
  OBVIOUS
<1>1. pc \in Looking /\ UNCHANGED <<fs, file_fd, least>>
      /\ st' \in Nodes /\ name' \in Names /\ rc' \in {1, 0, -1, -2}
  BY DEF FileInv, FileTypeOK, Looking, StatIndex, Names
<1>2. CASE http_response_error(403)
  BY <1>1, <1>2, ErrorPage
<1>3. CASE pc' = "open" /\ UNCHANGED wireVars
  BY <1>1, <1>3, LooksOn DEF Looking
<1>4. CASE serve_directory_listing /\ ~http_response_error(403)
  <2>1. PICK n \in Listings : http_response_send_headers(HttpResponse(200, Asked, n))
    BY <1>4 DEF serve_directory_listing
  <2>2. n \in Nat /\ Asked \in {"keep-alive", "close"} /\ pc' = "send_body"
    BY <1>4, FileAssumption DEF Asked, serve_directory_listing, Goto
  <2> QED
    BY <1>1, <2>1, <2>2, HeadSent
<1> QED
  BY <1>2, <1>3, <1>4 DEF StatIndex, Goto

\* The file open() gets need not be the one stat() saw.
LEMMA OpenStep == FileInv /\ Open => FileInv'
<1> SUFFICES ASSUME FileInv, Open PROVE FileInv'
  OBVIOUS
<1>1. /\ pc = "open" /\ pc \in Looking /\ UNCHANGED fs
      /\ st' \in Nodes /\ name' \in Names /\ rc' \in {1, 0, -1, -2}
  BY DEF FileInv, FileTypeOK, Looking, Open
<1>2. CASE UNCHANGED <<file_fd, least>> /\ \E status \in {403, 404} : http_response_error(status)
  BY <1>1, <1>2, ErrorPage
<1>3. CASE /\ file_fd' = IF fs[name].kind = "regular" THEN fs[name].size ELSE NotRegular
           /\ least' = file_fd' /\ pc' = "headers" /\ UNCHANGED wireVars
  <2>1. fs[name] \in Nodes
    BY DEF FileInv, FileTypeOK
  <2>2. file_fd' \in NotRegular .. MaxSize
    BY <1>3, <2>1, NodeFacts, FileAssumption DEF NotRegular
  <2>3. FileTypeOK'
    BY <1>1, <1>3, <2>2 DEF FileInv, FileTypeOK, wireVars, NotOpen, NotRegular
  <2>4. Accounting'
    BY <1>1, <1>3 DEF FileInv, Accounting, wireVars, Looking
  <2>5. Descriptor' /\ Progress'
    BY <1>3, <2>2, FileAssumption
    DEF Descriptor, Progress, Looking, WithFile, NotOpen, NotRegular
  <2> QED
    BY <1>3, <2>3, <2>4, <2>5 DEF FileInv, WithFile
<1> QED
  BY <1>2, <1>3 DEF Open, Goto

\* The size from stat() is announced.
LEMMA SendHeadersStep == FileInv /\ SendHeaders => FileInv'
<1> SUFFICES ASSUME FileInv, SendHeaders PROVE FileInv'
  OBVIOUS
<1>1. st.size \in Nat /\ Asked \in {"keep-alive", "close"}
  BY NodeFacts DEF FileInv, FileTypeOK, Asked
<1>2. /\ res' = HttpResponse(200, Asked, st.size)
      /\ remaining' = st.size
      /\ connected' = connected /\ body' = body
  BY <1>1, ResponseFacts DEF SendHeaders, http_response_send_headers
<1>3. head' \in 0 .. HeadLen
  BY ResponseAssumption DEF SendHeaders, http_response_send_headers
<1>4. res' # NoResponse /\ res'.content_length = st.size
  BY <1>1, <1>2, ResponseFacts
<1>5. /\ pc = "headers" /\ UNCHANGED <<method, rc, fs, name, st, file_fd, least>>
      /\ \/ pc' = "close" /\ is_head'
         \/ pc' = "sendfile" /\ ~is_head'
  BY DEF SendHeaders, Goto, is_head
<1>6. FileTypeOK'
  BY <1>1, <1>2, <1>3, <1>5 DEF FileInv, FileTypeOK
<1>7. Accounting'
  BY <1>1, <1>2, <1>4, <1>5 DEF FileInv, Accounting, Looking
<1>8. Descriptor'
  BY <1>5 DEF FileInv, Descriptor, Looking, WithFile
<1>9. Progress'
  BY <1>4, <1>5 DEF Progress
<1> QED
  BY <1>5, <1>6, <1>7, <1>8, <1>9 DEF FileInv, WithFile

\* Bytes of the body go out, in either loop.
LEMMA SentStep ==
  ASSUME FileInv, pc \in {"sendfile", "send_body"}, NEW n \in 1 .. remaining, Sent(n),
         UNCHANGED fileVars
  PROVE  FileInv'
<1>1. /\ n \in Nat /\ n <= remaining /\ body \in Nat /\ remaining \in Nat
      /\ body' = body + n /\ remaining' = remaining - n
      /\ UNCHANGED <<connected, res, head>>
  BY DEF FileInv, FileTypeOK, Sent
<1>2. FileTypeOK'
  BY <1>1 DEF FileInv, FileTypeOK, fileVars
<1>3. Accounting'
  BY <1>1 DEF FileInv, Accounting, fileVars, Looking
<1>4. Descriptor' /\ Progress'
  BY <1>1 DEF FileInv, Descriptor, Progress, fileVars, is_head
<1> QED
  BY <1>2, <1>3, <1>4 DEF FileInv, fileVars

\* The loop ends early only if the file has been shorter than announced.
LEMMA SendfileStep == FileInv /\ Sendfile => FileInv'
<1> SUFFICES ASSUME FileInv, Sendfile PROVE FileInv'
  OBVIOUS
<1>1. CASE SendfileRound(file_fd) /\ UNCHANGED pc
  BY <1>1, SentStep DEF SendfileRound, Sendfile, fileVars
<1>2. CASE SendfileReturns(file_fd) /\ pc' = "close"
  <2>1. /\ pc = "sendfile" /\ UNCHANGED <<wireVars, method, rc, fs, name, st, file_fd, least>>
        /\ remaining = 0 \/ body >= file_fd \/ ~connected
    BY <1>2 DEF SendfileReturns, Sendfile
  <2>2. FileTypeOK' /\ Descriptor'
    BY <1>2, <2>1 DEF FileInv, FileTypeOK, Descriptor, wireVars, Looking, WithFile
  <2>3. Accounting'
    BY <1>2, <2>1 DEF FileInv, Accounting, wireVars, Looking
  <2>4. body \in Nat /\ remaining \in Nat /\ file_fd \in Int /\ least \in Int
        /\ least <= file_fd /\ body + remaining = st.size /\ res.content_length = st.size
    BY <2>1 DEF FileInv, FileTypeOK, Accounting, Descriptor, Progress, WithFile, NotOpen
  <2>5. Progress'
    BY <1>2, <2>1, <2>4 DEF Progress, wireVars
  <2> QED
    BY <1>2, <2>2, <2>3, <2>5 DEF FileInv, WithFile
<1> QED
  BY <1>1, <1>2 DEF Sendfile, Goto

\* The file is closed after HEAD as well.
LEMMA CloseStep == FileInv /\ Close => FileInv'
<1> SUFFICES ASSUME FileInv, Close PROVE FileInv'
  OBVIOUS
<1>1. /\ pc = "close" /\ pc' = "done" /\ file_fd' = NotOpen
      /\ UNCHANGED <<wireVars, method, rc, fs, name, st, least>>
  BY DEF Close, Goto
<1>2. FileTypeOK'
  BY <1>1, FileAssumption DEF FileInv, FileTypeOK, wireVars, NotOpen
<1>3. Accounting' /\ Descriptor'
  BY <1>1 DEF FileInv, Accounting, Descriptor, wireVars, Looking, WithFile
<1>4. Progress'
  BY <1>1 DEF FileInv, Descriptor, Progress, wireVars, is_head, WithFile
<1> QED
  BY <1>1, <1>2, <1>3, <1>4 DEF FileInv

\* The body of a page or a listing.
LEMMA SendBodyStep == FileInv /\ SendBody => FileInv'
<1> SUFFICES ASSUME FileInv, SendBody PROVE FileInv'
  OBVIOUS
<1>1. CASE BodyRound /\ UNCHANGED pc
  BY <1>1, SentStep DEF BodyRound, SendBody, fileVars
<1>2. CASE BodyReturns /\ pc' = "done"
  <2>1. /\ pc = "send_body" /\ UNCHANGED <<wireVars, method, rc, fs, name, st, file_fd, least>>
        /\ remaining = 0 \/ ~connected
    BY <1>2 DEF BodyReturns, SendBody
  <2>2. FileTypeOK' /\ Accounting'
    BY <1>2, <2>1 DEF FileInv, FileTypeOK, Accounting, wireVars, Looking
  <2>3. Descriptor' /\ Progress'
    BY <1>2, <2>1 DEF FileInv, Descriptor, Progress, wireVars, Looking, WithFile
  <2> QED
    BY <1>2, <2>2, <2>3 DEF FileInv
<1> QED
  BY <1>1, <1>2 DEF SendBody, Goto

\* What others do to the files.
LEMMA NameChangesStep == FileInv /\ NameChanges => FileInv'
<1> SUFFICES ASSUME FileInv, NameChanges PROVE FileInv'
  OBVIOUS
<1>1. FileTypeOK'
  BY DEF FileInv, FileTypeOK, NameChanges, wireVars
<1>2. Accounting' /\ Descriptor' /\ Progress'
  BY DEF FileInv, Accounting, Descriptor, Progress, NameChanges, wireVars, is_head
<1> QED
  BY <1>1, <1>2 DEF FileInv, NameChanges

\* The open file changes under sendfile().
LEMMA FileResizedStep == FileInv /\ FileResized => FileInv'
<1> SUFFICES ASSUME FileInv, FileResized PROVE FileInv'
  OBVIOUS
<1>1. /\ pc \in WithFile
      /\ UNCHANGED <<wireVars, method, rc, fs, name, st, pc>>
  BY DEF FileInv, Descriptor, FileResized, NotOpen
<1>2. /\ file_fd' \in 0 .. MaxSize /\ least \in NotOpen .. MaxSize /\ least # NotOpen
      /\ least' = (IF file_fd' < least THEN file_fd' ELSE least)
      /\ st.size \in Nat
  BY <1>1, NodeFacts DEF FileInv, FileTypeOK, Descriptor, FileResized
<1>3. least' \in NotOpen .. MaxSize /\ least' # NotOpen /\ least' <= file_fd' /\ least' <= least
  BY <1>2, FileAssumption DEF NotOpen
<1>4. FileTypeOK'
  BY <1>1, <1>2, <1>3, FileAssumption DEF FileInv, FileTypeOK, wireVars, NotOpen
<1>5. Accounting'
  BY <1>1 DEF FileInv, Accounting, wireVars
<1>6. Descriptor'
  BY <1>1, <1>2, <1>3 DEF Descriptor, WithFile, Looking, NotOpen
<1>7. Progress'
  BY <1>1, <1>2, <1>3 DEF FileInv, Progress, wireVars, WithFile, is_head, NotOpen
<1> QED
  BY <1>1, <1>4, <1>5, <1>6, <1>7 DEF FileInv

\* The client goes away.
LEMMA ClientLeavesStep == FileInv /\ ClientLeaves => FileInv'
  BY DEF FileInv, FileTypeOK, Accounting, Descriptor, Progress, ClientLeaves, Disconnect,
         fileVars, is_head

\* Nothing happens.
LEMMA FileStutter == FileInv /\ UNCHANGED allVars => FileInv'
  BY DEF FileInv, FileTypeOK, Accounting, Descriptor, Progress, allVars, wireVars,
         fileVars, is_head

-----------------------------------------------------------------------------
\* The invariant holds when serve_static() is called.
LEMMA FileInitInv == FileInit => FileInv
<1> SUFFICES ASSUME FileInit PROVE FileInv
  OBVIOUS
<1>1. FileTypeOK
  BY FileAssumption, ResponseAssumption, NodeFacts DEF FileInit, WireInit, FileTypeOK, Names, NotOpen
<1>2. Accounting /\ Descriptor /\ Progress
  BY DEF FileInit, WireInit, Accounting, Descriptor, Progress, Looking, WithFile
<1> QED
  BY <1>1, <1>2 DEF FileInv, FileInit, Looking

\* The inductive invariant: what body, remaining and the announced length have
\* to do with each other and with the file at each point of serve_static().
THEOREM FileInvariance == FileSpec => []FileInv
<1>1. FileInit => FileInv
  BY FileInitInv
<1>2. FileInv /\ [FileNext]_allVars => FileInv'
  BY CheckMethodStep, ResolveStep, StatStep, StatIndexStep, OpenStep, SendHeadersStep,
     SendfileStep, CloseStep, SendBodyStep, NameChangesStep, FileResizedStep,
     ClientLeavesStep, FileStutter
  DEF FileNext, serve_static, Returned
<1> QED
  BY <1>1, <1>2, PTL DEF FileSpec

\* The variables keep their types.
THEOREM FileTypeCorrect == FileSpec => []FileTypeOK
<1>1. FileInv => FileTypeOK
  BY DEF FileInv
<1> QED
  BY <1>1, FileInvariance, PTL

\* No response of serve_static() has a body longer than its Content-Length, for
\* files of any size that others grow, cut or replace at any moment.
THEOREM BodyNeverTooLong == FileSpec => []NeverTooLong
<1>1. FileInv => NeverTooLong
  BY DEF FileInv, FileTypeOK, Accounting, NeverTooLong
<1> QED
  BY <1>1, FileInvariance, PTL

\* A response to a client that stayed falls short of its Content-Length only if
\* the file shrank after stat(), or HEAD asked for a file.
THEOREM WellFramed == FileSpec => []Framed
<1>1. FileInv => Framed
  BY DEF FileInv, FileTypeOK, Accounting, Progress, Framed
<1> QED
  BY <1>1, FileInvariance, PTL

\* serve_static() leaves no file open, whichever way it returns.
THEOREM Closes == FileSpec => []FileClosed
<1>1. FileInv => FileClosed
  BY DEF FileInv, Descriptor, FileClosed
<1> QED
  BY <1>1, FileInvariance, PTL

-----------------------------------------------------------------------------
(* Paths and their text.                                                   *)

Name == Seq(Chars) \ {<<>>}
Letters == Chars \cup {"/"}

\* The text of the first names of a path.
UpTo(p) ==
  CHOOSE upto : upto = [n \in 0 .. Len(p) |-> IF n = 0 THEN <<>> ELSE upto[n - 1] \o <<"/">> \o p[n]]

\* u is the text t with one more name behind it.
Segment(u, t, a) ==
  /\ Len(u) = Len(t) + 1 + Len(a)
  /\ \A i \in 1 .. Len(t) : u[i] = t[i]
  /\ u[Len(t) + 1] = "/"
  /\ \A i \in 1 .. Len(a) : u[Len(t) + 1 + i] = a[i]

\* Appending a name to a text.
LEMMA OneMore ==
  ASSUME NEW t \in Seq(Letters), NEW a \in Seq(Letters)
  PROVE  /\ t \o <<"/">> \o a \in Seq(Letters)
         /\ Segment(t \o <<"/">> \o a, t, a)
<1> DEFINE s == <<"/">>
           v == t \o s
           u == v \o a
<1>1. s \in Seq(Letters) /\ Len(s) = 1 /\ s[1] = "/"
  BY DEF Letters
<1> HIDE DEF s
<1>2. v \in Seq(Letters) /\ IsJoin(v, t, s, Len(t), 1)
  BY <1>1, Joined
<1> HIDE DEF v
<1>3. Len(v) = Len(t) + 1 /\ (\A i \in 1 .. Len(t) : v[i] = t[i]) /\ v[Len(t) + 1] = "/"
  BY <1>1, <1>2 DEF IsJoin
<1>4. u \in Seq(Letters) /\ IsJoin(u, v, a, Len(t) + 1, Len(a))
  BY <1>2, <1>3, Joined
<1> HIDE DEF u
<1>5. Segment(u, t, a)
  <2>1. Len(t) \in Nat /\ Len(a) \in Nat
    OBVIOUS
  <2>2. /\ Len(u) = Len(t) + 1 + Len(a)
        /\ \A i \in 1 .. Len(t) + 1 : u[i] = v[i]
        /\ \A i \in 1 .. Len(a) : u[Len(t) + 1 + i] = a[i]
    BY <1>4 DEF IsJoin
  <2> QED
    BY <1>3, <2>1, <2>2 DEF Segment
<1> QED
  BY <1>4, <1>5 DEF u, v, s

\* The text of a path is made name by name.
LEMMA UpToDef ==
  ASSUME NEW p \in Seq(Name)
  PROVE  /\ UpTo(p)[0] = <<>>
         /\ \A n \in 0 .. Len(p) : UpTo(p)[n] \in Seq(Letters)
         /\ \A n \in 1 .. Len(p) : Segment(UpTo(p)[n], UpTo(p)[n - 1], p[n])
<1> DEFINE D == 0 .. Len(p)
           S == Seq(Letters)
           stop == {0}
           base == [n \in D |-> <<>>]
           prev == [n \in D |-> n - 1]
           step == [x \in D \X S |-> IF x[1] = 0 THEN <<>> ELSE x[2] \o <<"/">> \o p[x[1]]]
           Eq(h) == [n \in D |-> IF n = 0 THEN <<>> ELSE h[n - 1] \o <<"/">> \o p[n]]
           f == UpTo(p)
<1>1. Len(p) \in Nat /\ \A n \in 1 .. Len(p) : p[n] \in Seq(Letters)
  <2>1. ASSUME NEW n \in 1 .. Len(p) PROVE p[n] \in Seq(Letters)
    <3>1. p[n] \in Name
      BY ElementOfSeq
    <3>2. p[n] \in Seq(Chars)
      BY <3>1 DEF Name
    <3> QED
      BY <3>2 DEF Letters
  <2> QED
    BY <2>1
<1>2. IsRecursion(D, S, stop, base, prev, step)
  <2>1. base \in [D -> S] /\ D \subseteq Nat
    OBVIOUS
  <2>2. ASSUME NEW x \in D \X S
        PROVE  (IF x[1] = 0 THEN <<>> ELSE x[2] \o <<"/">> \o p[x[1]]) \in S
    <3>1. CASE x[1] = 0
      BY <3>1
    <3>2. CASE x[1] # 0
      <4>1. x[1] \in 1 .. Len(p) /\ x[2] \in Seq(Letters)
        BY <1>1, <3>2
      <4>2. p[x[1]] \in Seq(Letters)
        BY <1>1, <4>1
      <4> QED
        BY <3>2, <4>1, <4>2, OneMore
    <3> QED
      BY <3>1, <3>2
  <2>3. step \in [D \X S -> S]
    BY <2>2
  <2>4. \A m \in D \ stop : prev[m] \in D /\ prev[m] < m
    BY <1>1
  <2> QED
    BY <2>1, <2>3, <2>4 DEF IsRecursion
<1>3. PICK g \in [D -> S] : \A m \in D : g[m] = Value(g, stop, base, prev, step, m)
  <2> HIDE DEF D, S, stop, base, prev, step
  <2> QED
    BY <1>2, Recursion
<1>4. ASSUME NEW m \in D
      PROVE  g[m] = IF m = 0 THEN <<>> ELSE g[m - 1] \o <<"/">> \o p[m]
  <2>1. CASE m = 0
    <3>1. m \in stop /\ base[m] = <<>>
      BY <2>1
    <3>2. g[m] = Value(g, stop, base, prev, step, m)
      BY <1>3
    <3> HIDE DEF stop, base, prev, step
    <3>3. g[m] = <<>>
      BY <3>1, <3>2 DEF Value
    <3> QED
      BY <2>1, <3>3
  <2>2. CASE m # 0
    <3>1. <<m, g[m - 1]>> \in D \X S
      <4>1. m - 1 \in D
        BY <1>1, <2>2
      <4>2. g[m - 1] \in S
        BY <4>1
      <4> QED
        BY <4>2
    <3>2. g[m] = step[<<m, g[m - 1]>>]
      BY <2>2, <1>3 DEF Value
    <3> QED
      BY <2>2, <3>1, <3>2
  <2> QED
    BY <2>1, <2>2
<1>5. g = Eq(g)
  BY <1>4
<1>6. f = Eq(f)
  <2> HIDE DEF f
  <2>1. f = CHOOSE h : h = Eq(h)
    BY DEF f, UpTo
  <2> HIDE DEF Eq
  <2> QED
    BY <1>5, <2>1
<1> HIDE DEF f
<1>7. f[0] = <<>> /\ \A n \in 1 .. Len(p) : f[n] = f[n - 1] \o <<"/">> \o p[n]
  <2>1. f[0] = <<>>
    <3>1. 0 \in D
      BY <1>1
    <3> QED
      BY <1>6, <3>1
  <2>2. ASSUME NEW n \in 1 .. Len(p)
        PROVE  f[n] = f[n - 1] \o <<"/">> \o p[n]
    <3>1. n \in D /\ n # 0
      BY <1>1
    <3> QED
      BY <1>6, <3>1
  <2> QED
    BY <2>1, <2>2
<1>8. \A n \in D : f[n] \in Seq(Letters)
  <2> DEFINE P == {n \in Nat : n \in D => f[n] \in Seq(Letters)}
  <2>1. ASSUME NEW n \in Nat, \A m \in Nat : m < n => m \in P
        PROVE  n \in P
    <3>1. CASE n = 0
      <4>1. f[n] = <<>> /\ <<>> \in Seq(Letters)
        BY <1>7, <3>1
      <4> QED
        BY <4>1
    <3>2. CASE n \in 1 .. Len(p)
      <4>1. n - 1 \in Nat /\ n - 1 < n /\ n - 1 \in D
        BY <1>1, <3>2
      <4>2. f[n - 1] \in Seq(Letters)
        BY <2>1, <4>1
      <4>3. f[n - 1] \o <<"/">> \o p[n] \in Seq(Letters)
        BY <1>1, <3>2, <4>2, OneMore
      <4> QED
        BY <1>7, <3>2, <4>3
    <3> QED
      BY <1>1, <3>1, <3>2
  <2>2. Nat \subseteq P
    <3> HIDE DEF P
    <3> QED
      BY <2>1, Induction
  <2> QED
    BY <1>1, <2>2
<1>9. ASSUME NEW n \in 1 .. Len(p)
      PROVE  Segment(f[n], f[n - 1], p[n])
  <2>1. f[n - 1] \in Seq(Letters) /\ p[n] \in Seq(Letters) /\ f[n] = f[n - 1] \o <<"/">> \o p[n]
    <3>1. n - 1 \in D
      BY <1>1
    <3> QED
      BY <1>1, <1>7, <1>8, <3>1
  <2> QED
    BY <2>1, OneMore
<1> QED
  BY <1>7, <1>8, <1>9 DEF f

\* The text of a whole path.
LEMMA TextIs ==
  ASSUME NEW p
  PROVE  Text(p) = IF p = <<>> THEN <<"/">> ELSE UpTo(p)[Len(p)]
  BY DEF Text, UpTo

\* The text of a path is that of a part of its names and, if there are more, "/".
LEMMA Grows ==
  ASSUME NEW p \in Seq(Name), NEW n \in 0 .. Len(p), NEW m \in 0 .. Len(p), n <= m
  PROVE  /\ Len(UpTo(p)[n]) <= Len(UpTo(p)[m])
         /\ \A i \in 1 .. Len(UpTo(p)[n]) : UpTo(p)[m][i] = UpTo(p)[n][i]
         /\ n < m => /\ Len(UpTo(p)[n]) < Len(UpTo(p)[m])
                     /\ UpTo(p)[m][Len(UpTo(p)[n]) + 1] = "/"
<1> DEFINE f == UpTo(p)
           l == Len(f[n])
           Fine(k) == /\ l <= Len(f[k])
                      /\ \A i \in 1 .. l : f[k][i] = f[n][i]
                      /\ n < k => l < Len(f[k]) /\ f[k][l + 1] = "/"
           P == {k \in Nat : n <= k /\ k <= Len(p) => Fine(k)}
<1>1. /\ Len(p) \in Nat
      /\ \A k \in 0 .. Len(p) : f[k] \in Seq(Letters) /\ Len(f[k]) \in Nat
      /\ \A k \in 1 .. Len(p) : Segment(f[k], f[k - 1], p[k]) /\ Len(p[k]) \in Nat
  <2>1. \A k \in 1 .. Len(p) : p[k] \in Name
    BY ElementOfSeq
  <2> HIDE DEF f
  <2>2. \A k \in 1 .. Len(p) : Len(p[k]) \in Nat
    BY <2>1 DEF Name
  <2>3. Len(p) \in Nat
    OBVIOUS
  <2>4. \A k \in 0 .. Len(p) : f[k] \in Seq(Letters)
    BY UpToDef DEF f
  <2>5. \A k \in 0 .. Len(p) : Len(f[k]) \in Nat
    BY <2>4
  <2>6. \A k \in 1 .. Len(p) : Segment(f[k], f[k - 1], p[k])
    BY UpToDef DEF f
  <2> QED
    BY <2>2, <2>3, <2>4, <2>5, <2>6
<1> HIDE DEF f
<1>2. l \in Nat /\ n \in Nat /\ m \in Nat /\ n <= Len(p) /\ m <= Len(p) /\ l = Len(f[n])
  BY <1>1
<1> HIDE DEF l
<1>3. ASSUME NEW k \in Nat, \A j \in Nat : j < k => j \in P
      PROVE  k \in P
  <2> SUFFICES ASSUME n <= k, k <= Len(p) PROVE Fine(k)
    OBVIOUS
  <2>1. CASE k = n
    BY <1>2, <2>1
  <2>2. CASE k # n
    <3> DEFINE j == k - 1
    <3>1. j \in Nat /\ j < k /\ n <= j /\ j <= Len(p) /\ k \in 1 .. Len(p) /\ n < k /\ (n = j \/ n < j)
          /\ j \in 0 .. Len(p) /\ k \in 0 .. Len(p)
      BY <1>2, <2>2
    <3>2. Segment(f[k], f[j], p[k]) /\ Len(p[k]) \in Nat /\ Len(f[j]) \in Nat /\ Len(f[k]) \in Nat
      BY <1>1, <3>1
    <3> HIDE DEF j
    <3>3. Fine(j)
      BY <1>3, <3>1
    <3>4. l <= Len(f[j]) /\ Len(f[k]) = Len(f[j]) + 1 + Len(p[k])
      BY <3>2, <3>3 DEF Segment
    <3>5. \A i \in 1 .. Len(f[j]) : f[k][i] = f[j][i]
      BY <3>2 DEF Segment
    <3>6. f[k][Len(f[j]) + 1] = "/"
      BY <3>2 DEF Segment
    <3>7. l < Len(f[k])
      <4> DEFINE x == Len(f[j])
                 y == Len(f[k])
                 z == Len(p[k])
      <4>1. x \in Nat /\ z \in Nat /\ l \in Nat /\ l <= x /\ y = x + 1 + z
        BY <1>2, <3>2, <3>4
      <4> HIDE DEF x, y, z
      <4>2. l < y
        BY <4>1
      <4> QED
        BY <4>2 DEF y
    <3>8. \A i \in 1 .. l : f[k][i] = f[n][i]
      BY <1>2, <3>2, <3>3, <3>4, <3>5
    <3>9. f[k][l + 1] = "/"
      <4>1. CASE n = j
        BY <1>2, <3>6, <4>1
      <4>2. CASE n < j
        <5>1. l + 1 \in 1 .. Len(f[j]) /\ f[j][l + 1] = "/"
          BY <1>2, <3>2, <3>3, <4>2
        <5> QED
          BY <3>5, <5>1
      <4> QED
        BY <3>1, <4>1, <4>2
    <3> QED
      BY <1>2, <3>2, <3>7, <3>8, <3>9
  <2> QED
    BY <2>1, <2>2
<1>4. Nat \subseteq P
  <2> HIDE DEF P
  <2> QED
    BY <1>3, Induction
<1>5. Fine(m)
  BY <1>2, <1>4
<1> QED
  BY <1>2, <1>5 DEF f

\* The same names have the same text.
LEMMA SameNames ==
  ASSUME NEW p \in Seq(Name), NEW q \in Seq(Name), NEW k \in Nat,
         k <= Len(p), k <= Len(q), \A i \in 1 .. k : p[i] = q[i]
  PROVE  UpTo(p)[k] = UpTo(q)[k]
<1> DEFINE P == {n \in Nat : n <= k => UpTo(p)[n] = UpTo(q)[n]}
<1>1. ASSUME NEW n \in Nat, \A j \in Nat : j < n => j \in P
      PROVE  n \in P
  <2> SUFFICES ASSUME n <= k PROVE UpTo(p)[n] = UpTo(q)[n]
    OBVIOUS
  <2>1. CASE n = 0
    BY <2>1, UpToDef
  <2>2. CASE n # 0
    <3>1. n - 1 \in Nat /\ n - 1 < n /\ n - 1 <= k /\ n \in 1 .. Len(p) /\ n \in 1 .. Len(q)
          /\ n \in 0 .. Len(p) /\ n \in 0 .. Len(q) /\ n \in 1 .. k
      BY <2>2
    <3> DEFINE u == UpTo(p)[n]
               v == UpTo(q)[n]
               t == UpTo(p)[n - 1]
               a == p[n]
    <3>2. UpTo(q)[n - 1] = t /\ q[n] = a
      BY <1>1, <3>1
    <3>3. u \in Seq(Letters) /\ v \in Seq(Letters)
      BY <3>1, UpToDef
    <3>4. Segment(u, t, a)
      BY <3>1, UpToDef
    <3>5. Segment(v, t, a)
      <4>1. Segment(v, UpTo(q)[n - 1], q[n])
        BY <3>1, UpToDef
      <4> QED
        BY <3>2, <4>1
    <3>6. t \in Seq(Letters) /\ a \in Seq(Chars)
      <4>1. n - 1 \in 0 .. Len(p)
        BY <3>1
      <4>2. a \in Name
        BY <3>1, ElementOfSeq
      <4> QED
        BY <4>1, <4>2, UpToDef DEF Name
    <3> HIDE DEF u, v, t, a
    <3>7. Len(t) \in Nat /\ Len(a) \in Nat
      BY <3>6
    <3>8. Len(u) = Len(v) /\ Len(u) = Len(t) + 1 + Len(a)
      BY <3>4, <3>5 DEF Segment
    <3>9. ASSUME NEW i \in 1 .. Len(u) PROVE u[i] = v[i]
      <4>1. CASE i \in 1 .. Len(t)
        BY <3>4, <3>5, <4>1 DEF Segment
      <4>2. CASE i = Len(t) + 1
        BY <3>4, <3>5, <4>2 DEF Segment
      <4>3. CASE i > Len(t) + 1
        <5> DEFINE j == i - Len(t) - 1
        <5>1. j \in 1 .. Len(a) /\ i = Len(t) + 1 + j
          BY <3>7, <3>8, <4>3
        <5> HIDE DEF j
        <5> QED
          BY <3>4, <3>5, <5>1 DEF Segment
      <4>4. i \in 1 .. Len(t) \/ i = Len(t) + 1 \/ i > Len(t) + 1
        <5> DEFINE m == Len(t)
        <5>1. i \in Nat /\ i >= 1 /\ m \in Nat
          BY <3>7
        <5> HIDE DEF m
        <5>2. i \in 1 .. m \/ i = m + 1 \/ i > m + 1
          BY <5>1
        <5> QED
          BY <5>2 DEF m
      <4> QED
        BY <4>1, <4>2, <4>3, <4>4
    <3>10. u = v
      BY <3>3, <3>8, <3>9, SeqEqual
    <3> QED
      BY <3>10 DEF u, v
  <2> QED
    BY <2>1, <2>2
<1>2. Nat \subseteq P
  <2> HIDE DEF P
  <2> QED
    BY <1>1, Induction
<1> QED
  BY <1>2

-----------------------------------------------------------------------------
(* The comparison of resolve_safe_path().                                  *)

\* What it asks of the texts of the root and of the path.
Inside(root, text) ==
  IsPrefix(root, text) /\ (Len(text) = Len(root) \/ text[Len(root) + 1] = "/")

\* A prefix, element by element.
LEMMA PrefixIs ==
  ASSUME NEW A, NEW s \in Seq(A), NEW t \in Seq(A)
  PROVE  IsPrefix(s, t) <=> Len(s) <= Len(t) /\ \A i \in 1 .. Len(s) : s[i] = t[i]
<1> DEFINE k == Len(s)
<1>1. k \in Nat /\ Len(t) \in Nat
  OBVIOUS
<1>2. SubSeq(s, 1, k) = s
  BY SubSeqFull
<1>3. ASSUME k <= Len(t)
      PROVE  SubSeq(s, 1, k) = SubSeq(t, 1, k) <=> \A i \in 1 .. k : s[i] = t[i]
  <2> DEFINE u == SubSeq(t, 1, k)
  <2>1. \A i \in 1 .. k : t[i] \in A
    BY <1>1, <1>3, ElementOfSeq
  <2>2. /\ u \in Seq(A)
        /\ Len(u) = IF 1 <= k THEN k - 1 + 1 ELSE 0
        /\ \A i \in 1 .. k - 1 + 1 : u[i] = t[1 + i - 1]
    BY <1>1, <2>1, SubSeqProperties
  <2> HIDE DEF u
  <2>3. Len(u) = k /\ \A i \in 1 .. k : u[i] = t[i]
    BY <1>1, <2>2
  <2>4. ASSUME \A i \in 1 .. k : s[i] = t[i] PROVE s = u
    <3>1. \A i \in 1 .. Len(s) : s[i] = u[i]
      BY <2>3, <2>4
    <3> QED
      BY <2>2, <2>3, <3>1, SeqEqual
  <2>5. s = u => \A i \in 1 .. k : s[i] = t[i]
    BY <2>3
  <2> QED
    BY <1>2, <2>4, <2>5 DEF u
<1> QED
  BY <1>3 DEF IsPrefix

\* The name a stands in a text behind at of its characters, and "/" or nothing
\* follows it.
Stands(text, at, a) ==
  /\ a \in Seq(Chars) /\ at \in Nat
  /\ at + Len(a) <= Len(text)
  /\ \A i \in 1 .. Len(a) : text[at + i] = a[i]
  /\ Len(text) = at + Len(a) \/ text[at + Len(a) + 1] = "/"

\* Two names at the same place of texts of which one goes on as the other are the
\* same, since "/" or the end follows each and neither has a "/".
LEMMA SameName ==
  ASSUME NEW r \in Seq(Letters), NEW q \in Seq(Letters), NEW a, NEW b, NEW at,
         Stands(r, at, a), Stands(q, at, b),
         Len(r) <= Len(q), \A i \in 1 .. Len(r) : r[i] = q[i],
         Len(q) = Len(r) \/ q[Len(r) + 1] = "/"
  PROVE  a = b
<1> USE DEF Stands
<1> DEFINE x == Len(a)
           y == Len(b)
<1>1. x \in Nat /\ y \in Nat /\ Len(r) \in Nat /\ Len(q) \in Nat /\ x = Len(a) /\ y = Len(b)
  OBVIOUS
<1>2. (\A i \in 1 .. x : a[i] # "/") /\ (\A i \in 1 .. y : b[i] # "/")
  BY ElementOfSeq, FileAssumption
<1> HIDE DEF x, y
<1>3. ASSUME x < y PROVE FALSE
  <2>1. x + 1 \in 1 .. y /\ q[at + (x + 1)] = b[x + 1] /\ at + (x + 1) = at + x + 1 /\ at + x + 1 <= Len(q)
    BY <1>1, <1>3
  <2>2. q[at + x + 1] # "/"
    BY <1>2, <2>1
  <2>3. CASE Len(r) = at + x
    BY <1>1, <2>1, <2>2, <2>3
  <2>4. CASE Len(r) # at + x
    <3>1. r[at + x + 1] = "/" /\ at + x + 1 \in 1 .. Len(r)
      BY <1>1, <2>4
    <3> QED
      BY <2>2, <3>1
  <2> QED
    BY <2>3, <2>4
<1>4. ASSUME y < x PROVE FALSE
  <2>1. y + 1 \in 1 .. x /\ r[at + (y + 1)] = a[y + 1] /\ at + (y + 1) = at + y + 1 /\ at + y + 1 \in 1 .. Len(r)
    BY <1>1, <1>4
  <2>2. q[at + y + 1] # "/"
    BY <1>2, <2>1
  <2>3. Len(q) # at + y
    BY <1>1, <2>1
  <2> QED
    BY <1>1, <2>2, <2>3
<1>5. x = y
  BY <1>1, <1>3, <1>4
<1>6. ASSUME NEW i \in 1 .. x PROVE a[i] = b[i]
  <2> DEFINE m == at + i
  <2>1. m \in 1 .. Len(r) /\ r[m] = a[i] /\ q[m] = b[i]
    BY <1>1, <1>5
  <2> HIDE DEF m
  <2> QED
    BY <2>1
<1> QED
  BY <1>1, <1>5, <1>6, SeqEqual

\* Where the n-th name stands in the text of a path.
LEMMA Placed ==
  ASSUME NEW p \in Seq(Name), NEW n \in 1 .. Len(p)
  PROVE  Stands(UpTo(p)[Len(p)], Len(UpTo(p)[n - 1]) + 1, p[n])
<1> DEFINE u == UpTo(p)[n]
           t == UpTo(p)[n - 1]
           text == UpTo(p)[Len(p)]
           a == p[n]
           at == Len(t) + 1
<1>1. n \in 0 .. Len(p) /\ n - 1 \in 0 .. Len(p) /\ Len(p) \in 0 .. Len(p) /\ n <= Len(p)
  OBVIOUS
<1>2. a \in Seq(Chars)
  <2>1. a \in Name
    BY ElementOfSeq
  <2> QED
    BY <2>1 DEF Name
<1>3. t \in Seq(Letters) /\ u \in Seq(Letters) /\ text \in Seq(Letters)
  BY <1>1, UpToDef
<1>4. Segment(u, t, a)
  BY UpToDef
<1>5. /\ Len(u) <= Len(text)
      /\ \A i \in 1 .. Len(u) : text[i] = u[i]
      /\ n < Len(p) => text[Len(u) + 1] = "/"
  BY <1>1, Grows
<1>6. n = Len(p) => text = u
  OBVIOUS
<1> HIDE DEF u, text, a
<1>7. at = Len(t) + 1
  OBVIOUS
<1> HIDE DEF t, a, text, at
<1>8. /\ Len(t) \in Nat /\ Len(u) \in Nat /\ Len(a) \in Nat /\ Len(text) \in Nat
      /\ at \in Nat /\ Len(u) = at + Len(a)
  <2>1. Len(t) \in Nat /\ Len(u) \in Nat /\ Len(a) \in Nat /\ Len(text) \in Nat
    BY <1>2, <1>3
  <2>2. Len(u) = Len(t) + 1 + Len(a)
    BY <1>4 DEF Segment
  <2> DEFINE x == Len(t)
             y == Len(u)
             z == Len(a)
  <2>3. x \in Nat /\ z \in Nat /\ y = x + 1 + z /\ at = x + 1
    BY <1>7, <2>1, <2>2
  <2> HIDE DEF x, y, z
  <2>4. at \in Nat /\ y = at + z
    BY <2>3
  <2> QED
    BY <2>1, <2>4 DEF y, z
<1>9. ASSUME NEW i \in 1 .. Len(a) PROVE text[at + i] = a[i]
  <2> DEFINE m == at + i
  <2>1. m \in 1 .. Len(u) /\ m = Len(t) + 1 + i
    <3>1. m = Len(t) + 1 + i
      BY <1>7
    <3>2. m \in 1 .. Len(u)
      <4> DEFINE y == Len(u)
                 z == Len(a)
      <4>1. i \in 1 .. z /\ z \in Nat /\ at \in Nat /\ y = at + z /\ y \in Nat
        BY <1>8
      <4> HIDE DEF y, z
      <4>2. m \in 1 .. y
        BY <4>1
      <4> QED
        BY <4>2 DEF y
    <3> QED
      BY <3>1, <3>2
  <2> HIDE DEF m
  <2>2. u[m] = a[i]
    BY <1>4, <2>1 DEF Segment
  <2>3. text[m] = a[i]
    BY <1>5, <2>1, <2>2
  <2> QED
    BY <2>3 DEF m
<1>10. Len(text) = at + Len(a) \/ text[at + Len(a) + 1] = "/"
  <2>1. CASE n = Len(p)
    BY <1>6, <1>8, <2>1
  <2>2. CASE n < Len(p)
    BY <1>5, <1>8, <2>2
  <2>3. n = Len(p) \/ n < Len(p)
    BY <1>1
  <2> QED
    BY <2>1, <2>2, <2>3
<1>11. at + Len(a) <= Len(text)
  BY <1>5, <1>8
<1> QED
  BY <1>2, <1>8, <1>9, <1>10, <1>11 DEF Stands, text, at, a, t

\* What the comparison lets pass begins with the names of the root.
LEMMA OnlyInside ==
  ASSUME NEW r \in Seq(Name), NEW q \in Seq(Name),
         Inside(UpTo(r)[Len(r)], UpTo(q)[Len(q)])
  PROVE  Len(r) <= Len(q) /\ \A i \in 1 .. Len(r) : r[i] = q[i]
<1> DEFINE root == UpTo(r)[Len(r)]
           text == UpTo(q)[Len(q)]
           P == {n \in Nat : n <= Len(r) => n <= Len(q) /\ \A i \in 1 .. n : r[i] = q[i]}
<1>1. Len(r) \in Nat /\ Len(q) \in Nat /\ Len(r) \in 0 .. Len(r) /\ Len(q) \in 0 .. Len(q)
  OBVIOUS
<1>2. root \in Seq(Letters) /\ text \in Seq(Letters)
  BY <1>1, UpToDef
<1>3. /\ Len(root) <= Len(text) /\ \A i \in 1 .. Len(root) : root[i] = text[i]
      /\ Len(text) = Len(root) \/ text[Len(root) + 1] = "/"
  <2> HIDE DEF root, text
  <2>1. Inside(root, text)
    BY DEF root, text
  <2> QED
    BY <1>2, <2>1, PrefixIs DEF Inside
<1>4. ASSUME NEW n \in Nat, \A k \in Nat : k < n => k \in P
      PROVE  n \in P
  <2> SUFFICES ASSUME n <= Len(r) PROVE n <= Len(q) /\ \A i \in 1 .. n : r[i] = q[i]
    OBVIOUS
  <2>1. CASE n = 0
    BY <1>1, <2>1
  <2>2. CASE n # 0
    <3> DEFINE k == n - 1
               t == UpTo(r)[k]
    <3>1. k \in Nat /\ k < n /\ k <= Len(r) /\ n \in 1 .. Len(r) /\ k \in 0 .. Len(r) /\ n = k + 1
      BY <1>1, <2>2
    <3>2. k <= Len(q) /\ \A i \in 1 .. k : r[i] = q[i]
      BY <1>4, <3>1
    <3> HIDE DEF k
    <3>3. UpTo(q)[k] = t /\ t \in Seq(Letters)
      <4>1. UpTo(r)[k] = UpTo(q)[k]
        BY <3>1, <3>2, SameNames
      <4> QED
        BY <3>1, <4>1, UpToDef
    <3>4. Len(t) < Len(root)
      <4>1. k <= Len(r) /\ k < Len(r)
        BY <1>1, <3>1
      <4> QED
        BY <1>1, <3>1, <4>1, Grows
    <3>5. k < Len(q)
      <4>1. CASE k = Len(q)
        <5>1. text = t
          BY <3>3, <4>1
        <5> HIDE DEF root, text, t
        <5>2. Len(root) <= Len(t) /\ Len(root) \in Nat /\ Len(t) \in Nat
          BY <1>2, <1>3, <5>1
        <5> QED
          BY <3>4, <5>2
      <4> QED
        BY <1>1, <3>1, <3>2, <4>1
    <3>6. n <= Len(q) /\ n \in 1 .. Len(q)
      BY <1>1, <3>1, <3>5
    <3> DEFINE a == r[n]
               b == q[n]
               at == Len(t) + 1
    <3>7. n - 1 = k
      BY <3>1
    <3> HIDE DEF t
    <3>8. at = Len(UpTo(r)[n - 1]) + 1 /\ at = Len(UpTo(q)[n - 1]) + 1
      BY <3>3, <3>7 DEF t
    <3>9. Stands(root, at, a)
      <4> HIDE DEF at
      <4> QED
        BY <3>1, <3>8, Placed
    <3>10. Stands(text, at, b)
      <4> HIDE DEF at
      <4> QED
        BY <3>6, <3>8, Placed
    <3>11. a = b
      <4> HIDE DEF a, b, at, root, text
      <4> QED
        BY <1>2, <1>3, <3>9, <3>10, SameName
    <3>12. ASSUME NEW i \in 1 .. n PROVE r[i] = q[i]
      <4>1. i \in 1 .. k \/ i = n
        BY <3>1
      <4> QED
        BY <3>2, <3>11, <4>1
    <3> QED
      BY <3>6, <3>12
  <2> QED
    BY <2>1, <2>2
<1>5. Nat \subseteq P
  <2> HIDE DEF P
  <2> QED
    BY <1>4, Induction
<1> QED
  BY <1>1, <1>5

\* What begins with the names of the root passes.
LEMMA AllInside ==
  ASSUME NEW r \in Seq(Name), NEW q \in Seq(Name),
         Len(r) <= Len(q), \A i \in 1 .. Len(r) : r[i] = q[i]
  PROVE  Inside(UpTo(r)[Len(r)], UpTo(q)[Len(q)])
<1> DEFINE root == UpTo(r)[Len(r)]
           text == UpTo(q)[Len(q)]
<1>1. /\ Len(r) \in Nat /\ Len(q) \in Nat /\ Len(r) \in 0 .. Len(r) /\ Len(q) \in 0 .. Len(q)
      /\ Len(r) \in 0 .. Len(q)
  OBVIOUS
<1>2. root = UpTo(q)[Len(r)]
  BY <1>1, SameNames
<1>3. root \in Seq(Letters) /\ text \in Seq(Letters)
  BY <1>1, UpToDef
<1>4. /\ Len(root) <= Len(text)
      /\ \A i \in 1 .. Len(root) : text[i] = root[i]
      /\ Len(r) < Len(q) => text[Len(root) + 1] = "/"
  <2> HIDE DEF root
  <2> QED
    BY <1>1, <1>2, Grows
<1>5. Len(r) = Len(q) => root = text
  BY <1>2
<1> HIDE DEF root, text
<1>6. IsPrefix(root, text)
  BY <1>3, <1>4, PrefixIs
<1>7. Inside(root, text)
  <2>1. CASE Len(r) = Len(q)
    BY <1>5, <1>6, <2>1 DEF Inside
  <2>2. CASE Len(r) < Len(q)
    BY <1>4, <1>6, <2>2 DEF Inside
  <2> QED
    BY <1>1, <2>1, <2>2
<1> QED
  BY <1>7 DEF root, text

\* resolve_safe_path() accepts the document root and what is below it, and
\* nothing else.
LEMMA Resolves ==
  ASSUME NEW p \in Paths, p # NoPath
  PROVE  resolve_safe_path(p) = IF IsPrefix(Root, p) THEN 0 ELSE -2
<1>1. p \in Seq(Name) /\ Root \in Seq(Name) /\ Root # <<>>
  BY FileAssumption DEF Name
<1>2. resolve_safe_path(p) = IF Inside(Text(Root), Text(p)) THEN 0 ELSE -2
  BY DEF resolve_safe_path, Inside
<1>3. Text(Root) = UpTo(Root)[Len(Root)]
  BY <1>1, TextIs
<1>4. CASE p # <<>>
  <2>1. Text(p) = UpTo(p)[Len(p)]
    BY <1>4, TextIs
  <2>2. Inside(Text(Root), Text(p)) <=> Len(Root) <= Len(p) /\ \A i \in 1 .. Len(Root) : Root[i] = p[i]
    BY <1>1, <1>3, <2>1, OnlyInside, AllInside
  <2>3. IsPrefix(Root, p) <=> Len(Root) <= Len(p) /\ \A i \in 1 .. Len(Root) : Root[i] = p[i]
    BY <1>1, PrefixIs
  <2> QED
    BY <1>2, <2>2, <2>3
<1>5. CASE p = <<>>
  <2>1. ~IsPrefix(Root, p)
    <3>1. Len(Root) > 0 /\ Len(p) = 0
      BY <1>1, <1>5
    <3>2. IsPrefix(Root, p) => Len(Root) <= Len(p)
      BY <1>1, PrefixIs
    <3> QED
      BY <3>1, <3>2
  <2>2. Text(p) = <<"/">> /\ <<"/">> \in Seq(Letters) /\ Len(<<"/">>) = 1
    BY <1>5, TextIs DEF Letters
  <2>3. Len(Text(Root)) > 1 /\ Text(Root) \in Seq(Letters)
    <3> DEFINE u == UpTo(Root)[Len(Root)]
               a == Root[1]
               at == Len(UpTo(Root)[1 - 1]) + 1
    <3>1. Len(Root) \in Nat /\ 1 \in 1 .. Len(Root) /\ Len(Root) \in 0 .. Len(Root)
      BY <1>1
    <3>2. u \in Seq(Letters)
      BY <1>1, <3>1, UpToDef
    <3>3. a \in Seq(Chars) /\ at \in Nat /\ at + Len(a) <= Len(u)
      <4> HIDE DEF at
      <4>1. at = Len(UpTo(Root)[1 - 1]) + 1
        BY DEF at
      <4>2. Stands(u, at, a)
        BY <1>1, <3>1, <4>1, Placed
      <4> QED
        BY <4>2 DEF Stands
    <3>4. Len(a) > 0
      <4>1. a \in Name
        BY <1>1, <3>1, ElementOfSeq
      <4> HIDE DEF a
      <4> QED
        BY <4>1 DEF Name
    <3>5. at > 0
      <4>1. UpTo(Root)[0] = <<>>
        BY <1>1, UpToDef
      <4> QED
        BY <4>1
    <3> HIDE DEF u, a, at
    <3>6. Len(u) \in Nat /\ Len(a) \in Nat
      BY <3>2, <3>3
    <3>7. Len(u) > 1
      BY <3>3, <3>4, <3>5, <3>6
    <3> QED
      BY <1>3, <3>2, <3>7 DEF u
  <2>4. ~IsPrefix(Text(Root), Text(p))
    <3>1. Len(Text(Root)) \in Nat /\ Len(Text(p)) = 1
      BY <2>2, <2>3
    <3>2. Text(p) \in Seq(Letters)
      BY <2>2
    <3>3. IsPrefix(Text(Root), Text(p)) => Len(Text(Root)) <= Len(Text(p))
      BY <2>3, <3>2, PrefixIs
    <3> QED
      BY <2>3, <3>1, <3>3
  <2> QED
    BY <1>2, <2>1, <2>4 DEF Inside
<1> QED
  BY <1>4, <1>5

\* rc is what resolve_safe_path() made of real_path.
Resolved == rc = 0 \/ rc = -2 => real_path \in Paths /\ real_path # NoPath /\ rc = resolve_safe_path(real_path)

\* Only Resolve changes the two.
LEMMA ResolvedStep == Resolved /\ [FileNext]_allVars => Resolved'
<1> SUFFICES ASSUME Resolved, [FileNext]_allVars PROVE Resolved'
  OBVIOUS
<1>1. CASE Resolve
  <2>1. real_path' \in Paths \cup {NoPath} /\ rc' = resolve_safe_path(real_path')
    BY <1>1 DEF Resolve
  <2>2. CASE real_path' = NoPath
    <3>1. rc' = -1
      BY <2>1, <2>2 DEF resolve_safe_path
    <3> QED
      BY <3>1 DEF Resolved
  <2>3. CASE real_path' # NoPath
    BY <2>1, <2>3 DEF Resolved
  <2> QED
    BY <2>2, <2>3
<1>2. CASE UNCHANGED <<rc, real_path>>
  <2>1. Resolved' <=> Resolved
    BY <1>2 DEF Resolved
  <2> QED
    BY <2>1
<1>3. Resolve \/ UNCHANGED <<rc, real_path>>
  BY DEF FileNext, NameChanges, FileResized, ClientLeaves, serve_static, CheckMethod, Stat,
         StatIndex, Open, SendHeaders, Sendfile, Close, SendBody, Returned, allVars, fileVars
<1> QED
  BY <1>1, <1>2, <1>3

\* file_server.c serves the document root and what is below it, and nothing else:
\* comparing texts is as good as comparing names, for every root and every path.
THEOREM KeepsToRoot == FileSpec => []RootRespected
<1>1. FileInit => Resolved
  BY DEF FileInit, Resolved
<1>2. Resolved => RootRespected
  <2> SUFFICES ASSUME Resolved PROVE RootRespected
    OBVIOUS
  <2>1. CASE rc = 0 \/ rc = -2
    <3>1. rc = IF IsPrefix(Root, real_path) THEN 0 ELSE -2
      BY <2>1, Resolves DEF Resolved
    <3> QED
      BY <3>1 DEF RootRespected
  <2>2. CASE ~(rc = 0 \/ rc = -2)
    BY <2>2 DEF RootRespected
  <2> QED
    BY <2>1, <2>2
<1> QED
  BY <1>1, <1>2, ResolvedStep, PTL DEF FileSpec
=============================================================================
