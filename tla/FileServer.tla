----------------------------- MODULE FileServer -----------------------------
(***************************************************************************)
(* file_server.c: serve_static() for one request, while other processes    *)
(* change the files it looks at between any two of its system calls.       *)
(*                                                                         *)
(* A path is the sequence of its names and a name the sequence of its      *)
(* characters: resolve_safe_path() compares the text.                      *)
(***************************************************************************)
EXTENDS HttpResponse, Sequences, SequencesExt

CONSTANTS
  Chars,     \* what names are made of, other than "/"
  Root,      \* what realpath() makes of the document root
  Paths,     \* what it may make of a request's path
  NoPath,    \* it fails, for the path or for the root
  MaxSize,   \* bound on the size of files
  Listings   \* lengths a directory listing may have (it fits the 64 KB buffer)

ASSUME FileAssumption ==
  /\ "/" \notin Chars
  /\ Root \in Seq(Seq(Chars) \ {<<>>}) \ {<<>>}
  /\ Paths \subseteq Seq(Seq(Chars) \ {<<>>})
  /\ MaxSize \in Nat
  /\ Listings \subseteq Nat

VARIABLES
  method, keep_alive,  \* of the request
  real_path,           \* the resolved path, accepted or not
  rc,                  \* what resolve_safe_path() returned
  fs,                  \* what real_path and its index.html name now
  name,                \* which of the two is served
  st,                  \* what stat() said of it
  file_fd,             \* size of the open file, if one is open
  least,               \* the least size it has had since it was opened
  pc

fileVars == <<method, keep_alive, real_path, rc, fs, name, st, file_fd, least, pc>>
allVars == <<wireVars, fileVars>>

Names == {"path", "index"}
Absent == [kind |-> "absent", size |-> 0]
Regular(n) == [kind |-> "regular", size |-> n]
Nodes ==
  {Absent, [kind |-> "directory", size |-> 0], [kind |-> "special", size |-> 0]}
    \cup {Regular(n) : n \in 0 .. MaxSize}

NotOpen == -2
NotRegular == -1

FileInit ==
  /\ WireInit
  /\ method \in {"GET", "HEAD", "POST"}
  /\ keep_alive \in BOOLEAN
  /\ real_path = NoPath
  /\ rc = 1
  /\ fs \in [Names -> Nodes]
  /\ name = "path"
  /\ st = Absent
  /\ file_fd = NotOpen
  /\ least = NotOpen
  /\ pc = "method"

-----------------------------------------------------------------------------
(* Other processes: a name is created, removed or replaced, and the open   *)
(* file grows or is truncated.                                             *)

NameChanges ==
  /\ \E p \in Names, f \in Nodes : fs' = [fs EXCEPT ![p] = f]
  /\ UNCHANGED <<wireVars, method, keep_alive, real_path, rc, name, st, file_fd, least, pc>>

FileResized ==
  /\ file_fd >= 0
  /\ file_fd' \in 0 .. MaxSize
  /\ least' = IF file_fd' < least THEN file_fd' ELSE least
  /\ UNCHANGED <<wireVars, method, keep_alive, real_path, rc, fs, name, st, pc>>

ClientLeaves == Disconnect /\ UNCHANGED fileVars

-----------------------------------------------------------------------------
(* serve_static.                                                           *)

Goto(label) == pc' = label

\* The header the request asks for.
Asked == IF keep_alive THEN "keep-alive" ELSE "close"

\* http_response_error(); the body follows at "send_body".
http_response_error(status) ==
  /\ http_response_send_headers(HttpResponse(status, "close", ErrorLen))
  /\ Goto("send_body")

is_head == method = "HEAD"

CheckMethod ==
  /\ pc = "method"
  /\ \/ /\ ~is_head /\ method # "GET"
        /\ http_response_send_headers(HttpResponse(405, "close", 0))
        /\ Goto("done")
     \/ /\ is_head \/ method = "GET"
        /\ Goto("resolve")
        /\ UNCHANGED wireVars
  /\ UNCHANGED <<method, keep_alive, real_path, rc, fs, name, st, file_fd, least>>

\* A path as realpath() writes it.
Text(p) ==
  LET upto[n \in 0 .. Len(p)] == IF n = 0 THEN <<>> ELSE upto[n - 1] \o <<"/">> \o p[n]
  IN  IF p = <<>> THEN <<"/">> ELSE upto[Len(p)]

\* Faulty variant: strncmp() alone.
ComparesPrefixOnly(p) ==
  IF p = NoPath THEN -1
  ELSE IF IsPrefix(Text(Root), Text(p)) THEN 0 ELSE -2

resolve_safe_path(p) ==
  IF p = NoPath THEN -1
  ELSE LET root == Text(Root)
           text == Text(p)
       IN  IF IsPrefix(root, text) /\ (Len(text) = Len(root) \/ text[Len(root) + 1] = "/")
           THEN 0 ELSE -2

Resolve ==
  /\ pc = "resolve"
  /\ real_path' \in Paths \cup {NoPath}
  /\ rc' = resolve_safe_path(real_path')
  /\ \/ rc' = -2 /\ http_response_error(403)
     \/ rc' = -1 /\ http_response_error(404)
     \/ rc' = 0 /\ Goto("stat") /\ UNCHANGED wireVars
  /\ UNCHANGED <<method, keep_alive, fs, name, st, file_fd, least>>

Stat ==
  /\ pc = "stat"
  /\ st' = fs["path"]
  /\ \/ /\ st'.kind = "absent"
        /\ http_response_error(404)
     \/ /\ st'.kind = "directory"
        /\ Goto("index")
        /\ UNCHANGED wireVars
     \/ /\ st'.kind = "special"
        /\ http_response_error(403)
     \/ /\ st'.kind = "regular"
        /\ Goto("open")
        /\ UNCHANGED wireVars
  /\ UNCHANGED <<method, keep_alive, real_path, rc, fs, name, file_fd, least>>

\* The listing is built in a buffer and sent with its length, for HEAD as well;
\* 403 if the directory cannot be opened.
serve_directory_listing ==
  \/ http_response_error(403)
  \/ /\ \E n \in Listings : http_response_send_headers(HttpResponse(200, Asked, n))
     /\ Goto("send_body")

\* index.html of a directory if there is one, else the listing; 403 if the path
\* is too long.
StatIndex ==
  /\ pc = "index"
  /\ \/ /\ http_response_error(403)
        /\ UNCHANGED <<name, st>>
     \/ /\ fs["index"].kind = "regular"
        /\ name' = "index"
        /\ st' = fs["index"]
        /\ Goto("open")
        /\ UNCHANGED wireVars
     \/ /\ fs["index"].kind # "regular"
        /\ serve_directory_listing
        /\ UNCHANGED <<name, st>>
  /\ UNCHANGED <<method, keep_alive, real_path, rc, fs, file_fd, least>>

\* open() takes what the name stands for now, which need not be what stat()
\* saw; it may fail for other reasons as well.
Open ==
  /\ pc = "open"
  /\ \/ /\ \E status \in {403, 404} : http_response_error(status)
        /\ UNCHANGED <<file_fd, least>>
     \/ /\ fs[name].kind # "absent"
        /\ file_fd' = IF fs[name].kind = "regular" THEN fs[name].size ELSE NotRegular
        /\ least' = file_fd'
        /\ Goto("headers")
        /\ UNCHANGED wireVars
  /\ UNCHANGED <<method, keep_alive, real_path, rc, fs, name, st>>

SendHeaders ==
  /\ pc = "headers"
  /\ http_response_send_headers(HttpResponse(200, Asked, st.size))
  /\ Goto(IF is_head THEN "close" ELSE "sendfile")
  /\ UNCHANGED <<method, keep_alive, real_path, rc, fs, name, st, file_fd, least>>

\* Faulty variant: the function returns when the transfer failed.
ReturnsOnError ==
  /\ pc = "sendfile"
  /\ \/ SendfileRound(file_fd) /\ UNCHANGED pc
     \/ SendfileReturns(file_fd) /\ Goto(IF connected THEN "close" ELSE "done")
  /\ UNCHANGED <<method, keep_alive, real_path, rc, fs, name, st, file_fd, least>>

Sendfile ==
  /\ pc = "sendfile"
  /\ \/ SendfileRound(file_fd) /\ UNCHANGED pc
     \/ SendfileReturns(file_fd) /\ Goto("close")
  /\ UNCHANGED <<method, keep_alive, real_path, rc, fs, name, st, file_fd, least>>

Close ==
  /\ pc = "close"
  /\ file_fd' = NotOpen
  /\ Goto("done")
  /\ UNCHANGED <<wireVars, method, keep_alive, real_path, rc, fs, name, st, least>>

\* Faulty variant: one write() for the whole body.
WritesOnce ==
  /\ pc = "send_body"
  /\ BodyRound \/ BodyReturns
  /\ Goto("done")
  /\ UNCHANGED <<method, keep_alive, real_path, rc, fs, name, st, file_fd, least>>

SendBody ==
  /\ pc = "send_body"
  /\ \/ BodyRound /\ UNCHANGED pc
     \/ BodyReturns /\ Goto("done")
  /\ UNCHANGED <<method, keep_alive, real_path, rc, fs, name, st, file_fd, least>>

serve_static ==
  \/ CheckMethod \/ Resolve \/ Stat \/ StatIndex \/ Open
  \/ SendHeaders \/ Sendfile \/ Close \/ SendBody

Returned == pc = "done" /\ UNCHANGED allVars

FileNext == NameChanges \/ FileResized \/ ClientLeaves \/ serve_static \/ Returned

\* The worker runs, and a client that is connected takes bytes.
FileSpec == FileInit /\ [][FileNext]_allVars /\ WF_allVars(serve_static)

-----------------------------------------------------------------------------
(* Properties.                                                             *)

\* Types of the variables; no more than a header block is written for a head.
FileTypeOK ==
  /\ connected \in BOOLEAN
  /\ head \in 0 .. HeadLen
  /\ body \in Nat /\ remaining \in Nat
  /\ rc \in {1, 0, -1, -2}
  /\ fs \in [Names -> Nodes]
  /\ st \in Nodes
  /\ name \in Names
  /\ file_fd \in NotOpen .. MaxSize /\ least \in NotOpen .. MaxSize

\* A body is never longer than its Content-Length, however the file grows
\* between stat() and sendfile(): behind a complete head, the next response on a
\* kept-alive connection is not preceded by bytes nobody announced.
NeverTooLong == res # NoResponse => body <= res.content_length

\* It is shorter only for a reason the server cannot help: the client is gone,
\* the open file has been below the size stat() saw, or HEAD asks for a file.
Framed ==
  pc = "done" /\ connected /\ body < res.content_length =>
    least # NotOpen /\ (least < st.size \/ is_head)

\* Every way out of serve_static() has closed the file.
FileClosed == pc = "done" => file_fd = NotOpen

\* A path is accepted exactly if it names the document root or something below
\* it: the comparison of text agrees with that of path names.
RootRespected ==
  /\ rc = 0 => IsPrefix(Root, real_path)
  /\ rc = -2 => ~IsPrefix(Root, real_path)

\* serve_static() returns, also when the file shrinks under it.
ResponseEnds == <>(pc = "done")

\* file_server.c: "HEAD is identical to GET but the body is omitted."
HeadHasNoBody == is_head => body = 0
=============================================================================
