---------------------------- MODULE MCKeepAlive -----------------------------
(***************************************************************************)
(* KeepAlive on streams built from a few kinds of request.                 *)
(***************************************************************************)
EXTENDS KeepAlive, FiniteSetsExt

Kind(head, body, ok, keep) == [head |-> head, body |-> body, ok |-> ok, keep |-> keep]

\* With a buffer of 13 places (12 bytes and the NUL): a request that fits more
\* than once, and one that fills the buffer; then requests that end the
\* connection: too large by a byte for their body or their head, malformed, and
\* asking to close.
Short == Kind(5, 0, TRUE, TRUE)

Going == {Short, Kind(5, 7, TRUE, TRUE)}

Ending == {
  Kind(5, 8, TRUE, TRUE),
  Kind(13, 0, TRUE, TRUE),
  Kind(5, 0, FALSE, TRUE),
  Kind(5, 1, TRUE, FALSE)}

EndOf(ks, k) == MapThenSumSet(LAMBDA i : ks[i].head + ks[i].body, 1 .. k)

StreamOf(ks, pipelining) ==
  [n |-> Len(ks),
   pipelining |-> pipelining,
   head |-> [k \in 1 .. Len(ks) |-> EndOf(ks, k - 1) + ks[k].head],
   end |-> [k \in 0 .. Len(ks) |-> EndOf(ks, k)],
   ok |-> [k \in 1 .. Len(ks) |-> ks[k].ok],
   keep |-> [k \in 1 .. Len(ks) |-> ks[k].keep]]

\* Two requests, the first or the second of which may end the connection, and
\* where the client pipelines a short one behind them.
Pairs == (Going \X (Going \cup Ending)) \cup (Ending \X {Short})

AllStreams ==
  {StreamOf(p, FALSE) : p \in Pairs} \cup {StreamOf(Append(p, Short), TRUE) : p \in Pairs}
=============================================================================
