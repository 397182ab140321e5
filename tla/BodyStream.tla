----------------------------- MODULE BodyStream -----------------------------
(***************************************************************************)
(* What a body sent in pieces is for the one who reads it: its bytes in    *)
(* order, each once, and an end that is seen only when the sender has      *)
(* finished and nothing is missing.  It may also stop anywhere.            *)
(***************************************************************************)
EXTENDS Naturals, Sequences

VARIABLES
  given,      \* bytes the sender has handed over; they are numbered from 1
  finishing,  \* the sender has handed over the last
  got,        \* the bytes the reader has
  ended       \* the reader has seen the end

bodyVars == <<given, finishing, got, ended>>

Init == given = 0 /\ finishing = FALSE /\ got = <<>> /\ ended = FALSE

Give ==
  /\ ~finishing
  /\ given' >= given
  /\ finishing' \in BOOLEAN
  /\ UNCHANGED <<got, ended>>

Deliver ==
  /\ ~ended
  /\ Len(got) < given
  /\ got' = Append(got, Len(got) + 1)
  /\ UNCHANGED <<given, finishing, ended>>

End ==
  /\ finishing
  /\ Len(got) = given
  /\ ended' = TRUE
  /\ UNCHANGED <<given, finishing, got>>

Spec == Init /\ [][Give \/ Deliver \/ End]_bodyVars
=============================================================================
