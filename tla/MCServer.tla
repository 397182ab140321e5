------------------------------ MODULE MCServer ------------------------------
(***************************************************************************)
(* Server on small instances.  Descriptors are interchangeable; workers    *)
(* are not (main joins them in order).                                     *)
(***************************************************************************)
EXTENDS Server, TLC

CONSTANTS f1, f2, f3, f4, f5

TwoFDs == {f1, f2}
FiveFDs == {f1, f2, f3, f4, f5}
AnyThread == Threads
MainOnly == {Main}

Descriptors == Permutations(FDs)
=============================================================================
