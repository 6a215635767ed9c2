----------------------------- MODULE FileReceive -----------------------------
(***************************************************************************)
(* What receiving a batch promises, with nothing said about how it is done.*)
(* A file is given to the user at most once, and only with the bytes the   *)
(* sender has; the transfer is called done with the file that completes    *)
(* the batch, never before or after; and it may end early, after which     *)
(* nothing is given any more.                                              *)
(***************************************************************************)
EXTENDS Sequences

CONSTANT Whole              \* Whole[f]: the bytes of file f

VARIABLES given,            \* the files the user got, with their bytes
          outcome           \* "active", "done" or how it ended instead

vars == <<given, outcome>>

Init == given = <<>> /\ outcome = "active"

Missing == {f \in DOMAIN Whole : \A k \in DOMAIN given : given[k][1] # f}

Give(f) ==
  /\ outcome = "active"
  /\ given' = Append(given, <<f, Whole[f]>>)
  /\ outcome' = IF Missing = {f} THEN "done" ELSE "active"

Abandon ==
  /\ outcome = "active"
  /\ outcome' \in {"error", "cancelled"}
  /\ UNCHANGED given

Next == (\E f \in Missing : Give(f)) \/ Abandon

Spec == Init /\ [][Next]_vars
=============================================================================
