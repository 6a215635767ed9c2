-------------------------- MODULE StoredLifecycle --------------------------
(***************************************************************************)
(* What a stored transfer promises: uploading, available, gone, in that    *)
(* order and once each, and no more downloads than the allowance.  A       *)
(* download that was being counted when the transfer ended still counts.   *)
(***************************************************************************)
EXTENDS Integers

CONSTANT Allowances

VARIABLES allowance,       \* downloads allowed; 0: unlimited
          status,          \* "none", "uploading", "available" or "gone"
          downloads        \* downloads acknowledged

vars == <<allowance, status, downloads>>

Exhausted(n) == allowance # 0 /\ n >= allowance

Init == allowance \in Allowances /\ status = "none" /\ downloads = 0

Create ==
  status = "none" /\ status' = "uploading" /\ UNCHANGED <<allowance, downloads>>

Publish ==
  status = "uploading" /\ status' = "available" /\ UNCHANGED <<allowance, downloads>>

Count ==
  /\ status \in {"available", "gone"}
  /\ ~Exhausted(downloads)
  /\ downloads' = downloads + 1
  /\ status' = IF Exhausted(downloads') THEN "gone" ELSE status
  /\ UNCHANGED allowance

End ==
  /\ status \in {"uploading", "available"}
  /\ status' = "gone"
  /\ UNCHANGED <<allowance, downloads>>

Next == Create \/ Publish \/ Count \/ End

Spec == Init /\ [][Next]_vars
=============================================================================
