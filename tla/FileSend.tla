------------------------------ MODULE FileSend ------------------------------
(***************************************************************************)
(* What sending one file promises, with nothing said about how it is done. *)
(* The receiver already holds some of the chunks; every other chunk is put *)
(* on the wire at most once, in any order; the file is announced complete  *)
(* only when nothing is missing; and until then the send may be abandoned. *)
(* After an abandoned send, frames that were already on their way inside   *)
(* the sender may still go out.                                            *)
(***************************************************************************)
EXTENDS Integers

CONSTANT NumChunks          \* chunks in the file

VARIABLES held,             \* chunks the receiver reported it already has
          sent,             \* how many times each chunk was handed to a channel
          outcome           \* "sending", "complete" or "error"

vars == <<held, sent, outcome>>

Chunks == 0 .. NumChunks - 1

Init ==
  /\ held \in SUBSET Chunks
  /\ sent = [i \in Chunks |-> 0]
  /\ outcome = "sending"

Transmit(i) ==
  /\ i \notin held
  /\ sent[i] = 0
  /\ sent' = [sent EXCEPT ![i] = 1]
  /\ UNCHANGED <<held, outcome>>

Complete ==
  /\ outcome = "sending"
  /\ \A i \in Chunks : i \in held \/ sent[i] = 1
  /\ outcome' = "complete"
  /\ UNCHANGED <<held, sent>>

Abandon ==
  /\ outcome = "sending"
  /\ outcome' = "error"
  /\ UNCHANGED <<held, sent>>

Next ==
  \/ \E i \in Chunks : Transmit(i)
  \/ Complete
  \/ Abandon

Spec == Init /\ [][Next]_vars
=============================================================================
