--------------------------- MODULE MCSendPipeline ---------------------------
(* Constants of the SendPipeline runs. *)
EXTENDS SendPipeline

CONSTANTS c1, c2

TwoChannels == {c1, c2}

\* A window that lets one frame through and one that lets two.
TwoWindows == {[low |-> 0, high |-> 0], [low |-> 1, high |-> 1]}
OneWindow == {[low |-> 0, high |-> 0]}

Survivable == {"readFail", "sendFull"}
=============================================================================
