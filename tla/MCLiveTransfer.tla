--------------------------- MODULE MCLiveTransfer ---------------------------
(* Constants of the LiveTransfer runs. *)
EXTENDS LiveTransfer

OneFile == <<3>>
TwoFiles == <<2, 1>>

NoFaults == {}
AllFaults == ReceiverFaults \cup {"senderStops", "giveUp"}
=============================================================================
