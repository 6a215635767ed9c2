--------------------------- MODULE MCTransferRoom ---------------------------
(* Constants of the TransferRoom runs. *)
EXTENDS TransferRoom

RoomFaults == {"silent", "linger"}
=============================================================================
