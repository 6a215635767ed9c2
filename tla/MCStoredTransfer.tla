-------------------------- MODULE MCStoredTransfer --------------------------
(* Constants of the StoredTransfer runs. *)
EXTENDS StoredTransfer

CONSTANTS r1, r2

TwoReceivers == {r1, r2}
OneReceiver == {r1}

OneOrAny == {0, 1}
JustOne == {1}

NoFaults == {}
AllFaults == {"netFail", "crash"}
=============================================================================
