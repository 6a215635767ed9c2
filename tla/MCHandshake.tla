---------------------------- MODULE MCHandshake -----------------------------
(* Constants of the Handshake run. *)
EXTENDS Handshake

\* A batch for one connection, and one for two.
OneAndTwo == {8 * MiB - 1, 8 * MiB}

\* The sender has a host and a relay candidate in the first slot; the others
\* have one.
TwoAndOne == [p \in At |-> IF p = <<"sender", 0>> THEN 2 ELSE 1]

SomeLimits == {Unknown, 64 * KiB}
=============================================================================
