------------------------------- MODULE Sizing -------------------------------
(***************************************************************************)
(* The numbers a transfer is cut by: how many connections a batch gets     *)
(* (multi-peer.ts), how large a chunk may be (resolveChunkSize and         *)
(* frameChunk, transfer.ts), and how much may be in flight (adaptive.ts).  *)
(* Bytes, milliseconds and bytes per second are natural numbers.           *)
(***************************************************************************)
EXTENDS Integers

KiB == 1024
MiB == 1024 * KiB

AtMost(a, b) == IF a <= b THEN a ELSE b      \* Math.min
AtLeast(a, b) == IF a >= b THEN a ELSE b     \* Math.max
Unknown == -1                                \* null or undefined

-----------------------------------------------------------------------------
(* Connections *)

MaxConnections == 4                          \* MAX_PARALLEL_CONNECTIONS

\* chooseConnectionCount()
ConnectionCount(totalBytes) ==
  IF totalBytes < 8 * MiB THEN 1
  ELSE IF totalBytes < 64 * MiB THEN 2
  ELSE MaxConnections

-----------------------------------------------------------------------------
(* Chunks *)

FrameHeader == 4
SafetyMargin == 1024
PreferredChunk == 256 * KiB
MinChunk == 16 * KiB
FallbackChunk == 64 * KiB

\* A limit that resolveChunkSize() does not throw on.  0: no limit.
Usable(limit) == limit \in {Unknown, 0} \/ limit > FrameHeader

\* resolveChunkSize() of such a limit
ChunkSize(limit) ==
  LET usable == limit - FrameHeader - SafetyMargin IN
  CASE limit = Unknown -> FallbackChunk
    [] limit = 0 -> PreferredChunk
    [] limit > 0 /\ usable > 0 ->
         AtMost(AtLeast(MinChunk, AtMost(PreferredChunk, usable)), usable)
    [] OTHER -> limit - FrameHeader

\* frameChunk()
FrameSize(chunk) == FrameHeader + chunk

-----------------------------------------------------------------------------
(* The window of a channel *)

MinWindow == 256 * KiB
MaxWindow == 32 * MiB
StartWindow == 512 * KiB
BaselineBytesPerMs == 12500                  \* ASSUMED_BASELINE_BITS_PER_SEC

\* estimateInitialWindow(); sampleRttMs() gives whole milliseconds here.
InitialWindow(rttMs) ==
  IF rttMs = Unknown \/ rttMs <= 0 THEN StartWindow
  ELSE AtMost(MaxWindow, AtLeast(StartWindow, BaselineBytesPerMs * rttMs))

\* new AdaptiveWindowController()
Controller(initial) ==
  [window |-> AtMost(MaxWindow, AtLeast(MinWindow, initial)),
   lastRate |-> 0, settled |-> FALSE]

\* getLowWatermark(), which the channel compares in whole bytes
LowWatermark(c) == AtLeast(256 * KiB, c.window \div 4)

\* Math.round() of 1.5 and of 0.6 of a window
Grown(w) == (3 * w + 1) \div 2
Shrunk(w) == (6 * w + 5) \div 10

\* The rate moved by more than IMPROVEMENT_THRESHOLD.
Faster(c, rate) == 100 * (rate - c.lastRate) > 8 * c.lastRate
Slower(c, rate) == 100 * (c.lastRate - rate) > 8 * c.lastRate

\* maybeAdjust(), when its SAMPLE_INTERVAL_MS is over
Adjusted(c, rate) ==
  CASE c.lastRate = 0 \/ rate = 0 -> [c EXCEPT !.lastRate = rate]
    [] c.lastRate # 0 /\ rate # 0 /\ ~c.settled /\ Faster(c, rate) ->
         [c EXCEPT !.lastRate = rate, !.window = AtMost(MaxWindow, Grown(@))]
    [] c.lastRate # 0 /\ rate # 0 /\ Slower(c, rate) ->
         [window |-> AtLeast(MinWindow, Shrunk(c.window)), lastRate |-> rate,
          settled |-> TRUE]
    [] OTHER -> [c EXCEPT !.lastRate = rate, !.settled = TRUE]
=============================================================================
