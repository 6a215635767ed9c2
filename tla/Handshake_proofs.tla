-------------------------- MODULE Handshake_proofs --------------------------
(***************************************************************************)
(* What the handshake promises, for every batch, every number of           *)
(* candidates, every set of limits and every fault.                        *)
(*                                                                         *)
(* A candidate that was sent is on the wire, in one of the two queues of   *)
(* the connection it is for, or with the browser.  The queues are empty    *)
(* when a connection is stable, so then it is with the browser.            *)
(*                                                                         *)
(* Before that, what the arithmetic of Sizing promises, for every limit,   *)
(* round-trip time and rate.                                               *)
(***************************************************************************)
EXTENDS Handshake, WellFoundedInduction, TLAPS

(* The arithmetic of Sizing. *)

\* A controller between two samples (AdaptiveWindowController).
Controllers ==
  [window : MinWindow .. MaxWindow, lastRate : Nat, settled : BOOLEAN]

\* How the bounds of the window compare.
LEMMA Bounds ==
  /\ MinWindow \in Nat /\ StartWindow \in Nat /\ MaxWindow \in Nat
  /\ 1 < MinWindow /\ MinWindow <= StartWindow /\ StartWindow <= MaxWindow
BY DEF MinWindow, StartWindow, MaxWindow, KiB, MiB

\* A batch gets at least one connection and at most MAX_PARALLEL_CONNECTIONS,
\* and a larger batch no fewer (chooseConnectionCount()).
THEOREM ConnectionsBounded ==
  ASSUME NEW small \in Nat, NEW large \in Nat, small <= large
  PROVE  /\ ConnectionCount(small) \in 1 .. MaxConnections
         /\ ConnectionCount(small) <= ConnectionCount(large)
BY DEF ConnectionCount, MaxConnections, MiB, KiB

\* A chunk is never empty, and with its header it is never larger than the
\* limit it was made for: the soft minimum and the safety margin give way
\* (resolveChunkSize()).
THEOREM ChunkFits ==
  ASSUME NEW largest \in Nat, largest > FrameHeader
  PROVE  ChunkSize(largest) > 0 /\ FrameSize(ChunkSize(largest)) <= largest
<1> DEFINE usable == largest - FrameHeader - SafetyMargin
<1>1. CASE usable > 0
  <2>1. ChunkSize(largest)
          = AtMost(AtLeast(MinChunk, AtMost(PreferredChunk, usable)), usable)
    BY <1>1 DEF ChunkSize, Unknown, FrameHeader, SafetyMargin
  <2>2. /\ AtMost(AtLeast(MinChunk, AtMost(PreferredChunk, usable)), usable) > 0
        /\ AtMost(AtLeast(MinChunk, AtMost(PreferredChunk, usable)), usable) <= usable
    BY <1>1 DEF AtMost, AtLeast, MinChunk, PreferredChunk, KiB, FrameHeader, SafetyMargin
  <2> QED
    BY <2>1, <2>2 DEF FrameSize, FrameHeader, SafetyMargin, AtMost, AtLeast, MinChunk,
                      PreferredChunk, KiB
<1>2. CASE ~(usable > 0)
  <2>1. ChunkSize(largest) = largest - FrameHeader
    BY <1>2 DEF ChunkSize, Unknown, FrameHeader, SafetyMargin
  <2> QED BY <2>1 DEF FrameSize, FrameHeader
<1> QED BY <1>1, <1>2

\* A chunk made for a limit fits every connection that has at least that one,
\* which is why runTransfer() takes the smallest.
THEOREM ChunkFitsLarger ==
  ASSUME NEW largest \in Nat, largest > FrameHeader, NEW other \in Nat, largest <= other
  PROVE  FrameSize(ChunkSize(largest)) <= other
<1>1. ChunkSize(largest) \in Int
  BY DEF ChunkSize, AtMost, AtLeast, MinChunk, PreferredChunk, FallbackChunk, KiB,
         FrameHeader, SafetyMargin, Unknown
<1> QED BY <1>1, ChunkFits DEF FrameSize, FrameHeader

\* The window starts between its bounds, whatever time was measured
\* (estimateInitialWindow(), the constructor).
THEOREM WindowStarts ==
  ASSUME NEW rttMs \in Nat \cup {Unknown}
  PROVE  /\ InitialWindow(rttMs) \in StartWindow .. MaxWindow
         /\ Controller(InitialWindow(rttMs)) \in Controllers
         /\ Controller(InitialWindow(rttMs)).window = InitialWindow(rttMs)
<1>1. InitialWindow(rttMs) \in StartWindow .. MaxWindow
  <2>1. CASE rttMs = Unknown \/ rttMs <= 0
    BY <2>1, Bounds DEF InitialWindow
  <2>2. CASE ~(rttMs = Unknown \/ rttMs <= 0)
    <3> DEFINE estimate == BaselineBytesPerMs * rttMs
    <3>1. estimate \in Nat
      BY <2>2 DEF BaselineBytesPerMs, Unknown
    <3> HIDE DEF estimate
    <3>2. AtMost(MaxWindow, AtLeast(StartWindow, estimate)) \in StartWindow .. MaxWindow
      BY <3>1, Bounds DEF AtMost, AtLeast
    <3> QED BY <2>2, <3>2 DEF InitialWindow, estimate
  <2> QED BY <2>1, <2>2
<1>2. ASSUME NEW w \in StartWindow .. MaxWindow
      PROVE  AtMost(MaxWindow, AtLeast(MinWindow, w)) = w /\ w \in MinWindow .. MaxWindow
  BY Bounds DEF AtMost, AtLeast
<1> QED BY <1>1, <1>2 DEF Controller, Controllers

\* What growing and shrinking do to a window within its bounds.
LEMMA WindowMoves ==
  ASSUME NEW w \in MinWindow .. MaxWindow
  PROVE  /\ AtMost(MaxWindow, Grown(w)) \in w .. MaxWindow
         /\ AtLeast(MinWindow, Shrunk(w)) \in MinWindow .. w
<1>1. w \in Int /\ 1 < w /\ MinWindow <= w /\ w <= MaxWindow
  BY Bounds
<1>2. Grown(w) \in Int /\ w <= Grown(w)
  BY <1>1 DEF Grown
<1>3. Shrunk(w) \in Int /\ Shrunk(w) <= w
  BY <1>1 DEF Shrunk
<1> QED BY <1>1, <1>2, <1>3, Bounds DEF AtMost, AtLeast

\* However the rate goes, a sample keeps the window between its bounds
\* (maybeAdjust()).
THEOREM WindowBounded ==
  ASSUME NEW c \in Controllers, NEW rate \in Nat
  PROVE  Adjusted(c, rate) \in Controllers
<1>1. c.window \in MinWindow .. MaxWindow /\ c.settled \in BOOLEAN
  BY DEF Controllers
<1>2. /\ AtMost(MaxWindow, Grown(c.window)) \in MinWindow .. MaxWindow
      /\ AtLeast(MinWindow, Shrunk(c.window)) \in MinWindow .. MaxWindow
  BY <1>1, WindowMoves, Bounds
<1> QED BY <1>1, <1>2 DEF Adjusted, Controllers

\* A controller that has backed off once, or held, does not grow again
\* (`settled`); it still backs off.
THEOREM SettledNeverGrows ==
  ASSUME NEW c \in Controllers, NEW rate \in Nat, c.settled
  PROVE  Adjusted(c, rate).settled /\ Adjusted(c, rate).window <= c.window
<1>1. c.window \in MinWindow .. MaxWindow
  BY DEF Controllers
<1>2. AtLeast(MinWindow, Shrunk(c.window)) <= c.window
  BY <1>1, WindowMoves, Bounds
<1>3. c.window <= c.window
  BY <1>1, Bounds
<1> QED BY <1>1, <1>2, <1>3 DEF Adjusted, Controllers

\* A channel that has drained to its low watermark is below its window: the
\* consumer that waits for it is woken before the window is empty
\* (getLowWatermark()).
THEOREM WatermarkBelowWindow ==
  ASSUME NEW c \in Controllers
  PROVE  LowWatermark(c) \in MinWindow .. c.window
<1>1. c.window \in MinWindow .. MaxWindow
  BY DEF Controllers
<1>2. LowWatermark(c) = AtLeast(MinWindow, c.window \div 4)
  BY DEF LowWatermark, MinWindow
<1> QED BY <1>1, <1>2, Bounds DEF AtLeast

-----------------------------------------------------------------------------
(* The handshake. *)

Places == {"none", "new", "offered", "setting", "flushing", "answering", "stable",
           "closed"}
Messages ==
  [kind : {"CONFIG", "OFFER", "ANSWER", "ICE_CANDIDATE"}, slot : Slots, candidate : Nat]

TypeOK ==
  /\ count \in 1 .. MaxConnections /\ expected \in Nat
  /\ wire \in [Ends -> Seq(Messages)]
  /\ stage \in [At -> Places]
  /\ gathered \in [At -> Nat]
  /\ pending \in [At -> SUBSET Nat] /\ flushing \in [At -> SUBSET Nat]
  /\ known \in [At -> SUBSET Nat]
  /\ limit \in [Slots -> Limits \cup {Unknown}]

Items(w) == {w[i] : i \in DOMAIN w}

\* Nothing but the CONFIG reaches a receiver that still waits for it.
ConfigFirst ==
  expected = 0 =>
    /\ wire["receiver"] # <<>> /\ Head(wire["receiver"]) = Config
    /\ \A s \in Slots : stage[<<"receiver", s>>] = "none"

\* What is queued: candidates that came before the description, and after it
\* those that are being added.
Queues ==
  \A p \in At :
    /\ flushing[p] # {} => stage[p] \in {"flushing", "closed"}
    /\ RemoteSet(p) => pending[p] = {}

\* A connection that is up, or that the CONFIG will stand up.
Expected(p) == Alive(p) \/ (p[1] = "receiver" /\ expected = 0)

Held(p) == known[p] \cup pending[p] \cup flushing[p]

\* Where the candidates of the other end are.
Whereabouts ==
  \A end \in Ends, s \in Slots :
    Expected(<<end, s>>) =>
      \A c \in 1 .. gathered[<<Other(end), s>>] :
        Ice(s, c) \in Items(wire[end]) \/ c \in Held(<<end, s>>)

IInv == TypeOK /\ ConfigFirst /\ Queues /\ Whereabouts

-----------------------------------------------------------------------------
(* Lemmas *)

\* The slots and the messages are what they are made for.
LEMMA SlotFacts ==
  /\ 0 \in Slots /\ Slots \subseteq 0 .. MaxConnections - 1
  /\ \A b \in TotalBytes : ConnectionCount(b) \in 1 .. MaxConnections
  /\ Config \in Messages
  /\ \A s \in Slots : Offer(s) \in Messages /\ Answer(s) \in Messages
  /\ \A s \in Slots, c \in Nat : Ice(s, c) \in Messages
<1>1. \A b \in TotalBytes : b \in Nat
  BY HandshakeAssumption
<1>2. \A b \in TotalBytes : ConnectionCount(b) \in 1 .. MaxConnections
  BY <1>1, ConnectionsBounded
<1>3. 0 \in Slots /\ Slots \subseteq 0 .. MaxConnections - 1
  <2>1. \A b \in TotalBytes : ConnectionCount(b) \in Nat /\ 0 < ConnectionCount(b)
    BY <1>2 DEF MaxConnections
  <2>2. \E b \in TotalBytes : TRUE
    BY HandshakeAssumption
  <2>3. 0 \in 0 .. MaxConnections - 1
    BY DEF MaxConnections
  <2> QED BY <2>1, <2>2, <2>3 DEF Slots
<1> QED BY <1>2, <1>3 DEF Messages, Config, Offer, Answer, Ice, Message

LEMMA IceFacts ==
  ASSUME NEW s \in Slots, NEW t \in Slots, NEW c \in Nat, NEW d \in Nat
  PROVE  /\ Ice(s, c) # Config /\ Ice(s, c) # Offer(t) /\ Ice(s, c) # Answer(t)
         /\ Ice(s, c) = Ice(t, d) <=> s = t /\ c = d
         /\ Ice(s, c).kind = "ICE_CANDIDATE" /\ Ice(s, c).slot = s
         /\ Ice(s, c).candidate = c /\ Config.kind = "CONFIG"
BY DEF Config, Offer, Answer, Ice, Message

\* A socket keeps what was sent until it is delivered.
LEMMA AppendItems ==
  ASSUME NEW w \in Seq(Messages), NEW m \in Messages
  PROVE  /\ Append(w, m) \in Seq(Messages) /\ Append(w, m) # <<>>
         /\ Items(w) \subseteq Items(Append(w, m)) /\ m \in Items(Append(w, m))
         /\ w # <<>> => Head(Append(w, m)) = Head(w)
<1>1. /\ Append(w, m) \in Seq(Messages) /\ Len(Append(w, m)) = Len(w) + 1
      /\ Append(w, m)[Len(w) + 1] = m
      /\ \A i \in 1 .. Len(w) : Append(w, m)[i] = w[i]
  OBVIOUS
<1>2. DOMAIN w = 1 .. Len(w) /\ DOMAIN Append(w, m) = 1 .. Len(w) + 1 /\ Len(w) \in Nat
  BY <1>1
<1> QED BY <1>1, <1>2 DEF Items

LEMMA TailItems ==
  ASSUME NEW w \in Seq(Messages), w # <<>>
  PROVE  /\ Tail(w) \in Seq(Messages) /\ Head(w) \in Messages
         /\ Items(w) \subseteq Items(Tail(w)) \cup {Head(w)}
<1>1. /\ Tail(w) \in Seq(Messages) /\ Head(w) \in Messages /\ Head(w) = w[1]
      /\ Len(w) \in Nat /\ Len(w) > 0 /\ DOMAIN w = 1 .. Len(w)
      /\ DOMAIN Tail(w) = 1 .. Len(w) - 1
      /\ \A i \in 1 .. Len(w) - 1 : Tail(w)[i] = w[i + 1]
  OBVIOUS
<1>2. ASSUME NEW i \in 1 .. Len(w), i # 1
      PROVE  w[i] \in Items(Tail(w))
  <2>1. i - 1 \in 1 .. Len(w) - 1 /\ w[i] = Tail(w)[i - 1]
    BY <1>1, <1>2
  <2> QED BY <1>1, <2>1 DEF Items
<1> QED BY <1>1, <1>2 DEF Items

\* A message goes to the end of the other socket.
LEMMA SendFacts ==
  ASSUME TypeOK, NEW end \in Ends, NEW m \in Messages, Send(end, m)
  PROVE  /\ wire' \in [Ends -> Seq(Messages)]
         /\ \A e \in Ends : Items(wire[e]) \subseteq Items(wire'[e])
         /\ m \in Items(wire'[Other(end)])
         /\ wire["receiver"] # <<>> =>
              /\ wire'["receiver"] # <<>>
              /\ Head(wire'["receiver"]) = Head(wire["receiver"])
<1>1. Other(end) \in Ends /\ "receiver" \in Ends
  BY DEF Other, Ends
<1>2. \A e \in Ends : wire[e] \in Seq(Messages)
  BY DEF TypeOK
<1>3. /\ wire'[Other(end)] = Append(wire[Other(end)], m)
      /\ \A e \in Ends \ {Other(end)} : wire'[e] = wire[e]
      /\ wire' \in [Ends -> Seq(Messages)]
  BY <1>1, <1>2, AppendItems DEF Send, TypeOK
<1>4. /\ Items(wire[Other(end)]) \subseteq Items(wire'[Other(end)])
      /\ m \in Items(wire'[Other(end)]) /\ wire'[Other(end)] # <<>>
      /\ wire[Other(end)] # <<>> => Head(wire'[Other(end)]) = Head(wire[Other(end)])
  BY <1>1, <1>2, <1>3, AppendItems
<1> QED BY <1>1, <1>3, <1>4

\* One connection moves on.
LEMMA GoesFacts ==
  ASSUME TypeOK, NEW p \in At, NEW place \in Places, Goes(p, place)
  PROVE  /\ stage' \in [At -> Places]
         /\ stage'[p] = place /\ \A q \in At \ {p} : stage'[q] = stage[q]
BY DEF Goes, TypeOK

LEMMA PairFacts ==
  /\ \A end \in Ends, s \in Slots : <<end, s>> \in At
  /\ \A s \in Slots : <<"receiver", s>> \in At
  /\ \A p \in At : p[1] \in Ends /\ p[2] \in Slots /\ p = <<p[1], p[2]>>
BY DEF At, Ends

\* The receiver still waits, and still has nothing.
LEMMA ConfigKept ==
  ASSUME ConfigFirst, expected' = expected,
         wire["receiver"] # <<>> =>
           wire'["receiver"] # <<>> /\ Head(wire'["receiver"]) = Head(wire["receiver"]),
         \A s \in Slots :
           stage[<<"receiver", s>>] = "none" => stage'[<<"receiver", s>>] = "none"
  PROVE  ConfigFirst'
BY DEF ConfigFirst

\* Nothing is taken from a socket or from a queue.
LEMMA WhereKept ==
  ASSUME TypeOK, Whereabouts, gathered' = gathered,
         \A p \in At : Expected(p)' => Expected(p),
         \A end \in Ends : Items(wire[end]) \subseteq Items(wire'[end]),
         \A p \in At : Held(p) \subseteq Held(p)'
  PROVE  Whereabouts'
<1> SUFFICES ASSUME NEW end \in Ends, NEW s \in Slots, Expected(<<end, s>>)',
                    NEW c \in 1 .. gathered[<<Other(end), s>>]
             PROVE  Ice(s, c) \in Items(wire'[end]) \/ c \in Held(<<end, s>>)'
  BY DEF Whereabouts
<1>1. <<end, s>> \in At
  BY PairFacts
<1>2. Ice(s, c) \in Items(wire[end]) \/ c \in Held(<<end, s>>)
  BY <1>1 DEF Whereabouts
<1> QED BY <1>1, <1>2

-----------------------------------------------------------------------------
(* The steps *)

\* A receiver that gives up on the CONFIG stands up one connection.
LEMMA ConfigTimeoutStep ==
  ASSUME IInv, ConfigTimeout
  PROVE  IInv'
<1>1. TypeOK'
  BY DEF IInv, TypeOK, ConfigTimeout, StandUp, Stand, Places
<1>2. ConfigFirst'
  BY DEF ConfigTimeout, StandUp, ConfigFirst
<1>3. \A p \in At : stage'[p] = stage[p] \/ (stage[p] = "none" /\ stage'[p] = "new")
  BY PairFacts DEF IInv, TypeOK, ConfigFirst, ConfigTimeout, StandUp, Stand
<1>4. Queues'
  BY <1>3 DEF IInv, Queues, RemoteSet, ConfigTimeout
<1>5. Whereabouts'
  <2>1. \A p \in At : Expected(p)' => Expected(p)
    BY DEF Expected, Alive, IInv, TypeOK, ConfigTimeout, StandUp, Stand
  <2> QED BY <2>1, WhereKept DEF IInv, Held, ConfigTimeout
<1> QED BY <1>1, <1>2, <1>4, <1>5 DEF IInv

\* An offer is sent by a connection that has nothing yet.
LEMMA InitiateStep ==
  ASSUME IInv, NEW s \in Slots, Initiate(s)
  PROVE  IInv'
<1> DEFINE p == <<"sender", s>>
<1>1. p \in At /\ "sender" \in Ends /\ Offer(s) \in Messages /\ "offered" \in Places
  BY PairFacts, SlotFacts DEF Ends, Places
<1>2. /\ stage' \in [At -> Places] /\ stage[p] = "new" /\ stage'[p] = "offered"
      /\ \A q \in At \ {p} : stage'[q] = stage[q]
  BY <1>1, GoesFacts DEF IInv, Initiate
<1>3. /\ wire' \in [Ends -> Seq(Messages)]
      /\ \A e \in Ends : Items(wire[e]) \subseteq Items(wire'[e])
      /\ wire["receiver"] # <<>> =>
           wire'["receiver"] # <<>> /\ Head(wire'["receiver"]) = Head(wire["receiver"])
  BY <1>1, SendFacts DEF IInv, Initiate
<1>4. TypeOK'
  BY <1>2, <1>3 DEF IInv, TypeOK, Initiate
<1>5. ConfigFirst'
  <2>1. \A t \in Slots :
          stage[<<"receiver", t>>] = "none" => stage'[<<"receiver", t>>] = "none"
    BY <1>1, <1>2, PairFacts
  <2> QED BY <2>1, <1>3, ConfigKept DEF IInv, Initiate
<1>6. Queues'
  BY <1>2 DEF IInv, Queues, RemoteSet, Initiate
<1>7. Whereabouts'
  BY <1>2, <1>3, WhereKept DEF IInv, Expected, Alive, Held, Initiate
<1> QED BY <1>4, <1>5, <1>6, <1>7 DEF IInv

\* A new candidate is on the wire.
LEMMA GatherStep ==
  ASSUME IInv, NEW end \in Ends, NEW s \in Slots, Gather(end, s)
  PROVE  IInv'
<1> DEFINE p == <<end, s>>
           n == gathered[p] + 1
<1>1. /\ p \in At /\ n \in Nat /\ Ice(s, n) \in Messages /\ Other(end) \in Ends
      /\ Other(Other(end)) = end
  BY PairFacts, SlotFacts DEF IInv, TypeOK, Other, Ends
<1>2. /\ gathered' \in [At -> Nat] /\ gathered'[p] = n
      /\ \A q \in At \ {p} : gathered'[q] = gathered[q]
      /\ Send(end, Ice(s, n))
  BY <1>1 DEF IInv, TypeOK, Gather
<1>3. /\ wire' \in [Ends -> Seq(Messages)]
      /\ \A e \in Ends : Items(wire[e]) \subseteq Items(wire'[e])
      /\ Ice(s, n) \in Items(wire'[Other(end)])
      /\ wire["receiver"] # <<>> =>
           wire'["receiver"] # <<>> /\ Head(wire'["receiver"]) = Head(wire["receiver"])
  BY <1>1, <1>2, SendFacts DEF IInv
<1>4. TypeOK'
  BY <1>2, <1>3 DEF IInv, TypeOK, Gather
<1>5. ConfigFirst'
  BY <1>3, ConfigKept DEF IInv, Gather
<1>6. Queues'
  BY DEF IInv, Queues, RemoteSet, Gather
<1>7. Whereabouts'
  <2> SUFFICES ASSUME NEW e \in Ends, NEW t \in Slots, Expected(<<e, t>>)',
                      NEW c \in 1 .. gathered'[<<Other(e), t>>]
               PROVE  Ice(t, c) \in Items(wire'[e]) \/ c \in Held(<<e, t>>)'
    BY DEF Whereabouts
  <2>1. Expected(<<e, t>>) /\ Held(<<e, t>>)' = Held(<<e, t>>)
    BY DEF Expected, Alive, Held, Gather
  <2>2. <<Other(e), t>> \in At /\ Other(Other(e)) = e
    BY PairFacts DEF Other, Ends
  <2>3. CASE c \in 1 .. gathered[<<Other(e), t>>]
    BY <1>3, <2>1, <2>3 DEF IInv, Whereabouts
  <2>4. CASE c \notin 1 .. gathered[<<Other(e), t>>]
    <3>1. <<Other(e), t>> = p
      BY <1>2, <2>2, <2>4
    <3>2. Other(e) = end /\ t = s
      BY <3>1
    <3>3. c = n
      <4>1. c \in 1 .. n /\ c \notin 1 .. gathered[p] /\ gathered[p] \in Nat
        BY <1>1, <1>2, <2>4, <3>1 DEF IInv, TypeOK
      <4> QED BY <4>1
    <3> QED BY <1>3, <2>2, <3>2, <3>3
  <2> QED BY <2>3, <2>4
<1> QED BY <1>4, <1>5, <1>6, <1>7 DEF IInv

\* What was queued is what the flush has to add.
LEMMA DescriptionSetStep ==
  ASSUME IInv, NEW end \in Ends, NEW s \in Slots, DescriptionSet(end, s)
  PROVE  IInv'
<1> DEFINE p == <<end, s>>
<1>1. p \in At /\ "flushing" \in Places
  BY PairFacts DEF Places
<1>2. /\ stage' \in [At -> Places] /\ stage[p] = "setting" /\ stage'[p] = "flushing"
      /\ \A q \in At \ {p} : stage'[q] = stage[q]
  BY <1>1, GoesFacts DEF IInv, DescriptionSet
<1>3. /\ flushing' \in [At -> SUBSET Nat] /\ flushing'[p] = pending[p]
      /\ \A q \in At \ {p} : flushing'[q] = flushing[q]
      /\ pending' \in [At -> SUBSET Nat] /\ pending'[p] = {}
      /\ \A q \in At \ {p} : pending'[q] = pending[q]
  BY <1>1 DEF IInv, TypeOK, DescriptionSet
<1>4. TypeOK'
  BY <1>2, <1>3 DEF IInv, TypeOK, DescriptionSet
<1>5. ConfigFirst'
  <2>1. \A t \in Slots :
          stage[<<"receiver", t>>] = "none" => stage'[<<"receiver", t>>] = "none"
    BY <1>1, <1>2, PairFacts
  <2> QED BY <2>1, ConfigKept DEF IInv, DescriptionSet
<1>6. Queues'
  BY <1>1, <1>2, <1>3 DEF IInv, Queues, RemoteSet
<1>7. Whereabouts'
  <2>1. flushing[p] = {}
    BY <1>1, <1>2 DEF IInv, Queues
  <2>2. \A q \in At : Held(q) \subseteq Held(q)'
    BY <1>3, <2>1 DEF Held, DescriptionSet
  <2> QED BY <1>2, <2>2, WhereKept DEF IInv, Expected, Alive, DescriptionSet
<1> QED BY <1>4, <1>5, <1>6, <1>7 DEF IInv

\* The flush hands one candidate over.
LEMMA FlushOneStep ==
  ASSUME IInv, NEW end \in Ends, NEW s \in Slots, FlushOne(end, s)
  PROVE  IInv'
<1> DEFINE p == <<end, s>>
<1>1. p \in At /\ stage[p] = "flushing"
  BY PairFacts DEF FlushOne
<1>2. PICK c \in flushing[p] : /\ known' = [known EXCEPT ![p] = @ \cup {c}]
                               /\ flushing' = [flushing EXCEPT ![p] = @ \ {c}]
  BY DEF FlushOne
<1>3. /\ known' \in [At -> SUBSET Nat] /\ known'[p] = known[p] \cup {c}
      /\ \A q \in At \ {p} : known'[q] = known[q]
      /\ flushing' \in [At -> SUBSET Nat] /\ flushing'[p] = flushing[p] \ {c}
      /\ \A q \in At \ {p} : flushing'[q] = flushing[q]
  BY <1>1, <1>2 DEF IInv, TypeOK
<1>4. TypeOK'
  BY <1>3 DEF IInv, TypeOK, FlushOne
<1>5. ConfigFirst'
  BY ConfigKept DEF IInv, FlushOne
<1>6. Queues'
  BY <1>1, <1>3 DEF IInv, Queues, RemoteSet, FlushOne
<1>7. Whereabouts'
  <2>1. \A q \in At : Held(q) \subseteq Held(q)'
    BY <1>3 DEF Held, FlushOne
  <2> QED BY <2>1, WhereKept DEF IInv, Expected, Alive, FlushOne
<1> QED BY <1>4, <1>5, <1>6, <1>7 DEF IInv

\* A flush that is over has nothing left.
LEMMA FlushedStep ==
  ASSUME IInv, NEW end \in Ends, NEW s \in Slots, Flushed(end, s)
  PROVE  IInv'
<1> DEFINE p == <<end, s>>
<1>1. p \in At /\ {"stable", "answering"} \subseteq Places
  BY PairFacts DEF Places
<1>2. /\ stage' \in [At -> Places] /\ stage[p] = "flushing" /\ flushing[p] = {}
      /\ stage'[p] \in {"stable", "answering"}
      /\ \A q \in At \ {p} : stage'[q] = stage[q]
  BY <1>1, GoesFacts DEF IInv, Flushed
<1>3. TypeOK'
  BY <1>2 DEF IInv, TypeOK, Flushed
<1>4. ConfigFirst'
  <2>1. \A t \in Slots :
          stage[<<"receiver", t>>] = "none" => stage'[<<"receiver", t>>] = "none"
    BY <1>1, <1>2, PairFacts
  <2> QED BY <2>1, ConfigKept DEF IInv, Flushed
<1>5. Queues'
  BY <1>1, <1>2 DEF IInv, Queues, RemoteSet, Flushed
<1>6. Whereabouts'
  BY <1>2, WhereKept DEF IInv, Expected, Alive, Held, Flushed
<1> QED BY <1>3, <1>4, <1>5, <1>6 DEF IInv

\* The answer is sent by a connection whose flush is over.
LEMMA SendAnswerStep ==
  ASSUME IInv, NEW s \in Slots, SendAnswer(s)
  PROVE  IInv'
<1> DEFINE p == <<"receiver", s>>
<1>1. p \in At /\ "receiver" \in Ends /\ Answer(s) \in Messages /\ "stable" \in Places
  BY PairFacts, SlotFacts DEF Ends, Places
<1>2. /\ stage' \in [At -> Places] /\ stage[p] = "answering" /\ stage'[p] = "stable"
      /\ \A q \in At \ {p} : stage'[q] = stage[q]
  BY <1>1, GoesFacts DEF IInv, SendAnswer
<1>3. /\ wire' \in [Ends -> Seq(Messages)]
      /\ \A e \in Ends : Items(wire[e]) \subseteq Items(wire'[e])
      /\ wire["receiver"] # <<>> =>
           wire'["receiver"] # <<>> /\ Head(wire'["receiver"]) = Head(wire["receiver"])
  BY <1>1, SendFacts DEF IInv, SendAnswer
<1>4. TypeOK'
  BY <1>2, <1>3 DEF IInv, TypeOK, SendAnswer
<1>5. ConfigFirst'
  BY <1>1, <1>2, <1>3, PairFacts, ConfigKept DEF IInv, SendAnswer
<1>6. Queues'
  BY <1>1, <1>2 DEF IInv, Queues, RemoteSet, SendAnswer
<1>7. Whereabouts'
  BY <1>2, <1>3, WhereKept DEF IInv, Expected, Alive, Held, SendAnswer
<1> QED BY <1>4, <1>5, <1>6, <1>7 DEF IInv

\* A channel that opens changes nothing of this.
LEMMA ChannelOpensStep ==
  ASSUME IInv, NEW end \in Ends, NEW s \in Slots, ChannelOpens(end, s)
  PROVE  IInv'
<1>1. TypeOK'
  BY DEF IInv, TypeOK, ChannelOpens
<1>2. ConfigFirst'
  BY ConfigKept DEF IInv, ChannelOpens
<1>3. Queues'
  BY DEF IInv, Queues, RemoteSet, ChannelOpens
<1>4. Whereabouts'
  BY WhereKept DEF IInv, Expected, Alive, Held, ChannelOpens
<1> QED BY <1>1, <1>2, <1>3, <1>4 DEF IInv

\* Nor does a slot that gives up ...
LEMMA SlotTimeoutStep ==
  ASSUME IInv, NEW end \in Ends, NEW s \in Slots, SlotTimeout(end, s)
  PROVE  IInv'
<1>1. TypeOK'
  BY DEF IInv, TypeOK, SlotTimeout
<1>2. ConfigFirst'
  BY ConfigKept DEF IInv, SlotTimeout
<1>3. Queues'
  BY DEF IInv, Queues, RemoteSet, SlotTimeout
<1>4. Whereabouts'
  BY WhereKept DEF IInv, Expected, Alive, Held, SlotTimeout
<1> QED BY <1>1, <1>2, <1>3, <1>4 DEF IInv

\* ... until its connection is closed.
LEMMA MergeStep ==
  ASSUME IInv, NEW end \in Ends, Merge(end)
  PROVE  IInv'
<1>1. /\ stage' \in [At -> Places]
      /\ \A p \in At : stage'[p] \in {stage[p], "closed"}
  BY DEF IInv, TypeOK, Merge, Places
<1>2. TypeOK'
  BY <1>1 DEF IInv, TypeOK, Merge
<1>3. ConfigFirst'
  <2> SUFFICES ASSUME expected = 0, NEW s \in Slots
               PROVE  stage'[<<"receiver", s>>] = "none"
    BY DEF ConfigFirst, IInv, Merge
  <2>1. end # "receiver"
    BY DEF IInv, ConfigFirst, Merge, Mine, Alive
  <2> QED BY <2>1, PairFacts DEF IInv, ConfigFirst, Merge, Ends
<1>4. Queues'
  BY <1>1 DEF IInv, Queues, RemoteSet, Merge
<1>5. Whereabouts'
  BY <1>1, WhereKept DEF IInv, Expected, Alive, Held, Merge
<1> QED BY <1>2, <1>3, <1>4, <1>5 DEF IInv

\* A message is taken where it is meant for, or queued there.
LEMMA DeliverStep ==
  ASSUME IInv, NEW end \in Ends, Deliver(end)
  PROVE  IInv'
<1> DEFINE m == Head(wire[end])
           p == <<end, m.slot>>
<1>1. /\ m \in Messages /\ p \in At /\ Take(end, m)
      /\ wire' \in [Ends -> Seq(Messages)]
      /\ Items(wire[end]) \subseteq Items(wire'[end]) \cup {m}
      /\ \A e \in Ends \ {end} : wire'[e] = wire[e]
  <2>1. wire[end] \in Seq(Messages) /\ wire[end] # <<>>
    BY DEF IInv, TypeOK, Deliver
  <2>2. /\ m \in Messages /\ Tail(wire[end]) \in Seq(Messages)
        /\ Items(wire[end]) \subseteq Items(Tail(wire[end])) \cup {m}
    BY <2>1, TailItems
  <2>3. m.slot \in Slots
    BY <2>2 DEF Messages
  <2> QED BY <2>2, <2>3, PairFacts DEF IInv, TypeOK, Deliver
<1>2. /\ m.kind \in {"CONFIG", "OFFER", "ANSWER", "ICE_CANDIDATE"}
      /\ m.slot \in Slots /\ m.candidate \in Nat
  BY <1>1 DEF Messages
<1>3. /\ UNCHANGED <<count, gathered, flushing, limit>>
      /\ \A e \in Ends \ {end} : wire'[e] = wire[e]
  BY <1>1 DEF Deliver
<1>4. end = "receiver" /\ expected = 0 => m = Config
  BY DEF IInv, ConfigFirst
<1>5. CASE m.kind = "CONFIG" /\ expected = 0
  <2>1. /\ expected' = count /\ stage' = Stand(0 .. count - 1)
        /\ UNCHANGED <<pending, known>>
    BY <1>1, <1>5 DEF Take, StandUp
  <2>2. /\ stage' \in [At -> Places]
        /\ \A q \in At : \/ stage'[q] = stage[q]
                         \/ q[1] = "receiver" /\ stage[q] = "none" /\ stage'[q] = "new"
    BY <1>5, <2>1, PairFacts DEF IInv, TypeOK, ConfigFirst, Stand, Places
  <2>3. TypeOK'
    BY <1>1, <1>3, <2>1, <2>2 DEF IInv, TypeOK, MaxConnections
  <2>4. ConfigFirst'
    BY <2>1 DEF IInv, TypeOK, ConfigFirst
  <2>5. Queues'
    BY <1>3, <2>1, <2>2 DEF IInv, Queues, RemoteSet
  <2>6. Whereabouts'
    <3> SUFFICES ASSUME NEW e \in Ends, NEW s \in Slots, Expected(<<e, s>>)',
                        NEW c \in 1 .. gathered[<<Other(e), s>>]
                 PROVE  Ice(s, c) \in Items(wire'[e]) \/ c \in Held(<<e, s>>)'
      BY <1>3 DEF Whereabouts
    <3>1. <<e, s>> \in At /\ Expected(<<e, s>>)
      BY <1>5, <2>1, <2>2, PairFacts DEF Expected, Alive, IInv, TypeOK
    <3>2. Held(<<e, s>>)' = Held(<<e, s>>)
      BY <1>3, <2>1 DEF Held
    <3>3. Ice(s, c) # m
      BY <1>5 DEF Ice, Message
    <3> QED BY <1>1, <3>1, <3>2, <3>3 DEF IInv, Whereabouts
  <2> QED BY <2>3, <2>4, <2>5, <2>6 DEF IInv
<1>6. ~(m.kind = "CONFIG" /\ expected = 0) =>
        \/ expected # 0
        \/ end = "sender" /\ wire'["receiver"] = wire["receiver"]
  BY <1>3, <1>4 DEF Config, Message, Ends
<1>7. CASE /\ ~(m.kind = "CONFIG" /\ expected = 0)
           /\ Goes(p, "setting") /\ UNCHANGED <<expected, pending, known>>
           /\ \/ m.kind = "OFFER" /\ stage[p] = "new"
              \/ m.kind = "ANSWER" /\ stage[p] = "offered"
  <2>1. /\ stage' \in [At -> Places] /\ stage[p] \in {"new", "offered"}
        /\ stage'[p] = "setting" /\ \A q \in At \ {p} : stage'[q] = stage[q]
    BY <1>1, <1>7, GoesFacts DEF IInv, Places
  <2>2. TypeOK'
    BY <1>1, <1>3, <1>7, <2>1 DEF IInv, TypeOK
  <2>3. ConfigFirst'
    <3> SUFFICES ASSUME expected = 0
                 PROVE  /\ wire'["receiver"] # <<>> /\ Head(wire'["receiver"]) = Config
                        /\ \A s \in Slots : stage'[<<"receiver", s>>] = "none"
      BY <1>7 DEF ConfigFirst
    <3>1. end = "sender" /\ wire'["receiver"] = wire["receiver"]
      BY <1>6, <1>7
    <3>2. \A s \in Slots : <<"receiver", s>> \in At /\ <<"receiver", s>> # p
      BY <3>1, PairFacts
    <3> QED BY <2>1, <3>1, <3>2 DEF IInv, ConfigFirst
  <2>4. Queues'
    BY <1>1, <1>3, <1>7, <2>1 DEF IInv, Queues, RemoteSet
  <2>5. Whereabouts'
    <3> SUFFICES ASSUME NEW e \in Ends, NEW s \in Slots, Expected(<<e, s>>)',
                        NEW c \in 1 .. gathered[<<Other(e), s>>]
                 PROVE  Ice(s, c) \in Items(wire'[e]) \/ c \in Held(<<e, s>>)'
      BY <1>3 DEF Whereabouts
    <3>1. <<e, s>> \in At /\ Expected(<<e, s>>)
      BY <1>7, <2>1, PairFacts DEF Expected, Alive
    <3>2. Held(<<e, s>>)' = Held(<<e, s>>)
      BY <1>3, <1>7 DEF Held
    <3>3. Ice(s, c) # m
      BY <1>7 DEF Ice, Message
    <3> QED BY <1>1, <3>1, <3>2, <3>3 DEF IInv, Whereabouts
  <2> QED BY <2>2, <2>3, <2>4, <2>5 DEF IInv
<1>8. CASE /\ ~(m.kind = "CONFIG" /\ expected = 0)
           /\ UNCHANGED <<expected, stage>>
           /\ \/ /\ m.kind = "ICE_CANDIDATE" /\ RemoteSet(p) /\ UNCHANGED pending
                 /\ known' = [known EXCEPT ![p] = @ \cup {m.candidate}]
              \/ /\ m.kind = "ICE_CANDIDATE" /\ ~RemoteSet(p) /\ UNCHANGED known
                 /\ pending' = [pending EXCEPT ![p] = @ \cup {m.candidate}]
              \/ /\ m.kind # "ICE_CANDIDATE" \/ ~Alive(p)
                 /\ UNCHANGED <<pending, known>>
  <2>1. /\ pending' \in [At -> SUBSET Nat] /\ known' \in [At -> SUBSET Nat]
        /\ \A q \in At : Held(q) \subseteq Held(q)'
        /\ \A q \in At : RemoteSet(q) => pending'[q] = pending[q]
        /\ m.kind = "ICE_CANDIDATE" /\ Alive(p) =>
             m.candidate \in known'[p] \cup pending'[p]
    <3>1. /\ pending \in [At -> SUBSET Nat] /\ known \in [At -> SUBSET Nat]
          /\ flushing' = flushing
      BY <1>3 DEF IInv, TypeOK
    <3>2. CASE /\ m.kind = "ICE_CANDIDATE" /\ RemoteSet(p) /\ UNCHANGED pending
               /\ known' = [known EXCEPT ![p] = @ \cup {m.candidate}]
      <4>1. /\ known' \in [At -> SUBSET Nat] /\ known'[p] = known[p] \cup {m.candidate}
            /\ \A q \in At \ {p} : known'[q] = known[q]
        BY <1>1, <1>2, <3>1, <3>2
      <4> QED BY <1>1, <3>1, <3>2, <4>1 DEF Held
    <3>3. CASE /\ m.kind = "ICE_CANDIDATE" /\ ~RemoteSet(p) /\ UNCHANGED known
               /\ pending' = [pending EXCEPT ![p] = @ \cup {m.candidate}]
      <4>1. /\ pending' \in [At -> SUBSET Nat]
            /\ pending'[p] = pending[p] \cup {m.candidate}
            /\ \A q \in At \ {p} : pending'[q] = pending[q]
        BY <1>1, <1>2, <3>1, <3>3
      <4>2. \A q \in At : RemoteSet(q) => q # p
        BY <3>3
      <4> QED BY <1>1, <3>1, <3>3, <4>1, <4>2 DEF Held
    <3>4. CASE /\ m.kind # "ICE_CANDIDATE" \/ ~Alive(p)
               /\ UNCHANGED <<pending, known>>
      BY <3>1, <3>4 DEF Held
    <3> QED BY <1>8, <3>2, <3>3, <3>4
  <2>2. TypeOK'
    BY <1>1, <1>3, <1>8, <2>1 DEF IInv, TypeOK
  <2>3. ConfigFirst'
    BY <1>6, <1>8 DEF IInv, ConfigFirst
  <2>4. Queues'
    BY <1>3, <1>8, <2>1 DEF IInv, Queues, RemoteSet
  <2>5. Whereabouts'
    <3> SUFFICES ASSUME NEW e \in Ends, NEW s \in Slots, Expected(<<e, s>>),
                        NEW c \in 1 .. gathered[<<Other(e), s>>]
                 PROVE  Ice(s, c) \in Items(wire'[e]) \/ c \in Held(<<e, s>>)'
      BY <1>3, <1>8 DEF Whereabouts, Expected, Alive
    <3>1. <<e, s>> \in At
      BY PairFacts
    <3>2. CASE e = end /\ m = Ice(s, c)
      <4>1. m.kind = "ICE_CANDIDATE" /\ m.slot = s /\ m.candidate = c
        BY <3>2 DEF Ice, Message
      <4>2. Alive(p)
        BY <1>4, <3>2, <4>1 DEF Expected, Config, Message
      <4>3. p = <<e, s>>
        BY <3>2, <4>1
      <4> QED BY <2>1, <4>1, <4>2, <4>3 DEF Held
    <3>3. CASE ~(e = end /\ m = Ice(s, c))
      BY <1>1, <2>1, <3>1, <3>3 DEF IInv, Whereabouts
    <3> QED BY <3>2, <3>3
  <2> QED BY <2>2, <2>3, <2>4, <2>5 DEF IInv
<1> HIDE DEF m, p
<1> QED BY <1>1, <1>5, <1>7, <1>8 DEF Take, m, p

-----------------------------------------------------------------------------
(* The invariant *)

\* Before anything has happened.
LEMMA InitIInv ==
  ASSUME Init
  PROVE  IInv
<1>1. /\ wire["receiver"] = <<Config>> /\ wire \in [Ends -> Seq(Messages)]
      /\ expected = 0 /\ \A p \in At : stage[p] \in {"new", "none"}
      /\ \A s \in Slots : stage[<<"receiver", s>>] = "none"
  <2>1. /\ wire = [end \in Ends |-> IF end = "sender" THEN <<>> ELSE <<Config>>]
        /\ expected = 0
    BY DEF Init
  <2>2. <<Config>> \in Seq(Messages) /\ <<>> \in Seq(Messages)
    BY SlotFacts
  <2>3. wire["receiver"] = <<Config>> /\ wire \in [Ends -> Seq(Messages)]
    BY <2>1, <2>2 DEF Ends
  <2>4. stage = [p \in At |-> IF p[1] = "sender" /\ p[2] < count THEN "new" ELSE "none"]
    BY DEF Init
  <2>5. /\ \A p \in At : stage[p] \in {"new", "none"}
        /\ \A s \in Slots : stage[<<"receiver", s>>] = "none"
    BY <2>4, PairFacts
  <2> QED BY <2>1, <2>3, <2>5
<1>2. TypeOK
  <2>1. count \in 1 .. MaxConnections /\ expected \in Nat
    BY SlotFacts DEF Init
  <2>2. stage \in [At -> Places]
    BY DEF Init, Places
  <2> QED BY <1>1, <2>1, <2>2 DEF Init, TypeOK
<1>3. ConfigFirst
  BY <1>1 DEF ConfigFirst
<1>4. Queues
  BY <1>1 DEF Init, Queues, RemoteSet
<1>5. Whereabouts
  <2>1. \A end \in Ends, s \in Slots : gathered[<<Other(end), s>>] = 0
    BY PairFacts DEF Init, Other, Ends
  <2> QED BY <2>1 DEF Whereabouts
<1> QED BY <1>2, <1>3, <1>4, <1>5 DEF IInv

\* Nothing has happened.
LEMMA StutterIInv ==
  ASSUME IInv, UNCHANGED vars
  PROVE  IInv'
<1>1. TypeOK' /\ ConfigFirst'
  BY DEF IInv, TypeOK, ConfigFirst, vars
<1>2. Queues'
  BY DEF IInv, Queues, RemoteSet, vars
<1>3. Whereabouts'
  BY WhereKept DEF IInv, Expected, Alive, Held, vars
<1> QED BY <1>1, <1>2, <1>3 DEF IInv

\* IInv is an invariant of the handshake.
THEOREM HandshakeInvariance == Spec => []IInv
<1>1. IInv /\ [Next]_vars => IInv'
  <2> SUFFICES ASSUME IInv, [Next]_vars PROVE IInv'
    OBVIOUS
  <2>1. CASE Proceeds
    BY <2>1, InitiateStep, SendAnswerStep, DeliverStep, MergeStep, GatherStep,
       DescriptionSetStep, FlushOneStep, FlushedStep, ChannelOpensStep DEF Proceeds
  <2>2. CASE Timeouts
    BY <2>2, ConfigTimeoutStep, SlotTimeoutStep DEF Timeouts
  <2>3. CASE UNCHANGED vars
    BY <2>3, StutterIInv
  <2> QED BY <2>1, <2>2, <2>3 DEF Next
<1> QED BY InitIInv, <1>1, PTL DEF Spec

\* No candidate that reached a connection is left behind, at whichever await it
\* arrived and however many there are (peer.ts handleAnswer(), acceptOffer(),
\* addIceCandidate(), flushPendingCandidates()).
THEOREM CandidatesKept == Spec => []NoCandidateLost
<1>1. ASSUME IInv PROVE NoCandidateLost
  <2> SUFFICES ASSUME NEW end \in Ends, NEW s \in Slots, stage[<<end, s>>] = "stable",
                      NEW c \in 1 .. gathered[<<Other(end), s>>],
                      \A i \in DOMAIN wire[end] : wire[end][i] # Ice(s, c)
               PROVE  c \in known[<<end, s>>]
    BY DEF NoCandidateLost
  <2>1. <<end, s>> \in At
    BY PairFacts
  <2>2. pending[<<end, s>>] = {} /\ flushing[<<end, s>>] = {}
    BY <1>1, <2>1 DEF IInv, Queues, RemoteSet
  <2>3. Ice(s, c) \notin Items(wire[end])
    BY DEF Items
  <2>4. c \in Held(<<end, s>>)
    BY <1>1, <2>3 DEF IInv, Whereabouts, Expected, Alive
  <2> QED BY <2>2, <2>4 DEF Held
<1> QED BY <1>1, HandshakeInvariance, PTL

-----------------------------------------------------------------------------
(* The frames *)

\* A set of natural numbers has a smallest.
LEMMA SmallestExists ==
  ASSUME NEW T \in SUBSET Nat, T # {}
  PROVE  \E n \in T : \A m \in T : n <= m
<1>1. IsWellFoundedOn(OpToRel(<, Nat), Nat)
  BY NatLessThanWellFounded
<1>2. PICK n \in T : \A m \in T : ~(<<m, n>> \in OpToRel(<, Nat))
  BY <1>1, WFMin
<1>3. \A m \in T : ~(m < n)
  <2> SUFFICES ASSUME NEW m \in T, m < n PROVE FALSE
    OBVIOUS
  <2>1. <<m, n>> \in {z \in Nat \X Nat : z[1] < z[2]}
    OBVIOUS
  <2> QED BY <1>2, <2>1 DEF OpToRel
<1>4. \A m \in T, k \in T : ~(m < k) => k <= m
  OBVIOUS
<1> QED BY <1>3, <1>4

\* The chunks of a transfer fit every connection it opened, whichever limits
\* the browsers told, when none of them is the zero that means no limit
\* (page.tsx runTransfer(), transfer.ts resolveChunkSize()).
THEOREM FramesAlwaysFit ==
  ASSUME 0 \notin Limits
  PROVE  Spec => []FramesFit
<1>1. ASSUME IInv PROVE FramesFit
  <2> SUFFICES ASSUME Usable(SmallestLimit), NEW s \in Channels("sender"), limit[s] > 0
               PROVE  FrameSize(ChunkSize(SmallestLimit)) <= limit[s]
    BY DEF FramesFit
  <2>1. \A t \in Slots : limit[t] \in Limits \cup {Unknown}
    BY <1>1 DEF IInv, TypeOK
  <2>2. s \in Slots /\ Channels("sender") \subseteq Slots
    BY DEF Channels
  <2>3. Told \in SUBSET Nat /\ 0 \notin Told /\ limit[s] \in Told /\ limit[s] \in Nat
    <3>1. /\ Limits \subseteq Nat \cup {Unknown} /\ Unknown \notin Nat
          /\ Unknown = -1
      BY HandshakeAssumption DEF Unknown
    <3>2. \A t \in Slots : limit[t] # Unknown => limit[t] \in Nat /\ limit[t] # 0
      BY <2>1, <3>1
    <3>3. limit[s] # Unknown
      BY <3>1
    <3> QED BY <2>2, <3>2, <3>3 DEF Told
  <2>4. PICK n \in Told : \A m \in Told : n <= m
    BY <2>3, SmallestExists
  <2>5. SmallestLimit \in Told /\ \A m \in Told : SmallestLimit <= m
    BY <2>3, <2>4 DEF SmallestLimit
  <2>6. /\ SmallestLimit \in Nat /\ SmallestLimit > FrameHeader
        /\ SmallestLimit <= limit[s]
    BY <2>3, <2>5 DEF Usable, Unknown
  <2> QED BY <2>3, <2>6, ChunkFitsLarger
<1> QED BY <1>1, HandshakeInvariance, PTL
=============================================================================
