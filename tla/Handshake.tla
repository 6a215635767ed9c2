----------------------------- MODULE Handshake ------------------------------
(***************************************************************************)
(* One handshake: the sender says how many connections it will open        *)
(* (CONFIG), each end stands up that many PeerConnections (multi-peer.ts), *)
(* and each pair exchanges an offer, an answer and ICE candidates over the *)
(* room's sockets, which keep their order (peer.ts, signaling/client.ts).  *)
(* Every await is a step of its own: messages arrive in between.           *)
(*                                                                         *)
(* The browser is external: it gathers candidates once the local           *)
(* description is set, and opens the channel of a pair when both ends know *)
(* the other's description and one of them a candidate that works.         *)
(***************************************************************************)
EXTENDS Sizing, Sequences, FiniteSets

CONSTANTS
  TotalBytes,     \* the sizes of a batch
  Gathers,        \* per end and slot, the candidates it gathers; the last works
  Limits,         \* SCTP message limits a pair may negotiate
  Faults          \* "late": waitForConfig() gives up before the CONFIG comes;
                  \* "slow": a slot gives up while it could still open

ASSUME HandshakeAssumption ==
  /\ TotalBytes \subseteq Nat /\ TotalBytes # {}
  /\ Limits \subseteq Nat \cup {Unknown}
  /\ Faults \subseteq {"late", "slow"}

Ends == {"sender", "receiver"}
Other(end) == IF end = "sender" THEN "receiver" ELSE "sender"
Slots == {s \in 0 .. MaxConnections - 1 : \E b \in TotalBytes : s < ConnectionCount(b)}
Working(end, s) == Gathers[<<end, s>>]

VARIABLES
  count,      \* connectionCount of the sender
  expected,   \* that of the receiver; 0: it still waits for the CONFIG
  wire,       \* per end, the messages on their way to it
  stage,      \* per end and slot, where its PeerConnection is
  gathered,   \* candidates it has sent
  pending,    \* pendingRemoteCandidates
  flushing,   \* those flushPendingCandidates() has still to add
  known,      \* those added to the RTCPeerConnection
  slot,       \* establishOne(): "pending", "open" or "dropped"
  returned,   \* the ends whose mergeResults() is done
  limit,      \* per slot, its maxMessageSize once it is open at the sender
  hurried     \* a slot gave up while it could still open

vars == <<count, expected, wire, stage, gathered, pending, flushing, known, slot,
          returned, limit, hurried>>

At == Ends \X Slots
Message(k, s, c) == [kind |-> k, slot |-> s, candidate |-> c]
Config == Message("CONFIG", 0, 0)
Offer(s) == Message("OFFER", s, 0)
Answer(s) == Message("ANSWER", s, 0)
Ice(s, c) == Message("ICE_CANDIDATE", s, c)

Send(end, m) == wire' = [wire EXCEPT ![Other(end)] = Append(@, m)]
Stand(slots) == [p \in At |-> IF p[1] = "receiver" /\ p[2] \in slots
                              THEN "new" ELSE stage[p]]
Goes(p, place) == stage' = [stage EXCEPT ![p] = place]

\* Mutant of RemoteSet: remoteDescriptionSet is set after the flush.
SetAfterFlush(p) == stage[p] \in {"answering", "stable"}

\* remoteDescriptionSet, and localDescription set
RemoteSet(p) == stage[p] \in {"flushing", "answering", "stable"}
LocalSet(p) == stage[p] \in {"offered", "stable"}
             \/ (p[1] = "sender" /\ stage[p] \in {"setting", "flushing"})
Alive(p) == stage[p] \notin {"none", "closed"}

-----------------------------------------------------------------------------
(* The configuration *)

\* establishParallelReceiverConnections()
StandUp(n) ==
  /\ expected' = n
  /\ stage' = Stand(0 .. n - 1)

\* waitForConfig() falls back to one connection after three seconds.
ConfigTimeout ==
  /\ expected = 0 /\ "late" \in Faults
  /\ StandUp(1)
  /\ UNCHANGED <<count, wire, gathered, pending, flushing, known, slot, returned,
                 limit, hurried>>

-----------------------------------------------------------------------------
(* A PeerConnection *)

\* initiate()
Initiate(s) ==
  /\ stage[<<"sender", s>>] = "new"
  /\ Goes(<<"sender", s>>, "offered")
  /\ Send("sender", Offer(s))
  /\ UNCHANGED <<count, expected, gathered, pending, flushing, known, slot, returned,
                 limit, hurried>>

\* The "icecandidate" event.
Gather(end, s) ==
  /\ LocalSet(<<end, s>>) /\ gathered[<<end, s>>] < Gathers[<<end, s>>]
  /\ gathered' = [gathered EXCEPT ![<<end, s>>] = @ + 1]
  /\ Send(end, Ice(s, gathered'[<<end, s>>]))
  /\ UNCHANGED <<count, expected, stage, pending, flushing, known, slot, returned,
                 limit, hurried>>

\* setRemoteDescription() resolves; the flush takes what is queued.
DescriptionSet(end, s) ==
  /\ stage[<<end, s>>] = "setting"
  /\ Goes(<<end, s>>, "flushing")
  /\ flushing' = [flushing EXCEPT ![<<end, s>>] = pending[<<end, s>>]]
  /\ pending' = [pending EXCEPT ![<<end, s>>] = {}]
  /\ UNCHANGED <<count, expected, wire, gathered, known, slot, returned, limit,
                 hurried>>

\* One addIceCandidate() of the flush resolves ...
FlushOne(end, s) ==
  /\ stage[<<end, s>>] = "flushing"
  /\ \E c \in flushing[<<end, s>>] :
       /\ \A d \in flushing[<<end, s>>] : c <= d
       /\ known' = [known EXCEPT ![<<end, s>>] = @ \cup {c}]
       /\ flushing' = [flushing EXCEPT ![<<end, s>>] = @ \ {c}]
  /\ UNCHANGED <<count, expected, wire, stage, gathered, pending, slot, returned, limit,
                 hurried>>

\* ... and the flush is over.
Flushed(end, s) ==
  /\ stage[<<end, s>>] = "flushing" /\ flushing[<<end, s>>] = {}
  /\ Goes(<<end, s>>, IF end = "sender" THEN "stable" ELSE "answering")
  /\ UNCHANGED <<count, expected, wire, gathered, pending, flushing, known, slot,
                 returned, limit, hurried>>

\* createAnswer() and setLocalDescription() resolve.
SendAnswer(s) ==
  /\ stage[<<"receiver", s>>] = "answering"
  /\ Goes(<<"receiver", s>>, "stable")
  /\ Send("receiver", Answer(s))
  /\ UNCHANGED <<count, expected, gathered, pending, flushing, known, slot, returned,
                 limit, hurried>>

\* A message of the room, as the listeners at that end take it.
Take(end, m) ==
  LET p == <<end, m.slot>> IN
  CASE m.kind = "CONFIG" /\ expected = 0 ->
         StandUp(count) /\ UNCHANGED <<pending, known>>
    [] \/ m.kind = "OFFER" /\ stage[p] = "new"
       \/ m.kind = "ANSWER" /\ stage[p] = "offered" ->
         Goes(p, "setting") /\ UNCHANGED <<expected, pending, known>>
    [] m.kind = "ICE_CANDIDATE" /\ Alive(p) /\ RemoteSet(p) ->
         /\ known' = [known EXCEPT ![p] = @ \cup {m.candidate}]
         /\ UNCHANGED <<expected, stage, pending>>
    [] m.kind = "ICE_CANDIDATE" /\ Alive(p) /\ ~RemoteSet(p) ->
         /\ pending' = [pending EXCEPT ![p] = @ \cup {m.candidate}]
         /\ UNCHANGED <<expected, stage, known>>
    [] OTHER -> UNCHANGED <<expected, stage, pending, known>>

Deliver(end) ==
  /\ wire[end] # <<>>
  /\ wire' = [wire EXCEPT ![end] = Tail(@)]
  /\ Take(end, Head(wire[end]))
  /\ UNCHANGED <<count, gathered, flushing, slot, returned, limit, hurried>>

-----------------------------------------------------------------------------
(* establishOne() and mergeResults() *)

Pair(s) == {<<"sender", s>>, <<"receiver", s>>}
Linked(s) ==
  /\ \A p \in Pair(s) : LocalSet(p) /\ RemoteSet(p)
  /\ \E end \in Ends : Working(end, s) \in known[<<Other(end), s>>]

\* The channel opens; a slot that was dropped stays so.
ChannelOpens(end, s) ==
  /\ Linked(s) /\ slot[<<end, s>>] = "pending"
  /\ slot' = [slot EXCEPT ![<<end, s>>] = "open"]
  /\ IF end = "sender"
     THEN \E n \in Limits : limit' = [limit EXCEPT ![s] = n]
     ELSE UNCHANGED limit
  /\ UNCHANGED <<count, expected, wire, stage, gathered, pending, flushing, known,
                 returned, hurried>>

\* Nobody will ever answer, or the other end is closed.
Hopeless(end, s) ==
  \/ stage[<<Other(end), s>>] = "closed"
  \/ (end = "sender" /\ expected # 0 /\ s >= expected)

\* Mutant of SlotTimeout: there is no timer.
NoTimer(end, s) == end \notin Ends /\ s \in Slots /\ UNCHANGED vars

\* The slot's 15 seconds are over; a sender with one connection has no timer.
SlotTimeout(end, s) ==
  /\ end = "receiver" \/ count > 1
  /\ Alive(<<end, s>>) /\ slot[<<end, s>>] = "pending"
  /\ "slow" \in Faults \/ Hopeless(end, s)
  /\ slot' = [slot EXCEPT ![<<end, s>>] = "dropped"]
  /\ hurried' = (hurried \/ ~Hopeless(end, s))
  /\ UNCHANGED <<count, expected, wire, stage, gathered, pending, flushing, known,
                 returned, limit>>

Mine(end) == {s \in Slots : Alive(<<end, s>>)}
Channels(end) == {s \in Slots : slot[<<end, s>>] = "open"}

\* mergeResults(): what did not open is closed.
Merge(end) ==
  /\ end \notin returned /\ Mine(end) # {}
  /\ \A s \in Mine(end) : slot[<<end, s>>] # "pending"
  /\ returned' = returned \cup {end}
  /\ stage' = [p \in At |-> IF p[1] = end /\ slot[p] = "dropped"
                            THEN "closed" ELSE stage[p]]
  /\ UNCHANGED <<count, expected, wire, gathered, pending, flushing, known, slot, limit,
                 hurried>>

-----------------------------------------------------------------------------
(* What runTransfer() makes of it *)

\* The smallest limit of the connections in use, of those that tell one.
Told == {limit[s] : s \in Channels("sender")} \ {Unknown}

\* Mutant of SmallestLimit: the first connection speaks for all.
FirstLimit == limit[0]

SmallestLimit ==
  IF Told = {} THEN Unknown ELSE CHOOSE n \in Told : \A m \in Told : n <= m

-----------------------------------------------------------------------------

Init ==
  /\ count \in {ConnectionCount(b) : b \in TotalBytes}
  /\ expected = 0
  /\ wire = [end \in Ends |-> IF end = "sender" THEN <<>> ELSE <<Config>>]
  /\ stage = [p \in At |-> IF p[1] = "sender" /\ p[2] < count THEN "new" ELSE "none"]
  /\ gathered = [p \in At |-> 0]
  /\ pending = [p \in At |-> {}] /\ flushing = [p \in At |-> {}]
  /\ known = [p \in At |-> {}]
  /\ slot = [p \in At |-> "pending"]
  /\ returned = {}
  /\ limit = [s \in Slots |-> Unknown]
  /\ hurried = FALSE

\* The sockets deliver, and the browser does what it was asked.
Proceeds ==
  \/ \E s \in Slots : Initiate(s) \/ SendAnswer(s)
  \/ \E end \in Ends :
       \/ Deliver(end) \/ Merge(end)
       \/ \E s \in Slots :
            \/ Gather(end, s) \/ DescriptionSet(end, s) \/ FlushOne(end, s)
            \/ Flushed(end, s) \/ ChannelOpens(end, s)

Timeouts ==
  ConfigTimeout \/ \E end \in Ends, s \in Slots : SlotTimeout(end, s)

Next == Proceeds \/ Timeouts

\* No step is taken twice, so whatever can proceed does; the timer of a slot
\* runs out when nothing else does.
Fairness ==
  /\ WF_vars(Proceeds)
  /\ WF_vars(\E end \in Ends, s \in Slots : Hopeless(end, s) /\ SlotTimeout(end, s))

Spec == Init /\ [][Next]_vars /\ Fairness

-----------------------------------------------------------------------------
(* Properties *)

\* A candidate that reached a connection is with the browser, or will be: none
\* is left in the queue of a connection that has its description, however the
\* messages came between the awaits.
NoCandidateLost ==
  \A end \in Ends, s \in Slots :
    LET p == <<end, s>>
        sent == 1 .. gathered[<<Other(end), s>>]
        onWire == {c \in sent : \E i \in DOMAIN wire[end] : wire[end][i] = Ice(s, c)}
    IN stage[p] = "stable" => sent \ onWire \subseteq known[p]

\* Both ends come to the same connections, the first among them, also when
\* the receiver never heard how many there are, unless a slot was given up
\* that could still have opened.
Connects ==
  <>(hurried \/ (/\ returned = Ends
                 /\ Channels("sender") = Channels("receiver")
                 /\ 0 \in Channels("sender")))

\* No frame is larger than any connection of the transfer that tells its limit
\* can carry, whichever of them opens first.
FramesFit ==
  "sender" \in returned /\ Usable(SmallestLimit) =>
    \A s \in Channels("sender") :
      limit[s] > 0 => FrameSize(ChunkSize(SmallestLimit)) <= limit[s]
=============================================================================
