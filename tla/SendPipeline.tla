---------------------------- MODULE SendPipeline ----------------------------
(***************************************************************************)
(* The send loop of one file inside sendFiles() (lib/webrtc/transfer.ts):  *)
(* a producer that reads the file ahead and pushes frames into a bounded   *)
(* ChunkQueue, one consumer per data channel that pulls, waits for the     *)
(* channel's buffer to drain below its window and sends, and the code that *)
(* joins them, collects the hash and announces TRANSFER_COMPLETE.          *)
(*                                                                         *)
(* JavaScript runs one continuation at a time, so an action is the code    *)
(* between two awaits.  Continuations of promises that are already settled *)
(* run before the next event is taken: an event (a read finishing, a       *)
(* channel draining, a timer, a click) is guarded by Quiet.                *)
(*                                                                         *)
(* A chunk is its index.  Amounts of buffered data are counted in frames.  *)
(***************************************************************************)
EXTENDS Integers, Sequences, FiniteSets, SequencesExt

CONSTANTS
  NumChunks,    \* totalChunks of the file
  Channels,     \* the open data channels, one consumer each
  Control,      \* channels[0], which also carries the control messages
  Capacity,     \* channels.length * QUEUE_DEPTH_PER_CHANNEL
  ReadAhead,    \* READ_AHEAD_CHUNKS
  MaxRetries,   \* SEND_RETRY_DELAYS_MS.length
  Windows,      \* pairs [low, high] the adaptive controller may hand out
  Faults        \* what may go wrong: a subset of AllFaults

AllFaults == {"abort", "peerCancel", "close", "readFail", "sendFull"}

ASSUME PipelineAssumption ==
  /\ NumChunks \in Nat
  /\ Control \in Channels
  /\ Capacity \in Nat \ {0}
  /\ ReadAhead \in Nat \ {0}
  /\ MaxRetries \in Nat
  /\ Windows # {}
  /\ \A w \in Windows : w \in [low : Nat, high : Nat] /\ w.low <= w.high
  /\ Faults \subseteq AllFaults

ASSUME ChannelsFinite == IsFiniteSet(Channels)

Chunks == 0 .. NumChunks - 1
NoChunk == -1     \* "no frame": the null of pull(), an empty hand

VARIABLES
  held,         \* alreadyHas: what RESUME_STATUS reported
  inline,       \* no hash worker: every chunk is read and hashed here
  nextToRead,   \* first index topUp has not looked at
  inFlight,     \* reads issued and not yet awaited
  prod,         \* where the producer is
  hand,         \* the chunk the producer is reading or pushing
  queue,        \* ChunkQueue.items from head on
  closed,       \* ChunkQueue.closed
  parked,       \* ChunkQueue.consumers: channels waiting in pull()
  cons,         \* where each consumer is
  frame,        \* the frame each consumer holds
  tries,        \* safeSend attempts already refused
  window,       \* each channel's adaptive window
  buffered,     \* each channel's bufferedAmount
  open,         \* each channel's readyState
  cancelled,    \* "no", or who cancelled first
  main,         \* sendFiles itself: "sending", "hashing", then its outcome
  told,         \* the catch block sent CANCEL
  sent          \* how many times each chunk was handed to a channel

producerVars == <<nextToRead, inFlight, prod, hand>>
queueVars    == <<queue, closed, parked>>
consumerVars == <<cons, frame, tries>>
channelVars  == <<window, buffered, open>>
mainVars     == <<cancelled, main, told>>
inputVars    == <<held, inline>>
vars == <<inputVars, producerVars, queueVars, consumerVars, channelVars,
          mainVars, sent>>

ProducerPlaces == {"start", "next", "reading", "parked", "woken", "done", "failed"}
ConsumerPlaces == {"next", "parked", "handed", "waiting", "ready", "retry",
                   "done", "failed"}

TypeOK ==
  /\ held \in SUBSET Chunks
  /\ inline \in BOOLEAN
  /\ nextToRead \in 0 .. NumChunks
  /\ inFlight \in SUBSET Chunks
  /\ prod \in ProducerPlaces
  /\ hand \in Chunks \cup {NoChunk}
  /\ queue \in Seq(Chunks)
  /\ closed \in BOOLEAN
  /\ parked \in Seq(Channels)
  /\ cons \in [Channels -> ConsumerPlaces]
  /\ frame \in [Channels -> Chunks \cup {NoChunk}]
  /\ tries \in [Channels -> 0 .. MaxRetries]
  /\ window \in [Channels -> Windows]
  /\ buffered \in [Channels -> Nat]
  /\ open \in [Channels -> BOOLEAN]
  /\ cancelled \in {"no", "local", "peer"}
  /\ main \in {"sending", "hashing", "complete", "silent", "error"}
  /\ told \in BOOLEAN
  /\ sent \in [Chunks -> Nat]

-----------------------------------------------------------------------------
(* The event loop: which continuations are due. *)

ProducerDue == prod \in {"start", "next", "woken"}
ConsumerDue(c) == cons[c] \in {"next", "handed", "ready"}

\* Mutant of AllReturned: the join waits for the producer only.
OnlyProducerReturned == prod = "done"

AllReturned == prod = "done" /\ \A c \in Channels : cons[c] = "done"
SomeThrew   == prod = "failed" \/ \E c \in Channels : cons[c] = "failed"
MainDue ==
  \/ main = "sending" /\ (AllReturned \/ SomeThrew)
  \/ main = "hashing" /\ inline

Quiet == ~ProducerDue /\ (\A c \in Channels : ~ConsumerDue(c)) /\ ~MainDue

-----------------------------------------------------------------------------
(* ChunkQueue *)

\* push(i), up to the await that parks the producer or to its return.
Push(i) ==
  \/ /\ closed
     /\ prod' = "next" /\ hand' = NoChunk
     /\ UNCHANGED <<queueVars, consumerVars>>
  \/ /\ ~closed /\ Len(queue) >= Capacity
     /\ prod' = "parked" /\ hand' = i
     /\ UNCHANGED <<queueVars, consumerVars>>
  \/ /\ ~closed /\ Len(queue) < Capacity /\ parked # <<>>
     /\ prod' = "next" /\ hand' = NoChunk
     /\ cons' = [cons EXCEPT ![Head(parked)] = "handed"]
     /\ frame' = [frame EXCEPT ![Head(parked)] = i]
     /\ parked' = Tail(parked)
     /\ UNCHANGED <<queue, closed, tries>>
  \/ /\ ~closed /\ Len(queue) < Capacity /\ parked = <<>>
     /\ prod' = "next" /\ hand' = NoChunk
     /\ queue' = Append(queue, i)
     /\ UNCHANGED <<closed, parked, consumerVars>>

\* Mutants of Pull: the parked producer is not woken; the item stays queued.
PullQuietly(c) ==
  \/ /\ queue # <<>>
     /\ frame' = [frame EXCEPT ![c] = Head(queue)]
     /\ cons' = [cons EXCEPT ![c] = "handed"]
     /\ queue' = Tail(queue)
     /\ UNCHANGED <<closed, parked, prod>>
  \/ /\ queue = <<>>
     /\ cons' = [cons EXCEPT ![c] = IF closed THEN "handed" ELSE "parked"]
     /\ parked' = IF closed THEN parked ELSE Append(parked, c)
     /\ UNCHANGED <<queue, closed, frame, prod>>
PullPeeks(c) ==
  \/ queue = <<>> /\ PullQuietly(c)
  \/ /\ queue # <<>>
     /\ frame' = [frame EXCEPT ![c] = Head(queue)]
     /\ cons' = [cons EXCEPT ![c] = "handed"]
     /\ prod' = IF prod = "parked" THEN "woken" ELSE prod
     /\ UNCHANGED queueVars

\* pull() by the consumer of channel c.
Pull(c) ==
  \/ /\ queue # <<>>
     /\ frame' = [frame EXCEPT ![c] = Head(queue)]
     /\ cons' = [cons EXCEPT ![c] = "handed"]
     /\ queue' = Tail(queue)
     /\ prod' = IF prod = "parked" THEN "woken" ELSE prod
     /\ UNCHANGED <<closed, parked>>
  \/ /\ queue = <<>> /\ closed
     /\ cons' = [cons EXCEPT ![c] = "handed"]
     /\ UNCHANGED <<queueVars, frame, prod>>
  \/ /\ queue = <<>> /\ ~closed
     /\ parked' = Append(parked, c)
     /\ cons' = [cons EXCEPT ![c] = "parked"]
     /\ UNCHANGED <<queue, closed, frame, prod>>

\* close(): wakes everyone parked on either side.
WakeConsumers ==
  [c \in Channels |-> IF c \in ToSet(parked) THEN "handed" ELSE cons[c]]

\* Mutant of Close: the flag is set and nobody is woken.
CloseWakesNobody ==
  /\ closed' = TRUE
  /\ UNCHANGED <<parked, cons>>

Close ==
  /\ closed' = TRUE
  /\ parked' = <<>>
  /\ cons' = WakeConsumers

-----------------------------------------------------------------------------
(* Producer *)

\* The chunks topUp issues a read for; the others the receiver has.
Wanted(i) == inline \/ i \notin held

\* What is in flight once topUp has looked at every index below m.
IssuedUpTo(m) == inFlight \cup {i \in nextToRead .. m - 1 : Wanted(i)}

\* Mutant of TopUp: every read is issued at once.
TopUpAll ==
  /\ nextToRead' = NumChunks
  /\ inFlight' = IssuedUpTo(NumChunks)

\* topUp(): stop at the first m where the read-ahead is full, or at the end.
TopUp ==
  \E m \in nextToRead .. NumChunks :
    /\ m = NumChunks \/ Cardinality(IssuedUpTo(m)) >= ReadAhead
    /\ \A k \in nextToRead .. m - 1 : Cardinality(IssuedUpTo(k)) < ReadAhead
    /\ nextToRead' = m
    /\ inFlight' = IssuedUpTo(m)

ProducerStart ==
  /\ prod = "start"
  /\ TopUp
  /\ prod' = "next"
  /\ UNCHANGED <<inputVars, hand, queueVars, consumerVars, channelVars,
                 mainVars, sent>>

\* The head of the producer's loop: take the oldest read and await it.
ProducerAwait ==
  /\ prod = "next"
  /\ inFlight # {} /\ cancelled = "no"
  /\ \E i \in inFlight :
       /\ \A j \in inFlight : i <= j
       /\ hand' = i
       /\ inFlight' = inFlight \ {i}
  /\ prod' = "reading"
  /\ UNCHANGED <<inputVars, nextToRead, queueVars, consumerVars, channelVars,
                 mainVars, sent>>

\* The loop ends, or is broken off by a cancel; finally { queue.close() }.
ProducerReturn ==
  /\ prod = "next"
  /\ inFlight = {} \/ cancelled # "no"
  /\ prod' = "done"
  /\ Close
  /\ UNCHANGED <<inputVars, nextToRead, inFlight, hand, queue, frame, tries,
                 channelVars, mainVars, sent>>

\* The awaited read is there: read ahead, hash, and push unless held.  A read
\* ahead may have ended before it is awaited, so this need not wait for an event.
ReadDone ==
  /\ prod = "reading"
  /\ TopUp
  /\ IF hand \in held
     THEN /\ prod' = "next" /\ hand' = NoChunk
          /\ UNCHANGED <<queueVars, consumerVars>>
     ELSE Push(hand)
  /\ UNCHANGED <<inputVars, channelVars, mainVars, sent>>

\* The file changed or vanished on disk: the read rejects.
ReadFail ==
  /\ "readFail" \in Faults
  /\ prod = "reading"
  /\ prod' = "failed" /\ hand' = NoChunk
  /\ Close
  /\ UNCHANGED <<inputVars, nextToRead, inFlight, queue, frame, tries,
                 channelVars, mainVars, sent>>

\* A parked push() resumes and looks at the queue again.
ProducerResume ==
  /\ prod = "woken"
  /\ Push(hand)
  /\ UNCHANGED <<inputVars, nextToRead, inFlight, channelVars, mainVars, sent>>

-----------------------------------------------------------------------------
(* Consumers *)

ConsumerPull(c) ==
  /\ cons[c] = "next"
  /\ cancelled = "no"
  /\ Pull(c)
  /\ UNCHANGED <<inputVars, nextToRead, inFlight, hand, tries, channelVars,
                 mainVars, sent>>

\* The three places where a consumer looks at `cancelled` and breaks, and
\* the null that ends a closed queue.
ConsumerReturn(c) ==
  /\ \/ cons[c] \in {"next", "handed", "ready"} /\ cancelled # "no"
     \/ cons[c] = "handed" /\ frame[c] = NoChunk
  /\ cons' = [cons EXCEPT ![c] = "done"]
  /\ frame' = [frame EXCEPT ![c] = NoChunk]
  /\ UNCHANGED <<inputVars, producerVars, queueVars, tries, channelVars,
                 mainVars, sent>>

\* Mutant of ConsumerGotFrame: send without looking at bufferedAmount.
SkipsWindow(c) ==
  /\ cons[c] = "handed" /\ frame[c] # NoChunk /\ cancelled = "no"
  /\ cons' = [cons EXCEPT ![c] = "ready"]
  /\ UNCHANGED <<inputVars, producerVars, queueVars, frame, tries, channelVars,
                 mainVars, sent>>

\* waitForBufferSpace(): go on at once, or wait for bufferedamountlow.
ConsumerGotFrame(c) ==
  /\ cons[c] = "handed" /\ frame[c] # NoChunk /\ cancelled = "no"
  /\ cons' = [cons EXCEPT ![c] =
                IF buffered[c] <= window[c].high THEN "ready" ELSE "waiting"]
  /\ UNCHANGED <<inputVars, producerVars, queueVars, frame, tries, channelVars,
                 mainVars, sent>>

\* channel.send() accepts the frame; the window adapts to the new rate.
Accepted(c) ==
  /\ open[c]
  /\ sent' = [sent EXCEPT ![frame[c]] = @ + 1]
  /\ buffered' = [buffered EXCEPT ![c] = @ + 1]
  /\ \E w \in Windows : window' = [window EXCEPT ![c] = w]
  /\ cons' = [cons EXCEPT ![c] = "next"]
  /\ frame' = [frame EXCEPT ![c] = NoChunk]
  /\ tries' = [tries EXCEPT ![c] = 0]
  /\ open' = open

\* channel.send() throws "send queue is full" and a retry is left.
Refused(c) ==
  /\ open[c] /\ "sendFull" \in Faults
  /\ tries[c] < MaxRetries
  /\ tries' = [tries EXCEPT ![c] = @ + 1]
  /\ cons' = [cons EXCEPT ![c] = "retry"]
  /\ UNCHANGED <<frame, channelVars, sent>>

\* channel.send() throws for good: closed, or full once too often.
Threw(c) ==
  /\ \/ ~open[c]
     \/ "sendFull" \in Faults /\ tries[c] = MaxRetries
  /\ cons' = [cons EXCEPT ![c] = "failed"]
  /\ frame' = [frame EXCEPT ![c] = NoChunk]
  /\ UNCHANGED <<tries, channelVars, sent>>

Attempt(c) ==
  /\ Accepted(c) \/ Refused(c) \/ Threw(c)
  /\ UNCHANGED <<inputVars, producerVars, queueVars, mainVars>>

\* Mutant of ConsumerSend: no look at `cancelled` after the wait.
SendsAnyway(c) ==
  /\ cons[c] = "ready"
  /\ Attempt(c)

ConsumerSend(c) ==
  /\ cons[c] = "ready" /\ cancelled = "no"
  /\ Attempt(c)

\* The retry timer fires; `cancelled` is not looked at here.
ConsumerRetry(c) ==
  /\ Quiet
  /\ cons[c] = "retry"
  /\ Attempt(c)

-----------------------------------------------------------------------------
(* sendFiles itself *)

\* The catch block: tell the peer unless it was the peer who cancelled.
FailWith ==
  /\ main' = "error"
  /\ told' = (cancelled # "peer" /\ open[Control])

\* Promise.all settles; finally { queue.close() }.
MainJoin ==
  /\ main = "sending"
  /\ AllReturned \/ SomeThrew
  /\ Close
  /\ prod' = IF prod = "parked" THEN "woken" ELSE prod
  /\ IF SomeThrew \/ cancelled # "no"
     THEN FailWith
     ELSE main' = "hashing" /\ UNCHANGED told
  /\ UNCHANGED <<inputVars, nextToRead, inFlight, hand, queue, frame, tries,
                 channelVars, cancelled, sent>>

\* The digest is there: announce TRANSFER_COMPLETE and report the outcome,
\* modelled for the last file of the batch.  `cancelled` only suppresses
\* onAllComplete here.
Announce ==
  /\ main = "hashing"
  /\ inline \/ Quiet
  /\ \/ /\ open[Control]
        /\ main' = IF cancelled = "no" THEN "complete" ELSE "silent"
        /\ UNCHANGED told
     \/ /\ \/ ~open[Control] \/ "sendFull" \in Faults
           \/ ~inline /\ "readFail" \in Faults
        /\ FailWith
  /\ UNCHANGED <<inputVars, producerVars, queueVars, consumerVars, channelVars,
                 cancelled, sent>>

-----------------------------------------------------------------------------
(* The environment *)

\* The network takes a frame; bufferedamountlow fires on the way down
\* through the threshold, which waitForBufferSpace set to the low mark.
Drain(c) ==
  /\ Quiet
  /\ open[c] /\ buffered[c] > 0
  /\ buffered' = [buffered EXCEPT ![c] = @ - 1]
  /\ cons' = [cons EXCEPT ![c] =
                IF @ = "waiting" /\ buffered[c] = window[c].low + 1
                THEN "ready" ELSE @]
  /\ UNCHANGED <<inputVars, producerVars, queueVars, frame, tries, window, open,
                 mainVars, sent>>

\* triggerCancel(): the first caller wins and cancelledPromise resolves.
Cancel(who) ==
  /\ Quiet
  /\ cancelled = "no"
  /\ cancelled' = who
  /\ cons' = [c \in Channels |-> IF cons[c] = "waiting" THEN "ready" ELSE cons[c]]
  /\ UNCHANGED <<inputVars, producerVars, queueVars, frame, tries, channelVars,
                 main, told, sent>>

\* The signal is aborted: a click on cancel, or a reconnect replacing us.
Abort == "abort" \in Faults /\ Cancel("local")

\* CANCEL from the receiver; the listener is gone once sendFiles settled.
PeerCancel ==
  /\ "peerCancel" \in Faults
  /\ main \in {"sending", "hashing"}
  /\ open[Control]
  /\ Cancel("peer")

\* The connection under a channel is gone.
ChannelClose(c) ==
  /\ Quiet
  /\ "close" \in Faults
  /\ open[c]
  /\ open' = [open EXCEPT ![c] = FALSE]
  /\ UNCHANGED <<inputVars, producerVars, queueVars, consumerVars, window,
                 buffered, mainVars, sent>>

-----------------------------------------------------------------------------

\* Who may have cancelled while the receiver was asked what it holds; a channel
\* may be gone by then, too.
Cancels == (IF "abort" \in Faults THEN {"local"} ELSE {})
             \cup (IF "peerCancel" \in Faults THEN {"peer"} ELSE {})

Init ==
  /\ held \in SUBSET Chunks
  /\ inline \in BOOLEAN
  /\ nextToRead = 0
  /\ inFlight = {}
  /\ prod = "start"
  /\ hand = NoChunk
  /\ queue = <<>>
  /\ closed = FALSE
  /\ parked = <<>>
  /\ cons = [c \in Channels |-> "next"]
  /\ frame = [c \in Channels |-> NoChunk]
  /\ tries = [c \in Channels |-> 0]
  /\ \E w \in Windows : window = [c \in Channels |-> w]
  /\ buffered = [c \in Channels |-> 0]
  /\ open \in [Channels -> IF "close" \in Faults THEN BOOLEAN ELSE {TRUE}]
  /\ cancelled \in {"no"} \cup Cancels
  /\ main = "sending"
  /\ told = FALSE
  /\ sent = [i \in Chunks |-> 0]

Producer == ProducerStart \/ ProducerAwait \/ ProducerReturn \/ ReadDone
              \/ ProducerResume
Consumer(c) == ConsumerPull(c) \/ ConsumerReturn(c) \/ ConsumerGotFrame(c)
                 \/ ConsumerSend(c) \/ ConsumerRetry(c)

Next ==
  \/ ProducerStart \/ ProducerAwait \/ ProducerReturn
  \/ ReadDone \/ ReadFail \/ ProducerResume
  \/ MainJoin \/ Announce
  \/ Abort \/ PeerCancel
  \/ \E c \in Channels :
       \/ ConsumerPull(c) \/ ConsumerReturn(c) \/ ConsumerGotFrame(c)
       \/ ConsumerSend(c) \/ ConsumerRetry(c)
       \/ Drain(c) \/ ChannelClose(c)

Spec == Init /\ [][Next]_vars

\* The engine runs every due continuation, reads of a file end, timers fire,
\* the hash worker answers and an open channel drains.  Nothing makes a user
\* cancel, a read fail or a connection drop.
Fairness ==
  /\ WF_vars(Producer)
  /\ WF_vars(MainJoin)
  /\ WF_vars(Announce)
  /\ \A c \in Channels : WF_vars(Consumer(c)) /\ WF_vars(Drain(c))

FairSpec == Spec /\ Fairness

-----------------------------------------------------------------------------
(* Properties *)

\* TRANSFER_COMPLETE is announced only when every chunk the receiver lacks
\* went to a channel exactly once and no chunk it holds was sent again,
\* whatever the interleaving of reads, sends, drains, failures and cancels.
CompleteMeansAllSent ==
  main \in {"complete", "silent"} =>
    \A i \in Chunks : sent[i] = IF i \in held THEN 0 ELSE 1

\* Nobody sleeps through the event that should have woken it: a parked push
\* means a full open queue, a parked pull an empty open one, and a consumer
\* waiting for bufferedamountlow is on a channel that still has to come down
\* through its low mark (or is closed), in a send nobody cancelled.
NoLostWakeup ==
  /\ prod = "parked" => ~closed /\ Len(queue) >= Capacity
  /\ \A c \in Channels :
       /\ cons[c] = "parked" => ~closed /\ queue = <<>>
       /\ cons[c] = "waiting" =>
            /\ cancelled = "no"
            /\ open[c] => buffered[c] > window[c].low

\* The bound that keeps the file out of memory: reads in flight, the chunk
\* being pushed, the queue and what the consumers hold.
InMemory ==
  Cardinality(inFlight) + (IF hand = NoChunk THEN 0 ELSE 1) + Len(queue)
    + Cardinality({c \in Channels : frame[c] # NoChunk})
MemoryBounded ==
  InMemory <= ReadAhead + 1 + Capacity + Cardinality(Channels)

\* No channel is ever filled more than one frame past the largest window.
BufferBounded ==
  \A c \in Channels : \E w \in Windows : buffered[c] <= w.high + 1

\* Once cancelled, the only frame that may still leave is one whose send
\* was already being retried when the cancel came.
CancelStopsSending ==
  [][cancelled # "no" /\ sent' # sent =>
       \E c \in Channels : cons[c] = "retry" /\ cons'[c] # "retry"]_vars

\* sendFiles settles.
Settles == <>(main \in {"complete", "silent", "error"})

\* Neither the producer nor a consumer is left pending for ever.
NothingLeftRunning ==
  <>[](/\ prod \in {"done", "failed"}
       /\ \A c \in Channels : cons[c] \in {"done", "failed"})

\* The loop implements the promise of FileSend.
Outcome == CASE main \in {"sending", "hashing"} -> "sending"
             [] main \in {"complete", "silent"} -> "complete"
             [] OTHER -> "error"
Promise == INSTANCE FileSend WITH outcome <- Outcome
ImplementsFileSend == Promise!Spec

-----------------------------------------------------------------------------
(* The inductive invariant behind the theorems of SendPipeline_proofs. *)

\* Program counters agree with what each actor holds.
Hands ==
  /\ hand # NoChunk <=> prod \in {"reading", "parked", "woken"}
  /\ prod \in {"parked", "woken"} => hand \notin held
  /\ \A c \in Channels :
       /\ cons[c] \in {"waiting", "ready", "retry"} => frame[c] # NoChunk
       /\ cons[c] \in {"next", "parked", "done", "failed"} => frame[c] = NoChunk

\* The list of parked consumers is exactly the consumers that are parked.
ParkedList ==
  /\ IsInjective(parked)
  /\ ToSet(parked) = {c \in Channels : cons[c] = "parked"}

\* A chunk is in one place only: not read, in flight, in the producer's
\* hand, queued, with one consumer, or sent.
InFlightPlace ==
  \A i \in inFlight : i < nextToRead /\ i # hand /\ sent[i] = 0
HandPlace ==
  hand # NoChunk => hand < nextToRead /\ sent[hand] = 0
QueuePlace ==
  /\ IsInjective(queue)
  /\ \A i \in ToSet(queue) :
       i < nextToRead /\ i \notin inFlight /\ i # hand /\ i \notin held /\ sent[i] = 0
FramePlace ==
  \A c \in Channels : frame[c] # NoChunk =>
    /\ frame[c] < nextToRead /\ frame[c] \notin inFlight /\ frame[c] # hand
    /\ frame[c] \notin ToSet(queue) /\ frame[c] \notin held /\ sent[frame[c]] = 0
    /\ \A d \in Channels : d # c => frame[d] # frame[c]
SentPlace ==
  \A i \in Chunks :
    sent[i] # 0 => sent[i] = 1 /\ i < nextToRead /\ i \notin held
OnePlace == InFlightPlace /\ HandPlace /\ QueuePlace /\ FramePlace /\ SentPlace

\* As long as nothing was cancelled and nothing threw, no chunk is dropped.
Healthy == cancelled = "no" /\ main = "sending" /\ ~SomeThrew
NothingDropped ==
  Healthy =>
    \A i \in Chunks \ held :
      \/ i >= nextToRead \/ i \in inFlight \/ i = hand \/ i \in ToSet(queue)
      \/ \E c \in Channels : frame[c] = i
      \/ sent[i] = 1

\* When the queue is closed, and what an actor that returned has left behind.
Closing ==
  /\ closed => prod \in {"done", "failed"} \/ main # "sending"
  /\ prod \in {"done", "failed"} => closed
  /\ inFlight = {} /\ prod \in {"next", "parked", "woken"} => nextToRead = NumChunks
  /\ prod = "done" /\ Healthy => inFlight = {} /\ nextToRead = NumChunks
  /\ \A c \in Channels :
       cons[c] = "done" \/ (cons[c] = "handed" /\ frame[c] = NoChunk) =>
         (closed /\ queue = <<>>) \/ cancelled # "no"

\* Once past the join, everyone has returned and everything is sent.
Joined ==
  main \in {"hashing", "complete", "silent"} =>
    /\ AllReturned
    /\ \A i \in Chunks \ held : sent[i] = 1

\* A consumer about to send has room in its window.
RoomToSend ==
  \A c \in Channels :
    cons[c] = "retry" \/ (cons[c] = "ready" /\ cancelled = "no") =>
      buffered[c] <= window[c].high

ReadAheadBounded ==
  /\ Cardinality(inFlight) <= ReadAhead
  /\ prod = "reading" => Cardinality(inFlight) < ReadAhead
  /\ Len(queue) <= Capacity

IInv ==
  /\ TypeOK
  /\ Hands
  /\ ParkedList
  /\ OnePlace
  /\ NothingDropped
  /\ Closing
  /\ Joined
  /\ NoLostWakeup
  /\ RoomToSend
  /\ BufferBounded
  /\ ReadAheadBounded
=============================================================================
