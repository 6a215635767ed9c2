------------------------ MODULE SendPipeline_proofs ------------------------
(***************************************************************************)
(* Proofs about SendPipeline for every file size, every set of channels,   *)
(* every queue capacity, read-ahead, retry budget and set of windows.      *)
(* IInv is inductive; the safety properties and the refinement of FileSend *)
(* follow from it.                                                         *)
(***************************************************************************)
EXTENDS SendPipeline, FiniteSetTheorems, TLAPS

-----------------------------------------------------------------------------
(* Sequences used as queues: what Append and Tail do to the set of elements a *)
(* queue holds, and to a queue without repetitions. *)

\* The set a sequence holds is a subset of the set it is over.
LEMMA ToSetSubset ==
  ASSUME NEW S, NEW s \in Seq(S)
  PROVE  ToSet(s) \subseteq S
  BY DEF ToSet

\* An empty queue holds nothing and repeats nothing.
LEMMA EmptyQueue == ToSet(<<>>) = {} /\ IsInjective(<<>>)
  BY DEF ToSet, IsInjective

\* A queue that is not empty holds something.
LEMMA NonEmptyQueue ==
  ASSUME NEW S, NEW s \in Seq(S), ToSet(s) = {}
  PROVE  s = <<>>
<1>1. SUFFICES ASSUME s # <<>> PROVE FALSE
  OBVIOUS
<1>2. 1 \in DOMAIN s
  BY <1>1
<1>3. QED BY <1>2 DEF ToSet

\* Appending adds one element to the set a queue holds.
LEMMA AppendToSet ==
  ASSUME NEW S, NEW s \in Seq(S), NEW x \in S
  PROVE  ToSet(Append(s, x)) = ToSet(s) \cup {x}
<1> DEFINE t == Append(s, x)
<1>1. Len(s) \in Nat /\ DOMAIN s = 1 .. Len(s) /\ DOMAIN t = 1 .. Len(s) + 1
  OBVIOUS
<1>2. t[Len(s) + 1] = x /\ \A i \in 1 .. Len(s) : t[i] = s[i]
  BY <1>1
<1>3. ASSUME NEW y \in ToSet(t) PROVE y \in ToSet(s) \cup {x}
  BY <1>1, <1>2, <1>3 DEF ToSet
<1>4. ASSUME NEW y \in ToSet(s) \cup {x} PROVE y \in ToSet(t)
  BY <1>1, <1>2, <1>4 DEF ToSet
<1>5. QED BY <1>3, <1>4

\* An appended element that is new keeps a queue free of repetitions.
LEMMA AppendFresh ==
  ASSUME NEW S, NEW s \in Seq(S), NEW x \in S, IsInjective(s), x \notin ToSet(s)
  PROVE  IsInjective(Append(s, x))
<1> DEFINE t == Append(s, x)
<1>1. Len(s) \in Nat /\ DOMAIN s = 1 .. Len(s) /\ DOMAIN t = 1 .. Len(s) + 1
  OBVIOUS
<1>2. t[Len(s) + 1] = x /\ \A i \in 1 .. Len(s) : t[i] = s[i]
  BY <1>1
<1>3. \A i \in 1 .. Len(s) : s[i] # x
  BY <1>1 DEF ToSet
<1>4. \A a, b \in 1 .. Len(s) + 1 : t[a] = t[b] => a = b
  BY <1>1, <1>2, <1>3 DEF IsInjective
<1>5. QED BY <1>1, <1>4 DEF IsInjective

\* Taking the head of a queue without repetitions removes exactly it.
LEMMA TailToSet ==
  ASSUME NEW S, NEW s \in Seq(S), s # <<>>, IsInjective(s)
  PROVE  /\ ToSet(Tail(s)) = ToSet(s) \ {Head(s)}
         /\ IsInjective(Tail(s))
         /\ Head(s) \in ToSet(s)
<1>1. Len(s) \in Nat \ {0} /\ DOMAIN s = 1 .. Len(s)
  OBVIOUS
<1>2. Tail(s) \in Seq(S) /\ Len(Tail(s)) = Len(s) - 1 /\ DOMAIN Tail(s) = 1 .. Len(s) - 1
  BY <1>1
<1>3. \A i \in 1 .. Len(s) - 1 : Tail(s)[i] = s[i + 1]
  BY <1>1
<1>4. IsInjective(Tail(s))
  BY <1>1, <1>2, <1>3 DEF IsInjective
<1>5. Head(s) = s[1]
  BY <1>1
<1>6. ToSet(Tail(s)) = ToSet(s) \ {Head(s)}
  <2>1. ASSUME NEW x \in ToSet(Tail(s)) PROVE x \in ToSet(s) \ {Head(s)}
    BY <1>1, <1>2, <1>3, <1>5 DEF ToSet, IsInjective
  <2>2. ASSUME NEW x \in ToSet(s) \ {Head(s)} PROVE x \in ToSet(Tail(s))
    <3>1. PICK i \in 1 .. Len(s) : s[i] = x
      BY <1>1 DEF ToSet
    <3>2. i - 1 \in 1 .. Len(s) - 1
      BY <3>1, <1>1, <1>5
    <3>3. Tail(s)[i - 1] = x
      BY <3>1, <3>2, <1>3
    <3>4. QED BY <3>2, <3>3, <1>2 DEF ToSet
  <2>3. QED BY <2>1, <2>2
<1>7. Head(s) \in ToSet(s)
  BY <1>1, <1>5 DEF ToSet
<1>8. QED BY <1>4, <1>6, <1>7

-----------------------------------------------------------------------------
(* What the shared pieces of the actions do. *)

\* What topUp achieves: it looks at indexes in order, issues every wanted
\* chunk it looks at, stops when the read-ahead is full, and gives up with
\* nothing in flight only at the end of the file.
ReadOn ==
  /\ nextToRead' \in nextToRead .. NumChunks
  /\ inFlight' \in SUBSET Chunks
  /\ inFlight \subseteq inFlight'
  /\ \A i \in inFlight' : i \in inFlight \/ (nextToRead <= i /\ i < nextToRead')
  /\ \A i \in Chunks \ held : nextToRead <= i /\ i < nextToRead' => i \in inFlight'
  /\ inFlight' = {} => nextToRead' = NumChunks
  /\ Cardinality(inFlight') <= ReadAhead

LEMMA TopUpReadsOn ==
  ASSUME TypeOK, Cardinality(inFlight) <= ReadAhead, TopUp
  PROVE  ReadOn
<1>1. /\ NumChunks \in Nat /\ ReadAhead \in Nat \ {0}
      /\ nextToRead \in Nat /\ nextToRead <= NumChunks
      /\ inFlight \subseteq 0 .. NumChunks - 1
  BY PipelineAssumption DEF TypeOK, Chunks
<1>2. PICK m \in nextToRead .. NumChunks :
        /\ m = NumChunks \/ Cardinality(IssuedUpTo(m)) >= ReadAhead
        /\ \A k \in nextToRead .. m - 1 : Cardinality(IssuedUpTo(k)) < ReadAhead
        /\ nextToRead' = m
        /\ inFlight' = IssuedUpTo(m)
  BY DEF TopUp
<1>3. m \in Nat /\ nextToRead <= m /\ m <= NumChunks
  BY <1>1
<1>4. IsFiniteSet(0 .. NumChunks - 1)
  BY <1>1, FS_Interval
<1>5. ASSUME NEW k \in Nat, k <= NumChunks
      PROVE  /\ IssuedUpTo(k) \subseteq 0 .. NumChunks - 1
             /\ IsFiniteSet(IssuedUpTo(k))
             /\ Cardinality(IssuedUpTo(k)) \in Nat
  <2>1. IssuedUpTo(k) \subseteq 0 .. NumChunks - 1
    <3>1. {i \in nextToRead .. k - 1 : Wanted(i)} \subseteq nextToRead .. k - 1
      OBVIOUS
    <3>2. nextToRead .. k - 1 \subseteq 0 .. NumChunks - 1
      BY <1>1, <1>5
    <3>3. QED BY <3>1, <3>2, <1>1 DEF IssuedUpTo
  <2>2. IsFiniteSet(IssuedUpTo(k))
    BY <2>1, <1>4, FS_Subset
  <2>3. QED BY <2>1, <2>2, FS_CardinalityType
<1>6. inFlight' = {} => m = NumChunks
  <2>1. SUFFICES ASSUME inFlight' = {}, m # NumChunks PROVE FALSE
    OBVIOUS
  <2>2. Cardinality(IssuedUpTo(m)) = 0
    BY <2>1, <1>2, FS_EmptySet
  <2>3. QED BY <2>1, <2>2, <1>1, <1>2
<1>7. Cardinality(inFlight') <= ReadAhead
  <2>1. CASE m = nextToRead
    <3>1. IssuedUpTo(m) = inFlight
      BY <2>1, <1>3 DEF IssuedUpTo
    <3>2. QED BY <3>1, <1>2
  <2>2. CASE m > nextToRead
    <3>1. m - 1 \in Nat /\ m - 1 \in nextToRead .. m - 1 /\ m - 1 <= NumChunks
      BY <2>2, <1>1, <1>3
    <3>2. Cardinality(IssuedUpTo(m - 1)) < ReadAhead
      BY <3>1, <1>2
    <3>3. IssuedUpTo(m) \subseteq IssuedUpTo(m - 1) \cup {m - 1}
      BY <3>1, <1>1, <1>3 DEF IssuedUpTo
    <3>4. IsFiniteSet(IssuedUpTo(m - 1)) /\ Cardinality(IssuedUpTo(m - 1)) \in Nat
      BY <3>1, <1>5
    <3> DEFINE I == IssuedUpTo(m - 1)
    <3>a. /\ IsFiniteSet(I \cup {m - 1})
          /\ Cardinality(I \cup {m - 1}) =
               IF m - 1 \in I THEN Cardinality(I) ELSE Cardinality(I) + 1
      BY <3>4, FS_AddElement
    <3>5. /\ IsFiniteSet(IssuedUpTo(m - 1) \cup {m - 1})
          /\ Cardinality(IssuedUpTo(m - 1) \cup {m - 1}) <= Cardinality(IssuedUpTo(m - 1)) + 1
      BY <3>a, <3>4
    <3>6. Cardinality(IssuedUpTo(m)) <= Cardinality(IssuedUpTo(m - 1) \cup {m - 1})
      BY <3>3, <3>5, FS_Subset
    <3>7. /\ Cardinality(IssuedUpTo(m)) \in Nat
          /\ Cardinality(IssuedUpTo(m - 1) \cup {m - 1}) \in Nat
      BY <3>5, <1>3, <1>5, FS_CardinalityType
    <3>8. Cardinality(IssuedUpTo(m)) <= ReadAhead
      BY <3>2, <3>4, <3>5, <3>6, <3>7, <1>1
    <3>9. QED BY <3>8, <1>2
  <2>3. QED BY <2>1, <2>2, <1>1, <1>3
<1>8. nextToRead' \in nextToRead .. NumChunks /\ inFlight' \subseteq 0 .. NumChunks - 1
  BY <1>2, <1>3, <1>5
<1>9. /\ inFlight \subseteq inFlight'
      /\ \A i \in inFlight' : i \in inFlight \/ (nextToRead <= i /\ i < nextToRead')
  BY <1>1, <1>2, <1>3 DEF IssuedUpTo
<1>10. \A i \in Chunks \ held : nextToRead <= i /\ i < nextToRead' => i \in inFlight'
  BY <1>1, <1>2, <1>3 DEF IssuedUpTo, Wanted, Chunks
<1>11. QED BY <1>2, <1>6, <1>7, <1>8, <1>9, <1>10 DEF ReadOn, Chunks

\* close() wakes exactly the parked consumers.
LEMMA CloseWakes ==
  ASSUME TypeOK, ParkedList, Close
  PROVE  /\ cons' \in [Channels -> ConsumerPlaces]
         /\ cons' = [c \in Channels |-> IF cons[c] = "parked" THEN "handed" ELSE cons[c]]
         /\ parked' = <<>> /\ closed' = TRUE
         /\ ParkedList'
<1>1. cons' = [c \in Channels |-> IF cons[c] = "parked" THEN "handed" ELSE cons[c]]
  BY DEF Close, WakeConsumers, ParkedList
<1>2. cons' \in [Channels -> ConsumerPlaces] /\ parked' = <<>> /\ closed' = TRUE
  BY <1>1 DEF TypeOK, ConsumerPlaces, Close
<1>3. ParkedList'
  BY <1>1, <1>2, EmptyQueue DEF ParkedList
<1>4. QED BY <1>1, <1>2, <1>3

\* The consumer a push hands its frame to is parked and empty-handed.
LEMMA HeadOfParked ==
  ASSUME TypeOK, Hands, ParkedList, parked # <<>>
  PROVE  /\ Head(parked) \in Channels
         /\ cons[Head(parked)] = "parked"
         /\ frame[Head(parked)] = NoChunk
         /\ Tail(parked) \in Seq(Channels)
         /\ IsInjective(Tail(parked))
         /\ ToSet(Tail(parked)) = ToSet(parked) \ {Head(parked)}
<1>1. parked \in Seq(Channels)
  BY DEF TypeOK
<1>2. /\ ToSet(Tail(parked)) = ToSet(parked) \ {Head(parked)}
      /\ IsInjective(Tail(parked)) /\ Head(parked) \in ToSet(parked)
  BY <1>1, TailToSet DEF ParkedList
<1>3. QED BY <1>1, <1>2 DEF ParkedList, Hands

\* Facts about the constants that the other proofs use.
LEMMA ChunkFacts ==
  ASSUME TypeOK
  PROVE  /\ Chunks \subseteq Nat /\ NoChunk \notin Chunks
         /\ Capacity \in Nat /\ ReadAhead \in Nat /\ ToSet(queue) \subseteq Chunks
<1>1. Chunks \subseteq Nat /\ NoChunk \notin Chunks /\ Capacity \in Nat /\ ReadAhead \in Nat
  BY PipelineAssumption DEF Chunks, NoChunk
<1>2. ToSet(queue) \subseteq Chunks
  BY ToSetSubset DEF TypeOK
<1>3. QED BY <1>1, <1>2

\* A push, with or without reading ahead first, keeps the invariant.
LEMMA PushStep ==
  ASSUME IInv, ReadOn, Push(hand), prod \in {"reading", "woken"}, hand \notin held,
         UNCHANGED <<inputVars, channelVars, mainVars, sent>>
  PROVE  IInv'
<1>1. /\ hand \in Chunks /\ hand # NoChunk /\ nextToRead \in Nat /\ NumChunks \in Nat
      /\ nextToRead' \in Nat /\ nextToRead <= nextToRead' /\ nextToRead' <= NumChunks
      /\ prod \notin {"done", "failed", "next", "parked"}
  <2>1. hand \in Chunks /\ hand # NoChunk
    BY DEF IInv, TypeOK, Hands
  <2>2. nextToRead \in 0 .. NumChunks /\ nextToRead' \in nextToRead .. NumChunks
    BY DEF IInv, TypeOK, ReadOn
  <2> QED BY <2>1, <2>2, PipelineAssumption
<1>0. /\ Chunks \subseteq Nat /\ NoChunk \notin Chunks
      /\ Capacity \in Nat /\ ReadAhead \in Nat /\ ToSet(queue) \subseteq Chunks
  BY ChunkFacts DEF IInv
<1>a0. /\ inFlight \subseteq Chunks /\ inFlight' \subseteq Chunks
       /\ \A i \in Chunks : i < nextToRead =>
            i < nextToRead' /\ (i \in inFlight' <=> i \in inFlight)
       /\ \A i \in inFlight' : i \notin inFlight => nextToRead <= i /\ i < nextToRead'
  BY <1>0, <1>1 DEF IInv, TypeOK, ReadOn
<1>2. TypeOK /\ Hands /\ ParkedList /\ OnePlace
  BY DEF IInv
<1>3. /\ held' = held /\ inline' = inline
      /\ window' = window /\ buffered' = buffered /\ open' = open
      /\ cancelled' = cancelled /\ main' = main /\ told' = told /\ sent' = sent
  BY DEF inputVars, channelVars, mainVars
<1>a. CASE /\ closed
           /\ prod' = "next" /\ hand' = NoChunk
           /\ UNCHANGED <<queueVars, consumerVars>>
  <2>a. main # "sending"
    BY <1>1, <1>a DEF IInv, Closing
  <2>b. /\ queue' = queue /\ closed' = closed /\ parked' = parked
        /\ cons' = cons /\ frame' = frame /\ tries' = tries
    BY <1>a DEF queueVars, consumerVars
  <2> USE <1>0, <1>a0, <1>1, <1>3, <1>a, <2>b
  <2> USE <2>a
  <2>1. TypeOK'
    BY DEF IInv, TypeOK, ProducerPlaces, ConsumerPlaces, ReadOn
  <2>2. Hands'
    BY DEF IInv, Hands, TypeOK
  <2>3. ParkedList'
    BY DEF IInv, ParkedList, TypeOK
  <2>4. OnePlace'
    <3>1. InFlightPlace'
      BY DEF IInv, OnePlace, InFlightPlace, HandPlace, QueuePlace, FramePlace,
             SentPlace, TypeOK
    <3>2. HandPlace'
      BY DEF IInv, OnePlace, InFlightPlace, HandPlace, QueuePlace, FramePlace,
             SentPlace, TypeOK
    <3>3. QueuePlace'
      <4>1. IsInjective(queue')
        BY DEF IInv, OnePlace, QueuePlace
      <4>2. ASSUME NEW i \in ToSet(queue')
            PROVE  /\ i < nextToRead' /\ i \notin inFlight' /\ i # hand'
                   /\ i \notin held' /\ sent'[i] = 0
        BY <4>2 DEF IInv, OnePlace, HandPlace, QueuePlace
      <4>3. QED BY <4>1, <4>2 DEF QueuePlace
    <3>4. FramePlace'
      BY DEF IInv, OnePlace, HandPlace, FramePlace, TypeOK
    <3>5. SentPlace'
      BY DEF IInv, OnePlace, InFlightPlace, HandPlace, QueuePlace, FramePlace,
             SentPlace, TypeOK
    <3>6. QED BY <3>1, <3>2, <3>3, <3>4, <3>5 DEF OnePlace
  <2>5. NothingDropped'
    BY DEF IInv, NothingDropped, Healthy, SomeThrew, ReadOn, Chunks, TypeOK
  <2>6. Closing'
    BY DEF IInv, Closing, Healthy, SomeThrew, ReadOn, TypeOK
  <2>7. Joined'
    BY DEF IInv, Joined, AllReturned, TypeOK
  <2>8. NoLostWakeup'
    BY DEF IInv, NoLostWakeup, TypeOK
  <2>9. RoomToSend'
    BY DEF IInv, RoomToSend, TypeOK
  <2>10. BufferBounded'
    BY DEF IInv, BufferBounded
  <2>11. ReadAheadBounded'
    BY DEF IInv, ReadAheadBounded, ReadOn, TypeOK
   <2>12. QED BY <2>1, <2>2, <2>3, <2>4, <2>5, <2>6, <2>7, <2>8, <2>9, <2>10,
         <2>11 DEF IInv
<1>b. CASE /\ ~closed /\ Len(queue) >= Capacity
           /\ prod' = "parked" /\ hand' = hand
           /\ UNCHANGED <<queueVars, consumerVars>>
  <2>b. /\ queue' = queue /\ closed' = closed /\ parked' = parked
        /\ cons' = cons /\ frame' = frame /\ tries' = tries
    BY <1>b DEF queueVars, consumerVars
  <2> USE <1>0, <1>a0, <1>1, <1>3, <1>b, <2>b
  <2>1. TypeOK'
    BY DEF IInv, TypeOK, ProducerPlaces, ConsumerPlaces, ReadOn
  <2>2. Hands'
    BY DEF IInv, Hands, TypeOK
  <2>3. ParkedList'
    BY DEF IInv, ParkedList, TypeOK
  <2>4. OnePlace'
    <3>1. InFlightPlace'
      BY DEF IInv, OnePlace, InFlightPlace, HandPlace, QueuePlace, FramePlace,
             SentPlace, TypeOK
    <3>2. HandPlace'
      BY DEF IInv, OnePlace, InFlightPlace, HandPlace, QueuePlace, FramePlace,
             SentPlace, TypeOK
    <3>3. QueuePlace'
      BY DEF IInv, OnePlace, InFlightPlace, HandPlace, QueuePlace, FramePlace,
             SentPlace, TypeOK
    <3>4. FramePlace'
      BY DEF IInv, OnePlace, InFlightPlace, HandPlace, FramePlace, TypeOK
    <3>5. SentPlace'
      BY DEF IInv, OnePlace, InFlightPlace, HandPlace, QueuePlace, FramePlace,
             SentPlace, TypeOK
    <3>6. QED BY <3>1, <3>2, <3>3, <3>4, <3>5 DEF OnePlace
  <2>5. NothingDropped'
    BY DEF IInv, NothingDropped, Healthy, SomeThrew, ReadOn, Chunks, TypeOK
  <2>6. Closing'
    BY DEF IInv, Closing, Healthy, SomeThrew, ReadOn, TypeOK
  <2>7. Joined'
    BY DEF IInv, Joined, AllReturned, TypeOK
  <2>8. NoLostWakeup'
    BY DEF IInv, NoLostWakeup, TypeOK
  <2>9. RoomToSend'
    BY DEF IInv, RoomToSend, TypeOK
  <2>10. BufferBounded'
    BY DEF IInv, BufferBounded
  <2>11. ReadAheadBounded'
    BY DEF IInv, ReadAheadBounded, ReadOn, TypeOK
   <2>12. QED BY <2>1, <2>2, <2>3, <2>4, <2>5, <2>6, <2>7, <2>8, <2>9, <2>10,
         <2>11 DEF IInv
<1>c. CASE /\ ~closed /\ Len(queue) < Capacity /\ parked # <<>>
           /\ prod' = "next" /\ hand' = NoChunk
           /\ cons' = [cons EXCEPT ![Head(parked)] = "handed"]
           /\ frame' = [frame EXCEPT ![Head(parked)] = hand]
           /\ parked' = Tail(parked)
           /\ UNCHANGED <<queue, closed, tries>>
  <2> DEFINE h == Head(parked)
  <2>a. /\ h \in Channels /\ cons[h] = "parked" /\ frame[h] = NoChunk
        /\ parked' \in Seq(Channels) /\ IsInjective(parked')
        /\ ToSet(parked') = ToSet(parked) \ {h}
    BY <1>2, <1>c, HeadOfParked
  <2>b. /\ ~closed /\ prod' = "next" /\ hand' = NoChunk
        /\ cons' = [cons EXCEPT ![h] = "handed"]
        /\ frame' = [frame EXCEPT ![h] = hand]
        /\ queue' = queue /\ closed' = closed /\ tries' = tries
    BY <1>c
  <2>c. queue = <<>>
    BY <2>a DEF IInv, NoLostWakeup
  <2> HIDE DEF h
  <2> USE <1>0, <1>a0, <1>1, <1>3, <2>a, <2>b, <2>c
  <2>1. TypeOK'
    BY DEF IInv, TypeOK, ProducerPlaces, ConsumerPlaces
  <2>2. Hands'
    BY DEF IInv, Hands, TypeOK
  <2>3. ParkedList'
    BY DEF IInv, ParkedList, TypeOK
  <2>4. OnePlace'
    <3>1. InFlightPlace'
      BY DEF IInv, OnePlace, InFlightPlace, HandPlace, QueuePlace, FramePlace,
             SentPlace, TypeOK
    <3>2. HandPlace'
      BY DEF IInv, OnePlace, InFlightPlace, HandPlace, QueuePlace, FramePlace,
             SentPlace, TypeOK
    <3>3. QueuePlace'
      BY DEF IInv, OnePlace, HandPlace, QueuePlace
    <3>4. FramePlace'
      <4>1. SUFFICES ASSUME NEW c \in Channels, frame'[c] # NoChunk
                     PROVE  /\ frame'[c] < nextToRead' /\ frame'[c] \notin inFlight'
                            /\ frame'[c] # hand' /\ frame'[c] \notin ToSet(queue')
                            /\ frame'[c] \notin held' /\ sent'[frame'[c]] = 0
                            /\ \A d \in Channels : d # c => frame'[d] # frame'[c]
        BY DEF FramePlace
      <4>2. frame'[c] \in Chunks
        BY <4>1, <2>1 DEF TypeOK
      <4>3. CASE c = h
        BY <4>1, <4>2, <4>3 DEF IInv, OnePlace, InFlightPlace, HandPlace,
                                    QueuePlace, FramePlace, TypeOK
      <4>4. CASE c # h
        BY <4>1, <4>2, <4>4 DEF IInv, OnePlace, FramePlace, TypeOK
      <4>5. QED BY <4>3, <4>4
    <3>5. SentPlace'
      BY DEF IInv, OnePlace, InFlightPlace, HandPlace, QueuePlace, FramePlace,
             SentPlace, TypeOK
    <3>6. QED BY <3>1, <3>2, <3>3, <3>4, <3>5 DEF OnePlace
  <2>5. NothingDropped'
    BY DEF IInv, NothingDropped, Healthy, SomeThrew, ReadOn, Chunks, TypeOK
  <2>6. Closing'
    BY DEF IInv, Closing, Healthy, SomeThrew, ReadOn, TypeOK
  <2>7. Joined'
    BY DEF IInv, Joined, AllReturned, TypeOK
  <2>8. NoLostWakeup'
    BY DEF IInv, NoLostWakeup, TypeOK
  <2>9. RoomToSend'
    BY DEF IInv, RoomToSend, TypeOK
  <2>10. BufferBounded'
    BY DEF IInv, BufferBounded
  <2>11. ReadAheadBounded'
    BY DEF IInv, ReadAheadBounded, ReadOn, TypeOK
   <2>12. QED BY <2>1, <2>2, <2>3, <2>4, <2>5, <2>6, <2>7, <2>8, <2>9, <2>10,
         <2>11 DEF IInv
<1>d. CASE /\ ~closed /\ Len(queue) < Capacity /\ parked = <<>>
           /\ prod' = "next" /\ hand' = NoChunk
           /\ queue' = Append(queue, hand)
           /\ UNCHANGED <<closed, parked, consumerVars>>
  <2>a. /\ queue' \in Seq(Chunks) /\ Len(queue') = Len(queue) + 1 /\ Len(queue) \in Nat
        /\ ToSet(queue') = ToSet(queue) \cup {hand}
        /\ hand \notin ToSet(queue)
    BY <1>1, <1>2, <1>d, AppendToSet DEF TypeOK, OnePlace, QueuePlace
  <2>b. IsInjective(queue')
    BY <1>1, <1>2, <1>d, <2>a, AppendFresh DEF TypeOK, OnePlace, QueuePlace
  <2>c. \A c \in Channels : cons[c] # "parked"
    BY <1>2, <1>d, EmptyQueue DEF ParkedList
  <2>d. /\ ~closed /\ Len(queue) < Capacity
        /\ prod' = "next" /\ hand' = NoChunk
        /\ closed' = closed /\ parked' = parked
        /\ cons' = cons /\ frame' = frame /\ tries' = tries
    BY <1>d DEF consumerVars
  <2> USE <1>0, <1>a0, <1>1, <1>3, <2>a, <2>b, <2>c, <2>d
  <2>1. TypeOK'
    BY DEF IInv, TypeOK, ProducerPlaces
  <2>2. Hands'
    BY DEF IInv, Hands, TypeOK
  <2>3. ParkedList'
    BY DEF IInv, ParkedList, TypeOK
  <2>4. OnePlace'
    <3>1. InFlightPlace'
      BY DEF IInv, OnePlace, InFlightPlace, HandPlace, QueuePlace, FramePlace,
             SentPlace, TypeOK
    <3>2. HandPlace'
      BY DEF IInv, OnePlace, InFlightPlace, HandPlace, QueuePlace, FramePlace,
             SentPlace, TypeOK
    <3>3. QueuePlace'
      <4>1. IsInjective(queue')
        BY DEF IInv, OnePlace, QueuePlace
      <4>2. ASSUME NEW i \in ToSet(queue')
            PROVE  /\ i < nextToRead' /\ i \notin inFlight' /\ i # hand'
                   /\ i \notin held' /\ sent'[i] = 0
        <5>1. CASE i = hand
          BY <5>1 DEF IInv, OnePlace, HandPlace, InFlightPlace
        <5>2. CASE i \in ToSet(queue)
          BY <5>2 DEF IInv, OnePlace, QueuePlace
        <5>3. QED BY <4>2, <5>1, <5>2
      <4>3. QED BY <4>1, <4>2 DEF QueuePlace
    <3>4. FramePlace'
      <4>1. SUFFICES ASSUME NEW c \in Channels, frame'[c] # NoChunk
                     PROVE  /\ frame'[c] < nextToRead' /\ frame'[c] \notin inFlight'
                            /\ frame'[c] # hand' /\ frame'[c] \notin ToSet(queue')
                            /\ frame'[c] \notin held' /\ sent'[frame'[c]] = 0
                            /\ \A d \in Channels : d # c => frame'[d] # frame'[c]
        BY DEF FramePlace
      <4>2. frame'[c] \in Chunks
        BY <4>1, <2>1 DEF TypeOK
      <4>3. QED BY <4>1, <4>2 DEF IInv, OnePlace, HandPlace, FramePlace, TypeOK
    <3>5. SentPlace'
      BY DEF IInv, OnePlace, InFlightPlace, HandPlace, QueuePlace, FramePlace,
             SentPlace, TypeOK
    <3>6. QED BY <3>1, <3>2, <3>3, <3>4, <3>5 DEF OnePlace
  <2>5. NothingDropped'
    BY DEF IInv, NothingDropped, Healthy, SomeThrew, ReadOn, Chunks, TypeOK
  <2>6. Closing'
    BY DEF IInv, Closing, Healthy, SomeThrew, ReadOn, TypeOK
  <2>7. Joined'
    BY DEF IInv, Joined, AllReturned, TypeOK
  <2>8. NoLostWakeup'
    BY DEF IInv, NoLostWakeup, TypeOK
  <2>9. RoomToSend'
    BY DEF IInv, RoomToSend, TypeOK
  <2>10. BufferBounded'
    BY DEF IInv, BufferBounded
  <2>11. ReadAheadBounded'
    BY DEF IInv, ReadAheadBounded, ReadOn, TypeOK
   <2>12. QED BY <2>1, <2>2, <2>3, <2>4, <2>5, <2>6, <2>7, <2>8, <2>9, <2>10,
         <2>11 DEF IInv
<1>4. QED BY <1>a, <1>b, <1>c, <1>d DEF Push

-----------------------------------------------------------------------------
(* One lemma per action: the step keeps the invariant. *)

\* Reading ahead and pushing nothing keeps the invariant.
LEMMA SkipStep ==
  ASSUME IInv, ReadOn, prod \in {"start", "reading"}, hand = NoChunk \/ hand \in held,
         prod' = "next", hand' = NoChunk,
         UNCHANGED <<inputVars, queueVars, consumerVars, channelVars, mainVars, sent>>
  PROVE  IInv'
<1>0. /\ Chunks \subseteq Nat /\ NoChunk \notin Chunks
      /\ Capacity \in Nat /\ ReadAhead \in Nat /\ ToSet(queue) \subseteq Chunks
  BY ChunkFacts DEF IInv
<1>1. /\ inFlight \subseteq Chunks /\ inFlight' \subseteq Chunks
      /\ nextToRead \in Nat /\ NumChunks \in Nat
      /\ nextToRead' \in Nat /\ nextToRead <= nextToRead' /\ nextToRead' <= NumChunks
  BY PipelineAssumption DEF IInv, TypeOK, ReadOn
<1>a. /\ \A i \in Chunks : i < nextToRead =>
           i < nextToRead' /\ (i \in inFlight' <=> i \in inFlight)
      /\ \A i \in inFlight' : i \notin inFlight => nextToRead <= i /\ i < nextToRead'
  BY <1>0, <1>1 DEF ReadOn
<1>s. /\ held' = held /\ inline' = inline
      /\ window' = window /\ buffered' = buffered /\ open' = open
      /\ cancelled' = cancelled /\ main' = main /\ told' = told /\ sent' = sent
      /\ queue' = queue /\ closed' = closed /\ parked' = parked
      /\ cons' = cons /\ frame' = frame /\ tries' = tries
  BY DEF inputVars, channelVars, mainVars, queueVars, consumerVars
<1> USE <1>0, <1>1, <1>a, <1>s
<1>2. TypeOK'
  BY DEF IInv, TypeOK, ProducerPlaces, ConsumerPlaces, ReadOn
<1>3. Hands'
  BY DEF IInv, Hands, TypeOK
<1>4. ParkedList'
  BY DEF IInv, ParkedList, TypeOK
<1>5. InFlightPlace'
  BY DEF IInv, OnePlace, InFlightPlace, SentPlace, TypeOK
<1>6. HandPlace'
  BY DEF IInv, OnePlace, HandPlace, InFlightPlace, Hands, TypeOK
<1>7. QueuePlace'
  BY DEF IInv, OnePlace, QueuePlace, InFlightPlace, Hands, TypeOK
<1>8. FramePlace'
  BY DEF IInv, OnePlace, FramePlace, InFlightPlace, Hands, TypeOK
<1>9. SentPlace'
  BY DEF IInv, OnePlace, SentPlace, FramePlace, Hands, TypeOK
<1>10. NothingDropped'
  <2>1. SUFFICES ASSUME Healthy', NEW i \in Chunks \ held
                 PROVE  \/ i >= nextToRead' \/ i \in inFlight' \/ i \in ToSet(queue)
                        \/ (\E c \in Channels : frame[c] = i) \/ sent[i] = 1
    BY DEF NothingDropped
  <2>2. Healthy /\ i # hand
    BY <2>1 DEF Healthy, SomeThrew
  <2>3. \/ i >= nextToRead \/ i \in inFlight \/ i \in ToSet(queue)
        \/ (\E c \in Channels : frame[c] = i) \/ sent[i] = 1
    BY <2>2 DEF IInv, NothingDropped
  <2>4. i >= nextToRead /\ i < nextToRead' => i \in inFlight'
    BY DEF ReadOn
  <2>5. QED BY <2>3, <2>4
<1>11. Closing'
  BY DEF IInv, Closing, Healthy, SomeThrew, Hands, NoLostWakeup, TypeOK, ReadOn
<1>12. Joined'
  BY DEF IInv, Joined, AllReturned, Hands, TypeOK
<1>13. NoLostWakeup'
  BY DEF IInv, NoLostWakeup, Hands, ParkedList, TypeOK
<1>14. RoomToSend'
  BY DEF IInv, RoomToSend, NoLostWakeup, TypeOK
<1>15. BufferBounded'
  BY DEF IInv, BufferBounded, RoomToSend, TypeOK
<1>16. ReadAheadBounded'
  BY DEF IInv, ReadAheadBounded, TypeOK, ReadOn
<1>17. QED BY <1>2, <1>3, <1>4, <1>5, <1>6, <1>7, <1>8, <1>9, <1>10, <1>11, <1>12,
       <1>13, <1>14, <1>15, <1>16 DEF IInv, OnePlace

\* The producer starts reading.
LEMMA ProducerStartStep == ASSUME IInv, ProducerStart PROVE IInv'
<1>1. ReadOn
  BY TopUpReadsOn DEF IInv, ReadAheadBounded, ProducerStart
<1>2. hand = NoChunk
  BY DEF IInv, Hands, ProducerStart
<1>3. hand' = NoChunk /\ prod' = "next" /\ prod = "start"
  BY <1>2 DEF ProducerStart
<1>4. UNCHANGED <<inputVars, queueVars, consumerVars, channelVars, mainVars, sent>>
  BY DEF ProducerStart
<1>5. QED BY <1>1, <1>2, <1>3, <1>4, SkipStep

\* A read is done.
LEMMA ReadDoneStep == ASSUME IInv, ReadDone PROVE IInv'
<1>1. ReadOn
  BY TopUpReadsOn DEF IInv, ReadAheadBounded, ReadDone
<1>2. prod = "reading" /\ UNCHANGED <<inputVars, channelVars, mainVars, sent>>
  BY DEF ReadDone
<1>3. CASE hand \in held
  <2>1. /\ prod' = "next" /\ hand' = NoChunk
        /\ UNCHANGED <<inputVars, queueVars, consumerVars, channelVars, mainVars, sent>>
    BY <1>3 DEF ReadDone
  <2>2. QED BY <1>1, <1>2, <1>3, <2>1, SkipStep
<1>4. CASE hand \notin held
  <2>1. Push(hand)
    BY <1>4 DEF ReadDone
  <2>2. QED BY <1>1, <1>2, <1>4, <2>1, PushStep
<1>5. QED BY <1>3, <1>4

\* A parked push resumes.
LEMMA ProducerResumeStep == ASSUME IInv, ProducerResume PROVE IInv'
<1>1. /\ prod = "woken" /\ Push(hand) /\ hand \notin held
      /\ UNCHANGED <<inputVars, channelVars, mainVars, sent>>
      /\ nextToRead' = nextToRead /\ inFlight' = inFlight
  BY DEF IInv, Hands, ProducerResume
<1>2. nextToRead \in Nat /\ nextToRead <= NumChunks /\ NumChunks \in Nat
  BY PipelineAssumption DEF IInv, TypeOK
<1>3. inFlight \in SUBSET Chunks /\ Cardinality(inFlight) <= ReadAhead
      /\ (inFlight = {} => nextToRead = NumChunks)
  BY <1>1 DEF IInv, TypeOK, ReadAheadBounded, Closing
<1>4. \A i \in Chunks : ~(nextToRead <= i /\ i < nextToRead)
  BY <1>2 DEF Chunks
<1>5. ReadOn
  BY <1>1, <1>2, <1>3, <1>4 DEF ReadOn
<1>6. QED BY <1>1, <1>5, PushStep

\* One attempt of safeSend, the first one or a retry.
LEMMA AttemptStep ==
  ASSUME IInv, NEW c \in Channels, cons[c] \in {"ready", "retry"},
         cons[c] = "ready" => cancelled = "no", Attempt(c)
  PROVE  IInv'
<1>0. /\ Chunks \subseteq Nat /\ NoChunk \notin Chunks
      /\ Capacity \in Nat /\ ReadAhead \in Nat /\ ToSet(queue) \subseteq Chunks
  BY ChunkFacts DEF IInv
<1>a. /\ held' = held /\ inline' = inline /\ nextToRead' = nextToRead
      /\ inFlight' = inFlight /\ prod' = prod /\ hand' = hand
      /\ queue' = queue /\ closed' = closed /\ parked' = parked
      /\ cancelled' = cancelled /\ main' = main /\ told' = told
  BY DEF Attempt, inputVars, producerVars, queueVars, mainVars
<1>b. /\ frame[c] \in Chunks /\ frame[c] # NoChunk /\ sent[frame[c]] = 0
      /\ buffered[c] \in Nat /\ window[c] \in Windows /\ buffered[c] <= window[c].high
  BY DEF IInv, TypeOK, Hands, OnePlace, FramePlace, RoomToSend
<1>c. ~AllReturned /\ main \notin {"hashing", "complete", "silent"}
  BY DEF AllReturned, IInv, Joined
<1> USE <1>0, <1>a, <1>b, <1>c
<1>1. CASE Accepted(c)
  <2>a. /\ sent' = [sent EXCEPT ![frame[c]] = 1]
        /\ buffered' = [buffered EXCEPT ![c] = buffered[c] + 1]
        /\ cons' = [cons EXCEPT ![c] = "next"]
        /\ frame' = [frame EXCEPT ![c] = NoChunk]
        /\ tries' = [tries EXCEPT ![c] = 0]
        /\ open' = open
    BY <1>1 DEF Accepted
  <2>b. /\ window' \in [Channels -> Windows]
        /\ \A d \in Channels : d # c => window'[d] = window[d]
    BY <1>1 DEF Accepted, IInv, TypeOK
  <2> USE <2>a, <2>b
  <2>1. TypeOK'
    <3>1. tries' \in [Channels -> 0 .. MaxRetries]
      BY PipelineAssumption DEF IInv, TypeOK
    <3>2. buffered' \in [Channels -> Nat] /\ sent' \in [Chunks -> Nat]
      BY DEF IInv, TypeOK
    <3>3. QED BY <3>1, <3>2 DEF IInv, TypeOK, ConsumerPlaces
  <2>2. Hands'
    BY DEF IInv, Hands, TypeOK
  <2>3. ParkedList'
    BY DEF IInv, ParkedList, TypeOK
  <2>4. InFlightPlace'
    BY DEF IInv, OnePlace, InFlightPlace, QueuePlace, FramePlace, TypeOK
  <2>5. HandPlace'
    BY DEF IInv, OnePlace, HandPlace, QueuePlace, FramePlace, TypeOK
  <2>6. QueuePlace'
    BY DEF IInv, OnePlace, QueuePlace, FramePlace, TypeOK
  <2>7. FramePlace'
    BY DEF IInv, OnePlace, FramePlace, QueuePlace, Hands, TypeOK
  <2>8. SentPlace'
    BY DEF IInv, OnePlace, SentPlace, FramePlace, Hands, TypeOK
  <2>9. NothingDropped'
    BY DEF IInv, NothingDropped, Healthy, SomeThrew, Hands, Closing, TypeOK
  <2>10. Closing'
    BY DEF IInv, Closing, Healthy, SomeThrew, Hands, NoLostWakeup, TypeOK
  <2>11. Joined'
    BY DEF IInv, Joined, AllReturned, Hands, TypeOK
  <2>12. NoLostWakeup'
    BY DEF IInv, NoLostWakeup, Hands, ParkedList, TypeOK
  <2>13. RoomToSend'
    BY DEF IInv, RoomToSend, NoLostWakeup, TypeOK
  <2>14. BufferBounded'
    <3>1. ASSUME NEW d \in Channels
          PROVE  \E w \in Windows : buffered'[d] <= w.high + 1
      <4>1. CASE d = c
        <5>1. buffered'[d] = buffered[c] + 1 /\ window[c].high \in Nat
          BY <4>1, PipelineAssumption DEF IInv, TypeOK
        <5>2. QED BY <5>1
      <4>2. CASE d # c
        BY <4>2 DEF IInv, BufferBounded, TypeOK
      <4>3. QED BY <4>1, <4>2
    <3>2. QED BY <3>1 DEF BufferBounded
  <2>15. ReadAheadBounded'
    BY DEF IInv, ReadAheadBounded, TypeOK
   <2>16. QED BY <2>1, <2>2, <2>3, <2>4, <2>5, <2>6, <2>7, <2>8, <2>9, <2>10,
         <2>11, <2>12, <2>13, <2>14, <2>15 DEF IInv, OnePlace
<1>2. CASE Refused(c)
  <2>a. /\ cons' = [cons EXCEPT ![c] = "retry"]
        /\ tries' = [tries EXCEPT ![c] = tries[c] + 1] /\ tries[c] < MaxRetries
        /\ frame' = frame /\ sent' = sent
        /\ window' = window /\ buffered' = buffered /\ open' = open
    BY <1>2 DEF Refused, channelVars
  <2> USE <2>a
  <2>1. TypeOK'
    <3>1. tries' \in [Channels -> 0 .. MaxRetries]
      <4>1. tries \in [Channels -> 0 .. MaxRetries]
        BY DEF IInv, TypeOK
      <4>2. tries[c] + 1 \in 0 .. MaxRetries
        BY <4>1, PipelineAssumption
      <4>3. QED BY <4>1, <4>2
    <3>2. QED BY <3>1 DEF IInv, TypeOK, ConsumerPlaces
  <2>2. Hands'
    BY DEF IInv, Hands, TypeOK
  <2>3. ParkedList'
    BY DEF IInv, ParkedList, TypeOK
  <2>4. InFlightPlace'
    BY DEF IInv, OnePlace, InFlightPlace, QueuePlace, FramePlace, TypeOK
  <2>5. HandPlace'
    BY DEF IInv, OnePlace, HandPlace, QueuePlace, FramePlace, TypeOK
  <2>6. QueuePlace'
    BY DEF IInv, OnePlace, QueuePlace, FramePlace, TypeOK
  <2>7. FramePlace'
    BY DEF IInv, OnePlace, FramePlace, QueuePlace, Hands, TypeOK
  <2>8. SentPlace'
    BY DEF IInv, OnePlace, SentPlace, FramePlace, Hands, TypeOK
  <2>9. NothingDropped'
    BY DEF IInv, NothingDropped, Healthy, SomeThrew, Hands, Closing, TypeOK
  <2>10. Closing'
    BY DEF IInv, Closing, Healthy, SomeThrew, Hands, NoLostWakeup, TypeOK
  <2>11. Joined'
    BY DEF IInv, Joined, AllReturned, Hands, TypeOK
  <2>12. NoLostWakeup'
    BY DEF IInv, NoLostWakeup, Hands, ParkedList, TypeOK
  <2>13. RoomToSend'
    BY DEF IInv, RoomToSend, NoLostWakeup, TypeOK
  <2>14. BufferBounded'
    BY DEF IInv, BufferBounded, RoomToSend, TypeOK
  <2>15. ReadAheadBounded'
    BY DEF IInv, ReadAheadBounded, TypeOK
   <2>16. QED BY <2>1, <2>2, <2>3, <2>4, <2>5, <2>6, <2>7, <2>8, <2>9, <2>10,
         <2>11, <2>12, <2>13, <2>14, <2>15 DEF IInv, OnePlace
<1>3. CASE Threw(c)
  <2>a. /\ cons' = [cons EXCEPT ![c] = "failed"]
        /\ frame' = [frame EXCEPT ![c] = NoChunk]
        /\ tries' = tries /\ sent' = sent
        /\ window' = window /\ buffered' = buffered /\ open' = open
    BY <1>3 DEF Threw, channelVars
  <2> USE <2>a
  <2>1. TypeOK'
    BY DEF IInv, TypeOK, ConsumerPlaces, ProducerPlaces
  <2>2. Hands'
    BY DEF IInv, Hands, TypeOK
  <2>3. ParkedList'
    BY DEF IInv, ParkedList, TypeOK
  <2>4. InFlightPlace'
    BY DEF IInv, OnePlace, InFlightPlace, QueuePlace, FramePlace, TypeOK
  <2>5. HandPlace'
    BY DEF IInv, OnePlace, HandPlace, QueuePlace, FramePlace, TypeOK
  <2>6. QueuePlace'
    BY DEF IInv, OnePlace, QueuePlace, FramePlace, TypeOK
  <2>7. FramePlace'
    BY DEF IInv, OnePlace, FramePlace, QueuePlace, Hands, TypeOK
  <2>8. SentPlace'
    BY DEF IInv, OnePlace, SentPlace, FramePlace, Hands, TypeOK
  <2>9. NothingDropped'
    BY DEF IInv, NothingDropped, Healthy, SomeThrew, Hands, Closing, TypeOK
  <2>10. Closing'
    BY DEF IInv, Closing, Healthy, SomeThrew, Hands, NoLostWakeup, TypeOK
  <2>11. Joined'
    BY DEF IInv, Joined, AllReturned, Hands, TypeOK
  <2>12. NoLostWakeup'
    BY DEF IInv, NoLostWakeup, Hands, ParkedList, TypeOK
  <2>13. RoomToSend'
    BY DEF IInv, RoomToSend, NoLostWakeup, TypeOK
  <2>14. BufferBounded'
    BY DEF IInv, BufferBounded, RoomToSend, TypeOK
  <2>15. ReadAheadBounded'
    BY DEF IInv, ReadAheadBounded, TypeOK
   <2>16. QED BY <2>1, <2>2, <2>3, <2>4, <2>5, <2>6, <2>7, <2>8, <2>9, <2>10,
         <2>11, <2>12, <2>13, <2>14, <2>15 DEF IInv, OnePlace
<1>4. QED BY <1>1, <1>2, <1>3 DEF Attempt

\* A consumer sends, at once or from its retry timer.
LEMMA ConsumerSendStep ==
  ASSUME IInv, NEW c \in Channels, ConsumerSend(c) \/ ConsumerRetry(c)
  PROVE  IInv'
  BY AttemptStep DEF ConsumerSend, ConsumerRetry

\* A consumer pulls: a frame, the end of a closed queue, or it parks.
LEMMA ConsumerPullStep ==
  ASSUME IInv, NEW c \in Channels, ConsumerPull(c)
  PROVE  IInv'
<1>0. /\ Chunks \subseteq Nat /\ NoChunk \notin Chunks
      /\ Capacity \in Nat /\ ReadAhead \in Nat /\ ToSet(queue) \subseteq Chunks
  BY ChunkFacts DEF IInv
<1>a. /\ held' = held /\ inline' = inline /\ nextToRead' = nextToRead
      /\ inFlight' = inFlight /\ hand' = hand /\ tries' = tries
      /\ window' = window /\ buffered' = buffered /\ open' = open
      /\ cancelled' = cancelled /\ main' = main /\ told' = told /\ sent' = sent
      /\ cons[c] = "next" /\ cancelled = "no" /\ Pull(c)
  BY DEF ConsumerPull, inputVars, channelVars, mainVars
<1>b. frame[c] = NoChunk /\ ~AllReturned /\ main \notin {"hashing", "complete", "silent"}
  BY <1>a DEF IInv, Hands, AllReturned, Joined
<1> USE <1>0, <1>a, <1>b
<1>1. CASE queue # <<>>
  <2> DEFINE x == Head(queue)
  <2>a. /\ x \in ToSet(queue) /\ queue' \in Seq(Chunks) /\ IsInjective(queue')
        /\ ToSet(queue') = ToSet(queue) \ {x}
        /\ Len(queue) \in Nat /\ Len(queue') = Len(queue) - 1
    <3>1. queue \in Seq(Chunks) /\ IsInjective(queue) /\ queue' = Tail(queue)
      BY <1>1 DEF Pull, IInv, TypeOK, OnePlace, QueuePlace
    <3>2. QED BY <1>1, <3>1, TailToSet
  <2>b. /\ frame' = [frame EXCEPT ![c] = x]
        /\ cons' = [cons EXCEPT ![c] = "handed"]
        /\ prod' = (IF prod = "parked" THEN "woken" ELSE prod)
        /\ closed' = closed /\ parked' = parked
    BY <1>1 DEF Pull
  <2>c. x \in Chunks /\ x # NoChunk
    BY <2>a
  <2>d. \A d \in Channels : cons[d] # "parked"
    BY <1>1 DEF IInv, NoLostWakeup
  <2> HIDE DEF x
  <2> USE <2>a, <2>b, <2>c, <2>d
  <2>1. TypeOK'
    BY DEF IInv, TypeOK, ConsumerPlaces, ProducerPlaces
  <2>2. Hands'
    BY DEF IInv, Hands, TypeOK
  <2>3. ParkedList'
    BY DEF IInv, ParkedList, TypeOK
  <2>4. InFlightPlace'
    BY DEF IInv, OnePlace, InFlightPlace, QueuePlace, FramePlace, TypeOK
  <2>5. HandPlace'
    BY DEF IInv, OnePlace, HandPlace, QueuePlace, FramePlace, TypeOK
  <2>6. QueuePlace'
    BY DEF IInv, OnePlace, QueuePlace, FramePlace, TypeOK
  <2>7. FramePlace'
    BY DEF IInv, OnePlace, FramePlace, QueuePlace
  <2>8. SentPlace'
    BY DEF IInv, OnePlace, SentPlace, FramePlace, Hands, TypeOK
  <2>9. NothingDropped'
    BY DEF IInv, NothingDropped, Healthy, SomeThrew, Hands, Closing, TypeOK
  <2>10. Closing'
    BY DEF IInv, Closing, Healthy, SomeThrew, Hands, NoLostWakeup, TypeOK
  <2>11. Joined'
    BY DEF IInv, Joined, AllReturned, Hands, TypeOK
  <2>12. NoLostWakeup'
    BY DEF IInv, NoLostWakeup, Hands, ParkedList, TypeOK
  <2>13. RoomToSend'
    BY DEF IInv, RoomToSend, NoLostWakeup, TypeOK
  <2>14. BufferBounded'
    BY DEF IInv, BufferBounded, RoomToSend, TypeOK
  <2>15. ReadAheadBounded'
    BY DEF IInv, ReadAheadBounded, TypeOK
   <2>16. QED BY <2>1, <2>2, <2>3, <2>4, <2>5, <2>6, <2>7, <2>8, <2>9, <2>10,
         <2>11, <2>12, <2>13, <2>14, <2>15 DEF IInv, OnePlace
<1>2. CASE queue = <<>> /\ closed
  <2>a. /\ cons' = [cons EXCEPT ![c] = "handed"]
        /\ queue' = queue /\ closed' = closed /\ parked' = parked
        /\ frame' = frame /\ prod' = prod
    BY <1>2 DEF Pull, queueVars
  <2> USE <1>2, <2>a
  <2>1. TypeOK'
    BY DEF IInv, TypeOK, ConsumerPlaces, ProducerPlaces
  <2>2. Hands'
    BY DEF IInv, Hands, TypeOK
  <2>3. ParkedList'
    BY DEF IInv, ParkedList, TypeOK
  <2>4. InFlightPlace'
    BY DEF IInv, OnePlace, InFlightPlace, QueuePlace, FramePlace, TypeOK
  <2>5. HandPlace'
    BY DEF IInv, OnePlace, HandPlace, QueuePlace, FramePlace, TypeOK
  <2>6. QueuePlace'
    BY DEF IInv, OnePlace, QueuePlace, FramePlace, TypeOK
  <2>7. FramePlace'
    BY DEF IInv, OnePlace, FramePlace, QueuePlace, Hands, TypeOK
  <2>8. SentPlace'
    BY DEF IInv, OnePlace, SentPlace, FramePlace, Hands, TypeOK
  <2>9. NothingDropped'
    BY DEF IInv, NothingDropped, Healthy, SomeThrew, Hands, Closing, TypeOK
  <2>10. Closing'
    BY DEF IInv, Closing, Healthy, SomeThrew, Hands, NoLostWakeup, TypeOK
  <2>11. Joined'
    BY DEF IInv, Joined, AllReturned, Hands, TypeOK
  <2>12. NoLostWakeup'
    BY DEF IInv, NoLostWakeup, Hands, ParkedList, TypeOK
  <2>13. RoomToSend'
    BY DEF IInv, RoomToSend, NoLostWakeup, TypeOK
  <2>14. BufferBounded'
    BY DEF IInv, BufferBounded, RoomToSend, TypeOK
  <2>15. ReadAheadBounded'
    BY DEF IInv, ReadAheadBounded, TypeOK
   <2>16. QED BY <2>1, <2>2, <2>3, <2>4, <2>5, <2>6, <2>7, <2>8, <2>9, <2>10,
         <2>11, <2>12, <2>13, <2>14, <2>15 DEF IInv, OnePlace
<1>3. CASE queue = <<>> /\ ~closed
  <2>a. /\ cons' = [cons EXCEPT ![c] = "parked"]
        /\ queue' = queue /\ closed' = closed /\ frame' = frame /\ prod' = prod
        /\ parked' = Append(parked, c)
    BY <1>3 DEF Pull
  <2>b. c \notin ToSet(parked)
    BY DEF IInv, ParkedList
  <2>c. /\ parked' \in Seq(Channels) /\ ToSet(parked') = ToSet(parked) \cup {c}
        /\ IsInjective(parked')
    BY <2>a, <2>b, AppendToSet, AppendFresh DEF IInv, TypeOK, ParkedList
  <2> USE <1>3, <2>a, <2>b, <2>c
  <2>1. TypeOK'
    BY DEF IInv, TypeOK, ConsumerPlaces, ProducerPlaces
  <2>2. Hands'
    BY DEF IInv, Hands, TypeOK
  <2>3. ParkedList'
    BY DEF IInv, ParkedList, TypeOK
  <2>4. InFlightPlace'
    BY DEF IInv, OnePlace, InFlightPlace, QueuePlace, FramePlace, TypeOK
  <2>5. HandPlace'
    BY DEF IInv, OnePlace, HandPlace, QueuePlace, FramePlace, TypeOK
  <2>6. QueuePlace'
    BY DEF IInv, OnePlace, QueuePlace, FramePlace, TypeOK
  <2>7. FramePlace'
    BY DEF IInv, OnePlace, FramePlace, QueuePlace, Hands, TypeOK
  <2>8. SentPlace'
    BY DEF IInv, OnePlace, SentPlace, FramePlace, Hands, TypeOK
  <2>9. NothingDropped'
    BY DEF IInv, NothingDropped, Healthy, SomeThrew, Hands, Closing, TypeOK
  <2>10. Closing'
    BY DEF IInv, Closing, Healthy, SomeThrew, Hands, NoLostWakeup, TypeOK
  <2>11. Joined'
    BY DEF IInv, Joined, AllReturned, Hands, TypeOK
  <2>12. NoLostWakeup'
    BY DEF IInv, NoLostWakeup, Hands, ParkedList, TypeOK
  <2>13. RoomToSend'
    BY DEF IInv, RoomToSend, NoLostWakeup, TypeOK
  <2>14. BufferBounded'
    BY DEF IInv, BufferBounded, RoomToSend, TypeOK
  <2>15. ReadAheadBounded'
    BY DEF IInv, ReadAheadBounded, TypeOK
   <2>16. QED BY <2>1, <2>2, <2>3, <2>4, <2>5, <2>6, <2>7, <2>8, <2>9, <2>10,
         <2>11, <2>12, <2>13, <2>14, <2>15 DEF IInv, OnePlace
<1>4. QED BY <1>1, <1>2, <1>3

\* The producer takes the oldest read.
LEMMA ProducerAwaitStep ==
  ASSUME IInv, ProducerAwait
  PROVE  IInv'
<1>0. /\ Chunks \subseteq Nat /\ NoChunk \notin Chunks
      /\ Capacity \in Nat /\ ReadAhead \in Nat /\ ToSet(queue) \subseteq Chunks
  BY ChunkFacts DEF IInv
<1> USE <1>0 DEF inputVars, producerVars, queueVars, consumerVars, channelVars, mainVars
<1>1. TypeOK'
  BY DEF IInv, ProducerAwait, TypeOK, ProducerPlaces, ConsumerPlaces
<1>2. Hands'
  BY DEF IInv, ProducerAwait, Hands, TypeOK
<1>3. ParkedList'
  BY DEF IInv, ProducerAwait, ParkedList, TypeOK
<1>4. InFlightPlace'
  BY DEF IInv, ProducerAwait, OnePlace, InFlightPlace, Hands, TypeOK
<1>5. HandPlace'
  BY DEF IInv, ProducerAwait, OnePlace, HandPlace, InFlightPlace, Hands, TypeOK
<1>6. QueuePlace'
  BY DEF IInv, ProducerAwait, OnePlace, QueuePlace, InFlightPlace, Hands, TypeOK
<1>7. FramePlace'
  BY DEF IInv, ProducerAwait, OnePlace, FramePlace, InFlightPlace, Hands, TypeOK
<1>8. SentPlace'
  BY DEF IInv, ProducerAwait, OnePlace, SentPlace, FramePlace, Hands, TypeOK
<1>9. NothingDropped'
  BY DEF IInv, ProducerAwait, NothingDropped, Healthy, SomeThrew, Hands, Closing,
         TypeOK
<1>10. Closing'
  BY DEF IInv, ProducerAwait, Closing, Healthy, SomeThrew, Hands, NoLostWakeup,
         TypeOK
<1>11. Joined'
  BY DEF IInv, ProducerAwait, Joined, AllReturned, Hands, TypeOK
<1>12. NoLostWakeup'
  BY DEF IInv, ProducerAwait, NoLostWakeup, Hands, ParkedList, TypeOK
<1>13. RoomToSend'
  BY DEF IInv, ProducerAwait, RoomToSend, NoLostWakeup, TypeOK
<1>14. BufferBounded'
  BY DEF IInv, ProducerAwait, BufferBounded, RoomToSend, TypeOK
<1>15. ReadAheadBounded'
  <2>1. PICK i \in inFlight : inFlight' = inFlight \ {i}
    BY DEF ProducerAwait
  <2>2. IsFiniteSet(inFlight)
    <3>1. IsFiniteSet(Chunks) /\ inFlight \subseteq Chunks
      BY PipelineAssumption, FS_Interval DEF IInv, TypeOK, Chunks
    <3>2. QED BY <3>1, FS_Subset
  <2>3. Cardinality(inFlight) \in Nat /\ Cardinality(inFlight') = Cardinality(inFlight) - 1
    BY <2>1, <2>2, FS_CardinalityType, FS_RemoveElement
  <2>4. QED BY <2>3 DEF IInv, ProducerAwait, ReadAheadBounded
<1>16. QED BY <1>1, <1>2, <1>3, <1>4, <1>5, <1>6, <1>7, <1>8, <1>9, <1>10, <1>11,
       <1>12, <1>13, <1>14, <1>15 DEF IInv, OnePlace

\* The producer returns and closes the queue.
LEMMA ProducerReturnStep ==
  ASSUME IInv, ProducerReturn
  PROVE  IInv'
<1>0. /\ Chunks \subseteq Nat /\ NoChunk \notin Chunks
      /\ Capacity \in Nat /\ ReadAhead \in Nat /\ ToSet(queue) \subseteq Chunks
  BY ChunkFacts DEF IInv
<1> USE <1>0 DEF inputVars, producerVars, queueVars, consumerVars, channelVars, mainVars
<1>a. /\ cons' = [c \in Channels |-> IF cons[c] = "parked" THEN "handed" ELSE cons[c]]
      /\ cons' \in [Channels -> ConsumerPlaces]
      /\ parked' = <<>> /\ closed' = TRUE /\ ParkedList'
  BY CloseWakes DEF IInv, ProducerReturn
<1> USE <1>a
<1>1. TypeOK'
  BY DEF IInv, ProducerReturn, TypeOK, ProducerPlaces, ConsumerPlaces
<1>2. Hands'
  BY DEF IInv, ProducerReturn, Hands, TypeOK
<1>3. ParkedList'
  BY <1>a
<1>4. OnePlace'
  BY DEF IInv, ProducerReturn, OnePlace, InFlightPlace, HandPlace, QueuePlace,
         FramePlace, SentPlace
<1>9. NothingDropped'
  <2>1. Healthy' => Healthy
    BY DEF ProducerReturn, Healthy, SomeThrew, IInv, TypeOK
  <2>2. QED BY <2>1 DEF IInv, ProducerReturn, NothingDropped, Hands, TypeOK
<1>10. Closing'
  <2>1. Healthy' => Healthy
    BY DEF ProducerReturn, Healthy, SomeThrew, IInv, TypeOK
  <2>2. ASSUME NEW c \in Channels,
               cons'[c] = "done" \/ (cons'[c] = "handed" /\ frame'[c] = NoChunk)
        PROVE  queue' = <<>> \/ cancelled' # "no"
    BY <2>2 DEF ProducerReturn, IInv, Closing, Hands, NoLostWakeup, TypeOK
  <2>3. /\ prod' \in {"done", "failed"} /\ closed'
        /\ prod' = "done" /\ Healthy' => inFlight' = {} /\ nextToRead' = NumChunks
    BY <2>1 DEF ProducerReturn, Healthy, IInv, Closing
  <2>4. QED BY <2>2, <2>3 DEF Closing
<1>11. Joined'
  BY DEF IInv, ProducerReturn, Joined, AllReturned, Hands, TypeOK
<1>12. NoLostWakeup'
  BY DEF IInv, ProducerReturn, NoLostWakeup, Hands, ParkedList, TypeOK
<1>13. RoomToSend'
  BY DEF IInv, ProducerReturn, RoomToSend, NoLostWakeup, TypeOK
<1>14. BufferBounded'
  BY DEF IInv, ProducerReturn, BufferBounded, RoomToSend, TypeOK
<1>15. ReadAheadBounded'
  BY DEF IInv, ProducerReturn, ReadAheadBounded, TypeOK
<1>16. QED BY <1>1, <1>2, <1>3, <1>4, <1>9, <1>10, <1>11, <1>12, <1>13, <1>14,
       <1>15 DEF IInv

\* A read fails; the queue is closed on the way out.
LEMMA ReadFailStep ==
  ASSUME IInv, ReadFail
  PROVE  IInv'
<1>0. /\ Chunks \subseteq Nat /\ NoChunk \notin Chunks
      /\ Capacity \in Nat /\ ReadAhead \in Nat /\ ToSet(queue) \subseteq Chunks
  BY ChunkFacts DEF IInv
<1> USE <1>0 DEF inputVars, producerVars, queueVars, consumerVars, channelVars, mainVars
<1>a. /\ cons' = [c \in Channels |-> IF cons[c] = "parked" THEN "handed" ELSE cons[c]]
      /\ cons' \in [Channels -> ConsumerPlaces]
      /\ parked' = <<>> /\ closed' = TRUE /\ ParkedList'
  BY CloseWakes DEF IInv, ReadFail
<1> USE <1>a
<1>1. TypeOK'
  BY DEF IInv, ReadFail, TypeOK, ProducerPlaces, ConsumerPlaces
<1>2. Hands'
  BY DEF IInv, ReadFail, Hands, TypeOK
<1>3. ParkedList'
  BY <1>a
<1>4. InFlightPlace'
  BY DEF IInv, ReadFail, OnePlace, InFlightPlace, Hands, TypeOK
<1>5. HandPlace'
  BY DEF IInv, ReadFail, OnePlace, HandPlace, InFlightPlace, Hands, TypeOK
<1>6. QueuePlace'
  BY DEF IInv, ReadFail, OnePlace, QueuePlace, InFlightPlace, Hands, TypeOK
<1>7. FramePlace'
  BY DEF IInv, ReadFail, OnePlace, FramePlace, InFlightPlace, Hands, TypeOK
<1>8. SentPlace'
  BY DEF IInv, ReadFail, OnePlace, SentPlace, FramePlace, Hands, TypeOK
<1>9. NothingDropped'
  BY DEF IInv, ReadFail, NothingDropped, Healthy, SomeThrew, Hands, Closing, TypeOK
<1>10. Closing'
  <2>1. Healthy' => FALSE
    BY DEF ReadFail, Healthy, SomeThrew, IInv, TypeOK
  <2>2. ASSUME NEW c \in Channels,
               cons'[c] = "done" \/ (cons'[c] = "handed" /\ frame'[c] = NoChunk)
        PROVE  queue' = <<>> \/ cancelled' # "no"
    BY <2>2 DEF ReadFail, IInv, Closing, Hands, NoLostWakeup, TypeOK
  <2>3. /\ prod' \in {"done", "failed"} /\ closed'
        /\ prod' = "done" /\ Healthy' => inFlight' = {} /\ nextToRead' = NumChunks
    BY <2>1 DEF ReadFail, Healthy, IInv, Closing
  <2>4. QED BY <2>2, <2>3 DEF Closing
<1>11. Joined'
  BY DEF IInv, ReadFail, Joined, AllReturned, Hands, TypeOK
<1>12. NoLostWakeup'
  BY DEF IInv, ReadFail, NoLostWakeup, Hands, ParkedList, TypeOK
<1>13. RoomToSend'
  BY DEF IInv, ReadFail, RoomToSend, NoLostWakeup, TypeOK
<1>14. BufferBounded'
  BY DEF IInv, ReadFail, BufferBounded, RoomToSend, TypeOK
<1>15. ReadAheadBounded'
  BY DEF IInv, ReadFail, ReadAheadBounded, TypeOK
<1>16. QED BY <1>1, <1>2, <1>3, <1>4, <1>5, <1>6, <1>7, <1>8, <1>9, <1>10, <1>11,
       <1>12, <1>13, <1>14, <1>15 DEF IInv, OnePlace

\* A consumer returns.
LEMMA ConsumerReturnStep ==
  ASSUME IInv, NEW c \in Channels, ConsumerReturn(c)
  PROVE  IInv'
<1>0. /\ Chunks \subseteq Nat /\ NoChunk \notin Chunks
      /\ Capacity \in Nat /\ ReadAhead \in Nat /\ ToSet(queue) \subseteq Chunks
  BY ChunkFacts DEF IInv
<1> USE <1>0 DEF inputVars, producerVars, queueVars, consumerVars, channelVars, mainVars
<1>1. TypeOK'
  BY DEF IInv, ConsumerReturn, TypeOK, ProducerPlaces, ConsumerPlaces
<1>2. Hands'
  BY DEF IInv, ConsumerReturn, Hands, TypeOK
<1>3. ParkedList'
  BY DEF IInv, ConsumerReturn, ParkedList, TypeOK
<1>4. InFlightPlace'
  BY DEF IInv, ConsumerReturn, OnePlace, InFlightPlace, Hands, TypeOK
<1>5. HandPlace'
  BY DEF IInv, ConsumerReturn, OnePlace, HandPlace, InFlightPlace, Hands, TypeOK
<1>6. QueuePlace'
  BY DEF IInv, ConsumerReturn, OnePlace, QueuePlace, InFlightPlace, Hands, TypeOK
<1>7. FramePlace'
  BY DEF IInv, ConsumerReturn, OnePlace, FramePlace, InFlightPlace, Hands, TypeOK
<1>8. SentPlace'
  BY DEF IInv, ConsumerReturn, OnePlace, SentPlace, FramePlace, Hands, TypeOK
<1>9. NothingDropped'
  BY DEF IInv, ConsumerReturn, NothingDropped, Healthy, SomeThrew, Hands,
         Closing, TypeOK
<1>10. Closing'
  BY DEF IInv, ConsumerReturn, Closing, Healthy, SomeThrew, Hands, NoLostWakeup,
         TypeOK
<1>11. Joined'
  BY DEF IInv, ConsumerReturn, Joined, AllReturned, Hands, TypeOK
<1>12. NoLostWakeup'
  BY DEF IInv, ConsumerReturn, NoLostWakeup, Hands, ParkedList, TypeOK
<1>13. RoomToSend'
  BY DEF IInv, ConsumerReturn, RoomToSend, NoLostWakeup, TypeOK
<1>14. BufferBounded'
  BY DEF IInv, ConsumerReturn, BufferBounded, RoomToSend, TypeOK
<1>15. ReadAheadBounded'
  BY DEF IInv, ConsumerReturn, ReadAheadBounded, TypeOK
<1>16. QED BY <1>1, <1>2, <1>3, <1>4, <1>5, <1>6, <1>7, <1>8, <1>9, <1>10, <1>11,
       <1>12, <1>13, <1>14, <1>15 DEF IInv, OnePlace

\* A consumer looks at its channel.
LEMMA ConsumerGotFrameStep ==
  ASSUME IInv, NEW c \in Channels, ConsumerGotFrame(c)
  PROVE  IInv'
<1>0. /\ Chunks \subseteq Nat /\ NoChunk \notin Chunks
      /\ Capacity \in Nat /\ ReadAhead \in Nat /\ ToSet(queue) \subseteq Chunks
  BY ChunkFacts DEF IInv
<1> USE <1>0 DEF inputVars, producerVars, queueVars, consumerVars, channelVars, mainVars
<1>1. TypeOK'
  BY DEF IInv, ConsumerGotFrame, TypeOK, ProducerPlaces, ConsumerPlaces
<1>2. Hands'
  BY DEF IInv, ConsumerGotFrame, Hands, TypeOK
<1>3. ParkedList'
  BY DEF IInv, ConsumerGotFrame, ParkedList, TypeOK
<1>4. OnePlace'
  BY DEF IInv, ConsumerGotFrame, OnePlace, InFlightPlace, HandPlace, QueuePlace,
         FramePlace, SentPlace
<1>9. NothingDropped'
  BY DEF IInv, ConsumerGotFrame, NothingDropped, Healthy, SomeThrew, Hands,
         Closing, TypeOK
<1>10. Closing'
  BY DEF IInv, ConsumerGotFrame, Closing, Healthy, SomeThrew, Hands,
         NoLostWakeup, TypeOK
<1>11. Joined'
  BY DEF IInv, ConsumerGotFrame, Joined, AllReturned, Hands, TypeOK
<1>12. NoLostWakeup'
  <2>1. window[c].low \in Nat /\ window[c].high \in Nat /\ window[c].low <= window[c].high
    BY PipelineAssumption DEF IInv, TypeOK
  <2>2. buffered[c] \in Nat
    BY DEF IInv, TypeOK
  <2>3. QED BY <2>1, <2>2 DEF IInv, ConsumerGotFrame, NoLostWakeup, TypeOK
<1>13. RoomToSend'
  BY DEF IInv, ConsumerGotFrame, RoomToSend, NoLostWakeup, TypeOK
<1>14. BufferBounded'
  BY DEF IInv, ConsumerGotFrame, BufferBounded, RoomToSend, TypeOK
<1>15. ReadAheadBounded'
  BY DEF IInv, ConsumerGotFrame, ReadAheadBounded, TypeOK
<1>16. QED BY <1>1, <1>2, <1>3, <1>4, <1>9, <1>10, <1>11, <1>12, <1>13, <1>14,
       <1>15 DEF IInv

\* sendFiles joins the producer and the consumers.
LEMMA MainJoinStep ==
  ASSUME IInv, MainJoin
  PROVE  IInv'
<1>0. /\ Chunks \subseteq Nat /\ NoChunk \notin Chunks
      /\ Capacity \in Nat /\ ReadAhead \in Nat /\ ToSet(queue) \subseteq Chunks
  BY ChunkFacts DEF IInv
<1> USE <1>0 DEF inputVars, producerVars, queueVars, consumerVars, channelVars, mainVars
<1>a. /\ cons' = [c \in Channels |-> IF cons[c] = "parked" THEN "handed" ELSE cons[c]]
      /\ cons' \in [Channels -> ConsumerPlaces]
      /\ parked' = <<>> /\ closed' = TRUE /\ ParkedList'
  BY CloseWakes DEF IInv, MainJoin
<1> USE <1>a
<1>1. TypeOK'
  <2>1. prod' \in ProducerPlaces
    BY DEF IInv, MainJoin, TypeOK, ProducerPlaces
  <2>2. main' \in {"sending", "hashing", "complete", "silent", "error"}
    BY DEF MainJoin, FailWith
  <2>3. told' \in BOOLEAN
    BY DEF IInv, MainJoin, FailWith, TypeOK
  <2>4. parked' \in Seq(Channels)
    BY <1>a
  <2>5. QED BY <2>1, <2>2, <2>3, <2>4 DEF IInv, MainJoin, TypeOK
<1>2. Hands'
  BY DEF IInv, MainJoin, FailWith, SomeThrew, AllReturned, Hands, TypeOK
<1>3. ParkedList'
  BY <1>a
<1>4. OnePlace'
  BY DEF IInv, MainJoin, OnePlace, InFlightPlace, HandPlace, QueuePlace,
         FramePlace, SentPlace
<1>9. NothingDropped'
  BY DEF IInv, MainJoin, FailWith, AllReturned, NothingDropped, Healthy,
         SomeThrew, Hands, Closing, TypeOK
<1>10. Closing'
  <2>1. ASSUME NEW c \in Channels,
               cons'[c] = "done" \/ (cons'[c] = "handed" /\ frame'[c] = NoChunk)
        PROVE  queue' = <<>> \/ cancelled' # "no"
    BY <2>1 DEF MainJoin, IInv, Closing, Hands, NoLostWakeup, TypeOK
  <2>2. main' # "sending" /\ closed'
    BY DEF MainJoin, FailWith
  <2>3. QED BY <2>1, <2>2 DEF MainJoin, IInv, Closing, Healthy
<1>11. Joined'
  <2>1. SUFFICES ASSUME main' = "hashing"
                 PROVE  AllReturned' /\ \A i \in Chunks \ held' : sent'[i] = 1
    BY DEF Joined, MainJoin, FailWith
  <2>2. AllReturned /\ Healthy
    BY <2>1 DEF MainJoin, FailWith, Healthy
  <2>3. /\ inFlight = {} /\ nextToRead = NumChunks /\ hand = NoChunk
        /\ queue = <<>> /\ \A c \in Channels : frame[c] = NoChunk
    BY <2>2, PipelineAssumption DEF AllReturned, Healthy, IInv, Closing, Hands
  <2>4. \A i \in Chunks : i < NumChunks
    BY PipelineAssumption DEF Chunks
  <2>5. \A i \in Chunks \ held : sent[i] = 1
    BY <2>2, <2>3, <2>4, PipelineAssumption, EmptyQueue DEF IInv, NothingDropped
  <2>6. AllReturned'
    BY <2>2 DEF AllReturned, MainJoin, IInv, TypeOK
  <2>7. QED BY <2>5, <2>6 DEF MainJoin, inputVars
<1>12. NoLostWakeup'
  BY DEF IInv, MainJoin, FailWith, SomeThrew, AllReturned, NoLostWakeup, Hands,
         ParkedList, TypeOK
<1>13. RoomToSend'
  BY DEF IInv, MainJoin, FailWith, SomeThrew, AllReturned, RoomToSend,
         NoLostWakeup, TypeOK
<1>14. BufferBounded'
  BY DEF IInv, MainJoin, FailWith, SomeThrew, AllReturned, BufferBounded,
         RoomToSend, TypeOK
<1>15. ReadAheadBounded'
  BY DEF IInv, MainJoin, FailWith, SomeThrew, AllReturned, ReadAheadBounded, TypeOK
<1>16. QED BY <1>1, <1>2, <1>3, <1>4, <1>9, <1>10, <1>11, <1>12, <1>13, <1>14,
       <1>15 DEF IInv

\* sendFiles announces the file, or fails to.
LEMMA AnnounceStep ==
  ASSUME IInv, Announce
  PROVE  IInv'
<1>0. /\ Chunks \subseteq Nat /\ NoChunk \notin Chunks
      /\ Capacity \in Nat /\ ReadAhead \in Nat /\ ToSet(queue) \subseteq Chunks
  BY ChunkFacts DEF IInv
<1> USE <1>0 DEF inputVars, producerVars, queueVars, consumerVars, channelVars, mainVars
<1>1. TypeOK'
  BY DEF IInv, Announce, FailWith, TypeOK
<1>2. Hands'
  BY DEF IInv, Announce, FailWith, Hands, TypeOK
<1>3. ParkedList'
  BY DEF IInv, Announce, FailWith, ParkedList, TypeOK
<1>4. OnePlace'
  BY DEF IInv, Announce, OnePlace, InFlightPlace, HandPlace, QueuePlace,
         FramePlace, SentPlace
<1>9. NothingDropped'
  BY DEF IInv, Announce, FailWith, NothingDropped, Healthy, SomeThrew, Hands,
         Closing, TypeOK
<1>10. Closing'
  BY DEF IInv, Announce, FailWith, Closing, Healthy, SomeThrew, Hands,
         NoLostWakeup, TypeOK
<1>11. Joined'
  BY DEF IInv, Announce, FailWith, Joined, AllReturned, Hands, TypeOK
<1>12. NoLostWakeup'
  BY DEF IInv, Announce, FailWith, NoLostWakeup, Hands, ParkedList, TypeOK
<1>13. RoomToSend'
  BY DEF IInv, Announce, FailWith, RoomToSend, NoLostWakeup, TypeOK
<1>14. BufferBounded'
  BY DEF IInv, Announce, FailWith, BufferBounded, RoomToSend, TypeOK
<1>15. ReadAheadBounded'
  BY DEF IInv, Announce, FailWith, ReadAheadBounded, TypeOK
<1>16. QED BY <1>1, <1>2, <1>3, <1>4, <1>9, <1>10, <1>11, <1>12, <1>13, <1>14,
       <1>15 DEF IInv

\* A channel drains by one frame.
LEMMA DrainStep ==
  ASSUME IInv, NEW c \in Channels, Drain(c)
  PROVE  IInv'
<1>0. /\ Chunks \subseteq Nat /\ NoChunk \notin Chunks
      /\ Capacity \in Nat /\ ReadAhead \in Nat /\ ToSet(queue) \subseteq Chunks
  BY ChunkFacts DEF IInv
<1> USE <1>0 DEF inputVars, producerVars, queueVars, consumerVars, channelVars, mainVars
<1>a. \A d \in Channels :
        /\ window[d].low \in Nat /\ window[d].high \in Nat /\ window[d].low <= window[d].high
        /\ buffered[d] \in Nat
  BY PipelineAssumption DEF IInv, TypeOK
<1>b. /\ buffered' = [buffered EXCEPT ![c] = buffered[c] - 1] /\ buffered[c] > 0
      /\ cons' = [cons EXCEPT ![c] =
                    IF cons[c] = "waiting" /\ buffered[c] = window[c].low + 1
                    THEN "ready" ELSE cons[c]]
      /\ window' = window /\ open' = open /\ cancelled' = cancelled
  BY DEF Drain
<1>c. \A d \in Channels : buffered'[d] \in Nat /\ buffered'[d] <= buffered[d]
                             /\ (d # c => buffered'[d] = buffered[d] /\ cons'[d] = cons[d])
  BY <1>b DEF IInv, TypeOK
<1>d. /\ buffered'[c] = buffered[c] - 1
      /\ cons'[c] = IF cons[c] = "waiting" /\ buffered[c] = window[c].low + 1
                    THEN "ready" ELSE cons[c]
  BY <1>b DEF IInv, TypeOK
<1>1. TypeOK'
  BY DEF IInv, Drain, TypeOK, ConsumerPlaces
<1>2. Hands'
  BY DEF IInv, Drain, Hands, TypeOK
<1>3. ParkedList'
  BY DEF IInv, Drain, ParkedList, TypeOK
<1>4. OnePlace'
  BY DEF IInv, Drain, OnePlace, InFlightPlace, HandPlace, QueuePlace,
         FramePlace, SentPlace
<1>9. NothingDropped'
  BY DEF IInv, Drain, NothingDropped, Healthy, SomeThrew, Hands, Closing, TypeOK
<1>10. Closing'
  BY DEF IInv, Drain, Closing, Healthy, SomeThrew, Hands, NoLostWakeup, TypeOK
<1>11. Joined'
  BY DEF IInv, Drain, Joined, AllReturned, Hands, TypeOK
<1>12. NoLostWakeup'
  <2>1. ASSUME NEW d \in Channels, cons'[d] = "waiting"
        PROVE  cancelled' = "no" /\ (open'[d] => buffered'[d] > window'[d].low)
    <3>1. cons[d] = "waiting"
      BY <2>1, <1>c, <1>d
    <3>2. CASE d # c
      BY <3>1, <3>2, <1>b, <1>c DEF IInv, NoLostWakeup
    <3>3. CASE d = c
      BY <2>1, <1>a, <1>d DEF IInv, NoLostWakeup, Drain
    <3>4. QED BY <3>2, <3>3
  <2>2. QED BY <2>1, <1>c, <1>d DEF IInv, Drain, NoLostWakeup
<1>13. RoomToSend'
  <2>1. ASSUME NEW d \in Channels,
               cons'[d] = "retry" \/ (cons'[d] = "ready" /\ cancelled' = "no")
        PROVE  buffered'[d] <= window'[d].high
    <3>1. CASE cons[d] = cons'[d]
      <4>1. buffered[d] <= window[d].high
        BY <2>1, <3>1, <1>b DEF IInv, RoomToSend
      <4>2. QED BY <4>1, <1>a, <1>b, <1>c
    <3>2. CASE cons[d] # cons'[d]
      BY <2>1, <3>2, <1>a, <1>b, <1>c, <1>d
    <3>3. QED BY <3>1, <3>2
  <2>2. QED BY <2>1 DEF RoomToSend
<1>14. BufferBounded'
  <2>1. ASSUME NEW d \in Channels
        PROVE  \E w \in Windows : buffered'[d] <= w.high + 1
    <3>1. PICK w \in Windows : buffered[d] <= w.high + 1
      BY DEF IInv, BufferBounded
    <3>2. w.high \in Nat
      BY PipelineAssumption
    <3>3. QED BY <3>1, <3>2, <1>a, <1>c
  <2>2. QED BY <2>1 DEF BufferBounded
<1>15. ReadAheadBounded'
  BY DEF IInv, Drain, ReadAheadBounded, TypeOK
<1>16. QED BY <1>1, <1>2, <1>3, <1>4, <1>9, <1>10, <1>11, <1>12, <1>13, <1>14,
       <1>15 DEF IInv

\* A local cancel.
LEMMA AbortStep ==
  ASSUME IInv, Abort
  PROVE  IInv'
<1>0. /\ Chunks \subseteq Nat /\ NoChunk \notin Chunks
      /\ Capacity \in Nat /\ ReadAhead \in Nat /\ ToSet(queue) \subseteq Chunks
  BY ChunkFacts DEF IInv
<1> USE <1>0 DEF inputVars, producerVars, queueVars, consumerVars, channelVars, mainVars
<1>1. TypeOK'
  BY DEF IInv, Abort, Cancel, TypeOK, ProducerPlaces, ConsumerPlaces
<1>2. Hands'
  BY DEF IInv, Abort, Cancel, Hands, TypeOK
<1>3. ParkedList'
  BY DEF IInv, Abort, Cancel, ParkedList, TypeOK
<1>4. OnePlace'
  BY DEF IInv, Abort, Cancel, OnePlace, InFlightPlace, HandPlace, QueuePlace,
         FramePlace, SentPlace
<1>9. NothingDropped'
  BY DEF IInv, Abort, Cancel, NothingDropped, Healthy, SomeThrew, Hands, Closing,
         TypeOK
<1>10. Closing'
  BY DEF IInv, Abort, Cancel, Closing, Healthy, SomeThrew, Hands, NoLostWakeup,
         TypeOK
<1>11. Joined'
  BY DEF IInv, Abort, Cancel, Joined, AllReturned, Hands, TypeOK
<1>12. NoLostWakeup'
  BY DEF IInv, Abort, Cancel, NoLostWakeup, Hands, ParkedList, TypeOK
<1>13. RoomToSend'
  BY DEF IInv, Abort, Cancel, RoomToSend, NoLostWakeup, TypeOK
<1>14. BufferBounded'
  BY DEF IInv, Abort, Cancel, BufferBounded, RoomToSend, TypeOK
<1>15. ReadAheadBounded'
  BY DEF IInv, Abort, Cancel, ReadAheadBounded, TypeOK
<1>16. QED BY <1>1, <1>2, <1>3, <1>4, <1>9, <1>10, <1>11, <1>12, <1>13, <1>14,
       <1>15 DEF IInv

\* The peer's cancel.
LEMMA PeerCancelStep ==
  ASSUME IInv, PeerCancel
  PROVE  IInv'
<1>0. /\ Chunks \subseteq Nat /\ NoChunk \notin Chunks
      /\ Capacity \in Nat /\ ReadAhead \in Nat /\ ToSet(queue) \subseteq Chunks
  BY ChunkFacts DEF IInv
<1> USE <1>0 DEF inputVars, producerVars, queueVars, consumerVars, channelVars, mainVars
<1>1. TypeOK'
  BY DEF IInv, PeerCancel, Cancel, TypeOK, ProducerPlaces, ConsumerPlaces
<1>2. Hands'
  BY DEF IInv, PeerCancel, Cancel, Hands, TypeOK
<1>3. ParkedList'
  BY DEF IInv, PeerCancel, Cancel, ParkedList, TypeOK
<1>4. OnePlace'
  BY DEF IInv, PeerCancel, Cancel, OnePlace, InFlightPlace, HandPlace, QueuePlace,
         FramePlace, SentPlace
<1>9. NothingDropped'
  BY DEF IInv, PeerCancel, Cancel, NothingDropped, Healthy, SomeThrew, Hands,
         Closing, TypeOK
<1>10. Closing'
  BY DEF IInv, PeerCancel, Cancel, Closing, Healthy, SomeThrew, Hands,
         NoLostWakeup, TypeOK
<1>11. Joined'
  BY DEF IInv, PeerCancel, Cancel, Joined, AllReturned, Hands, TypeOK
<1>12. NoLostWakeup'
  BY DEF IInv, PeerCancel, Cancel, NoLostWakeup, Hands, ParkedList, TypeOK
<1>13. RoomToSend'
  BY DEF IInv, PeerCancel, Cancel, RoomToSend, NoLostWakeup, TypeOK
<1>14. BufferBounded'
  BY DEF IInv, PeerCancel, Cancel, BufferBounded, RoomToSend, TypeOK
<1>15. ReadAheadBounded'
  BY DEF IInv, PeerCancel, Cancel, ReadAheadBounded, TypeOK
<1>16. QED BY <1>1, <1>2, <1>3, <1>4, <1>9, <1>10, <1>11, <1>12, <1>13, <1>14,
       <1>15 DEF IInv

\* A channel closes.
LEMMA ChannelCloseStep ==
  ASSUME IInv, NEW c \in Channels, ChannelClose(c)
  PROVE  IInv'
<1>0. /\ Chunks \subseteq Nat /\ NoChunk \notin Chunks
      /\ Capacity \in Nat /\ ReadAhead \in Nat /\ ToSet(queue) \subseteq Chunks
  BY ChunkFacts DEF IInv
<1> USE <1>0 DEF inputVars, producerVars, queueVars, consumerVars, channelVars, mainVars
<1>1. TypeOK'
  BY DEF IInv, ChannelClose, TypeOK, ProducerPlaces, ConsumerPlaces
<1>2. Hands'
  BY DEF IInv, ChannelClose, Hands, TypeOK
<1>3. ParkedList'
  BY DEF IInv, ChannelClose, ParkedList, TypeOK
<1>4. OnePlace'
  BY DEF IInv, ChannelClose, OnePlace, InFlightPlace, HandPlace, QueuePlace,
         FramePlace, SentPlace
<1>9. NothingDropped'
  BY DEF IInv, ChannelClose, NothingDropped, Healthy, SomeThrew, Hands, Closing,
         TypeOK
<1>10. Closing'
  BY DEF IInv, ChannelClose, Closing, Healthy, SomeThrew, Hands, NoLostWakeup,
         TypeOK
<1>11. Joined'
  BY DEF IInv, ChannelClose, Joined, AllReturned, Hands, TypeOK
<1>12. NoLostWakeup'
  BY DEF IInv, ChannelClose, NoLostWakeup, Hands, ParkedList, TypeOK
<1>13. RoomToSend'
  BY DEF IInv, ChannelClose, RoomToSend, NoLostWakeup, TypeOK
<1>14. BufferBounded'
  BY DEF IInv, ChannelClose, BufferBounded, RoomToSend, TypeOK
<1>15. ReadAheadBounded'
  BY DEF IInv, ChannelClose, ReadAheadBounded, TypeOK
<1>16. QED BY <1>1, <1>2, <1>3, <1>4, <1>9, <1>10, <1>11, <1>12, <1>13, <1>14,
       <1>15 DEF IInv

-----------------------------------------------------------------------------
(* The invariant. *)

\* The invariant holds before the first step.
LEMMA InitInv == ASSUME Init PROVE IInv
<1>0. /\ 0 \in 0 .. NumChunks /\ NumChunks \in Nat /\ 0 \in 0 .. MaxRetries
      /\ Windows # {} /\ \A w \in Windows : w.high \in Nat /\ w.low \in Nat
      /\ NoChunk \notin Chunks /\ Chunks \subseteq Nat /\ ReadAhead \in Nat \ {0}
      /\ Capacity \in Nat
  BY PipelineAssumption DEF Chunks, NoChunk
<1>1. TypeOK
  <2>1. \A f \in Windows : window = [c \in Channels |-> f] => window \in [Channels -> Windows]
    OBVIOUS
  <2>2. window \in [Channels -> Windows]
    BY <2>1 DEF Init
  <2>3. /\ queue \in Seq(Chunks) /\ parked \in Seq(Channels)
        /\ cons \in [Channels -> ConsumerPlaces]
        /\ frame \in [Channels -> Chunks \cup {NoChunk}]
        /\ tries \in [Channels -> 0 .. MaxRetries]
        /\ buffered \in [Channels -> Nat] /\ sent \in [Chunks -> Nat]
    BY <1>0 DEF Init, ConsumerPlaces
  <2>4. open \in [Channels -> BOOLEAN]
    <3> DEFINE B == IF "close" \in Faults THEN BOOLEAN ELSE {TRUE}
    <3>1. B \subseteq BOOLEAN
      OBVIOUS
    <3>2. open \in [Channels -> B]
      BY DEF Init
    <3> HIDE DEF B
    <3> QED BY <3>1, <3>2
  <2>5. cancelled \in {"no", "local", "peer"}
    BY DEF Init, Cancels
  <2>6. QED BY <1>0, <2>2, <2>3, <2>4, <2>5 DEF Init, TypeOK, ProducerPlaces
<1>2. ToSet(queue) = {} /\ IsInjective(queue) /\ ToSet(parked) = {} /\ IsInjective(parked)
  BY EmptyQueue DEF Init
<1>3. Hands /\ ParkedList /\ OnePlace
  BY <1>0, <1>2 DEF Init, Hands, ParkedList, OnePlace, InFlightPlace, HandPlace,
                    QueuePlace, FramePlace, SentPlace
<1>4. NothingDropped /\ Closing /\ Joined /\ NoLostWakeup
  <2>1. NothingDropped
    BY <1>0 DEF Init, NothingDropped
  <2>2. Closing /\ Joined /\ NoLostWakeup
    BY <1>0 DEF Init, Closing, Joined, NoLostWakeup
  <2>3. QED BY <2>1, <2>2
<1>5. RoomToSend
  BY DEF Init, RoomToSend
<1>6. BufferBounded
  BY <1>0 DEF Init, BufferBounded
<1>7. ReadAheadBounded
  BY <1>0, FS_EmptySet DEF Init, ReadAheadBounded
<1>8. QED BY <1>1, <1>3, <1>4, <1>5, <1>6, <1>7 DEF IInv

\* A stuttering step keeps the invariant.
LEMMA StutterInv == ASSUME IInv, UNCHANGED vars PROVE IInv'
<1> USE DEF vars, inputVars, producerVars, queueVars, consumerVars, channelVars, mainVars
<1>1. TypeOK' /\ Hands' /\ ParkedList'
  BY DEF IInv, TypeOK, Hands, ParkedList
<1>2. OnePlace'
  BY DEF IInv, OnePlace, InFlightPlace, HandPlace, QueuePlace, FramePlace, SentPlace
<1>3. NothingDropped' /\ Closing' /\ Joined'
  BY DEF IInv, NothingDropped, Healthy, SomeThrew, Closing, Joined, AllReturned
<1>4. NoLostWakeup' /\ RoomToSend' /\ BufferBounded' /\ ReadAheadBounded'
  BY DEF IInv, NoLostWakeup, RoomToSend, BufferBounded, ReadAheadBounded
<1>5. QED BY <1>1, <1>2, <1>3, <1>4 DEF IInv

\* Every step of the send loop keeps the invariant.
LEMMA StepInv == ASSUME IInv, [Next]_vars PROVE IInv'
<1>1. CASE ProducerStart
  BY <1>1, ProducerStartStep
<1>2. CASE ProducerAwait
  BY <1>2, ProducerAwaitStep
<1>3. CASE ProducerReturn
  BY <1>3, ProducerReturnStep
<1>4. CASE ReadDone
  BY <1>4, ReadDoneStep
<1>5. CASE ReadFail
  BY <1>5, ReadFailStep
<1>6. CASE ProducerResume
  BY <1>6, ProducerResumeStep
<1>7. CASE MainJoin
  BY <1>7, MainJoinStep
<1>8. CASE Announce
  BY <1>8, AnnounceStep
<1>9. CASE Abort
  BY <1>9, AbortStep
<1>10. CASE PeerCancel
  BY <1>10, PeerCancelStep
<1>11. ASSUME NEW c \in Channels,
              \/ ConsumerPull(c) \/ ConsumerReturn(c) \/ ConsumerGotFrame(c)
              \/ ConsumerSend(c) \/ ConsumerRetry(c)
              \/ Drain(c) \/ ChannelClose(c)
       PROVE  IInv'
  <2>1. CASE ConsumerPull(c)
    BY <2>1, ConsumerPullStep
  <2>2. CASE ConsumerReturn(c)
    BY <2>2, ConsumerReturnStep
  <2>3. CASE ConsumerGotFrame(c)
    BY <2>3, ConsumerGotFrameStep
  <2>4. CASE ConsumerSend(c) \/ ConsumerRetry(c)
    BY <2>4, ConsumerSendStep
  <2>5. CASE Drain(c)
    BY <2>5, DrainStep
  <2>6. CASE ChannelClose(c)
    BY <2>6, ChannelCloseStep
  <2>7. QED BY <1>11, <2>1, <2>2, <2>3, <2>4, <2>5, <2>6
<1>12. CASE UNCHANGED vars
  BY <1>12, StutterInv
<1>13. QED
  BY <1>1, <1>2, <1>3, <1>4, <1>5, <1>6, <1>7, <1>8, <1>9, <1>10, <1>11, <1>12
         DEF Next

\* IInv holds in every state of every send: whatever the file's size, the
\* number of channels, the bounds and the faults, no chunk is lost or in two
\* places in the producer/queue/consumer machinery of sendFiles.
THEOREM Invariance == Spec => []IInv
<1>1. Init => IInv
  BY InitInv
<1>2. IInv /\ [Next]_vars => IInv'
  BY StepInv
<1>3. QED BY <1>1, <1>2, PTL DEF Spec

\* Every variable of the send loop keeps its type.
THEOREM TypeCorrect == Spec => []TypeOK
<1>1. IInv => TypeOK
  BY DEF IInv
<1>2. QED BY <1>1, Invariance, PTL

\* TRANSFER_COMPLETE is announced only after every chunk the receiver lacks
\* went out exactly once and none of those it had went out at all.
THEOREM Completeness == Spec => []CompleteMeansAllSent
<1>1. IInv => CompleteMeansAllSent
  <2>1. SUFFICES ASSUME IInv, main \in {"complete", "silent"}, NEW i \in Chunks
                 PROVE  sent[i] = IF i \in held THEN 0 ELSE 1
    BY DEF CompleteMeansAllSent
  <2>2. CASE i \in held
    BY <2>1, <2>2 DEF IInv, OnePlace, SentPlace
  <2>3. CASE i \notin held
    BY <2>1, <2>3 DEF IInv, Joined
  <2>4. QED BY <2>2, <2>3
<1>2. QED BY <1>1, Invariance, PTL

\* No parked push, parked pull or wait for bufferedamountlow outlives the
\* event that should have woken it.
THEOREM Wakeups == Spec => []NoLostWakeup
<1>1. IInv => NoLostWakeup
  BY DEF IInv
<1>2. QED BY <1>1, Invariance, PTL

\* A channel's buffer never holds more than one frame over a window.
THEOREM Buffers == Spec => []BufferBounded
<1>1. IInv => BufferBounded
  BY DEF IInv
<1>2. QED BY <1>1, Invariance, PTL

\* The frames in the sender's memory stay within read-ahead, queue capacity
\* and one per channel, however large the file.
THEOREM Memory == Spec => []MemoryBounded
<1>1. IInv => MemoryBounded
  <2>1. SUFFICES ASSUME IInv PROVE MemoryBounded
    OBVIOUS
  <2> DEFINE H == {c \in Channels : frame[c] # NoChunk}
  <2>2. /\ Cardinality(H) \in Nat /\ Cardinality(Channels) \in Nat
        /\ Cardinality(H) <= Cardinality(Channels)
    <3>1. H \subseteq Channels
      OBVIOUS
    <3>2. QED BY <3>1, ChannelsFinite, FS_Subset, FS_CardinalityType
  <2>3. IsFiniteSet(inFlight)
    <3>1. IsFiniteSet(Chunks) /\ inFlight \subseteq Chunks
      BY <2>1, PipelineAssumption, FS_Interval DEF IInv, TypeOK, Chunks
    <3>2. QED BY <3>1, FS_Subset
  <2>4. /\ Cardinality(inFlight) \in Nat /\ Cardinality(inFlight) <= ReadAhead
        /\ Len(queue) \in Nat /\ Len(queue) <= Capacity
        /\ Capacity \in Nat /\ ReadAhead \in Nat
    BY <2>1, <2>3, FS_CardinalityType, PipelineAssumption DEF IInv, TypeOK,
           ReadAheadBounded
  <2> HIDE DEF H
  <2>5. Cardinality(inFlight) + (IF hand = NoChunk THEN 0 ELSE 1) + Len(queue) + Cardinality(H)
          <= ReadAhead + 1 + Capacity + Cardinality(Channels)
    BY <2>2, <2>4
  <2>6. QED BY <2>5 DEF MemoryBounded, InMemory, H
<1>2. QED BY <1>1, Invariance, PTL

\* After a cancel the only frame that still leaves is one whose send was
\* being retried when the cancel came.
THEOREM CancelStops == Spec => CancelStopsSending
<1> DEFINE A == cancelled # "no" /\ sent' # sent =>
                  \E c \in Channels : cons[c] = "retry" /\ cons'[c] # "retry"
<1>1. ASSUME IInv, [Next]_vars PROVE A \/ UNCHANGED vars
  <2>1. SUFFICES ASSUME Next, cancelled # "no", sent' # sent
                 PROVE  \E c \in Channels : cons[c] = "retry" /\ cons'[c] # "retry"
    BY <1>1
  <2>2. PICK c \in Channels : ConsumerRetry(c)
    BY <2>1 DEF Next, ProducerStart, ProducerAwait, ProducerReturn, ReadDone,
           ReadFail,
         ProducerResume, MainJoin, Announce, Abort, PeerCancel, Cancel, ConsumerPull,
         ConsumerReturn, ConsumerGotFrame, ConsumerSend, Drain, ChannelClose
  <2>3. cons[c] = "retry" /\ Accepted(c)
    BY <2>1, <2>2 DEF ConsumerRetry, Attempt, Refused, Threw
  <2>4. cons'[c] = "next"
    BY <1>1, <2>3 DEF Accepted, IInv, TypeOK
  <2>5. QED BY <2>3, <2>4
<1>2. QED BY <1>1, Invariance, PTL DEF Spec, CancelStopsSending

-----------------------------------------------------------------------------
(* The send loop implements FileSend. *)

\* The only step that changes what was sent is one accepted frame, and it is
\* a Transmit: the frame is a chunk the receiver lacks, sent for the first
\* time.
LEMMA AcceptedTransmits ==
  ASSUME IInv, NEW c \in Channels, cons[c] \in {"ready", "retry"}, Accepted(c),
         held' = held, main' = main
  PROVE  \E i \in Chunks : Promise!Transmit(i)
<1>1. /\ frame[c] \in Chunks /\ frame[c] \notin held /\ sent[frame[c]] = 0
  BY DEF IInv, TypeOK, Hands, OnePlace, FramePlace
<1>2. sent' = [sent EXCEPT ![frame[c]] = 1]
  BY <1>1 DEF Accepted
<1>3. Outcome' = Outcome
  BY DEF Outcome
<1>4. QED BY <1>1, <1>2, <1>3 DEF Promise!Transmit

\* Every behaviour of the send loop is a behaviour of FileSend.
THEOREM Refinement == Spec => ImplementsFileSend
<1>1. Init => Promise!Init
  BY DEF Init, Promise!Init, Promise!Chunks, Chunks, Outcome
<1>2. ASSUME IInv, [Next]_vars PROVE [Promise!Next]_Promise!vars
  <2> USE DEF Promise!vars
  <2>1. CASE /\ held' = held /\ sent' = sent /\ main' = main
    BY <2>1 DEF Outcome
  <2>2. CASE MainJoin
    <3>1. held' = held /\ sent' = sent /\ main = "sending" /\ main' \in {"hashing", "error"}
      BY <2>2 DEF MainJoin, FailWith, inputVars
    <3>2. Outcome = "sending" /\ Outcome' \in {"sending", "error"}
      BY <3>1 DEF Outcome
    <3>3. QED BY <3>1, <3>2 DEF Promise!Next, Promise!Abandon
  <2>3. CASE Announce
    <3>1. /\ held' = held /\ sent' = sent
          /\ main = "hashing" /\ main' \in {"complete", "silent", "error"}
      BY <2>3 DEF Announce, FailWith, inputVars
    <3>2. Outcome = "sending" /\ Outcome' \in {"complete", "error"}
      BY <3>1 DEF Outcome
    <3>3. \A i \in Chunks : i \in held \/ sent[i] = 1
      BY <1>2, <3>1 DEF IInv, Joined
    <3>4. QED BY <3>1, <3>2, <3>3
            DEF Promise!Next, Promise!Abandon, Promise!Complete, Promise!Chunks, Chunks
  <2>4. ASSUME NEW c \in Channels, ConsumerSend(c) \/ ConsumerRetry(c)
        PROVE  [Promise!Next]_Promise!vars
    <3>1. held' = held /\ main' = main /\ cons[c] \in {"ready", "retry"}
      BY <2>4 DEF ConsumerSend, ConsumerRetry, Attempt, inputVars, mainVars
    <3>2. CASE Accepted(c)
      BY <1>2, <3>1, <3>2, AcceptedTransmits DEF Promise!Next, Promise!Chunks,
             Chunks
    <3>3. CASE ~Accepted(c)
      <4>1. sent' = sent
        BY <2>4, <3>3 DEF ConsumerSend, ConsumerRetry, Attempt, Refused, Threw
      <4>2. QED BY <2>1, <3>1, <4>1
    <3>4. QED BY <3>2, <3>3
  <2>5. CASE UNCHANGED vars
    BY <2>1, <2>5 DEF vars, inputVars, mainVars
  <2>6. ASSUME \/ ProducerStart \/ ProducerAwait \/ ProducerReturn
               \/ ReadDone \/ ReadFail \/ ProducerResume \/ Abort \/ PeerCancel
               \/ \E c \in Channels :
                    \/ ConsumerPull(c) \/ ConsumerReturn(c) \/ ConsumerGotFrame(c)
                    \/ Drain(c) \/ ChannelClose(c)
        PROVE  [Promise!Next]_Promise!vars
    <3>1. held' = held /\ sent' = sent /\ main' = main
      BY <2>6 DEF ProducerStart, ProducerAwait, ProducerReturn, ReadDone, ReadFail,
           ProducerResume, Abort, PeerCancel, Cancel, ConsumerPull, ConsumerReturn,
           ConsumerGotFrame, Drain, ChannelClose, inputVars, mainVars
    <3>2. QED BY <2>1, <3>1
  <2>7. QED BY <1>2, <2>2, <2>3, <2>4, <2>5, <2>6 DEF Next
<1>3. QED BY <1>1, <1>2, Invariance, PTL DEF Spec, ImplementsFileSend, Promise!Spec
=============================================================================
