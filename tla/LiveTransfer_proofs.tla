------------------------- MODULE LiveTransfer_proofs -------------------------
(***************************************************************************)
(* Proofs about LiveTransfer.  For every batch, every number of channels,  *)
(* ordered or not, every number of lost connections and all faults: the    *)
(* receiver's count of a file's chunks is right whatever arrives in        *)
(* whatever order, so the completion poll never takes a file with a hole   *)
(* for a whole one; and a panel that was cancelled hands over no file.     *)
(* Where nothing of a file is under way when the next begins (Serial), what*)
(* is handed over is the sender's file; and where the size of the batch is *)
(* known in time (InTurn), the receiver implements FileReceive.  In a batch*)
(* of one file that is always cut to one size (OneSize), what the sender   *)
(* will not send again is on the wire or, byte for byte, with the receiver;*)
(* a sink holds nothing but a prefix of the file, whatever fails; and it is*)
(* not reported as failed when nothing fails (AllWell), however its chunks *)
(* and connections come and go.                                            *)
(***************************************************************************)
EXTENDS LiveTransfer, FiniteSetTheorems, SequenceTheorems, WellFoundedInduction,
        TLAPS

\* Below the first index that is missing there is none missing.
LEMMA EndOfRunFacts ==
  ASSUME NEW buffer, IsFiniteSet(DOMAIN buffer), NEW n \in Nat
  PROVE  LET e == EndOfRun(buffer, n) IN
           /\ e \in Nat /\ n <= e
           /\ e \notin DOMAIN buffer /\ n .. e - 1 \subseteq DOMAIN buffer
<1> DEFINE D == DOMAIN buffer
           c == Cardinality(D)
           Missing == {k \in n .. n + c : k \notin D}
           Below == OpToRel(<, Nat)
<1>1. c \in Nat
  BY FS_CardinalityType
<1>2. Missing # {}
  <2>1. SUFFICES ASSUME n .. n + c \subseteq D PROVE FALSE
    OBVIOUS
  <2>2. Cardinality(n .. n + c) = c + 1
    BY <1>1, FS_Interval
  <2>3. Cardinality(n .. n + c) <= c
    BY <2>1, FS_Subset
  <2> QED BY <1>1, <2>2, <2>3
<1>3. \E k \in Missing : \A j \in Missing : ~(<<j, k>> \in Below)
  <2>1. Missing \subseteq Nat
    BY <1>1
  <2> HIDE DEF Missing, Below
  <2> QED BY <1>2, <2>1, WFMin, NatLessThanWellFounded DEF Below
<1>4. PICK k \in Missing : \A j \in Missing : ~(j < k)
  <2>1. \A j, k \in Nat : j < k => <<j, k>> \in Below
    BY DEF OpToRel
  <2>2. Missing \subseteq Nat
    BY <1>1
  <2> HIDE DEF Missing, Below
  <2> QED BY <1>3, <2>1, <2>2
<1>5. /\ k \in n .. n + c /\ k \notin D /\ \A j \in n .. k - 1 : j \in D
  BY <1>1, <1>4
<1>6. /\ EndOfRun(buffer, n) \in n .. n + c /\ EndOfRun(buffer, n) \notin D
      /\ \A j \in n .. EndOfRun(buffer, n) - 1 : j \in D
  <2> HIDE DEF c, D, Missing, Below
  <2> DEFINE P(e) == e \notin D /\ \A j \in n .. e - 1 : j \in D
  <2>1. \E e \in n .. n + c : P(e)
    BY <1>5
  <2>2. EndOfRun(buffer, n) = CHOOSE e \in n .. n + c : P(e)
    BY DEF EndOfRun, c, D
  <2> HIDE DEF P
  <2>3. P(EndOfRun(buffer, n)) /\ EndOfRun(buffer, n) \in n .. n + c
    BY <2>1, <2>2
  <2> QED BY <2>3 DEF P
<1> QED BY <1>1, <1>6

\* The cardinality of a disjoint union.
LEMMA DisjointUnion ==
  ASSUME NEW S, NEW T, IsFiniteSet(S), IsFiniteSet(T), S \cap T = {}
  PROVE  /\ IsFiniteSet(S \cup T)
         /\ Cardinality(S \cup T) = Cardinality(S) + Cardinality(T)
<1>1. Cardinality(S \cap T) = 0
  BY FS_EmptySet
<1>2. Cardinality(S) \in Nat /\ Cardinality(T) \in Nat
  BY FS_CardinalityType
<1>3. /\ IsFiniteSet(S \cup T)
      /\ Cardinality(S \cup T) = Cardinality(S) + Cardinality(T) - Cardinality(S \cap T)
  BY FS_Union
<1> QED BY <1>1, <1>2, <1>3

\* Absorb() keeps the count: what came in is handed on or kept behind the run.
LEMMA AbsorbFacts ==
  ASSUME NEW n \in Nat, NEW buffered, NEW frames, NEW new,
         IsFiniteSet(DOMAIN buffered), IsFiniteSet(new),
         \A i \in DOMAIN buffered \cup new : i \in Nat /\ n <= i,
         new \cap DOMAIN buffered = {}
  PROVE  LET a == Absorb(n, buffered, frames, new) IN
           /\ a.next \in Nat /\ n <= a.next
           /\ n .. a.next - 1 \subseteq DOMAIN buffered \cup new
           /\ DOMAIN a.rest \subseteq DOMAIN buffered \cup new
           /\ IsFiniteSet(DOMAIN a.rest)
           /\ \A i \in DOMAIN a.rest : a.next < i
           /\ a.next + Cardinality(DOMAIN a.rest)
                = n + Cardinality(DOMAIN buffered) + a.new
           /\ a.new = Cardinality(new)
<1> DEFINE all == [i \in DOMAIN buffered \cup new |->
                     IF i \in new THEN frames[i] ELSE buffered[i]]
           end == EndOfRun(all, n)
           A == DOMAIN buffered \cup new
           rest == {i \in A : i >= end}
           a == Absorb(n, buffered, frames, new)
<1>1. /\ IsFiniteSet(A)
      /\ Cardinality(A) = Cardinality(DOMAIN buffered) + Cardinality(new)
  <2>1. DOMAIN buffered \cap new = {}
    OBVIOUS
  <2> QED BY <2>1, DisjointUnion
<1>2. DOMAIN all = A
  OBVIOUS
<1>3. a.next = end /\ DOMAIN a.rest = rest /\ a.new = Cardinality(new)
  BY DEF Absorb, Restrict
<1> HIDE DEF all, a
<1>4. end \in Nat /\ n <= end /\ end \notin A /\ n .. end - 1 \subseteq A
  BY <1>1, <1>2, EndOfRunFacts
<1>5. A = (n .. end - 1) \cup rest /\ (n .. end - 1) \cap rest = {}
  BY <1>4
<1>6. IsFiniteSet(rest) /\ \A i \in rest : end < i
  BY <1>1, <1>4, FS_Subset
<1>7. IsFiniteSet(n .. end - 1) /\ Cardinality(n .. end - 1) = end - n
  <2> HIDE DEF end
  <2>1. n \in Int /\ end - 1 \in Int /\ (n > end - 1 => end - n = 0)
    BY <1>4
  <2>2. /\ IsFiniteSet(n .. end - 1)
        /\ Cardinality(n .. end - 1) = IF n > end - 1 THEN 0 ELSE (end - 1) - n + 1
    BY <2>1, FS_Interval
  <2> QED BY <1>4, <2>1, <2>2
<1>8. Cardinality(A) = (end - n) + Cardinality(rest)
  <2> HIDE DEF A, rest, end
  <2> QED BY <1>5, <1>6, <1>7, DisjointUnion
<1>9. /\ Cardinality(DOMAIN buffered) \in Nat /\ Cardinality(new) \in Nat
      /\ Cardinality(rest) \in Nat
  BY <1>6, FS_CardinalityType
<1> HIDE DEF A, rest, end
<1>10. end + Cardinality(rest) = n + Cardinality(DOMAIN buffered) + Cardinality(new)
  BY <1>1, <1>4, <1>8, <1>9
<1> QED BY <1>3, <1>4, <1>6, <1>10, <1>5 DEF a, A

-----------------------------------------------------------------------------
(* The inductive invariant. *)

\* The fields of the file being received: everything below nextIndex is there,
\* nextIndex is not, and what is buffered behind it belongs to the file.
Progress ==
  /\ meta \in Files \cup {None} /\ nextIndex \in Nat /\ disposed \in BOOLEAN
  /\ IsFiniteSet(DOMAIN early) /\ DOMAIN early \subseteq Nat
  /\ IsFiniteSet(DOMAIN reorder)
  /\ meta # None => chunkSize \in ChunkSizes /\ nextIndex <= Total(meta, chunkSize)
  /\ \A i \in DOMAIN reorder :
       /\ meta # None
       /\ i \in Nat /\ nextIndex < i /\ i < Total(meta, chunkSize)
  /\ meta # None /\ ~disposed => received = nextIndex + Cardinality(DOMAIN reorder)

\* cancel() sets terminalRef before it disposes of the receiver.
Terminal == disposed => ui # "active"

\* What sendFiles() puts on a channel.
Messages ==
  {BatchInfo, CancelMsg}
    \cup {Metadata(f, c) : f \in Files, c \in ChunkSizes} \cup {Query(f) : f \in Files}
    \cup {Complete(f) : f \in Files}
    \cup {Chunk(f, c, i) : f \in Files, c \in ChunkSizes, i \in Nat}

\* The sender is at a file of the batch, and so are its messages.
Sender ==
  /\ file \in Nat /\ fullySent \in Nat /\ todo \subseteq Nat
  /\ phase \in {"asking", "sending"} => file \in Files /\ chunk \in ChunkSizes

Wire == net \in [ChannelIds -> Seq(Messages)]

IInv == Progress /\ Terminal /\ Sender /\ Wire

-----------------------------------------------------------------------------
(* Messages *)

\* What handleMessage() reads of a message.
LEMMA MessageFacts ==
  /\ BatchInfo \in Messages /\ CancelMsg \in Messages
  /\ \A f \in Files : {Query(f), Complete(f)} \subseteq Messages
  /\ \A f \in Files, c \in ChunkSizes : Metadata(f, c) \in Messages
  /\ \A f \in Files, c \in ChunkSizes, i \in Nat : Chunk(f, c, i) \in Messages
  /\ \A m \in Messages :
       /\ m.type = "FILE_METADATA" => m.file \in Files /\ m.chunkSize \in ChunkSizes
       /\ m.type = "CHUNK" => m.index \in Nat
<1>1. ASSUME NEW m \in Messages
      PROVE  /\ m.type = "FILE_METADATA" => m.file \in Files /\ m.chunkSize \in ChunkSizes
             /\ m.type = "CHUNK" => m.index \in Nat
  <2>1. CASE m \in {BatchInfo, CancelMsg}
    BY <2>1 DEF BatchInfo, CancelMsg
  <2>2. ASSUME NEW f \in Files, m = Query(f) \/ m = Complete(f)
        PROVE  m.type \notin {"CHUNK", "FILE_METADATA"}
    BY <2>2 DEF Query, Complete
  <2>3. ASSUME NEW f \in Files, NEW c \in ChunkSizes, m = Metadata(f, c)
        PROVE  m.file \in Files /\ m.chunkSize \in ChunkSizes /\ m.type # "CHUNK"
    BY <2>3 DEF Metadata
  <2>4. ASSUME NEW f \in Files, NEW c \in ChunkSizes, NEW i \in Nat, m = Chunk(f, c, i)
        PROVE  m.index \in Nat /\ m.type = "CHUNK"
    BY <2>4 DEF Chunk
  <2> QED BY <1>1, <2>1, <2>2, <2>3, <2>4 DEF Messages
<1>2. /\ BatchInfo \in Messages /\ CancelMsg \in Messages
      /\ \A f \in Files : {Query(f), Complete(f)} \subseteq Messages
      /\ \A f \in Files, c \in ChunkSizes : Metadata(f, c) \in Messages
      /\ \A f \in Files, c \in ChunkSizes, i \in Nat : Chunk(f, c, i) \in Messages
  BY DEF Messages
<1> QED BY <1>1, <1>2

\* Files and what they are cut into.
LEMMA FileFacts ==
  /\ NumFiles \in Nat /\ Files = 1 .. NumFiles /\ None \notin Files /\ None = 0
  /\ \A f \in Files, c \in ChunkSizes : Total(f, c) \in Nat /\ Chunks(f, c) \subseteq Nat
  /\ Control \in ChannelIds
<1>1. NumFiles \in Nat /\ Files = 1 .. NumFiles /\ \A f \in Files : Size[f] \in Nat
  BY SizeAssumption DEF Files, NumFiles
<1>2. ASSUME NEW f \in Files, NEW c \in ChunkSizes
      PROVE  Total(f, c) \in Nat /\ Chunks(f, c) \subseteq Nat
  <2>1. \A a \in Nat, b \in Nat \ {0} : a \div b \in Nat
    OBVIOUS
  <2>2. Size[f] + c - 1 \in Nat /\ c \in Nat \ {0}
    BY <1>1, SizeAssumption
  <2>3. Total(f, c) \in Nat
    BY <2>1, <2>2 DEF Total
  <2> QED BY <2>3 DEF Chunks
<1>3. Control \in ChannelIds
  BY TransferAssumption DEF Control, ChannelIds
<1> QED BY <1>1, <1>2, <1>3 DEF None

\* Taking a message off a channel leaves the others.
LEMMA RemoveKeeps ==
  ASSUME NEW S, NEW s \in Seq(S), NEW k \in DOMAIN s
  PROVE  RemoveAt(s, k) \in Seq(S) /\ s[k] \in S
<1>1. k \in 1 .. Len(s) /\ Len(s) \in Nat /\ \A i \in 1 .. Len(s) : s[i] \in S
  BY LenProperties, ElementOfSeq
<1>2. SubSeq(s, 1, k - 1) \in Seq(S) /\ SubSeq(s, k + 1, Len(s)) \in Seq(S)
  BY <1>1, SubSeqProperties
<1> QED BY <1>1, <1>2, ConcatProperties DEF RemoveAt

\* A message more on one channel, or some more on the first.
LEMMA WireGrows ==
  ASSUME Wire, NEW msgs \in Seq(Messages), NEW ch \in ChannelIds,
         net' = [net EXCEPT ![ch] = @ \o msgs]
  PROVE  Wire'
<1>1. net[ch] \o msgs \in Seq(Messages)
  BY ConcatProperties DEF Wire
<1> QED BY <1>1 DEF Wire

-----------------------------------------------------------------------------
(* The sender *)

\* What a step of the sender leaves alone.
LEMMA SenderStep ==
  ASSUME IInv, Sending \/ StatusTimeout \/ SenderStops
  PROVE  Sender' /\ Wire' /\ UNCHANGED receiverVars
<1> USE FileFacts, MessageFacts
<1>1. ASSUME NEW f \in Nat \ {0}, NEW c, f \in Files => c \in ChunkSizes
      PROVE  /\ Opening(f, c) \in Seq(Messages)
             /\ NextPhase(f) \in {"asking", "sending"} => f \in Files
  <2>1. CASE f > NumFiles
    BY <2>1 DEF Opening, NextPhase
  <2>2. CASE ~(f > NumFiles)
    <3>1. f \in Files
      BY <2>2
    <3>2. Metadata(f, c) \in Messages /\ Query(f) \in Messages
      BY <1>1, <3>1
    <3> QED BY <2>2, <3>1, <3>2 DEF Opening, NextPhase
  <2> QED BY <2>1, <2>2
<1>2. CASE SenderBegins
  <2>1. file' \in Nat \ {0} /\ phase' = NextPhase(file') /\ chunk' \in ChunkSizes
    BY <1>2 DEF SenderBegins, IInv, Sender
  <2>2. <<BatchInfo>> \o Opening(file', chunk') \in Seq(Messages)
    BY <1>1, <2>1, ConcatProperties
  <2>3. Wire'
    BY <1>2, <2>2, WireGrows DEF SenderBegins, OnControl, IInv
  <2>4. Sender'
    BY <1>1, <1>2, <2>1 DEF SenderBegins, IInv, Sender
  <2> QED BY <1>2, <2>3, <2>4 DEF SenderBegins
<1>3. CASE GotStatus
  <2>1. /\ UNCHANGED <<file, chunk, fullySent, net, receiverVars>>
        /\ \/ phase = "asking" /\ phase' = "sending" /\ todo' \subseteq Chunks(file, chunk)
           \/ UNCHANGED <<phase, todo>>
    BY <1>3 DEF GotStatus
  <2> QED BY <2>1 DEF IInv, Sender, Wire
<1>4. CASE FinishFile
  <2>1. /\ file \in Files /\ file' = file + 1 /\ phase' = NextPhase(file')
        /\ fullySent' = file /\ UNCHANGED <<chunk, todo, receiverVars>>
        /\ chunk \in ChunkSizes
        /\ net' = OnControl(<<Complete(file)>> \o Opening(file', chunk))
    BY <1>4 DEF FinishFile, IInv, Sender
  <2>2. file' \in Nat \ {0} /\ fullySent' \in Nat /\ Complete(file) \in Messages
    BY <2>1
  <2>3. <<Complete(file)>> \o Opening(file', chunk) \in Seq(Messages)
    BY <1>1, <2>1, <2>2, ConcatProperties
  <2>4. Wire'
    BY <2>1, <2>3, WireGrows DEF OnControl, IInv
  <2>5. Sender'
    BY <1>1, <2>1, <2>2 DEF IInv, Sender
  <2> QED BY <2>1, <2>4, <2>5
<1>5. ASSUME NEW ch \in ChannelIds, SendChunk(ch)
      PROVE  Sender' /\ Wire' /\ UNCHANGED receiverVars
  <2>1. PICK i \in todo : /\ todo' = todo \ {i}
                          /\ net' = [net EXCEPT ![ch] = Append(@, Chunk(file, chunk, i))]
    BY <1>5 DEF SendChunk
  <2>2. phase = "sending" /\ UNCHANGED <<phase, file, chunk, fullySent, receiverVars>>
    BY <1>5 DEF SendChunk
  <2>3. Chunk(file, chunk, i) \in Messages
    BY <2>1, <2>2 DEF IInv, Sender
  <2>4. Wire'
    <3>1. Append(net[ch], Chunk(file, chunk, i)) \in Seq(Messages)
      BY <2>3, AppendProperties DEF IInv, Wire
    <3> QED BY <2>1, <3>1 DEF IInv, Wire
  <2> QED BY <2>1, <2>2, <2>4 DEF IInv, Sender
<1>6. CASE StatusTimeout
  <2>1. /\ UNCHANGED <<file, chunk, fullySent, net, receiverVars>> /\ phase = "asking"
        /\ todo' = Chunks(file, chunk) /\ phase' = "sending"
    BY <1>6 DEF StatusTimeout, linkVars
  <2> QED BY <2>1 DEF IInv, Sender, Wire
<1>7. CASE SenderStops
  <2>1. <<CancelMsg>> \in Seq(Messages)
    OBVIOUS
  <2>2. Wire'
    BY <1>7, <2>1, WireGrows DEF SenderStops, OnControl, IInv
  <2> QED BY <1>7, <2>2 DEF SenderStops, IInv, Sender
<1> QED BY <1>2, <1>3, <1>4, <1>5, <1>6, <1>7 DEF Sending

-----------------------------------------------------------------------------
(* The receiver *)

\* Accept(): the frames that are new are counted, the run is handed on.
LEMMA AcceptFacts ==
  ASSUME NEW n \in Nat, NEW total \in Nat, n <= total,
         NEW buffered, IsFiniteSet(DOMAIN buffered),
         \A i \in DOMAIN buffered : i \in Nat /\ n <= i /\ i < total,
         NEW frames, IsFiniteSet(DOMAIN frames), DOMAIN frames \subseteq Nat
  PROVE  LET a == Accept(n, buffered, frames, total) IN
           /\ a.next \in Nat /\ a.next <= total
           /\ IsFiniteSet(DOMAIN a.rest)
           /\ \A i \in DOMAIN a.rest : i \in Nat /\ a.next < i /\ i < total
           /\ a.next + Cardinality(DOMAIN a.rest)
                = n + Cardinality(DOMAIN buffered) + a.new
           /\ a.new \in Nat
<1> DEFINE new == {i \in New(n, buffered, frames) : i < total}
           a == Absorb(n, buffered, frames, new)
<1>1. /\ new \subseteq DOMAIN frames /\ new \cap DOMAIN buffered = {}
      /\ \A i \in DOMAIN buffered \cup new : i \in Nat /\ n <= i /\ i < total
  BY DEF New
<1>2. IsFiniteSet(new) /\ Cardinality(new) \in Nat
  <2> HIDE DEF new
  <2> QED BY <1>1, FS_Subset, FS_CardinalityType
<1> HIDE DEF new
<1>3. /\ a.next \in Nat /\ n <= a.next
      /\ n .. a.next - 1 \subseteq DOMAIN buffered \cup new
      /\ DOMAIN a.rest \subseteq DOMAIN buffered \cup new
      /\ IsFiniteSet(DOMAIN a.rest)
      /\ \A i \in DOMAIN a.rest : a.next < i
      /\ a.next + Cardinality(DOMAIN a.rest) = n + Cardinality(DOMAIN buffered) + a.new
      /\ a.new = Cardinality(new)
  BY <1>1, <1>2, AbsorbFacts
<1> HIDE DEF a
<1>4. a.next <= total
  <2>1. SUFFICES ASSUME a.next > total PROVE FALSE
    BY <1>3
  <2>2. total \in n .. a.next - 1
    BY <1>3, <2>1
  <2> QED BY <1>1, <1>3, <2>2
<1>5. \A i \in DOMAIN a.rest : i \in Nat /\ a.next < i /\ i < total
  BY <1>1, <1>3
<1>6. Accept(n, buffered, frames, total) = a
  BY DEF Accept, a, new
<1> QED BY <1>2, <1>3, <1>4, <1>5, <1>6

\* A fresh file takes in what came too early.
LEMMA BeginFileStep ==
  ASSUME Progress, NEW f \in Files, NEW c \in ChunkSizes, BeginFile(f, c)
  PROVE  Progress'
<1> DEFINE a == Accept(0, <<>>, early, Total(f, c))
<1>1. /\ meta' = f /\ chunkSize' = c /\ nextIndex' = a.next /\ received' = a.new /\ reorder' = a.rest
      /\ early' = <<>> /\ disposed' = disposed
  BY DEF BeginFile
<1>2. DOMAIN <<>> = {} /\ IsFiniteSet({}) /\ Cardinality({}) = 0
  BY FS_EmptySet
<1>3. Total(f, c) \in Nat /\ 0 <= Total(f, c) /\ f # None
  BY FileFacts
<1>4. /\ a.next \in Nat /\ a.next <= Total(f, c)
      /\ IsFiniteSet(DOMAIN a.rest)
      /\ \A i \in DOMAIN a.rest : i \in Nat /\ a.next < i /\ i < Total(f, c)
      /\ a.next + Cardinality(DOMAIN a.rest) = 0 + Cardinality(DOMAIN <<>>) + a.new
      /\ a.new \in Nat
  <2>1. IsFiniteSet(DOMAIN <<>>) /\ DOMAIN <<>> = {}
    BY <1>2
  <2>2. IsFiniteSet(DOMAIN early) /\ DOMAIN early \subseteq Nat
    BY DEF Progress
  <2> QED BY <1>3, <2>1, <2>2, AcceptFacts
<1> HIDE DEF a
<1>5. a.new = a.next + Cardinality(DOMAIN a.rest)
  BY <1>2, <1>4
<1> QED BY <1>1, <1>2, <1>3, <1>4, <1>5 DEF Progress

\* A chunk: too early, past the end, or accepted.
LEMMA OnChunkStep ==
  ASSUME Progress, NEW i \in Nat, NEW b, OnChunk(i, b)
  PROVE  Progress'
<1>1. CASE meta = None
  <2>1. /\ UNCHANGED <<meta, chunkSize, nextIndex, received, reorder, disposed>>
        /\ DOMAIN early' \subseteq DOMAIN early \cup {i}
    BY <1>1 DEF OnChunk, uiVars
  <2>2. IsFiniteSet(DOMAIN early') /\ DOMAIN early' \subseteq Nat
    BY <2>1, FS_AddElement, FS_Subset DEF Progress
  <2> QED BY <2>1, <2>2 DEF Progress
<1>2. CASE meta # None /\ i >= Total(meta, chunkSize)
  <2>1. UNCHANGED <<fileVars, disposed>>
    <3>1. Total(meta, chunkSize) \in Nat /\ ~(i < Total(meta, chunkSize))
      BY <1>2, FileFacts DEF Progress
    <3> QED BY <1>2, <3>1 DEF OnChunk
  <2> QED BY <2>1 DEF Progress, fileVars
<1>3. CASE meta # None /\ i < Total(meta, chunkSize)
  <2> DEFINE frames == [k \in {i} |-> b]
             a == Accept(nextIndex, reorder, frames, Total(meta, chunkSize))
  <2>1. /\ nextIndex' = a.next /\ reorder' = a.rest /\ received' = received + a.new
        /\ UNCHANGED <<meta, chunkSize, early, disposed>>
    <3>1. Total(meta, chunkSize) \in Nat /\ ~(i >= Total(meta, chunkSize))
      BY <1>3, FileFacts DEF Progress
    <3> QED BY <1>3, <3>1 DEF OnChunk, uiVars
  <2>2. IsFiniteSet(DOMAIN frames) /\ DOMAIN frames \subseteq Nat
    BY FS_Singleton
  <2>3. /\ meta \in Files /\ chunkSize \in ChunkSizes /\ Total(meta, chunkSize) \in Nat /\ nextIndex \in Nat
        /\ nextIndex <= Total(meta, chunkSize) /\ IsFiniteSet(DOMAIN reorder)
        /\ \A k \in DOMAIN reorder : k \in Nat /\ nextIndex <= k /\ k < Total(meta, chunkSize)
    BY <1>3, FileFacts DEF Progress
  <2> HIDE DEF frames
  <2>4. /\ a.next \in Nat /\ a.next <= Total(meta, chunkSize)
        /\ IsFiniteSet(DOMAIN a.rest)
        /\ \A k \in DOMAIN a.rest : k \in Nat /\ a.next < k /\ k < Total(meta, chunkSize)
        /\ a.next + Cardinality(DOMAIN a.rest)
             = nextIndex + Cardinality(DOMAIN reorder) + a.new
        /\ a.new \in Nat
    BY <2>2, <2>3, AcceptFacts
  <2> HIDE DEF a
  <2>5. ~disposed => received' = a.next + Cardinality(DOMAIN a.rest)
    <3>1. Cardinality(DOMAIN reorder) \in Nat /\ Cardinality(DOMAIN a.rest) \in Nat
      BY <2>3, <2>4, FS_CardinalityType
    <3> QED BY <1>3, <2>1, <2>3, <2>4, <3>1 DEF Progress
  <2> QED BY <1>3, <2>1, <2>3, <2>4, <2>5 DEF Progress
<1> QED BY <1>1, <1>2, <1>3, FileFacts DEF Progress

\* A step that leaves the current file and cancel() alone.
LEMMA ProgressKept ==
  ASSUME Progress, UNCHANGED <<fileVars, disposed>>
  PROVE  Progress'
BY DEF Progress, fileVars

\* What a panel shows once it is not active it goes on showing.
LEMMA ReportOnce ==
  ASSUME NEW what, Report(what), ui # "active"
  PROVE  ui' = ui
BY DEF Report

\* fail()
LEMMA FailStep ==
  ASSUME NEW f, Fail(f)
  PROVE  UNCHANGED <<fileVars, disposed, saved>> /\ (ui # "active" => ui' = ui)
BY DEF Fail, Report

\* finishCurrentFile() past the wait for stragglers
LEMMA VerifyStep ==
  ASSUME NEW f, NEW total, Verify(f, total)
  PROVE  UNCHANGED <<fileVars, disposed, saved>> /\ (ui # "active" => ui' = ui)
BY FailStep DEF Verify, uiVars

\* handleMessage()
LEMMA HandleStep ==
  ASSUME Progress, NEW m \in Messages, Handle(m)
  PROVE  /\ Progress' /\ UNCHANGED <<disposed, saved>>
         /\ ui # "active" => ui' = ui
<1>1. CASE m.type = "BATCH_INFO" /\ OnBatchInfo(NumFiles)
  <2>1. UNCHANGED <<fileVars, disposed, saved, ui>>
    BY <1>1 DEF OnBatchInfo, uiVars
  <2> QED BY <2>1, ProgressKept
<1>2. CASE m.type = "FILE_METADATA" /\ OnMetadata(m.file, m.chunkSize)
  <2>1. CASE UNCHANGED receiverVars
    BY <2>1, ProgressKept DEF receiverVars, uiVars
  <2>2. CASE BeginFile(m.file, m.chunkSize)
    <3>1. Progress'
      BY <1>2, <2>2, MessageFacts, BeginFileStep
    <3>2. UNCHANGED <<disposed, saved>> /\ (ui # "active" => ui' = ui)
      BY <2>2, ReportOnce DEF BeginFile
    <3> QED BY <3>1, <3>2
  <2> QED BY <1>2, <2>1, <2>2 DEF OnMetadata
<1>3. CASE m.type = "RESUME_QUERY" /\ UNCHANGED receiverVars
  BY <1>3, ProgressKept DEF receiverVars, uiVars
<1>4. CASE m.type = "CHUNK" /\ OnChunk(m.index, m.bytes)
  <2>1. Progress'
    BY <1>4, MessageFacts, OnChunkStep
  <2>2. UNCHANGED <<disposed, saved>> /\ (ui # "active" => ui' = ui)
    BY <1>4, ReportOnce DEF OnChunk, uiVars
  <2> QED BY <2>1, <2>2
<1>5. CASE m.type = "TRANSFER_COMPLETE" /\ OnComplete(m.file)
  <2>1. UNCHANGED <<fileVars, disposed, saved>> /\ (ui # "active" => ui' = ui)
    BY <1>5, VerifyStep DEF OnComplete, receiverVars, uiVars
  <2> QED BY <2>1, ProgressKept
<1>6. CASE m.type = "CANCEL" /\ OnCancel
  <2>1. UNCHANGED <<fileVars, disposed, saved>> /\ (ui # "active" => ui' = ui)
    BY <1>6, ReportOnce DEF OnCancel
  <2> QED BY <2>1, ProgressKept
<1> QED BY <1>1, <1>2, <1>3, <1>4, <1>5, <1>6 DEF Handle

\* A file is handed over to an active panel only.
LEMMA HandOverStep ==
  ASSUME NEW f, NEW s, HandOver(f, s), ui # "active"
  PROVE  UNCHANGED <<ui, saved>>
BY ReportOnce DEF HandOver

\* What goes on inside the receiver between messages.
LEMMA ContinueStep ==
  ASSUME Continue \/ (\E f \in Files : PollGivesUp(f)) \/ WorkerCrashes
  PROVE  UNCHANGED <<fileVars, disposed>> /\ (ui # "active" => UNCHANGED <<ui, saved>>)
<1>1. ASSUME NEW f \in Files, PollEnough(f)
      PROVE  UNCHANGED <<fileVars, disposed>> /\ (ui # "active" => UNCHANGED <<ui, saved>>)
  BY <1>1, VerifyStep DEF PollEnough
<1>2. ASSUME NEW f \in Files, AskDigest(f)
      PROVE  UNCHANGED <<fileVars, disposed>> /\ (ui # "active" => UNCHANGED <<ui, saved>>)
  BY <1>2, FailStep DEF AskDigest, uiVars
<1>3. ASSUME NEW f \in Files, Digested(f)
      PROVE  UNCHANGED <<fileVars, disposed>> /\ (ui # "active" => UNCHANGED <<ui, saved>>)
  <2>1. CASE Fail(f)
    BY <2>1, FailStep
  <2>2. CASE ~Fail(f)
    <3>1. UNCHANGED <<fileVars, disposed>>
      BY <1>3, <2>2 DEF Digested
    <3>2. ui # "active" => UNCHANGED <<ui, saved>>
      BY <1>3, <2>2, HandOverStep DEF Digested
    <3> QED BY <3>1, <3>2
  <2> QED BY <2>1, <2>2
<1>4. ASSUME NEW f \in Files, Closed(f)
      PROVE  UNCHANGED <<fileVars, disposed>> /\ (ui # "active" => UNCHANGED <<ui, saved>>)
  BY <1>4, FailStep, HandOverStep DEF Closed
<1>5. ASSUME NEW h \in DOMAIN hashers, WorkerAnswers(h)
      PROVE  UNCHANGED <<fileVars, disposed, ui, saved>>
  BY <1>5 DEF WorkerAnswers, uiVars
<1>6. ASSUME NEW c \in DOMAIN chains,
             SinkOpens(c) \/ WriteStarts(c) \/ StreamCreated(c) \/ WriteSettles(c)
      PROVE  UNCHANGED <<fileVars, disposed, ui, saved>>
  BY <1>6 DEF SinkOpens, WriteStarts, StreamCreated, WriteSettles, uiVars
<1>7. ASSUME NEW f \in Files, PollGivesUp(f)
      PROVE  UNCHANGED <<fileVars, disposed>> /\ (ui # "active" => UNCHANGED <<ui, saved>>)
  BY <1>7, FailStep DEF PollGivesUp
<1>8. ASSUME WorkerCrashes
      PROVE  UNCHANGED <<fileVars, disposed, ui, saved>>
  BY <1>8 DEF WorkerCrashes, uiVars
<1> QED BY <1>1, <1>2, <1>3, <1>4, <1>5, <1>6, <1>7, <1>8 DEF Continue

\* cancel()
LEMMA DisposeStep ==
  ASSUME Progress, Dispose
  PROVE  Progress' /\ Terminal' /\ UNCHANGED saved
<1>1. /\ disposed' = TRUE /\ reorder' = <<>> /\ early' = <<>> /\ ui' # "active"
      /\ UNCHANGED <<meta, chunkSize, nextIndex, received, saved>>
  BY DEF Dispose, Report
<1>2. DOMAIN <<>> = {} /\ IsFiniteSet({})
  BY FS_EmptySet
<1> QED BY <1>1, <1>2 DEF Progress, Terminal

-----------------------------------------------------------------------------
(* The whole *)

\* A message arrives.
LEMMA DeliverStep ==
  ASSUME IInv, NEW ch \in ChannelIds, Deliver(ch)
  PROVE  IInv' /\ (disposed => saved' = saved)
<1>1. PICK k \in DOMAIN net[ch] :
        /\ net' = [net EXCEPT ![ch] = RemoveAt(@, k)]
        /\ IF disposed THEN UNCHANGED receiverVars ELSE Handle(net[ch][k])
  BY DEF Deliver
<1>2. RemoveAt(net[ch], k) \in Seq(Messages) /\ net[ch][k] \in Messages
  BY RemoveKeeps DEF IInv, Wire
<1>3. Wire'
  BY <1>1, <1>2 DEF IInv, Wire
<1>4. Sender'
  BY DEF Deliver, senderVars, IInv, Sender
<1>5. CASE disposed
  BY <1>1, <1>3, <1>4, <1>5, ProgressKept DEF IInv, Terminal, receiverVars, uiVars
<1>6. CASE ~disposed
  <2>1. Progress' /\ ~disposed'
    BY <1>1, <1>2, <1>6, HandleStep DEF IInv
  <2> QED BY <1>3, <1>4, <1>6, <2>1 DEF IInv, Terminal
<1> QED BY <1>5, <1>6

\* Every step keeps the invariant, and none hands over a file after a cancel.
LEMMA NextStep ==
  ASSUME IInv, [Next]_vars
  PROVE  IInv' /\ (disposed => saved' = saved)
<1>1. CASE UNCHANGED vars
  <2>1. UNCHANGED <<fileVars, disposed, ui, saved, net, phase, file, chunk, todo,
                 fullySent>>
    BY <1>1 DEF vars, receiverVars, uiVars, senderVars, linkVars
  <2> QED BY <2>1, ProgressKept DEF IInv, Terminal, Sender, Wire
<1>2. CASE Sending \/ StatusTimeout \/ SenderStops
  <2>1. Sender' /\ Wire' /\ UNCHANGED receiverVars
    BY <1>2, SenderStep
  <2>2. UNCHANGED <<fileVars, disposed, ui, saved>>
    BY <2>1 DEF receiverVars, uiVars
  <2> QED BY <2>1, <2>2, ProgressKept DEF IInv, Terminal
<1>3. ASSUME NEW ch \in ChannelIds, Deliver(ch)
      PROVE  IInv' /\ (disposed => saved' = saved)
  BY <1>3, DeliverStep
<1>4. CASE (Continue \/ Misfortune) /\ UNCHANGED <<senderVars, linkVars>>
  <2>1. Sender' /\ Wire'
    BY <1>4 DEF senderVars, linkVars, IInv, Sender, Wire
  <2>2. CASE Dispose
    BY <2>1, <2>2, DisposeStep DEF IInv
  <2>3. CASE ~Dispose
    <3>1. UNCHANGED <<fileVars, disposed>> /\ (ui # "active" => UNCHANGED <<ui, saved>>)
      BY <1>4, <2>3, ContinueStep DEF Misfortune
    <3> QED BY <2>1, <3>1, ProgressKept DEF IInv, Terminal
  <2> QED BY <2>2, <2>3
<1>5. CASE Drop
  <2>1. /\ net' = [ch \in ChannelIds |-> <<>>] /\ UNCHANGED <<file, chunk, todo, fullySent>>
        /\ phase' \in {"connecting", "stopped", phase} /\ UNCHANGED receiverVars
    BY <1>5 DEF Drop
  <2>2. Sender' /\ Wire'
    BY <2>1 DEF IInv, Sender, Wire
  <2>3. UNCHANGED <<fileVars, disposed, ui, saved>>
    BY <2>1 DEF receiverVars, uiVars
  <2> QED BY <2>2, <2>3, ProgressKept DEF IInv, Terminal
<1> QED BY <1>1, <1>2, <1>3, <1>4, <1>5 DEF Next

\* A receiver that has not begun, and a sender that has not connected.
LEMMA InitHolds == Init => IInv
<1> SUFFICES ASSUME Init PROVE IInv
  OBVIOUS
<1>1. DOMAIN <<>> = {} /\ IsFiniteSet({})
  BY FS_EmptySet
<1>2. Progress /\ Terminal
  BY <1>1 DEF Init, ReceiverInit, Progress, Terminal
<1>3. Sender /\ Wire
  BY DEF Init, Sender, Wire
<1> QED BY <1>2, <1>3 DEF IInv

\* In every reachable state the bookkeeping of the current file is right.
THEOREM ReceiverInvariance == Spec => []IInv
<1>1. IInv /\ [Next]_vars => IInv'
  BY NextStep
<1> QED BY InitHolds, <1>1, PTL DEF Spec

\* chunksReceived is what is hashed and queued plus what is buffered, and when
\* it reaches totalChunks the file has no hole (acceptChunk(), finishCurrentFile()).
THEOREM ReceiverCounts == Spec => []Counted
<1>1. IInv => Counted
  <2> SUFFICES ASSUME Progress, meta # None, ~disposed
               PROVE  /\ received = nextIndex + Cardinality(DOMAIN reorder)
                      /\ received >= Total(meta, chunkSize) => nextIndex = Total(meta, chunkSize)
    BY DEF IInv, Counted
  <2>1. /\ Total(meta, chunkSize) \in Nat /\ nextIndex \in Nat /\ nextIndex <= Total(meta, chunkSize)
        /\ received = nextIndex + Cardinality(DOMAIN reorder)
    BY FileFacts DEF Progress
  <2>2. ASSUME nextIndex < Total(meta, chunkSize)
        PROVE  received < Total(meta, chunkSize)
    <3> DEFINE behind == nextIndex + 1 .. Total(meta, chunkSize) - 1
    <3>1. DOMAIN reorder \subseteq behind
      BY <2>1 DEF Progress
    <3>2. IsFiniteSet(behind) /\ Cardinality(behind) = Total(meta, chunkSize) - 1 - nextIndex
      <4>1. nextIndex + 1 \in Int /\ Total(meta, chunkSize) - 1 \in Int
        BY <2>1
      <4>2. /\ IsFiniteSet(behind)
            /\ Cardinality(behind) = IF nextIndex + 1 > Total(meta, chunkSize) - 1 THEN 0
                                     ELSE (Total(meta, chunkSize) - 1) - (nextIndex + 1) + 1
        BY <4>1, FS_Interval
      <4> QED BY <2>1, <2>2, <4>2
    <3> HIDE DEF behind
    <3>3. /\ Cardinality(DOMAIN reorder) <= Cardinality(behind)
          /\ Cardinality(DOMAIN reorder) \in Nat
      BY <3>1, <3>2, FS_Subset, FS_CardinalityType DEF Progress
    <3> QED BY <2>1, <3>2, <3>3
  <2> QED BY <2>1, <2>2, FS_CardinalityType DEF Progress
<1> QED BY ReceiverInvariance, <1>1, PTL

\* After cancel() no file is handed over, wherever finishCurrentFile(), the
\* writes and the digests were (onFileComplete's look at terminalRef).
THEOREM ReceiverQuietAfterCancel == Spec => NothingAfterCancel
<1>1. IInv /\ [Next]_vars => [disposed => saved' = saved]_vars
  BY NextStep
<1> QED BY ReceiverInvariance, <1>1, PTL DEF Spec, NothingAfterCancel

-----------------------------------------------------------------------------
(* What the receiver holds: hashers, sinks and write chains. *)

\* The chunks a frame can carry.
Parts == {<<>>} \cup {Part(f, c, i) : f \in Files, c \in ChunkSizes, i \in Nat}

\* What the receiver keeps has these shapes.
HasherRec ==
  [data : Seq(Parts), inWorker : BOOLEAN,
   state : {"open", "asked", "answered", "rejected", "lost", "aborted"}]
SinkRec ==
  [file : Files, disk : BOOLEAN, data : Seq(Parts),
   stream : {"none", "open", "aborted", "saved"}]
LinkRec ==
  {r \in [file : Files \cup {None}, bytes : Parts,
          at : {"opening", "queued", "creating", "writing"}, to : Nat] :
     r.at = "opening" => r.file \in Files}
ChainRec == [done : Nat, links : Seq(LinkRec)]

\* Where a finishCurrentFile() is.
CallRec ==
  [at : {"idle", "poll", "flush", "digest", "overtaken", "closing", "done"},
   total : Nat, chain : Nat, upTo : Nat, hasher : Nat, sink : Nat]

\* What is left on the current write chain, and the chunks in it.
Links == IF chain = None THEN <<>> ELSE chains[chain].links
BytesOf(links) == [k \in DOMAIN links |-> links[k].bytes]

-----------------------------------------------------------------------------
\* update() feeds the current hasher, if it is open, and no other.
LEMMA FedFacts ==
  ASSUME NEW hs \in Seq(HasherRec), NEW h \in 0 .. Len(hs), NEW run \in Seq(Parts)
  PROVE  /\ Fed(hs, h, run) \in Seq(HasherRec) /\ Len(Fed(hs, h, run)) = Len(hs)
         /\ \A k \in 1 .. Len(hs) :
              /\ Fed(hs, h, run)[k].state = hs[k].state
              /\ Fed(hs, h, run)[k].inWorker = hs[k].inWorker
              /\ Fed(hs, h, run)[k].data =
                   IF k = h /\ hs[h].state = "open" THEN hs[h].data \o run ELSE hs[k].data
<1>1. CASE h # None /\ hs[h].state = "open"
  <2> DEFINE r == [hs[h] EXCEPT !.data = @ \o run]
  <2>1. h \in 1 .. Len(hs) /\ hs[h] \in HasherRec
    BY <1>1, ElementOfSeq DEF None
  <2>2. hs[h].data \o run \in Seq(Parts)
    BY <2>1, ConcatProperties DEF HasherRec
  <2>3. r \in HasherRec /\ r.data = hs[h].data \o run /\ r.state = hs[h].state
        /\ r.inWorker = hs[h].inWorker
    BY <2>1, <2>2 DEF HasherRec
  <2>4. Fed(hs, h, run) = [hs EXCEPT ![h] = r]
    BY <1>1 DEF Fed
  <2> HIDE DEF r
  <2>5. /\ [hs EXCEPT ![h] = r] \in Seq(HasherRec)
        /\ Len([hs EXCEPT ![h] = r]) = Len(hs)
        /\ \A j \in 1 .. Len(hs) : [hs EXCEPT ![h] = r][j] = IF j = h THEN r ELSE hs[j]
    BY <2>1, <2>3, ExceptSeq
  <2> QED BY <1>1, <2>1, <2>3, <2>4, <2>5
<1>2. CASE ~(h # None /\ hs[h].state = "open")
  <2>1. Fed(hs, h, run) = hs
    BY <1>2 DEF Fed
  <2>2. \A k \in 1 .. Len(hs) : ~(k = h /\ hs[h].state = "open")
    BY <1>2, LenProperties DEF None
  <2> QED BY <2>1, <2>2
<1> QED BY <1>1, <1>2

\* abort() marks the current hasher, if it is in the worker, and no other.
LEMMA AbortedFacts ==
  ASSUME NEW hs \in Seq(HasherRec), NEW h \in 0 .. Len(hs)
  PROVE  /\ Aborted(hs, h) \in Seq(HasherRec) /\ Len(Aborted(hs, h)) = Len(hs)
         /\ \A k \in 1 .. Len(hs) :
              /\ Aborted(hs, h)[k].data = hs[k].data
              /\ Aborted(hs, h)[k].inWorker = hs[k].inWorker
              /\ Aborted(hs, h)[k].state = IF k = h /\ hs[h].inWorker THEN "aborted"
                                           ELSE hs[k].state
<1>1. CASE h # None /\ hs[h].inWorker
  <2> DEFINE r == [hs[h] EXCEPT !.state = "aborted"]
  <2>1. h \in 1 .. Len(hs) /\ hs[h] \in HasherRec
    BY <1>1, ElementOfSeq DEF None
  <2>2. r \in HasherRec /\ r.data = hs[h].data /\ r.state = "aborted"
        /\ r.inWorker = hs[h].inWorker
    BY <2>1 DEF HasherRec
  <2>3. Aborted(hs, h) = [hs EXCEPT ![h] = r]
    BY <1>1 DEF Aborted
  <2> HIDE DEF r
  <2>4. /\ [hs EXCEPT ![h] = r] \in Seq(HasherRec)
        /\ Len([hs EXCEPT ![h] = r]) = Len(hs)
        /\ \A j \in 1 .. Len(hs) : [hs EXCEPT ![h] = r][j] = IF j = h THEN r ELSE hs[j]
    BY <2>1, <2>2, ExceptSeq
  <2> QED BY <1>1, <2>1, <2>2, <2>3, <2>4
<1>2. CASE ~(h # None /\ hs[h].inWorker)
  <2>1. Aborted(hs, h) = hs
    BY <1>2 DEF Aborted
  <2>2. \A k \in 1 .. Len(hs) : k = h => ~hs[h].inWorker
    BY <1>2, LenProperties DEF None
  <2> QED BY <2>1, <2>2
<1> QED BY <1>1, <1>2

\* sink.abort() touches the current sink only, and no file that was saved.
LEMMA DiscardedFacts ==
  ASSUME NEW ss \in Seq(SinkRec), NEW s \in 0 .. Len(ss)
  PROVE  /\ Discarded(ss, s) \in Seq(SinkRec) /\ Len(Discarded(ss, s)) = Len(ss)
         /\ \A k \in 1 .. Len(ss) :
              /\ Discarded(ss, s)[k].disk = ss[k].disk
              /\ Discarded(ss, s)[k].file = ss[k].file
              /\ k # s => Discarded(ss, s)[k] = ss[k]
              /\ Discarded(ss, s)[k].stream = "saved" => ss[k].stream = "saved"
<1>1. CASE s = None
  BY <1>1 DEF Discarded, None
<1>2. CASE s # None
  <2>1. s \in 1 .. Len(ss) /\ ss[s] \in SinkRec
    BY <1>2, ElementOfSeq DEF None
  <2> DEFINE r1 == [ss[s] EXCEPT !.stream = "aborted"]
             r2 == [ss[s] EXCEPT !.data = <<>>]
  <2>2. /\ r1 \in SinkRec /\ r1.disk = ss[s].disk /\ r1.file = ss[s].file
        /\ r1.stream = "aborted"
    BY <2>1 DEF SinkRec
  <2>3. <<>> \in Seq(Parts)
    BY EmptySeq
  <2>4. /\ r2 \in SinkRec /\ r2.disk = ss[s].disk /\ r2.file = ss[s].file
        /\ r2.stream = ss[s].stream
    BY <2>1, <2>3 DEF SinkRec
  <2>5. Discarded(ss, s) \in {ss, [ss EXCEPT ![s] = r1], [ss EXCEPT ![s] = r2]}
    BY <1>2 DEF Discarded
  <2> HIDE DEF r1, r2
  <2>6. CASE Discarded(ss, s) = ss
    BY <2>6
  <2>7. CASE Discarded(ss, s) = [ss EXCEPT ![s] = r1]
    BY <2>1, <2>2, <2>7, ExceptSeq
  <2>8. CASE Discarded(ss, s) = [ss EXCEPT ![s] = r2]
    BY <2>1, <2>4, <2>8, ExceptSeq
  <2> QED BY <2>5, <2>6, <2>7, <2>8
<1> QED BY <1>1, <1>2

\* The chunks of links.
LEMMA BytesOfFacts ==
  ASSUME NEW l \in Seq(LinkRec)
  PROVE  /\ BytesOf(l) \in Seq(Parts) /\ Len(BytesOf(l)) = Len(l)
         /\ \A k \in 1 .. Len(l) : BytesOf(l)[k] = l[k].bytes
         /\ l = <<>> => BytesOf(l) = <<>>
<1>1. Len(l) \in Nat /\ DOMAIN l = 1 .. Len(l) /\ \A k \in 1 .. Len(l) : l[k] \in LinkRec
  BY LenProperties, ElementOfSeq
<1>2. \A k \in 1 .. Len(l) : l[k].bytes \in Parts
  BY <1>1 DEF LinkRec
<1>3. BytesOf(l) = [k \in 1 .. Len(l) |-> l[k].bytes]
  BY <1>1 DEF BytesOf
<1>4. BytesOf(l) \in Seq(Parts) /\ Len(BytesOf(l)) = Len(l)
  BY <1>1, <1>2, <1>3
<1>5. l = <<>> => BytesOf(l) = <<>>
  BY <1>3
<1> QED BY <1>3, <1>4, <1>5

\* Links queued for a run carry the run.
LEMMA WritesFacts ==
  ASSUME NEW run \in Seq(Parts)
  PROVE  /\ Writes(run) \in Seq(LinkRec) /\ Len(Writes(run)) = Len(run)
         /\ \A k \in 1 .. Len(run) : /\ Writes(run)[k].at = "queued"
                                     /\ Writes(run)[k].bytes = run[k]
         /\ BytesOf(Writes(run)) = run
         /\ run = <<>> => Writes(run) = <<>>
<1>1. Len(run) \in Nat /\ DOMAIN run = 1 .. Len(run) /\ \A k \in 1 .. Len(run) : run[k] \in Parts
  BY LenProperties, ElementOfSeq
<1>2. Writes(run) = [k \in 1 .. Len(run) |-> WriteLink(run[k])]
  BY <1>1 DEF Writes
<1>3. \A b \in Parts : WriteLink(b) \in LinkRec /\ WriteLink(b).at = "queued"
                       /\ WriteLink(b).bytes = b
  BY DEF WriteLink, LinkRec, None
<1>4. Writes(run) \in Seq(LinkRec) /\ Len(Writes(run)) = Len(run)
  BY <1>1, <1>2, <1>3
<1>5. \A k \in 1 .. Len(run) : /\ Writes(run)[k].at = "queued"
                               /\ Writes(run)[k].bytes = run[k]
  BY <1>1, <1>2, <1>3
<1>6. BytesOf(Writes(run)) = run
  <2>1. BytesOf(Writes(run)) \in Seq(Parts) /\ Len(BytesOf(Writes(run))) = Len(run)
        /\ \A k \in 1 .. Len(run) : BytesOf(Writes(run))[k] = run[k]
    BY <1>1, <1>4, <1>5, BytesOfFacts
  <2> QED BY <2>1, SeqEqual
<1>7. run = <<>> => Writes(run) = <<>>
  BY <1>2
<1> QED BY <1>4, <1>5, <1>6, <1>7

\* Queueing more links, and doing the first.
LEMMA BytesOfConcat ==
  ASSUME NEW l \in Seq(LinkRec), NEW m \in Seq(LinkRec)
  PROVE  BytesOf(l \o m) = BytesOf(l) \o BytesOf(m)
<1>1. /\ l \o m \in Seq(LinkRec) /\ Len(l \o m) = Len(l) + Len(m)
      /\ \A i \in 1 .. Len(l) + Len(m) :
           (l \o m)[i] = IF i <= Len(l) THEN l[i] ELSE m[i - Len(l)]
  BY ConcatProperties
<1>2. /\ BytesOf(l \o m) \in Seq(Parts) /\ Len(BytesOf(l \o m)) = Len(l \o m)
      /\ \A k \in 1 .. Len(l \o m) : BytesOf(l \o m)[k] = (l \o m)[k].bytes
  BY <1>1, BytesOfFacts
<1>3. /\ BytesOf(l) \in Seq(Parts) /\ Len(BytesOf(l)) = Len(l)
      /\ \A k \in 1 .. Len(l) : BytesOf(l)[k] = l[k].bytes
      /\ BytesOf(m) \in Seq(Parts) /\ Len(BytesOf(m)) = Len(m)
      /\ \A k \in 1 .. Len(m) : BytesOf(m)[k] = m[k].bytes
  BY BytesOfFacts
<1>4. Len(l) \in Nat /\ Len(m) \in Nat
  BY LenProperties
<1> DEFINE bl == BytesOf(l)
           bm == BytesOf(m)
           both == BytesOf(l \o m)
<1> HIDE DEF bl, bm, both
<1>5. /\ bl \o bm \in Seq(Parts) /\ Len(bl \o bm) = Len(l) + Len(m)
      /\ \A i \in 1 .. Len(l) + Len(m) :
           (bl \o bm)[i] = IF i <= Len(l) THEN bl[i] ELSE bm[i - Len(l)]
  <2>1. bl \in Seq(Parts) /\ bm \in Seq(Parts) /\ Len(bl) = Len(l) /\ Len(bm) = Len(m)
    BY <1>3 DEF bl, bm
  <2>2. /\ bl \o bm \in Seq(Parts) /\ Len(bl \o bm) = Len(bl) + Len(bm)
        /\ \A i \in 1 .. Len(bl) + Len(bm) :
             (bl \o bm)[i] = IF i <= Len(bl) THEN bl[i] ELSE bm[i - Len(bl)]
    BY <2>1, ConcatProperties
  <2> QED BY <2>1, <2>2
<1>6. ASSUME NEW i \in 1 .. Len(l) + Len(m)
      PROVE  both[i] = (bl \o bm)[i]
  <2>1. CASE i <= Len(l)
    <3>1. bl[i] = l[i].bytes
      BY <1>3, <1>4, <2>1 DEF bl
    <3>2. both[i] = l[i].bytes
      BY <1>1, <1>2, <2>1 DEF both
    <3> QED BY <1>5, <2>1, <3>1, <3>2
  <2>2. CASE ~(i <= Len(l))
    <3>1. i - Len(l) \in 1 .. Len(m)
      BY <1>4, <2>2
    <3>2. bm[i - Len(l)] = m[i - Len(l)].bytes
      BY <1>3, <3>1 DEF bm
    <3>3. both[i] = m[i - Len(l)].bytes
      BY <1>1, <1>2, <2>2 DEF both
    <3> QED BY <1>5, <2>2, <3>2, <3>3
  <2> QED BY <2>1, <2>2
<1>7. both \in Seq(Parts) /\ Len(both) = Len(l) + Len(m)
  BY <1>1, <1>2 DEF both
<1> QED BY <1>5, <1>6, <1>7, SeqEqual DEF bl, bm, both

\* The first link, and what is behind it.
LEMMA BytesOfTail ==
  ASSUME NEW l \in Seq(LinkRec), l # <<>>
  PROVE  /\ Tail(l) \in Seq(LinkRec) /\ Len(Tail(l)) = Len(l) - 1 /\ Len(l) \in Nat \ {0}
         /\ \A k \in 1 .. Len(l) - 1 : Tail(l)[k] = l[k + 1]
         /\ Head(l) = l[1] /\ l[1] \in LinkRec
         /\ BytesOf(l) = <<l[1].bytes>> \o BytesOf(Tail(l))
<1>1. /\ Head(l) \in LinkRec /\ Tail(l) \in Seq(LinkRec) /\ Len(Tail(l)) = Len(l) - 1
      /\ \A i \in 1 .. Len(Tail(l)) : Tail(l)[i] = l[i + 1]
  BY HeadTailProperties
<1>2. Len(l) \in Nat \ {0} /\ Head(l) = l[1]
  BY EmptySeq
<1>3. <<l[1]>> \in Seq(LinkRec) /\ Len(<<l[1]>>) = 1 /\ <<l[1]>>[1] = l[1]
  BY <1>1, <1>2
<1>4. l = <<l[1]>> \o Tail(l)
  <2>1. /\ <<l[1]>> \o Tail(l) \in Seq(LinkRec)
        /\ Len(<<l[1]>> \o Tail(l)) = 1 + Len(Tail(l))
        /\ \A i \in 1 .. 1 + Len(Tail(l)) : (<<l[1]>> \o Tail(l))[i] =
             IF i <= 1 THEN <<l[1]>>[i] ELSE Tail(l)[i - 1]
    BY <1>1, <1>3, ConcatProperties
  <2>2. \A i \in 1 .. Len(l) : l[i] = (<<l[1]>> \o Tail(l))[i]
    BY <1>1, <1>2, <1>3, <2>1
  <2> QED BY <1>1, <1>2, <2>1, <2>2, SeqEqual
<1>5. BytesOf(<<l[1]>>) = <<l[1].bytes>>
  <2> DEFINE one == <<l[1]>>
  <2>1. BytesOf(one) = [k \in DOMAIN one |-> one[k].bytes]
    BY DEF BytesOf
  <2>2. DOMAIN one = 1 .. 1 /\ one[1] = l[1]
    OBVIOUS
  <2> HIDE DEF one
  <2>3. BytesOf(one) = [k \in 1 .. 1 |-> l[1].bytes]
    BY <2>1, <2>2
  <2>4. [k \in 1 .. 1 |-> l[1].bytes] = <<l[1].bytes>>
    OBVIOUS
  <2> QED BY <2>3, <2>4 DEF one
<1>6. BytesOf(<<l[1]>> \o Tail(l)) = BytesOf(<<l[1]>>) \o BytesOf(Tail(l))
  BY <1>1, <1>3, BytesOfConcat
<1> QED BY <1>1, <1>2, <1>4, <1>5, <1>6

\* What the run and the rest of an Accept() are made of: the chunks received.
LEMMA AcceptData ==
  ASSUME NEW n \in Nat, NEW total \in Nat, n <= total,
         NEW buffered, IsFiniteSet(DOMAIN buffered),
         \A i \in DOMAIN buffered : i \in Nat /\ n <= i /\ i < total,
         \A i \in DOMAIN buffered : buffered[i] \in Parts,
         NEW frames, IsFiniteSet(DOMAIN frames), DOMAIN frames \subseteq Nat,
         \A i \in DOMAIN frames : frames[i] \in Parts
  PROVE  LET a == Accept(n, buffered, frames, total) IN
           /\ a.run \in Seq(Parts)
           /\ n = total => a.run = <<>>
           /\ \A i \in DOMAIN a.rest : a.rest[i] \in Parts
           /\ n <= a.next
<1> DEFINE new == {i \in New(n, buffered, frames) : i < total}
           all == [i \in DOMAIN buffered \cup new |->
                     IF i \in new THEN frames[i] ELSE buffered[i]]
           a == Absorb(n, buffered, frames, new)
           end == EndOfRun(all, n)
<1>1. /\ new \subseteq DOMAIN frames /\ new \cap DOMAIN buffered = {}
      /\ \A i \in DOMAIN buffered \cup new : i \in Nat /\ n <= i /\ i < total
  BY DEF New
<1>2. IsFiniteSet(new)
  <2> HIDE DEF new
  <2> QED BY <1>1, FS_Subset
<1> HIDE DEF new
<1>3. \A i \in DOMAIN buffered \cup new : all[i] \in Parts
  BY <1>1
<1>4. /\ a.next \in Nat /\ n <= a.next
      /\ n .. a.next - 1 \subseteq DOMAIN buffered \cup new
  BY <1>1, <1>2, AbsorbFacts
<1>5. DOMAIN all = DOMAIN buffered \cup new
  OBVIOUS
<1>6. /\ a.next = end
      /\ a.run = [k \in 1 .. end - n |-> all[n + k - 1]]
      /\ a.rest = Restrict(all, {i \in DOMAIN all : i >= end})
  BY DEF Absorb
<1>7. Accept(n, buffered, frames, total) = a
  BY DEF Accept, a, new
<1> HIDE DEF all, a, end
<1>8. end - n \in Nat /\ \A k \in 1 .. end - n : n + k - 1 \in n .. a.next - 1
  BY <1>4, <1>6
<1>9. \A k \in 1 .. end - n : all[n + k - 1] \in Parts
  BY <1>3, <1>4, <1>8
<1>10. a.run \in Seq(Parts)
  BY <1>6, <1>8, <1>9
<1>11. n = total => a.run = <<>>
  <2> SUFFICES ASSUME n = total PROVE a.run = <<>>
    OBVIOUS
  <2>1. \A i \in n .. a.next - 1 : i < n
    BY <1>1, <1>4
  <2>2. end - n = 0
    <3>1. SUFFICES ASSUME end > n PROVE FALSE
      BY <1>4, <1>6
    <3>2. n \in n .. a.next - 1
      BY <1>4, <1>6, <3>1
    <3> QED BY <2>1, <3>2
  <2> QED BY <1>6, <2>2
<1>12. \A i \in DOMAIN a.rest : a.rest[i] \in Parts
  <2>1. a.rest = [i \in {i \in DOMAIN all : i >= end} |-> all[i]]
    BY <1>6 DEF Restrict
  <2> QED BY <1>3, <1>5, <2>1
<1> QED BY <1>4, <1>7, <1>10, <1>11, <1>12

-----------------------------------------------------------------------------
(* The inductive invariant of the data. *)

\* Chunks that wait are parts of files.
FramesTyped ==
  /\ \A i \in DOMAIN early : early[i] \in Parts
  /\ \A i \in DOMAIN reorder : reorder[i] \in Parts

\* Hashers are fed chunks; one runs in the worker only if there can be one.
HashersTyped ==
  /\ hashers \in Seq(HasherRec) /\ hasher \in 0 .. Len(hashers)
  /\ \A h \in 1 .. Len(hashers) : hashers[h].inWorker => HashInWorker

\* Sinks hold chunks; one is on disk only in a folder.
SinksTyped ==
  /\ sinks \in Seq(SinkRec) /\ sink \in 0 .. Len(sinks)
  /\ \A s \in 1 .. Len(sinks) : sinks[s].disk => ToFolder

\* Only the current write chain has links left; all behind its head wait.
ChainsTyped ==
  /\ chains \in Seq(ChainRec) /\ chain \in 0 .. Len(chains)
  /\ meta = None <=> chain = None
  /\ meta = None => chains = <<>>
  /\ \A c \in 1 .. Len(chains) :
       /\ chains[c].links # <<>> => c = chain
       /\ \A k \in 2 .. Len(chains[c].links) : chains[c].links[k].at = "queued"
       /\ chains[c].links # <<>> /\ ~ToFolder =>
            chains[c].links[1].at \in {"opening", "queued"}

\* finishCurrentFile() calls.
CallsTyped == call \in [Files -> CallRec]

\* The current write chain still has to open its sink.
AtOpening == Links # <<>> /\ Links[1].at = "opening"

\* What the current hasher was fed is what was written to the current sink and
\* what is queued to be written.
Agree ==
  hasher # None /\ ~writeError /\ hashers[hasher].state = "open" =>
    IF AtOpening THEN hashers[hasher].data = BytesOf(Tail(Links))
    ELSE /\ sink # None
         /\ hashers[hasher].data = sinks[sink].data \o BytesOf(Links)
         /\ Links # <<>> /\ Links[1].at \in {"creating", "writing"} => Links[1].to = sink
-----------------------------------------------------------------------------
\* The links of the current chain.
LEMMA LinksTyped ==
  ASSUME ChainsTyped
  PROVE  /\ Links \in Seq(LinkRec) /\ Len(Links) \in Nat
         /\ \A k \in 2 .. Len(Links) : Links[k].at = "queued"
         /\ \A c \in 1 .. Len(chains) :
              /\ chains[c].done \in Nat /\ chains[c].links \in Seq(LinkRec)
              /\ c = chain => Links = chains[c].links
              /\ chains[c].links # <<>> => c = chain
         /\ chain # None => chain \in 1 .. Len(chains)
         /\ Len(chains) \in Nat /\ DOMAIN chains = 1 .. Len(chains)
<1>1. \A c \in 1 .. Len(chains) : chains[c] \in ChainRec
  BY ElementOfSeq DEF ChainsTyped
<1>2. \A c \in 1 .. Len(chains) : chains[c].done \in Nat /\ chains[c].links \in Seq(LinkRec)
  BY <1>1 DEF ChainRec
<1>3. Len(chains) \in Nat /\ DOMAIN chains = 1 .. Len(chains)
  BY LenProperties DEF ChainsTyped
<1>4. chain # None => chain \in 1 .. Len(chains)
  BY <1>3 DEF ChainsTyped, None
<1>5. Links \in Seq(LinkRec)
  <2>1. CASE chain = None
    BY <2>1, EmptySeq DEF Links
  <2>2. CASE chain # None
    BY <1>2, <1>4, <2>2 DEF Links
  <2> QED BY <2>1, <2>2
<1>6. Len(Links) \in Nat
  BY <1>5, LenProperties
<1>7. \A k \in 2 .. Len(Links) : Links[k].at = "queued"
  <2>1. CASE chain = None
    BY <2>1 DEF Links
  <2>2. CASE chain # None
    BY <1>4, <2>2 DEF Links, ChainsTyped
  <2> QED BY <2>1, <2>2
<1>8. \A c \in 1 .. Len(chains) : /\ c = chain => Links = chains[c].links
                                  /\ chains[c].links # <<>> => c = chain
  <2>1. \A c \in 1 .. Len(chains) : c # None
    BY <1>3 DEF None
  <2> QED BY <2>1 DEF Links, ChainsTyped
<1> QED BY <1>2, <1>3, <1>4, <1>5, <1>6, <1>7, <1>8

\* One chain gets another list of links.
LEMMA ChainChanged ==
  ASSUME ChainsTyped, NEW d \in Nat, NEW l \in Seq(LinkRec), chain # None,
         chains' = [chains EXCEPT ![chain] = [done |-> d, links |-> l]],
         UNCHANGED <<chain, meta>>,
         \A k \in 2 .. Len(l) : l[k].at = "queued",
         l # <<>> /\ ~ToFolder => l[1].at \in {"opening", "queued"}
  PROVE  ChainsTyped' /\ Links' = l /\ chains'[chain].done = d
<1> DEFINE r == [done |-> d, links |-> l]
<1>1. r \in ChainRec /\ r.done = d /\ r.links = l
  BY DEF ChainRec
<1>2. chain \in 1 .. Len(chains) /\ Len(chains) \in Nat
  BY LinksTyped
<1> HIDE DEF r
<1>3. /\ [chains EXCEPT ![chain] = r] \in Seq(ChainRec)
      /\ Len([chains EXCEPT ![chain] = r]) = Len(chains)
      /\ \A j \in 1 .. Len(chains) :
           [chains EXCEPT ![chain] = r][j] = IF j = chain THEN r ELSE chains[j]
  BY <1>1, <1>2, ExceptSeq DEF ChainsTyped
<1>4. /\ chains' \in Seq(ChainRec) /\ Len(chains') = Len(chains)
      /\ \A j \in 1 .. Len(chains) : chains'[j] = IF j = chain THEN r ELSE chains[j]
  BY <1>3 DEF r
<1>5. chain' = chain /\ meta' = meta /\ meta # None
  BY DEF ChainsTyped
<1>6. ASSUME NEW c \in 1 .. Len(chains)
      PROVE  /\ chains'[c].links # <<>> => c = chain
             /\ \A k \in 2 .. Len(chains'[c].links) : chains'[c].links[k].at = "queued"
             /\ chains'[c].links # <<>> /\ ~ToFolder =>
                  chains'[c].links[1].at \in {"opening", "queued"}
  <2>1. CASE c = chain
    BY <1>1, <1>4, <2>1
  <2>2. CASE c # chain
    BY <1>4, <2>2 DEF ChainsTyped
  <2> QED BY <2>1, <2>2
<1>7. ChainsTyped'
  BY <1>2, <1>4, <1>5, <1>6 DEF ChainsTyped
<1> QED BY <1>1, <1>2, <1>4, <1>5, <1>7 DEF Links

\* The first link is done.
LEMMA LinkDoneFacts ==
  ASSUME ChainsTyped, NEW c \in DOMAIN chains, chains[c].links # <<>>,
         chains' = LinkDone(c), UNCHANGED <<chain, meta>>
  PROVE  /\ ChainsTyped' /\ c = chain /\ chain # None
         /\ Link(c) = Links[1] /\ Links[1] \in LinkRec
         /\ Links # <<>> /\ Links' = Tail(Links)
         /\ chains'[chain].done + Len(Links') = chains[chain].done + Len(Links)
         /\ chains[chain].done \in Nat /\ Len(Links) \in Nat
         /\ BytesOf(Links) = <<Links[1].bytes>> \o BytesOf(Links')
         /\ Links' # <<>> => Links'[1].at = "queued"
<1>1. c \in 1 .. Len(chains) /\ c = chain /\ Links = chains[c].links /\ chain # None
      /\ Links \in Seq(LinkRec) /\ chains[c].done \in Nat /\ Len(Links) \in Nat
      /\ \A k \in 2 .. Len(Links) : Links[k].at = "queued"
  BY LinksTyped DEF None
<1>2. /\ Tail(Links) \in Seq(LinkRec) /\ Len(Tail(Links)) = Len(Links) - 1
      /\ Len(Links) \in Nat \ {0}
      /\ \A k \in 1 .. Len(Links) - 1 : Tail(Links)[k] = Links[k + 1]
      /\ Head(Links) = Links[1] /\ Links[1] \in LinkRec
      /\ BytesOf(Links) = <<Links[1].bytes>> \o BytesOf(Tail(Links))
  BY <1>1, BytesOfTail
<1>3. chains' = [chains EXCEPT ![chain] =
                   [done |-> chains[chain].done + 1, links |-> Tail(Links)]]
  BY <1>1 DEF LinkDone
<1>4. \A k \in 1 .. Len(Tail(Links)) : Tail(Links)[k].at = "queued"
  BY <1>1, <1>2
<1>5. ChainsTyped' /\ Links' = Tail(Links) /\ chains'[chain].done = chains[chain].done + 1
  <2>1. Tail(Links) # <<>> => 1 \in 1 .. Len(Tail(Links))
    BY <1>2, EmptySeq
  <2>2. chains[chain].done + 1 \in Nat
    BY <1>1
  <2>3. Tail(Links) # <<>> => Tail(Links)[1].at = "queued"
    BY <1>4, <2>1
  <2>4. \A k \in 2 .. Len(Tail(Links)) : Tail(Links)[k].at = "queued"
    BY <1>2, <1>4
  <2> DEFINE l == Tail(Links)
             d == chains[chain].done + 1
  <2>5. l \in Seq(LinkRec) /\ d \in Nat
    BY <1>2, <2>2
  <2>6. chains' = [chains EXCEPT ![chain] = [done |-> d, links |-> l]]
    BY <1>3
  <2>7. \A k \in 2 .. Len(l) : l[k].at = "queued"
    BY <2>4
  <2>8. l # <<>> /\ ~ToFolder => l[1].at \in {"opening", "queued"}
    BY <2>3
  <2> HIDE DEF l, d
  <2>9. ChainsTyped' /\ Links' = l /\ chains'[chain].done = d
    BY <1>1, <2>5, <2>6, <2>7, <2>8, ChainChanged
  <2> QED BY <2>9 DEF l, d
<1>6. Links' # <<>> => Links'[1].at = "queued"
  <2>1. Tail(Links) # <<>> => Tail(Links)[1].at = "queued"
    BY <1>2, <1>4, EmptySeq
  <2> QED BY <1>5, <2>1
<1>7. chains'[chain].done + Len(Links') = chains[chain].done + Len(Links)
  <2> DEFINE d == chains[chain].done
             n == Len(Links)
             m == Len(Links')
             e == chains'[chain].done
  <2>1. m = n - 1 /\ d \in Nat /\ n \in Nat /\ e = d + 1
    BY <1>1, <1>2, <1>5
  <2> HIDE DEF d, n, m, e
  <2>2. e + m = d + n
    BY <2>1
  <2> QED BY <2>2 DEF d, n, m, e
<1> QED BY <1>1, <1>2, <1>5, <1>6, <1>7 DEF Link

\* The first link goes on to another await.
LEMMA LinkMoves ==
  ASSUME ChainsTyped, NEW c \in DOMAIN chains, chains[c].links # <<>>,
         NEW r \in LinkRec, r.bytes = Links[1].bytes,
         r.at \in {"creating", "writing"}, ToFolder,
         chains' = [chains EXCEPT ![c].links[1] = r], UNCHANGED <<chain, meta>>
  PROVE  /\ ChainsTyped' /\ c = chain /\ chain # None
         /\ Links # <<>> /\ Links' # <<>> /\ Links'[1] = r
         /\ chains'[chain].done = chains[chain].done /\ Len(Links') = Len(Links)
         /\ BytesOf(Links') = BytesOf(Links)
         /\ ~AtOpening'
<1>1. c \in 1 .. Len(chains) /\ c = chain /\ Links = chains[c].links /\ chain # None
      /\ Links \in Seq(LinkRec) /\ chains[c].done \in Nat /\ Len(Links) \in Nat
      /\ \A k \in 2 .. Len(Links) : Links[k].at = "queued"
  BY LinksTyped DEF None
<1> DEFINE l == [Links EXCEPT ![1] = r]
<1>2. 1 \in 1 .. Len(Links)
  BY <1>1, EmptySeq
<1>3. /\ l \in Seq(LinkRec) /\ Len(l) = Len(Links)
      /\ \A j \in 1 .. Len(Links) : l[j] = IF j = 1 THEN r ELSE Links[j]
  BY <1>1, <1>2, ExceptSeq
<1>4. chains' = [chains EXCEPT ![chain] = [done |-> chains[chain].done, links |-> l]]
  <2>1. chains[c] \in ChainRec
    BY <1>1, ElementOfSeq DEF ChainsTyped
  <2>2. [chains[c] EXCEPT !.links = l] = [done |-> chains[c].done, links |-> l]
    <3> HIDE DEF l
    <3> QED BY <2>1 DEF ChainRec
  <2>3. [chains[c] EXCEPT !.links[1] = r] = [chains[c] EXCEPT !.links = l]
    BY <1>1
  <2> QED BY <1>1, <2>2, <2>3
<1> HIDE DEF l
<1>5. ChainsTyped' /\ Links' = l /\ chains'[chain].done = chains[chain].done
  <2> DEFINE d == chains[chain].done
  <2>1. d \in Nat /\ chains' = [chains EXCEPT ![chain] = [done |-> d, links |-> l]]
    BY <1>1, <1>4
  <2>2. \A k \in 2 .. Len(l) : l[k].at = "queued"
    BY <1>1, <1>3
  <2> HIDE DEF d
  <2>3. ChainsTyped' /\ Links' = l /\ chains'[chain].done = d
    BY <1>1, <1>3, <2>1, <2>2, ChainChanged
  <2> QED BY <2>3 DEF d
<1>6. BytesOf(l) = BytesOf(Links)
  <2>1. /\ BytesOf(l) \in Seq(Parts) /\ Len(BytesOf(l)) = Len(l)
        /\ \A k \in 1 .. Len(l) : BytesOf(l)[k] = l[k].bytes
    BY <1>3, BytesOfFacts
  <2>2. /\ BytesOf(Links) \in Seq(Parts) /\ Len(BytesOf(Links)) = Len(Links)
        /\ \A k \in 1 .. Len(Links) : BytesOf(Links)[k] = Links[k].bytes
    BY <1>1, BytesOfFacts
  <2>3. \A k \in 1 .. Len(l) : BytesOf(l)[k] = BytesOf(Links)[k]
    BY <1>2, <1>3, <2>1, <2>2
  <2> QED BY <1>3, <2>1, <2>2, <2>3, SeqEqual
<1>7. l[1] = r /\ l # <<>>
  BY <1>2, <1>3, EmptySeq
<1> QED BY <1>1, <1>3, <1>5, <1>6, <1>7 DEF AtOpening

\* The whole of the current file was accepted.
Contiguous == meta # None /\ nextIndex >= Total(meta, chunkSize)

\* A call that awaits writes awaits all that are queued, on the current chain.
Flushing ==
  \A f \in Files : call[f].at = "flush" =>
    /\ chain # None /\ call[f].chain = chain
    /\ call[f].upTo = chains[chain].done + Len(Links)
    /\ NumFiles = 1 => Contiguous

\* At most one call is between the wait for stragglers and the digest.
Busy(f) == call[f].at \in {"flush", "digest"}
OneBusy == \A f, g \in Files : Busy(f) /\ Busy(g) => f = g

\* A hasher is open until somebody asks for its digest.
StillOpen ==
  hasher # None /\ (\A f \in Files : call[f].at # "digest") =>
    hashers[hasher].state = "open"

\* A call that awaits a digest is past all writes, and what was hashed is what the
\* sink holds.
Digesting ==
  \A f \in Files : call[f].at = "digest" =>
    /\ chain # None /\ Links = <<>> /\ (NumFiles = 1 => Contiguous)
    /\ call[f].hasher \in 1 .. Len(hashers)
    /\ hashers[call[f].hasher].state # "open"
    /\ ~HashInWorker => hashers[call[f].hasher].state = "answered"
    /\ sink # None => hashers[call[f].hasher].data = sinks[sink].data

\* A file is being closed on disk, or was.
Ending ==
  \/ \E f \in Files : call[f].at = "closing"
  \/ \E s \in 1 .. Len(sinks) : sinks[s].stream = "saved"

\* A file that is being closed, or is closed, is whole, and nothing else goes on.
Finishing ==
  /\ \A f \in Files : call[f].at = "closing" =>
       call[f].sink \in 1 .. Len(sinks) /\ Content(sinks[call[f].sink]) = Bytes(f)
  /\ \A s \in 1 .. Len(sinks) : sinks[s].stream = "saved" =>
       Content(sinks[s]) = Bytes(sinks[s].file)
  /\ Ending => NumFiles = 1 /\ chain # None /\ Links = <<>> /\ Contiguous /\ sink = None

\* Calls are of a file that began; that of the only file has the right count.
Begun ==
  \A f \in Files :
    /\ call[f].at # "idle" => meta # None
    /\ NumFiles = 1 /\ call[f].at = "poll" => call[f].total = Total(meta, chunkSize)
    /\ NumFiles = 1 /\ call[f].at \in {"flush", "digest", "closing"} => finished

\* What was handed over is whole.
SavedWhole == saved \in Seq({<<f, Bytes(f)>> : f \in Files})

\* The invariant of the data.
DataInv ==
  /\ FramesTyped /\ HashersTyped /\ SinksTyped /\ ChainsTyped /\ CallsTyped
  /\ Agree /\ Flushing /\ OneBusy /\ StillOpen /\ Digesting /\ Finishing /\ Begun
  /\ SavedWhole

\* A batch of one file, or one without a hash worker and without a folder: nothing
\* of a file is under way when the next begins.
Serial == NumFiles = 1 \/ (~HashInWorker /\ ~ToFolder)

-----------------------------------------------------------------------------
\* In one file there is only one call.
LEMMA OneFile ==
  ASSUME NumFiles = 1, NEW f \in Files, NEW g \in Files
  PROVE  f = g
BY FileFacts

\* Hashing inline and in memory, nothing is under way when an event comes.
LEMMA QuietInline ==
  ASSUME DataInv, Quiet, ~HashInWorker, ~ToFolder
  PROVE  /\ \A c \in 1 .. Len(chains) : chains[c].links = <<>>
         /\ \A f \in Files : ~Busy(f)
<1>1. DOMAIN chains = 1 .. Len(chains)
  BY LinksTyped DEF DataInv
<1>2. ASSUME NEW c \in 1 .. Len(chains), chains[c].links # <<>>
      PROVE  FALSE
  <2>1. chains[c].links[1].at \in {"opening", "queued"}
    BY <1>2 DEF DataInv, ChainsTyped
  <2>2. Link(c) = chains[c].links[1]
    <3>1. chains[c].links \in Seq(LinkRec)
      BY LinksTyped DEF DataInv
    <3> QED BY <1>2, <3>1, BytesOfTail DEF Link
  <2>3. ChainDue(c)
    BY <1>2, <2>1, <2>2 DEF ChainDue, HasLink
  <2> QED BY <1>1, <2>3 DEF Quiet
<1>3. ASSUME NEW f \in Files, Busy(f)
      PROVE  FALSE
  <2>1. CASE call[f].at = "flush"
    <3>1. chain # None /\ call[f].chain = chain /\ call[f].upTo = chains[chain].done + Len(Links)
      BY <2>1 DEF DataInv, Flushing
    <3>2. chain \in 1 .. Len(chains) /\ Links = chains[chain].links /\ chains[chain].done \in Nat
      BY <3>1, LinksTyped DEF DataInv
    <3>3. Links = <<>>
      BY <1>2, <3>2
    <3>4. call[f].upTo = chains[chain].done
      <4> DEFINE d == chains[chain].done
      <4>1. d \in Nat /\ call[f].upTo = d + 0
        BY <3>1, <3>2, <3>3
      <4> HIDE DEF d
      <4>2. call[f].upTo = d
        BY <4>1
      <4> QED BY <4>2 DEF d
    <3>5. CallDue(f)
      BY <2>1, <3>1, <3>2, <3>4 DEF CallDue, Flushed
    <3> QED BY <3>5 DEF Quiet
  <2>2. CASE call[f].at = "digest"
    <3>1. hashers[call[f].hasher].state = "answered"
      BY <2>2 DEF DataInv, Digesting
    <3>2. CallDue(f)
      BY <2>2, <3>1 DEF CallDue
    <3> QED BY <3>2 DEF Quiet
  <2> QED BY <1>3, <2>1, <2>2 DEF Busy
<1> QED BY <1>2, <1>3

\* When another file begins, the one before has left nothing under way.
LEMMA QuietBegin ==
  ASSUME DataInv, Serial, Quiet, NEW f \in Files, meta \in Files \cup {None}, meta # f
  PROVE  /\ \A c \in 1 .. Len(chains) : chains[c].links = <<>>
         /\ \A g \in Files : ~Busy(g)
         /\ ~Ending
         /\ NumFiles = 1 => meta = None
<1>1. CASE NumFiles = 1
  <2>1. meta = None
    BY <1>1, OneFile
  <2>2. chain = None /\ chains = <<>>
    BY <2>1 DEF DataInv, ChainsTyped
  <2>3. \A g \in Files : call[g].at = "idle"
    BY <2>1 DEF DataInv, Begun
  <2>4. ~Ending
    BY <2>2 DEF DataInv, Finishing
  <2> QED BY <2>1, <2>2, <2>3, <2>4 DEF Busy
<1>2. CASE NumFiles # 1
  BY <1>2, QuietInline DEF Serial, DataInv, Finishing
<1> QED BY <1>1, <1>2

\* When finishCurrentFile() gets past its wait no other call is under way.
LEMMA QuietVerify ==
  ASSUME DataInv, Serial, Quiet, NEW f \in Files,
         NumFiles = 1 => ~finished \/ call[f].at = "poll"
  PROVE  \A g \in Files : ~Busy(g)
<1>1. CASE NumFiles = 1
  <2>1. ASSUME NEW g \in Files, Busy(g)
        PROVE FALSE
    <3>1. g = f
      BY <1>1, OneFile
    <3>2. finished
      BY <1>1, <2>1 DEF DataInv, Begun, Busy
    <3> QED BY <1>1, <2>1, <3>1, <3>2 DEF Busy
  <2> QED BY <2>1
<1>2. CASE NumFiles # 1
  BY <1>2, QuietInline DEF Serial
<1> QED BY <1>1, <1>2

-----------------------------------------------------------------------------
\* fail() and dispose() let go of the hasher and the sink.
LEMMA ReleaseData ==
  ASSUME DataInv, FramesTyped', CallsTyped',
         finished' = TRUE, hashers' = Aborted(hashers, hasher), hasher' = None,
         sinks' = Discarded(sinks, sink), sink' = None,
         UNCHANGED <<meta, chunkSize, nextIndex, chains, chain, saved>>,
         \A f \in Files : \/ call'[f] = call[f]
                          \/ call'[f].at = "done" /\ meta # None
  PROVE  DataInv'
<1>2. /\ hashers' \in Seq(HasherRec) /\ Len(hashers') = Len(hashers) /\ Len(hashers) \in Nat
      /\ \A k \in 1 .. Len(hashers) :
           /\ hashers'[k].data = hashers[k].data
           /\ hashers'[k].inWorker = hashers[k].inWorker
           /\ hashers'[k].state = IF k = hasher /\ hashers[hasher].inWorker THEN "aborted"
                                  ELSE hashers[k].state
  BY AbortedFacts, LenProperties DEF DataInv, HashersTyped
<1>3. /\ sinks' \in Seq(SinkRec) /\ Len(sinks') = Len(sinks) /\ Len(sinks) \in Nat
      /\ \A k \in 1 .. Len(sinks) :
           /\ sinks'[k].disk = sinks[k].disk
           /\ sinks'[k].file = sinks[k].file
           /\ k # sink => sinks'[k] = sinks[k]
           /\ sinks'[k].stream = "saved" => sinks[k].stream = "saved"
  BY DiscardedFacts, LenProperties DEF DataInv, SinksTyped
<1>4. Links' = Links /\ AtOpening' = AtOpening /\ Contiguous' = Contiguous
  BY DEF Links, AtOpening, Contiguous, Total
<1>5. \A f \in Files : call'[f].at # "done" => call'[f] = call[f]
  OBVIOUS
<1>6. ChainsTyped' /\ SavedWhole'
  BY DEF DataInv, ChainsTyped, SavedWhole
<1>7. HashersTyped'
  BY <1>2 DEF DataInv, HashersTyped, None
<1>8. SinksTyped'
  BY <1>3 DEF DataInv, SinksTyped, None
<1>9. Agree' /\ StillOpen'
  BY DEF Agree, StillOpen
<1>10. Flushing' /\ OneBusy'
  BY <1>4, <1>5 DEF DataInv, Flushing, OneBusy, Busy
<1>11. Digesting'
  <2> SUFFICES ASSUME NEW g \in Files, call'[g].at = "digest"
               PROVE  /\ chain' # None /\ Links' = <<>> /\ (NumFiles = 1 => Contiguous')
                      /\ call'[g].hasher \in 1 .. Len(hashers')
                      /\ hashers'[call'[g].hasher].state # "open"
                      /\ ~HashInWorker => hashers'[call'[g].hasher].state = "answered"
    BY DEF Digesting
  <2>1. call'[g] = call[g]
    BY <1>5
  <2>2. /\ chain # None /\ Links = <<>> /\ (NumFiles = 1 => Contiguous)
        /\ call[g].hasher \in 1 .. Len(hashers)
        /\ hashers[call[g].hasher].state # "open"
        /\ ~HashInWorker => hashers[call[g].hasher].state = "answered"
    BY <2>1 DEF DataInv, Digesting
  <2>3. hashers[call[g].hasher].inWorker => HashInWorker
    BY <2>2 DEF DataInv, HashersTyped
  <2> QED BY <1>2, <1>4, <2>1, <2>2, <2>3
<1>12. Finishing'
  <2>1. Ending' => Ending
    BY <1>3, <1>5 DEF Ending
  <2>2. CASE Ending
    <3>1. sinks' = sinks
      BY <2>2 DEF DataInv, Finishing, Discarded
    <3> QED BY <1>4, <1>5, <2>1, <3>1 DEF DataInv, Finishing
  <2>3. CASE ~Ending
    BY <2>1, <2>3 DEF Finishing, Ending
  <2> QED BY <2>2, <2>3
<1>13. Begun'
  BY <1>5 DEF DataInv, Begun, Total
<1> QED BY <1>6, <1>7, <1>8, <1>9, <1>10, <1>11, <1>12, <1>13 DEF DataInv

\* fail()
LEMMA FailData ==
  ASSUME DataInv, NEW f \in Files, meta # None, Fail(f)
  PROVE  DataInv'
<1>1. /\ finished' = TRUE /\ hashers' = Aborted(hashers, hasher) /\ hasher' = None
      /\ sinks' = Discarded(sinks, sink) /\ sink' = None
      /\ call' = [call EXCEPT ![f].at = "done"]
      /\ UNCHANGED <<meta, chunkSize, nextIndex, early, reorder, chains, chain, saved>>
  BY DEF Fail, fileVars, chainVars
<1>2. CallsTyped' /\ call'[f].at = "done" /\ \A g \in Files \ {f} : call'[g] = call[g]
  BY <1>1 DEF DataInv, CallsTyped, CallRec
<1>3. FramesTyped'
  BY <1>1 DEF DataInv, FramesTyped
<1>4. \A g \in Files : \/ call'[g] = call[g]
                       \/ call'[g].at = "done" /\ meta # None
  BY <1>2
<1>5. CallsTyped' /\ UNCHANGED <<meta, chunkSize, nextIndex, chains, chain, saved>>
  BY <1>1, <1>2
<1> HIDE DEF CallsTyped, FramesTyped, DataInv
<1> QED BY <1>1, <1>3, <1>4, <1>5, ReleaseData

\* cancel()
LEMMA DisposeData ==
  ASSUME DataInv, Dispose
  PROVE  DataInv'
<1>1. /\ finished' = TRUE /\ hashers' = Aborted(hashers, hasher) /\ hasher' = None
      /\ sinks' = Discarded(sinks, sink) /\ sink' = None
      /\ reorder' = <<>> /\ early' = <<>>
      /\ UNCHANGED <<meta, chunkSize, nextIndex, chains, chain, saved, call>>
  BY DEF Dispose, chainVars
<1>2. DOMAIN <<>> = {}
  OBVIOUS
<1>3. FramesTyped' /\ CallsTyped'
  BY <1>1, <1>2 DEF DataInv, FramesTyped, CallsTyped
<1>4. \A g \in Files : \/ call'[g] = call[g]
                       \/ call'[g].at = "done" /\ meta # None
  BY <1>1
<1>5. UNCHANGED <<meta, chunkSize, nextIndex, chains, chain, saved>>
  BY <1>1
<1> QED BY <1>1, <1>3, <1>4, <1>5, ReleaseData

\* finishCurrentFile() past the wait for stragglers
LEMMA VerifyData ==
  ASSUME DataInv, NEW f \in Files, NEW total \in Nat, meta # None, Verify(f, total),
         \A g \in Files : ~Busy(g),
         NumFiles = 1 => total = Total(meta, chunkSize)
  PROVE  DataInv'
<1>1. CASE Fail(f)
  BY <1>1, FailData
<1>2. CASE ~Fail(f)
  <2> DEFINE r == [at |-> "flush", total |-> total, chain |-> chain,
                   upTo |-> chains[chain].done + Len(chains[chain].links),
                   hasher |-> None, sink |-> None]
  <2>1. /\ nextIndex >= total /\ finished' = TRUE /\ call' = [call EXCEPT ![f] = r]
        /\ UNCHANGED <<meta, chunkSize, nextIndex, early, reorder, hashers, hasher, sinks,
                       sink, chains, chain, writeError, saved>>
    BY <1>2 DEF Verify, fileVars, hashVars, sinkVars, chainVars, uiVars
  <2>2. chain # None /\ chain \in 1 .. Len(chains) /\ Links = chains[chain].links
        /\ chains[chain].done \in Nat /\ Len(Links) \in Nat /\ chain \in Nat
    BY LinksTyped DEF DataInv, ChainsTyped
  <2>3. r.upTo = chains[chain].done + Len(Links) /\ r.upTo \in Nat
    <3> DEFINE d == chains[chain].done
               n == Len(Links)
    <3>1. d \in Nat /\ n \in Nat /\ r.upTo = d + n
      BY <2>2
    <3> HIDE DEF d, n, r
    <3>2. r.upTo \in Nat
      BY <3>1
    <3> QED BY <3>1, <3>2 DEF d, n
  <2>4. r \in CallRec /\ r.at = "flush" /\ r.chain = chain /\ r.total = total
    BY <2>2, <2>3 DEF CallRec, None
  <2> HIDE DEF r
  <2>5. CallsTyped' /\ call'[f] = r /\ \A g \in Files \ {f} : call'[g] = call[g]
    BY <2>1, <2>4 DEF DataInv, CallsTyped
  <2>6. Links' = Links /\ AtOpening' = AtOpening /\ Contiguous' = Contiguous
    BY <2>1 DEF Links, AtOpening, Contiguous, Total
  <2>7. FramesTyped' /\ HashersTyped' /\ SinksTyped' /\ ChainsTyped' /\ SavedWhole'
    BY <2>1 DEF DataInv, FramesTyped, HashersTyped, SinksTyped, ChainsTyped, SavedWhole
  <2>8. Agree'
    BY <2>1, <2>6 DEF DataInv, Agree
  <2>9. NumFiles = 1 => Contiguous
    BY <2>1 DEF Contiguous
  <2>10. Flushing' /\ OneBusy' /\ Digesting'
    BY <2>1, <2>2, <2>3, <2>4, <2>5, <2>6, <2>9 DEF Flushing, OneBusy, Digesting, Busy
  <2>11. StillOpen'
    BY <2>1 DEF DataInv, StillOpen, Busy
  <2>12. Finishing'
    <3>1. Ending' => Ending
      BY <2>1, <2>4, <2>5 DEF Ending
    <3> QED BY <2>1, <2>4, <2>5, <2>6, <3>1 DEF DataInv, Finishing
  <2>13. Begun'
    BY <2>1, <2>4, <2>5 DEF DataInv, Begun, Total
  <2> QED BY <2>5, <2>7, <2>8, <2>10, <2>11, <2>12, <2>13 DEF DataInv
<1> QED BY <1>1, <1>2

\* A step that leaves alone what the invariant is about.
LEMMA DataKept ==
  ASSUME DataInv, FramesTyped',
         UNCHANGED <<meta, chunkSize, nextIndex, finished, hashers, hasher, sinks, sink,
                     chains, chain, writeError, call, saved>>
  PROVE  DataInv'
<1>1. Links' = Links /\ AtOpening' = AtOpening /\ Contiguous' = Contiguous
  BY DEF Links, AtOpening, Contiguous, Total
<1>2. HashersTyped' /\ SinksTyped' /\ ChainsTyped' /\ SavedWhole' /\ CallsTyped'
  BY DEF DataInv, HashersTyped, SinksTyped, ChainsTyped, SavedWhole, CallsTyped
<1>3. Agree' /\ Flushing' /\ OneBusy' /\ StillOpen' /\ Digesting'
  BY <1>1 DEF DataInv, Agree, Flushing, OneBusy, StillOpen, Digesting, Busy
<1>4. Finishing' /\ Begun'
  BY <1>1 DEF DataInv, Finishing, Ending, Begun, Total
<1> QED BY <1>2, <1>3, <1>4 DEF DataInv

\* beginFile() for another file
LEMMA BeginFileData ==
  ASSUME Progress, DataInv, Serial, Quiet, NEW f \in Files, NEW c \in ChunkSizes,
         meta # f, BeginFile(f, c)
  PROVE  DataInv'
<1> DEFINE a == Accept(0, <<>>, early, Total(f, c))
           n == Len(chains) + 1
           l == <<OpenLink(f)>> \o Writes(a.run)
           r == [done |-> 0, links |-> l]
           fresh == Fresh(HashInWorker /\ worker)
           hs == Append(Aborted(hashers, hasher), fresh)
           h == Len(hashers) + 1
<1>1. /\ meta' = f /\ chunkSize' = c /\ nextIndex' = a.next /\ reorder' = a.rest
      /\ early' = <<>> /\ hasher' = h /\ hashers' = Fed(hs, h, a.run)
      /\ chain' = n /\ chains' = Append(chains, r) /\ finished' = FALSE /\ writeError' = FALSE
      /\ UNCHANGED <<sinks, sink, call, saved>>
  BY DEF BeginFile, sinkVars
<1>2. /\ \A k \in 1 .. Len(chains) : chains[k].links = <<>>
      /\ \A g \in Files : ~Busy(g)
      /\ ~Ending
      /\ NumFiles = 1 => meta = None
  BY QuietBegin DEF Progress
<1>3. f # None /\ Total(f, c) \in Nat /\ f \in Files \cup {None}
  BY FileFacts
<1>4. /\ a.run \in Seq(Parts) /\ \A i \in DOMAIN a.rest : a.rest[i] \in Parts
  <2>1. DOMAIN <<>> = {} /\ IsFiniteSet(DOMAIN <<>>)
    BY FS_EmptySet
  <2>2. /\ IsFiniteSet(DOMAIN early) /\ DOMAIN early \subseteq Nat
        /\ \A i \in DOMAIN early : early[i] \in Parts
    BY DEF Progress, DataInv, FramesTyped
  <2>3. 0 <= Total(f, c)
    BY <1>3
  <2> QED BY <1>3, <2>1, <2>2, <2>3, AcceptData
<1> HIDE DEF a
<1>5. /\ Writes(a.run) \in Seq(LinkRec) /\ Len(Writes(a.run)) = Len(a.run)
      /\ \A k \in 1 .. Len(a.run) : Writes(a.run)[k].at = "queued"
      /\ BytesOf(Writes(a.run)) = a.run
  BY <1>4, WritesFacts
<1>6. OpenLink(f) \in LinkRec /\ OpenLink(f).at = "opening"
  BY DEF OpenLink, LinkRec, Parts, None
<1>7. /\ l \in Seq(LinkRec) /\ Len(l) = 1 + Len(Writes(a.run)) /\ l[1] = OpenLink(f)
      /\ \A k \in 2 .. Len(l) : l[k] = Writes(a.run)[k - 1]
      /\ Tail(l) = Writes(a.run) /\ l # <<>>
  <2> DEFINE w == Writes(a.run)
             o == OpenLink(f)
  <2>1. w \in Seq(LinkRec) /\ o \in LinkRec /\ l = <<o>> \o w
    BY <1>5, <1>6
  <2> HIDE DEF w, o, l
  <2>2. <<o>> \in Seq(LinkRec) /\ Len(<<o>>) = 1 /\ <<o>>[1] = o /\ Len(w) \in Nat
    BY <2>1, LenProperties
  <2>3. /\ l \in Seq(LinkRec) /\ Len(l) = 1 + Len(w)
        /\ \A i \in 1 .. 1 + Len(w) : l[i] = IF i <= 1 THEN <<o>>[i] ELSE w[i - 1]
    BY <2>1, <2>2, ConcatProperties
  <2>4. l # <<>>
    BY <2>2, <2>3, EmptySeq
  <2>5. /\ Tail(l) \in Seq(LinkRec) /\ Len(Tail(l)) = Len(l) - 1
        /\ \A i \in 1 .. Len(Tail(l)) : Tail(l)[i] = l[i + 1]
    BY <2>3, <2>4, HeadTailProperties
  <2>6. Tail(l) = w
    <3>1. Len(Tail(l)) = Len(w)
      BY <2>2, <2>3, <2>5
    <3>2. \A i \in 1 .. Len(w) : Tail(l)[i] = w[i]
      BY <2>2, <2>3, <2>5, <3>1
    <3> QED BY <2>1, <2>5, <3>1, <3>2, SeqEqual
  <2>7. l[1] = o /\ \A k \in 2 .. Len(l) : l[k] = w[k - 1]
    BY <2>2, <2>3
  <2> QED BY <2>3, <2>4, <2>6, <2>7 DEF w, o
<1>8. r \in ChainRec /\ r.links = l
  BY <1>7 DEF ChainRec
<1>9. /\ Len(chains) \in Nat /\ n # None
      /\ chains' \in Seq(ChainRec) /\ Len(chains') = n
      /\ \A k \in 1 .. Len(chains) : chains'[k] = chains[k]
      /\ chains'[n] = r
  <2>1. Len(chains) \in Nat /\ chains \in Seq(ChainRec)
    BY LinksTyped DEF DataInv, ChainsTyped
  <2> HIDE DEF r
  <2> QED BY <1>1, <1>8, <2>1, AppendProperties DEF None
<1>10. Links' = l /\ AtOpening'
  <2>1. Links' = l
    <3> HIDE DEF l, n
    <3> QED BY <1>1, <1>9 DEF Links
  <2> QED BY <1>6, <1>7, <2>1 DEF AtOpening
<1>11. /\ hs \in Seq(HasherRec) /\ Len(hs) = h /\ h \in 1 .. Len(hs)
       /\ hs[h].data = <<>> /\ hs[h].state = "open" /\ Len(hashers) \in Nat
       /\ \A k \in 1 .. Len(hs) : hs[k].inWorker => HashInWorker
  <2>1. /\ Aborted(hashers, hasher) \in Seq(HasherRec) /\ Len(hashers) \in Nat
        /\ Len(Aborted(hashers, hasher)) = Len(hashers)
        /\ \A k \in 1 .. Len(hashers) : Aborted(hashers, hasher)[k].inWorker => HashInWorker
    <3>1. hashers \in Seq(HasherRec) /\ hasher \in 0 .. Len(hashers)
      BY DEF DataInv, HashersTyped
    <3>2. /\ Aborted(hashers, hasher) \in Seq(HasherRec)
          /\ Len(Aborted(hashers, hasher)) = Len(hashers)
          /\ \A k \in 1 .. Len(hashers) :
               Aborted(hashers, hasher)[k].inWorker = hashers[k].inWorker
      BY <3>1, AbortedFacts
    <3> QED BY <3>1, <3>2, LenProperties DEF DataInv, HashersTyped
  <2>2. fresh \in HasherRec /\ fresh.data = <<>> /\ fresh.state = "open"
        /\ fresh.inWorker = (HashInWorker /\ worker)
    <3>1. (HashInWorker /\ worker) \in BOOLEAN
      OBVIOUS
    <3> QED BY <3>1, EmptySeq DEF Fresh, HasherRec
  <2> HIDE DEF fresh
  <2> DEFINE old == Aborted(hashers, hasher)
  <2>3. old \in Seq(HasherRec) /\ Len(old) = Len(hashers)
    BY <2>1
  <2> HIDE DEF old
  <2>4. /\ Append(old, fresh) \in Seq(HasherRec) /\ Len(Append(old, fresh)) = Len(old) + 1
        /\ \A i \in 1 .. Len(old) : Append(old, fresh)[i] = old[i]
        /\ Append(old, fresh)[Len(old) + 1] = fresh
    BY <2>2, <2>3, AppendProperties
  <2>5. hs = Append(old, fresh)
    BY DEF old
  <2>6. hs[h] = fresh /\ Len(hs) = h /\ h \in 1 .. h /\ hs \in Seq(HasherRec)
    BY <2>1, <2>3, <2>4, <2>5
  <2>7. ASSUME NEW k \in 1 .. Len(hs), hs[k].inWorker
        PROVE  HashInWorker
    <3>1. CASE k = h
      BY <2>2, <2>6, <2>7, <3>1
    <3>2. CASE k # h
      <4>1. k \in 1 .. Len(hashers)
        BY <2>1, <2>6, <3>2
      <4>2. hs[k] = Aborted(hashers, hasher)[k]
        BY <2>3, <2>4, <2>5, <4>1 DEF old
      <4> QED BY <2>1, <2>7, <4>1, <4>2
    <3> QED BY <3>1, <3>2
  <2> QED BY <2>1, <2>2, <2>6, <2>7
<1> HIDE DEF hs, fresh, l, r, h, n
<1>12. /\ hashers' \in Seq(HasherRec) /\ Len(hashers') = h
       /\ hashers'[h].data = a.run /\ hashers'[h].state = "open"
       /\ \A k \in 1 .. h : hashers'[k].inWorker => HashInWorker
  <2>1. /\ hashers' \in Seq(HasherRec) /\ Len(hashers') = Len(hs)
        /\ hashers'[h].data = <<>> \o a.run /\ hashers'[h].state = "open"
        /\ \A k \in 1 .. Len(hs) : hashers'[k].inWorker = hs[k].inWorker
    <3>1. h \in 0 .. Len(hs)
      BY <1>11
    <3> DEFINE run == a.run
    <3>2. run \in Seq(Parts)
      BY <1>4
    <3> HIDE DEF run
    <3>3. /\ Fed(hs, h, run) \in Seq(HasherRec) /\ Len(Fed(hs, h, run)) = Len(hs)
          /\ \A k \in 1 .. Len(hs) :
               /\ Fed(hs, h, run)[k].state = hs[k].state
               /\ Fed(hs, h, run)[k].inWorker = hs[k].inWorker
               /\ Fed(hs, h, run)[k].data =
                    IF k = h /\ hs[h].state = "open" THEN hs[h].data \o run ELSE hs[k].data
      BY <1>11, <3>1, <3>2, FedFacts
    <3> QED BY <1>1, <1>11, <3>3 DEF run
  <2>2. <<>> \o a.run = a.run
    BY <1>4, ConcatEmptySeq
  <2> QED BY <1>11, <2>1, <2>2
<1>13. FramesTyped' /\ CallsTyped' /\ SavedWhole'
  BY <1>1, <1>4 DEF DataInv, FramesTyped, CallsTyped, SavedWhole
<1>14. HashersTyped'
  <2>1. h \in 0 .. h
    BY <1>11
  <2> QED BY <1>1, <1>12, <2>1 DEF HashersTyped
<1>15. SinksTyped'
  BY <1>1 DEF DataInv, SinksTyped
<1>16. ChainsTyped'
  <2>1. n \in 0 .. n /\ n = Len(chains) + 1 /\ f # None
    BY <1>3, <1>9 DEF n
  <2>2. \A k \in 2 .. Len(l) : l[k].at = "queued"
    <3>1. Len(Writes(a.run)) = Len(a.run) /\ Len(a.run) \in Nat
      BY <1>4, <1>5, LenProperties
    <3> QED BY <1>5, <1>7, <3>1
  <2>3. ASSUME NEW k \in 1 .. n
        PROVE  /\ chains'[k].links # <<>> => k = chain'
               /\ \A i \in 2 .. Len(chains'[k].links) : chains'[k].links[i].at = "queued"
               /\ chains'[k].links # <<>> /\ ~ToFolder =>
                    chains'[k].links[1].at \in {"opening", "queued"}
    <3>1. CASE k = n
      BY <1>1, <1>6, <1>7, <1>8, <1>9, <2>2, <3>1
    <3>2. CASE k # n
      <4>1. k \in 1 .. Len(chains)
        BY <1>9, <2>1, <3>2
      <4>2. chains'[k].links = <<>>
        BY <1>2, <1>9, <4>1
      <4>3. \A i \in 2 .. Len(<<>>) : FALSE
        OBVIOUS
      <4> QED BY <4>2, <4>3
    <3> QED BY <3>1, <3>2
  <2> QED BY <1>1, <1>9, <2>1, <2>3 DEF ChainsTyped
<1>17. Agree'
  BY <1>1, <1>5, <1>7, <1>10, <1>12 DEF Agree
<1>18. Flushing' /\ OneBusy' /\ Digesting'
  BY <1>1, <1>2 DEF Flushing, OneBusy, Digesting, Busy
<1>19. StillOpen'
  BY <1>1, <1>12 DEF StillOpen
<1>20. Finishing'
  <2>1. ~Ending'
    BY <1>1, <1>2 DEF Ending
  <2> QED BY <2>1 DEF Finishing, Ending
<1>21. Begun'
  BY <1>1, <1>2, <1>3 DEF DataInv, Begun
<1> QED BY <1>13, <1>14, <1>15, <1>16, <1>17, <1>18, <1>19, <1>20, <1>21 DEF DataInv

\* The rest of a list that more was added to.
LEMMA TailConcat ==
  ASSUME NEW S, NEW s \in Seq(S), NEW t \in Seq(S), s # <<>>
  PROVE  Tail(s \o t) = Tail(s) \o t
<1>1. /\ Tail(s) \in Seq(S) /\ Len(Tail(s)) = Len(s) - 1
      /\ \A i \in 1 .. Len(Tail(s)) : Tail(s)[i] = s[i + 1]
      /\ Len(s) \in Nat \ {0} /\ Len(t) \in Nat
  BY HeadTailProperties, EmptySeq, LenProperties
<1> DEFINE u == s \o t
           x == Tail(s)
<1>2. /\ u \in Seq(S) /\ Len(u) = Len(s) + Len(t)
      /\ \A i \in 1 .. Len(s) + Len(t) : u[i] = IF i <= Len(s) THEN s[i] ELSE t[i - Len(s)]
  BY ConcatProperties
<1>3. u # <<>>
  BY <1>1, <1>2, EmptySeq
<1> HIDE DEF u, x
<1>4. /\ Tail(u) \in Seq(S) /\ Len(Tail(u)) = Len(u) - 1
      /\ \A i \in 1 .. Len(Tail(u)) : Tail(u)[i] = u[i + 1]
  BY <1>2, <1>3, HeadTailProperties
<1>5. x \in Seq(S) /\ Len(x) = Len(s) - 1 /\ \A i \in 1 .. Len(s) - 1 : x[i] = s[i + 1]
  BY <1>1 DEF x
<1>6. /\ x \o t \in Seq(S) /\ Len(x \o t) = Len(x) + Len(t)
      /\ \A i \in 1 .. Len(x) + Len(t) : (x \o t)[i] = IF i <= Len(x) THEN x[i] ELSE t[i - Len(x)]
  BY <1>5, ConcatProperties
<1>7. Len(Tail(u)) = Len(x \o t) /\ Len(x \o t) = Len(s) + Len(t) - 1
  BY <1>1, <1>2, <1>4, <1>5, <1>6
<1>8. ASSUME NEW i \in 1 .. Len(Tail(u))
      PROVE  Tail(u)[i] = (x \o t)[i]
  <2>1. Tail(u)[i] = u[i + 1] /\ i + 1 \in 1 .. Len(s) + Len(t) /\ i \in 1 .. Len(x) + Len(t)
    BY <1>1, <1>2, <1>4, <1>5
  <2>2. CASE i <= Len(x)
    BY <1>1, <1>2, <1>5, <1>6, <2>1, <2>2
  <2>3. CASE ~(i <= Len(x))
    <3>1. u[i + 1] = t[i + 1 - Len(s)] /\ (x \o t)[i] = t[i - Len(x)] /\ i + 1 - Len(s) = i - Len(x)
      BY <1>1, <1>2, <1>5, <1>6, <2>1, <2>3
    <3> QED BY <2>1, <3>1
  <2> QED BY <2>2, <2>3
<1> QED BY <1>4, <1>6, <1>7, <1>8, SeqEqual DEF u, x

\* More links queued behind those of a chain.
LEMMA QueueFacts ==
  ASSUME NEW s \in Seq(LinkRec), NEW w \in Seq(LinkRec),
         \A k \in 2 .. Len(s) : s[k].at = "queued",
         \A k \in 1 .. Len(w) : w[k].at = "queued"
  PROVE  LET l == s \o w IN
           /\ l \in Seq(LinkRec) /\ BytesOf(l) = BytesOf(s) \o BytesOf(w)
           /\ \A k \in 2 .. Len(l) : l[k].at = "queued"
           /\ \/ s # <<>> /\ l # <<>> /\ l[1] = s[1]
              \/ s = <<>> /\ (l # <<>> => l[1].at = "queued")
<1> DEFINE l == s \o w
<1>1. Len(s) \in Nat /\ Len(w) \in Nat /\ (s # <<>> => Len(s) > 0)
  BY LenProperties, EmptySeq
<1>2. /\ l \in Seq(LinkRec) /\ Len(l) = Len(s) + Len(w)
      /\ \A k \in 1 .. Len(s) + Len(w) : l[k] = IF k <= Len(s) THEN s[k] ELSE w[k - Len(s)]
  BY ConcatProperties
<1>3. BytesOf(l) = BytesOf(s) \o BytesOf(w)
  BY BytesOfConcat
<1> HIDE DEF l
<1>4. ASSUME NEW k \in 2 .. Len(l)
      PROVE  l[k].at = "queued"
  <2>1. k \in 1 .. Len(s) + Len(w)
    BY <1>1, <1>2
  <2>2. CASE k <= Len(s)
    BY <1>1, <1>2, <2>1, <2>2
  <2>3. CASE ~(k <= Len(s))
    <3>1. k - Len(s) \in 1 .. Len(w) /\ l[k] = w[k - Len(s)]
      BY <1>1, <1>2, <2>1, <2>3
    <3> QED BY <3>1
  <2> QED BY <2>2, <2>3
<1>5. CASE s # <<>>
  <2>1. Len(l) # 0 /\ l[1] = s[1]
    BY <1>1, <1>2, <1>5
  <2>2. l # <<>>
    BY <2>1, EmptySeq
  <2> QED BY <1>2, <1>3, <1>4, <1>5, <2>1, <2>2 DEF l
<1>6. CASE s = <<>>
  <2>1. l = w
    BY <1>6, ConcatEmptySeq DEF l
  <2>2. w # <<>> => w[1].at = "queued"
    <3>1. w # <<>> => 1 \in 1 .. Len(w)
      BY <1>1, EmptySeq
    <3> QED BY <3>1
  <2> QED BY <1>2, <1>3, <1>4, <1>6, <2>1, <2>2 DEF l
<1> QED BY <1>5, <1>6

\* Runs of chunks, one after the other.
LEMMA PartsConcat ==
  ASSUME NEW x \in Seq(Parts), NEW y \in Seq(Parts), NEW z \in Seq(Parts)
  PROVE  (x \o y) \o z = x \o (y \o z)
BY ConcatAssociative

\* A chunk of the current file is accepted.
LEMMA AcceptStep ==
  ASSUME Progress, DataInv, Serial, Quiet, NEW i \in Nat, NEW b \in Parts,
         meta # None, i < Total(meta, chunkSize), OnChunk(i, b)
  PROVE  DataInv'
<1> DEFINE frames == [k \in {i} |-> b]
           a == Accept(nextIndex, reorder, frames, Total(meta, chunkSize))
<1>0. /\ meta \in Files /\ chunkSize \in ChunkSizes /\ Total(meta, chunkSize) \in Nat
      /\ nextIndex \in Nat /\ nextIndex <= Total(meta, chunkSize)
      /\ IsFiniteSet(DOMAIN reorder)
      /\ \A k \in DOMAIN reorder :
           k \in Nat /\ nextIndex <= k /\ k < Total(meta, chunkSize)
  BY FileFacts DEF Progress
<1>1. /\ nextIndex' = a.next /\ reorder' = a.rest
      /\ hashers' = Fed(hashers, hasher, a.run)
      /\ chains' = [chains EXCEPT ![chain].links = @ \o Writes(a.run)]
      /\ UNCHANGED <<meta, chunkSize, early, finished, hasher, sinks, sink, chain,
                     writeError, call, saved>>
  <2>1. ~(i >= Total(meta, chunkSize))
    BY <1>0
  <2> QED BY <2>1 DEF OnChunk, sinkVars, uiVars
<1>2. IsFiniteSet(DOMAIN frames) /\ DOMAIN frames \subseteq Nat
      /\ \A k \in DOMAIN frames : frames[k] \in Parts
  BY FS_Singleton
<1> HIDE DEF frames
<1>3. \A k \in DOMAIN reorder : reorder[k] \in Parts
  BY DEF DataInv, FramesTyped
<1>4. /\ a.run \in Seq(Parts)
      /\ nextIndex = Total(meta, chunkSize) => a.run = <<>>
      /\ \A k \in DOMAIN a.rest : a.rest[k] \in Parts
      /\ nextIndex <= a.next
  BY <1>0, <1>2, <1>3, AcceptData
<1>5. a.next \in Nat
  BY <1>0, <1>2, AcceptFacts
<1> HIDE DEF a
<1> DEFINE w == Writes(a.run)
<1>6. /\ w \in Seq(LinkRec) /\ Len(w) = Len(a.run) /\ Len(a.run) \in Nat
      /\ \A k \in 1 .. Len(w) : w[k].at = "queued"
      /\ BytesOf(w) = a.run /\ (a.run = <<>> => w = <<>>)
  BY <1>4, WritesFacts, LenProperties
<1> HIDE DEF w
<1>7. /\ chain # None /\ chain \in 1 .. Len(chains) /\ Links = chains[chain].links
      /\ Links \in Seq(LinkRec) /\ chains[chain].done \in Nat
      /\ \A k \in 2 .. Len(Links) : Links[k].at = "queued"
      /\ Len(Links) \in Nat
  BY LinksTyped DEF DataInv, ChainsTyped
<1> DEFINE l == Links \o w
           d == chains[chain].done
<1>8. /\ l \in Seq(LinkRec) /\ BytesOf(l) = BytesOf(Links) \o BytesOf(w)
      /\ \A k \in 2 .. Len(l) : l[k].at = "queued"
      /\ \/ Links # <<>> /\ l # <<>> /\ l[1] = Links[1]
         \/ Links = <<>> /\ (l # <<>> => l[1].at = "queued")
  BY <1>6, <1>7, QueueFacts
<1>9. chains' = [chains EXCEPT ![chain] = [done |-> d, links |-> l]]
  <2>1. chains[chain] \in ChainRec
    BY <1>7, ElementOfSeq DEF DataInv, ChainsTyped
  <2>2. [chains[chain] EXCEPT !.links = l] = [done |-> d, links |-> l]
    <3> HIDE DEF l
    <3> QED BY <2>1 DEF ChainRec
  <2> QED BY <1>1, <1>7, <2>2 DEF w
<1>12. l # <<>> /\ ~ToFolder => l[1].at \in {"opening", "queued"}
  BY <1>7, <1>8 DEF DataInv, ChainsTyped
<1> HIDE DEF l, d
<1>13. ChainsTyped' /\ Links' = l /\ chains'[chain].done = d
  <2>1. d \in Nat
    BY <1>7 DEF d
  <2> QED BY <1>1, <1>7, <1>8, <1>9, <1>12, <2>1, ChainChanged DEF DataInv
<1>14. AtOpening' = AtOpening
  BY <1>8, <1>13 DEF AtOpening
<1>15. /\ hashers' \in Seq(HasherRec) /\ Len(hashers') = Len(hashers)
       /\ \A k \in 1 .. Len(hashers) :
            /\ hashers'[k].state = hashers[k].state
            /\ hashers'[k].inWorker = hashers[k].inWorker
            /\ hashers'[k].data =
                 IF k = hasher /\ hashers[hasher].state = "open"
                 THEN hashers[hasher].data \o a.run ELSE hashers[k].data
  BY <1>1, <1>4, FedFacts DEF DataInv, HashersTyped
<1>16. FramesTyped' /\ CallsTyped' /\ SavedWhole' /\ SinksTyped'
  BY <1>1, <1>4 DEF DataInv, FramesTyped, CallsTyped, SavedWhole, SinksTyped
<1>17. HashersTyped'
  BY <1>1, <1>15 DEF DataInv, HashersTyped
<1>18. Contiguous => Contiguous' /\ a.run = <<>>
  BY <1>0, <1>1, <1>4, <1>5 DEF Contiguous, Total
<1>19. a.run = <<>> => Links' = Links
  BY <1>6, <1>7, <1>13, ConcatEmptySeq DEF l
<1>20. Agree'
  <2> SUFFICES ASSUME hasher # None, ~writeError, hashers'[hasher].state = "open"
               PROVE  IF AtOpening THEN hashers'[hasher].data = BytesOf(Tail(l))
                      ELSE /\ sink # None
                           /\ hashers'[hasher].data = sinks[sink].data \o BytesOf(l)
                           /\ l # <<>> /\ l[1].at \in {"creating", "writing"} => l[1].to = sink
    BY <1>1, <1>13, <1>14 DEF Agree
  <2>1. hasher \in 1 .. Len(hashers)
    BY DEF DataInv, HashersTyped, None
  <2>2. hashers[hasher].state = "open" /\ hashers'[hasher].data = hashers[hasher].data \o a.run
    BY <1>15, <2>1
  <2>3. CASE AtOpening
    <3>1. Links # <<>> /\ hashers[hasher].data = BytesOf(Tail(Links))
      BY <2>2, <2>3 DEF DataInv, Agree, AtOpening
    <3>2. Tail(l) = Tail(Links) \o w
      BY <1>6, <1>7, <3>1, TailConcat DEF l
    <3>3. Tail(Links) \in Seq(LinkRec)
      BY <1>7, <3>1, HeadTailProperties
    <3>4. BytesOf(Tail(l)) = BytesOf(Tail(Links)) \o a.run
      BY <1>6, <3>2, <3>3, BytesOfConcat
    <3> QED BY <2>2, <2>3, <3>1, <3>4
  <2>4. CASE ~AtOpening
    <3>1. /\ sink # None
          /\ hashers[hasher].data = sinks[sink].data \o BytesOf(Links)
          /\ Links # <<>> /\ Links[1].at \in {"creating", "writing"} => Links[1].to = sink
      BY <2>2, <2>4 DEF DataInv, Agree
    <3>2. sinks[sink].data \in Seq(Parts)
      <4>1. sink \in 1 .. Len(sinks)
        BY <3>1 DEF DataInv, SinksTyped, None
      <4>2. sinks[sink] \in SinkRec
        BY <4>1, ElementOfSeq DEF DataInv, SinksTyped
      <4> QED BY <4>2 DEF SinkRec
    <3>3. hashers'[hasher].data = sinks[sink].data \o BytesOf(l)
      <4>1. BytesOf(Links) \in Seq(Parts)
        BY <1>7, BytesOfFacts
      <4>2. (sinks[sink].data \o BytesOf(Links)) \o a.run
              = sinks[sink].data \o (BytesOf(Links) \o a.run)
        <5> DEFINE x == sinks[sink].data
                   y == BytesOf(Links)
                   z == a.run
        <5>0. z \in Seq(Parts)
          BY <1>4
        <5>1. x \in Seq(Parts) /\ y \in Seq(Parts) /\ z \in Seq(Parts)
          <6> HIDE DEF z
          <6> QED BY <3>2, <4>1, <5>0
        <5> HIDE DEF x, y, z
        <5>2. (x \o y) \o z = x \o (y \o z)
          BY <5>1, PartsConcat
        <5> QED BY <5>2 DEF x, y, z
      <4> QED BY <1>6, <1>8, <2>2, <3>1, <4>2
    <3>4. l # <<>> /\ l[1].at \in {"creating", "writing"} => l[1].to = sink
      BY <1>8, <3>1
    <3> QED BY <2>4, <3>1, <3>3, <3>4
  <2> QED BY <2>3, <2>4
<1>21. ASSUME NEW f \in Files, call[f].at \in {"flush", "digest"}
       PROVE  NumFiles = 1 /\ Contiguous /\ Links' = Links /\ chains'[chain].done = chains[chain].done
  <2>1. NumFiles = 1
    BY <1>21, QuietInline DEF Serial, Busy
  <2>2. Contiguous
    BY <1>21, <2>1 DEF DataInv, Flushing, Digesting
  <2> QED BY <1>13, <1>18, <1>19, <2>1, <2>2 DEF d
<1>22. Flushing' /\ OneBusy'
  BY <1>1, <1>18, <1>21 DEF DataInv, Flushing, OneBusy, Busy
<1>23. StillOpen'
  <2>1. hasher # None => hasher \in 1 .. Len(hashers)
    BY DEF DataInv, HashersTyped, None
  <2> QED BY <1>1, <1>15, <2>1 DEF DataInv, StillOpen
<1>24. Digesting'
  <2> SUFFICES ASSUME NEW f \in Files, call[f].at = "digest"
               PROVE  /\ chain # None /\ Links' = <<>> /\ (NumFiles = 1 => Contiguous')
                      /\ call[f].hasher \in 1 .. Len(hashers)
                      /\ hashers'[call[f].hasher].state # "open"
                      /\ ~HashInWorker => hashers'[call[f].hasher].state = "answered"
                      /\ sink # None => hashers'[call[f].hasher].data = sinks[sink].data
    BY <1>1, <1>15 DEF Digesting
  <2>1. /\ chain # None /\ Links = <<>> /\ (NumFiles = 1 => Contiguous)
        /\ call[f].hasher \in 1 .. Len(hashers)
        /\ hashers[call[f].hasher].state # "open"
        /\ ~HashInWorker => hashers[call[f].hasher].state = "answered"
        /\ sink # None => hashers[call[f].hasher].data = sinks[sink].data
    BY DEF DataInv, Digesting
  <2>2. hashers'[call[f].hasher].data = hashers[call[f].hasher].data
    BY <1>15, <2>1
  <2> QED BY <1>15, <1>18, <1>21, <2>1, <2>2
<1>25. Finishing'
  <2>1. Ending' = Ending
    BY <1>1 DEF Ending
  <2>2. Ending => Contiguous' /\ Links' = Links
    BY <1>18, <1>19 DEF DataInv, Finishing
  <2> QED BY <1>1, <2>1, <2>2 DEF DataInv, Finishing
<1>26. Begun'
  BY <1>1 DEF DataInv, Begun, Total
<1> QED BY <1>13, <1>16, <1>17, <1>20, <1>22, <1>23, <1>24, <1>25, <1>26 DEF DataInv

\* finishCurrentFile() starts to wait for stragglers.
LEMMA PollData ==
  ASSUME DataInv, NEW f \in Files, meta = f, chunkSize \in ChunkSizes,
         \A g \in Files : ~Busy(g), NumFiles = 1 => ~finished,
         call' = [call EXCEPT ![f].at = "poll", ![f].total = Total(f, chunkSize)],
         UNCHANGED <<fileVars, finished, hashVars, sinkVars, chainVars, saved>>
  PROVE  DataInv'
<1> USE DEF fileVars, hashVars, sinkVars, chainVars
<1>1. Total(f, chunkSize) \in Nat /\ f # None
  BY FileFacts
<1>2. /\ CallsTyped' /\ call'[f].at = "poll" /\ call'[f].total = Total(f, chunkSize)
      /\ \A g \in Files \ {f} : call'[g] = call[g]
  BY <1>1 DEF DataInv, CallsTyped, CallRec
<1>3. Links' = Links /\ AtOpening' = AtOpening /\ Contiguous' = Contiguous
  BY DEF Links, AtOpening, Contiguous, Total
<1>4. FramesTyped' /\ HashersTyped' /\ SinksTyped' /\ ChainsTyped' /\ SavedWhole'
  BY DEF DataInv, FramesTyped, HashersTyped, SinksTyped, ChainsTyped, SavedWhole
<1>5. \A g \in Files : ~Busy(g)'
  BY <1>2 DEF Busy
<1>6. Flushing' /\ OneBusy' /\ Digesting'
  BY <1>5 DEF Flushing, OneBusy, Digesting, Busy
<1>7. Agree' /\ StillOpen'
  BY <1>3 DEF DataInv, Agree, StillOpen, Busy
<1>8. Finishing'
  <2>1. Ending' => Ending
    BY <1>2 DEF Ending
  <2> QED BY <1>2, <1>3, <2>1 DEF DataInv, Finishing
<1>9. Begun'
  BY <1>1, <1>2 DEF DataInv, Begun, Total
<1> QED BY <1>2, <1>4, <1>6, <1>7, <1>8, <1>9 DEF DataInv

\* The writes are done, the digest is asked for.
LEMMA AskDigestData ==
  ASSUME DataInv, NEW f \in Files, AskDigest(f)
  PROVE  DataInv'
<1>0. call[f].at = "flush" /\ meta # None
  BY DEF AskDigest, DataInv, Begun
<1>1. CASE Fail(f)
  BY <1>0, <1>1, FailData
<1>2. CASE ~Fail(f)
  <2>1. /\ ~writeError /\ hasher # None /\ Flushed(f)
        /\ call' = [g \in Files |->
               IF g = f THEN [call[f] EXCEPT !.at = "digest", !.hasher = hasher]
               ELSE IF hashers[hasher].inWorker /\ Asks(g, hasher)
               THEN [call[g] EXCEPT !.at = "overtaken"] ELSE call[g]]
        /\ hashers' = [hashers EXCEPT ![hasher].state =
               IF ~hashers[hasher].inWorker THEN "answered"
               ELSE IF worker THEN "asked" ELSE "lost"]
        /\ UNCHANGED <<fileVars, finished, hasher, sinkVars, chainVars, saved>>
    BY <1>2 DEF AskDigest, uiVars
  <2>2. hasher \in 1 .. Len(hashers) /\ hashers[hasher] \in HasherRec /\ Len(hashers) \in Nat
    BY <2>1, ElementOfSeq, LenProperties DEF DataInv, HashersTyped, None
  <2>3. \A g \in Files \ {f} : ~Busy(g)
    BY <1>0 DEF DataInv, OneBusy, Busy
  <2>4. /\ CallsTyped' /\ call'[f].at = "digest" /\ call'[f].hasher = hasher
        /\ \A g \in Files \ {f} : call'[g] = call[g]
    <3>1. \A g \in Files \ {f} : call'[g] = call[g]
      BY <2>1, <2>3 DEF Busy, Asks
    <3>2. call'[f] = [call[f] EXCEPT !.at = "digest", !.hasher = hasher]
      BY <2>1
    <3>3. call'[f] \in CallRec /\ call'[f].at = "digest" /\ call'[f].hasher = hasher
      <4>1. call[f] \in CallRec /\ hasher \in Nat
        BY <2>2 DEF DataInv, CallsTyped
      <4> QED BY <3>2, <4>1 DEF CallRec
    <3>4. \A g \in Files : call'[g] \in CallRec
      BY <3>1, <3>3 DEF DataInv, CallsTyped
    <3>5. call' \in [Files -> CallRec]
      <4> DEFINE e(g) == IF g = f THEN [call[f] EXCEPT !.at = "digest", !.hasher = hasher]
               ELSE IF hashers[hasher].inWorker /\ Asks(g, hasher)
               THEN [call[g] EXCEPT !.at = "overtaken"] ELSE call[g]
      <4>1. call' = [g \in Files |-> e(g)]
        BY <2>1
      <4> HIDE DEF e
      <4> QED BY <3>4, <4>1
    <3> QED BY <3>1, <3>3, <3>5 DEF CallsTyped
  <2>5. Links = <<>> /\ chain # None /\ (NumFiles = 1 => Contiguous)
    <3>1. /\ chain # None /\ call[f].chain = chain
          /\ call[f].upTo = chains[chain].done + Len(Links)
          /\ NumFiles = 1 => Contiguous
      BY <1>0 DEF DataInv, Flushing
    <3>2. Len(Links) \in Nat /\ Links \in Seq(LinkRec) /\ chains[chain].done \in Nat
      BY <3>1, LinksTyped DEF DataInv
    <3>3. chains[chain].done >= call[f].upTo
      BY <2>1, <3>1 DEF Flushed
    <3>4. Len(Links) = 0
      <4> DEFINE d == chains[chain].done
                 n == Len(Links)
                 u == call[f].upTo
      <4>1. d \in Nat /\ n \in Nat /\ u = d + n /\ d >= u
        BY <3>1, <3>2, <3>3
      <4> HIDE DEF d, n, u
      <4>2. n = 0
        BY <4>1
      <4> QED BY <4>2 DEF n
    <3> QED BY <3>1, <3>2, <3>4, EmptySeq
  <2>6. hashers[hasher].state = "open"
    <3>1. \A g \in Files : call[g].at # "digest"
      BY <1>0, <2>3 DEF Busy
    <3> QED BY <2>1, <3>1 DEF DataInv, StillOpen
  <2>7. sink # None /\ hashers[hasher].data = sinks[sink].data
    <3>1. sink # None /\ hashers[hasher].data = sinks[sink].data \o BytesOf(Links)
      BY <2>1, <2>5, <2>6 DEF DataInv, Agree, AtOpening
    <3>2. sinks[sink].data \in Seq(Parts)
      <4>1. sink \in 1 .. Len(sinks)
        BY <3>1 DEF DataInv, SinksTyped, None
      <4>2. sinks[sink] \in SinkRec
        BY <4>1, ElementOfSeq DEF DataInv, SinksTyped
      <4> QED BY <4>2 DEF SinkRec
    <3>3. BytesOf(Links) = <<>>
      BY <2>5, EmptySeq, BytesOfFacts
    <3> DEFINE x == sinks[sink].data
    <3>4. x \in Seq(Parts) /\ hashers[hasher].data = x \o <<>>
      BY <3>1, <3>2, <3>3
    <3> HIDE DEF x
    <3>5. hashers[hasher].data = x
      BY <3>4, ConcatEmptySeq
    <3> QED BY <3>1, <3>5 DEF x
  <2> DEFINE st == IF ~hashers[hasher].inWorker THEN "answered"
                   ELSE IF worker THEN "asked" ELSE "lost"
             r == [hashers[hasher] EXCEPT !.state = st]
  <2>8. /\ r \in HasherRec /\ r.state = st /\ r.data = hashers[hasher].data
        /\ r.inWorker = hashers[hasher].inWorker /\ st # "open"
        /\ ~HashInWorker => st = "answered"
    <3>1. st \in {"answered", "asked", "lost"}
      OBVIOUS
    <3>2. ~HashInWorker => st = "answered"
      BY <2>2 DEF DataInv, HashersTyped
    <3> HIDE DEF st
    <3> QED BY <2>2, <3>1, <3>2 DEF HasherRec
  <2> HIDE DEF st
  <2>9. /\ hashers' \in Seq(HasherRec) /\ Len(hashers') = Len(hashers)
        /\ \A k \in 1 .. Len(hashers) : hashers'[k] = IF k = hasher THEN r ELSE hashers[k]
    <3>1. hashers' = [hashers EXCEPT ![hasher] = r]
      BY <2>1 DEF st
    <3> HIDE DEF r
    <3>2. hashers \in Seq(HasherRec)
      BY DEF DataInv, HashersTyped
    <3>3. /\ [hashers EXCEPT ![hasher] = r] \in Seq(HasherRec)
          /\ Len([hashers EXCEPT ![hasher] = r]) = Len(hashers)
          /\ \A j \in 1 .. Len(hashers) :
               [hashers EXCEPT ![hasher] = r][j] = IF j = hasher THEN r ELSE hashers[j]
      BY <2>2, <2>8, <3>2, ExceptSeq
    <3> QED BY <3>1, <3>3
  <2> HIDE DEF r
  <2>10. /\ UNCHANGED <<meta, chunkSize, nextIndex, early, reorder, sinks, sink, chains,
                        chain, writeError>>
         /\ Links' = Links /\ Contiguous' = Contiguous
    BY <2>1 DEF fileVars, sinkVars, chainVars, Links, Contiguous, Total
  <2>11. FramesTyped' /\ SinksTyped' /\ ChainsTyped' /\ SavedWhole'
    BY <2>1, <2>10 DEF DataInv, FramesTyped, SinksTyped, ChainsTyped, SavedWhole
  <2>12. HashersTyped'
    <3>1. \A k \in 1 .. Len(hashers) : hashers'[k].inWorker => HashInWorker
      BY <2>2, <2>8, <2>9 DEF DataInv, HashersTyped
    <3> QED BY <2>1, <2>9, <3>1 DEF DataInv, HashersTyped
  <2>13. Agree' /\ StillOpen'
    BY <2>1, <2>2, <2>4, <2>8, <2>9 DEF Agree, StillOpen
  <2>14. Flushing' /\ OneBusy'
    BY <2>3, <2>4 DEF Flushing, OneBusy, Busy
  <2>15. Digesting'
    <3> SUFFICES ASSUME NEW g \in Files, call'[g].at = "digest"
                 PROVE  /\ chain' # None /\ Links' = <<>> /\ (NumFiles = 1 => Contiguous')
                        /\ call'[g].hasher \in 1 .. Len(hashers')
                        /\ hashers'[call'[g].hasher].state # "open"
                        /\ ~HashInWorker => hashers'[call'[g].hasher].state = "answered"
                        /\ sink' # None => hashers'[call'[g].hasher].data = sinks'[sink'].data
      BY DEF Digesting
    <3>1. g = f
      BY <2>3, <2>4 DEF Busy
    <3> QED BY <2>2, <2>4, <2>5, <2>7, <2>8, <2>9, <2>10, <3>1
  <2>16. Finishing'
    <3>1. Ending' => Ending
      BY <2>4, <2>10 DEF Ending
    <3> QED BY <2>4, <2>10, <3>1 DEF DataInv, Finishing
  <2>17. Begun'
    BY <1>0, <2>1, <2>4, <2>10 DEF DataInv, Begun, Total
  <2> QED BY <2>4, <2>11, <2>12, <2>13, <2>14, <2>15, <2>16, <2>17 DEF DataInv
<1> QED BY <1>1, <1>2

\* A question to the worker is answered or rejected.
LEMMA SettledData ==
  ASSUME DataInv, hashers' \in Seq(HasherRec), Len(hashers') = Len(hashers),
         \A k \in 1 .. Len(hashers) :
           \/ hashers'[k] = hashers[k]
           \/ /\ hashers'[k].data = hashers[k].data
              /\ hashers'[k].inWorker = hashers[k].inWorker
              /\ hashers[k].state = "asked"
              /\ hashers'[k].state \in {"answered", "rejected"},
         UNCHANGED <<fileVars, finished, hasher, sinkVars, chainVars, call, saved>>
  PROVE  DataInv'
<1> USE DEF fileVars, sinkVars, chainVars
<1>1. Links' = Links /\ AtOpening' = AtOpening /\ Contiguous' = Contiguous
  BY DEF Links, AtOpening, Contiguous, Total
<1>2. FramesTyped' /\ SinksTyped' /\ ChainsTyped' /\ SavedWhole' /\ CallsTyped'
  BY DEF DataInv, FramesTyped, SinksTyped, ChainsTyped, SavedWhole, CallsTyped
<1>3. HashersTyped'
  BY DEF DataInv, HashersTyped
<1>4. hasher # None => hasher \in 1 .. Len(hashers)
  BY DEF DataInv, HashersTyped, None
<1>5. Agree'
  <2> SUFFICES ASSUME hasher # None, ~writeError, hashers'[hasher].state = "open"
               PROVE  hashers'[hasher] = hashers[hasher]
    BY <1>1 DEF DataInv, Agree
  <2> QED BY <1>4
<1>6. StillOpen'
  BY <1>4 DEF DataInv, StillOpen
<1>7. Flushing' /\ OneBusy'
  BY <1>1 DEF DataInv, Flushing, OneBusy, Busy
<1>8. Digesting'
  <2> SUFFICES ASSUME NEW g \in Files, call[g].at = "digest"
               PROVE  /\ chain # None /\ Links = <<>> /\ (NumFiles = 1 => Contiguous)
                      /\ call[g].hasher \in 1 .. Len(hashers)
                      /\ hashers'[call[g].hasher].state # "open"
                      /\ ~HashInWorker => hashers'[call[g].hasher].state = "answered"
                      /\ sink # None => hashers'[call[g].hasher].data = sinks[sink].data
    BY <1>1 DEF Digesting
  <2>1. /\ chain # None /\ Links = <<>> /\ (NumFiles = 1 => Contiguous)
        /\ call[g].hasher \in 1 .. Len(hashers)
        /\ hashers[call[g].hasher].state # "open"
        /\ ~HashInWorker => hashers[call[g].hasher].state = "answered"
        /\ sink # None => hashers[call[g].hasher].data = sinks[sink].data
    BY DEF DataInv, Digesting
  <2> QED BY <2>1
<1>9. Finishing' /\ Begun'
  BY <1>1 DEF DataInv, Finishing, Ending, Begun, Total
<1> QED BY <1>2, <1>3, <1>5, <1>6, <1>7, <1>8, <1>9 DEF DataInv

\* The worker answers.
LEMMA WorkerAnswersData ==
  ASSUME DataInv, NEW h \in DOMAIN hashers, WorkerAnswers(h)
  PROVE  DataInv'
<1> DEFINE r == [hashers[h] EXCEPT !.state = "answered"]
<1>1. /\ hashers[h].state = "asked" /\ hashers' = [hashers EXCEPT ![h] = r]
      /\ UNCHANGED <<fileVars, finished, hasher, sinkVars, chainVars, call, saved>>
  BY DEF WorkerAnswers, uiVars
<1>2. h \in 1 .. Len(hashers) /\ hashers[h] \in HasherRec /\ hashers \in Seq(HasherRec)
  BY ElementOfSeq, LenProperties DEF DataInv, HashersTyped
<1>3. /\ r \in HasherRec /\ r.data = hashers[h].data /\ r.state = "answered"
      /\ r.inWorker = hashers[h].inWorker
  BY <1>2 DEF HasherRec
<1> HIDE DEF r
<1>4. /\ [hashers EXCEPT ![h] = r] \in Seq(HasherRec)
      /\ Len([hashers EXCEPT ![h] = r]) = Len(hashers)
      /\ \A j \in 1 .. Len(hashers) :
           [hashers EXCEPT ![h] = r][j] = IF j = h THEN r ELSE hashers[j]
  BY <1>2, <1>3, ExceptSeq
<1>5. /\ hashers' \in Seq(HasherRec) /\ Len(hashers') = Len(hashers)
      /\ \A k \in 1 .. Len(hashers) :
           \/ hashers'[k] = hashers[k]
           \/ /\ hashers'[k].data = hashers[k].data
              /\ hashers'[k].inWorker = hashers[k].inWorker
              /\ hashers[k].state = "asked"
              /\ hashers'[k].state \in {"answered", "rejected"}
  BY <1>1, <1>3, <1>4
<1> QED BY <1>1, <1>5, SettledData

\* The worker ends: who waits for it hears so.
LEMMA WorkerCrashesData ==
  ASSUME DataInv, WorkerCrashes
  PROVE  DataInv'
<1>1. /\ hashers' = [h \in DOMAIN hashers |->
            IF hashers[h].state = "asked" THEN [hashers[h] EXCEPT !.state = "rejected"]
            ELSE hashers[h]]
      /\ UNCHANGED <<fileVars, finished, hasher, sinkVars, chainVars, call, saved>>
  BY DEF WorkerCrashes, uiVars
<1>2. /\ DOMAIN hashers = 1 .. Len(hashers) /\ Len(hashers) \in Nat
      /\ \A k \in 1 .. Len(hashers) : hashers[k] \in HasherRec
  BY ElementOfSeq, LenProperties DEF DataInv, HashersTyped
<1>3. \A k \in 1 .. Len(hashers) :
        LET r == [hashers[k] EXCEPT !.state = "rejected"] IN
          /\ r \in HasherRec /\ r.data = hashers[k].data /\ r.state = "rejected"
          /\ r.inWorker = hashers[k].inWorker
  BY <1>2 DEF HasherRec
<1>4. \A k \in 1 .. Len(hashers) :
        /\ hashers'[k] \in HasherRec
        /\ \/ hashers'[k] = hashers[k]
           \/ /\ hashers'[k].data = hashers[k].data
              /\ hashers'[k].inWorker = hashers[k].inWorker
              /\ hashers[k].state = "asked"
              /\ hashers'[k].state \in {"answered", "rejected"}
  BY <1>1, <1>2, <1>3
<1>5. hashers' \in Seq(HasherRec) /\ Len(hashers') = Len(hashers)
  <2> DEFINE e(k) == IF hashers[k].state = "asked" THEN [hashers[k] EXCEPT !.state = "rejected"]
                     ELSE hashers[k]
             n == Len(hashers)
  <2>1. hashers' = [k \in 1 .. n |-> e(k)] /\ n \in Nat
    BY <1>1, <1>2
  <2>2. \A k \in 1 .. n : e(k) \in HasherRec
    BY <1>2, <1>3
  <2> HIDE DEF e, n
  <2>3. hashers' \in Seq(HasherRec) /\ Len(hashers') = n
    BY <2>1, <2>2
  <2> QED BY <2>3 DEF n
<1> QED BY <1>1, <1>4, <1>5, SettledData

\* The digests agree: the sink is taken and finished.
LEMMA DigestedData ==
  ASSUME DataInv, Serial, NEW f \in Files, Digested(f)
  PROVE  DataInv'
<1>0. call[f].at = "digest" /\ meta # None
  BY DEF Digested, DataInv, Begun
<1>1. CASE Fail(f)
  BY <1>0, <1>1, FailData
<1>2. CASE ~Fail(f)
  <2> DEFINE h == call[f].hasher
  <2>1. /\ hashers[h].state = "answered" /\ Content(hashers[h]) = Bytes(f)
        /\ sink # None /\ hasher' = None /\ sink' = None
        /\ IF sinks[sink].disk
           THEN /\ call' = [call EXCEPT ![f].at = "closing", ![f].sink = sink]
                /\ UNCHANGED <<fileIndex, ui, saved>>
           ELSE HandOver(f, sink)
        /\ UNCHANGED <<fileVars, totalFiles, finished, hashers, worker, sinks, chainVars,
                       disposed>>
    BY <1>2 DEF Digested
  <2>2. /\ UNCHANGED <<meta, chunkSize, nextIndex, early, reorder, finished, hashers, sinks,
                       chains, chain, writeError>>
        /\ Links' = Links /\ Contiguous' = Contiguous
    BY <2>1 DEF fileVars, chainVars, Links, Contiguous, Total
  <2>3. /\ sink \in 1 .. Len(sinks) /\ sinks[sink] \in SinkRec
        /\ Content(sinks[sink]) = Bytes(f)
        /\ chain # None /\ Links = <<>> /\ (NumFiles = 1 => Contiguous)
    <3>1. hashers[h].data = sinks[sink].data
      BY <1>0, <2>1 DEF DataInv, Digesting
    <3>2. sink \in 1 .. Len(sinks)
      BY <2>1 DEF DataInv, SinksTyped, None
    <3>3. sinks[sink] \in SinkRec
      BY <3>2, ElementOfSeq DEF DataInv, SinksTyped
    <3> QED BY <1>0, <2>1, <3>1, <3>2, <3>3 DEF Content, DataInv, Digesting
  <2>4. \A g \in Files \ {f} : ~Busy(g)
    BY <1>0 DEF DataInv, OneBusy, Busy
  <2>5. ~Ending
    BY <2>1 DEF DataInv, Finishing
  <2>6. /\ CallsTyped' /\ call'[f].at \in {"closing", "done"}
        /\ call'[f].at = "closing" => sinks[sink].disk /\ call'[f].sink = sink
        /\ \A g \in Files \ {f} : call'[g] = call[g]
    <3>1. call[f] \in CallRec /\ sink \in Nat /\ call \in [Files -> CallRec]
      BY <2>3 DEF DataInv, CallsTyped
    <3>2. CASE sinks[sink].disk
      <4> DEFINE r == [call[f] EXCEPT !.at = "closing", !.sink = sink]
      <4>1. r \in CallRec /\ r.at = "closing" /\ r.sink = sink
        BY <3>1 DEF CallRec
      <4>2. call' = [call EXCEPT ![f] = r]
        BY <2>1, <3>2
      <4> HIDE DEF r
      <4> QED BY <3>1, <3>2, <4>1, <4>2 DEF CallsTyped
    <3>3. CASE ~sinks[sink].disk
      <4> DEFINE r == [call[f] EXCEPT !.at = "done"]
      <4>1. r \in CallRec /\ r.at = "done"
        BY <3>1 DEF CallRec
      <4>2. call' = [call EXCEPT ![f] = r]
        BY <2>1, <3>3 DEF HandOver
      <4> HIDE DEF r
      <4> QED BY <3>1, <3>3, <4>1, <4>2 DEF CallsTyped
    <3> QED BY <3>2, <3>3
  <2>7. \A g \in Files : ~Busy(g)'
    BY <2>4, <2>6 DEF Busy
  <2>8. FramesTyped' /\ HashersTyped' /\ SinksTyped' /\ ChainsTyped'
    <3>1. Len(hashers) \in Nat /\ Len(sinks) \in Nat
      BY LenProperties DEF DataInv, HashersTyped, SinksTyped
    <3>2. None \in 0 .. Len(hashers) /\ None \in 0 .. Len(sinks)
      BY <3>1 DEF None
    <3> QED BY <2>1, <2>2, <3>2 DEF DataInv, FramesTyped, HashersTyped, SinksTyped, ChainsTyped
  <2>9. SavedWhole'
    <3>1. saved' = saved \/ saved' = Append(saved, <<f, Bytes(f)>>)
      BY <2>1, <2>3 DEF HandOver
    <3>2. Append(saved, <<f, Bytes(f)>>) \in Seq({<<g, Bytes(g)>> : g \in Files})
      BY AppendProperties DEF DataInv, SavedWhole
    <3> QED BY <3>1, <3>2 DEF DataInv, SavedWhole
  <2>10. Agree' /\ StillOpen'
    BY <2>1 DEF Agree, StillOpen
  <2>11. Flushing' /\ OneBusy' /\ Digesting'
    BY <2>7 DEF Flushing, OneBusy, Digesting, Busy
  <2>12. Finishing' /\ Begun'
    <3>1. CASE call'[f].at = "closing"
      <4>1. NumFiles = 1
        BY <2>3, <2>6, <3>1 DEF Serial, DataInv, SinksTyped
      <4>2. \A g \in Files : g = f
        BY <4>1, OneFile
      <4>3. finished
        BY <1>0, <4>1 DEF DataInv, Begun
      <4>4. \A s \in 1 .. Len(sinks) : sinks[s].stream # "saved"
        BY <2>5 DEF Ending
      <4>5. Finishing'
        BY <2>1, <2>2, <2>3, <2>6, <3>1, <4>1, <4>2, <4>4 DEF Finishing, Content
      <4>6. Begun'
        BY <1>0, <2>2, <3>1, <4>2, <4>3 DEF Begun
      <4> QED BY <4>5, <4>6
    <3>2. CASE call'[f].at = "done"
      <4>1. ~Ending'
        BY <2>2, <2>5, <2>6, <3>2 DEF Ending
      <4>2. Finishing'
        BY <4>1 DEF Finishing, Ending
      <4>3. Begun'
        BY <1>0, <2>2, <2>6, <3>2 DEF DataInv, Begun, Total
      <4> QED BY <4>2, <4>3
    <3> QED BY <2>6, <3>1, <3>2
  <2> QED BY <2>6, <2>8, <2>9, <2>10, <2>11, <2>12 DEF DataInv
<1> QED BY <1>1, <1>2

\* The stream of the sink is closed.
LEMMA ClosedData ==
  ASSUME DataInv, NEW f \in Files, Closed(f)
  PROVE  DataInv'
<1>0. /\ call[f].at = "closing" /\ meta # None /\ Ending
      /\ NumFiles = 1 /\ chain # None /\ Links = <<>> /\ Contiguous /\ sink = None
      /\ call[f].sink \in 1 .. Len(sinks) /\ Content(sinks[call[f].sink]) = Bytes(f)
  BY DEF Closed, Ending, DataInv, Begun, Finishing
<1>1. CASE Fail(f)
  BY <1>0, <1>1, FailData
<1>2. CASE ~Fail(f)
  <2> DEFINE s == call[f].sink
             r == [sinks[s] EXCEPT !.stream = "saved"]
  <2>1. /\ sinks' = [sinks EXCEPT ![s] = r] /\ HandOver(f, s)
        /\ UNCHANGED <<fileVars, totalFiles, finished, hashVars, sink, chainVars, disposed>>
    BY <1>2 DEF Closed
  <2>2. /\ UNCHANGED <<meta, chunkSize, nextIndex, early, reorder, finished, hashers, hasher,
                       sink, chains, chain, writeError>>
        /\ Links' = Links /\ Contiguous' = Contiguous /\ AtOpening' = AtOpening
    BY <2>1 DEF fileVars, hashVars, chainVars, Links, Contiguous, Total, AtOpening
  <2>3. /\ sinks[s] \in SinkRec /\ s \in 1 .. Len(sinks) /\ sinks \in Seq(SinkRec)
        /\ Len(sinks) \in Nat
    BY <1>0, ElementOfSeq, LenProperties DEF DataInv, SinksTyped
  <2>4. /\ r \in SinkRec /\ r.data = sinks[s].data /\ r.file = sinks[s].file
        /\ r.disk = sinks[s].disk
    BY <2>3 DEF SinkRec
  <2> HIDE DEF r
  <2>5. /\ sinks' \in Seq(SinkRec) /\ Len(sinks') = Len(sinks)
        /\ \A k \in 1 .. Len(sinks) : sinks'[k] = IF k = s THEN r ELSE sinks[k]
    <3> HIDE DEF s
    <3>1. /\ [sinks EXCEPT ![s] = r] \in Seq(SinkRec)
          /\ Len([sinks EXCEPT ![s] = r]) = Len(sinks)
          /\ \A j \in 1 .. Len(sinks) :
               [sinks EXCEPT ![s] = r][j] = IF j = s THEN r ELSE sinks[j]
      BY <2>3, <2>4, ExceptSeq
    <3> QED BY <2>1, <3>1
  <2>6. \A g \in Files : g = f
    BY <1>0, OneFile
  <2>7. /\ CallsTyped' /\ call'[f].at = "done"
    <3> DEFINE d == [call[f] EXCEPT !.at = "done"]
    <3>1. call[f] \in CallRec /\ call \in [Files -> CallRec]
      BY DEF DataInv, CallsTyped
    <3>2. d \in CallRec /\ d.at = "done"
      BY <3>1 DEF CallRec
    <3>3. call' = [call EXCEPT ![f] = d]
      BY <2>1 DEF HandOver
    <3> HIDE DEF d
    <3> QED BY <3>1, <3>2, <3>3 DEF CallsTyped
  <2>8. FramesTyped' /\ HashersTyped' /\ ChainsTyped'
    BY <2>2 DEF DataInv, FramesTyped, HashersTyped, ChainsTyped
  <2>9. SinksTyped'
    BY <2>2, <2>4, <2>5 DEF DataInv, SinksTyped
  <2>10. SavedWhole'
    <3>1. saved' = saved \/ saved' = Append(saved, <<f, Bytes(f)>>)
      BY <1>0, <2>1 DEF HandOver
    <3>2. Append(saved, <<f, Bytes(f)>>) \in Seq({<<g, Bytes(g)>> : g \in Files})
      BY AppendProperties DEF DataInv, SavedWhole
    <3> QED BY <3>1, <3>2 DEF DataInv, SavedWhole
  <2>11. Agree'
    BY <1>0, <2>2 DEF DataInv, Agree, AtOpening
  <2>12. StillOpen'
    <3>1. \A g \in Files : call[g].at # "digest"
      BY <1>0, <2>6
    <3> QED BY <2>2, <3>1 DEF DataInv, StillOpen
  <2>13. Flushing' /\ OneBusy' /\ Digesting'
    BY <2>6, <2>7 DEF Flushing, OneBusy, Digesting, Busy
  <2>14. Finishing'
    <3>1. ASSUME NEW k \in 1 .. Len(sinks), sinks'[k].stream = "saved"
          PROVE  Content(sinks'[k]) = Bytes(sinks'[k].file)
      <4>1. CASE k = s
        <5>1. sinks[s].file = f
          BY <2>3, <2>6 DEF SinkRec
        <5>2. sinks'[k] = r
          BY <2>5, <4>1
        <5>3. Content(r) = Content(sinks[s])
          BY <2>4 DEF Content
        <5> QED BY <1>0, <2>4, <5>1, <5>2, <5>3
      <4>2. CASE k # s
        BY <2>5, <3>1, <4>2 DEF DataInv, Finishing
      <4> QED BY <4>1, <4>2
    <3>2. \A g \in Files : call'[g].at # "closing"
      BY <2>6, <2>7
    <3> QED BY <1>0, <2>2, <2>5, <3>1, <3>2 DEF Finishing, Content
  <2>15. Begun'
    BY <1>0, <2>2, <2>6, <2>7 DEF Begun
  <2> QED BY <2>7, <2>8, <2>9, <2>10, <2>11, <2>12, <2>13, <2>14, <2>15 DEF DataInv
<1> QED BY <1>1, <1>2

\* A chunk more in one sink.
Written(ss, k, b) == [ss EXCEPT ![k].data = Append(@, b)]

\* A chunk more in one sink.
LEMMA SinkWritten ==
  ASSUME NEW ss \in Seq(SinkRec), NEW k \in Nat, NEW b \in Parts
  PROVE  LET new == Written(ss, k, b) IN
           /\ new \in Seq(SinkRec) /\ Len(new) = Len(ss)
           /\ \A j \in 1 .. Len(ss) :
                /\ new[j].disk = ss[j].disk /\ new[j].file = ss[j].file
                /\ new[j].stream = ss[j].stream
                /\ new[j].data = IF j = k THEN Append(ss[k].data, b) ELSE ss[j].data
<1> DEFINE r == [ss[k] EXCEPT !.data = Append(@, b)]
<1>0. DOMAIN ss = 1 .. Len(ss) /\ Len(ss) \in Nat /\ ss = [j \in 1 .. Len(ss) |-> ss[j]]
  BY LenProperties
<1>1. CASE k \in 1 .. Len(ss)
  <2>1. ss[k] \in SinkRec
    BY <1>1, ElementOfSeq
  <2>2. Append(ss[k].data, b) \in Seq(Parts)
    BY <2>1, AppendProperties DEF SinkRec
  <2>3. /\ r \in SinkRec /\ r.data = Append(ss[k].data, b) /\ r.file = ss[k].file
        /\ r.disk = ss[k].disk /\ r.stream = ss[k].stream
    BY <2>1, <2>2 DEF SinkRec
  <2> HIDE DEF r
  <2>4. /\ [ss EXCEPT ![k] = r] \in Seq(SinkRec) /\ Len([ss EXCEPT ![k] = r]) = Len(ss)
        /\ \A j \in 1 .. Len(ss) : [ss EXCEPT ![k] = r][j] = IF j = k THEN r ELSE ss[j]
    BY <1>1, <2>3, ExceptSeq
  <2>5. Written(ss, k, b) = [ss EXCEPT ![k] = r]
    BY DEF Written, r
  <2> QED BY <2>3, <2>4, <2>5
<1>2. CASE k \notin 1 .. Len(ss)
  <2>1. [ss EXCEPT ![k] = r] = ss
    <3> HIDE DEF r
    <3> QED BY <1>0, <1>2
  <2>2. \A j \in 1 .. Len(ss) : j # k
    BY <1>2
  <2>3. Written(ss, k, b) = ss
    BY <2>1 DEF Written
  <2> QED BY <2>2, <2>3
<1> QED BY <1>1, <1>2

\* A stream for one sink.
Streamed(ss, k) == [ss EXCEPT ![k].stream = "open"]

\* A stream for one sink.
LEMMA SinkStreamed ==
  ASSUME NEW ss \in Seq(SinkRec), NEW k \in Nat
  PROVE  LET new == Streamed(ss, k) IN
           /\ new \in Seq(SinkRec) /\ Len(new) = Len(ss)
           /\ \A j \in 1 .. Len(ss) :
                /\ new[j].disk = ss[j].disk /\ new[j].file = ss[j].file
                /\ new[j].data = ss[j].data
                /\ new[j].stream = "open" \/ new[j].stream = ss[j].stream
<1> DEFINE r == [ss[k] EXCEPT !.stream = "open"]
<1>0. DOMAIN ss = 1 .. Len(ss) /\ Len(ss) \in Nat /\ ss = [j \in 1 .. Len(ss) |-> ss[j]]
  BY LenProperties
<1>1. CASE k \in 1 .. Len(ss)
  <2>1. ss[k] \in SinkRec
    BY <1>1, ElementOfSeq
  <2>2. /\ r \in SinkRec /\ r.data = ss[k].data /\ r.file = ss[k].file
        /\ r.disk = ss[k].disk /\ r.stream = "open"
    BY <2>1 DEF SinkRec
  <2> HIDE DEF r
  <2>3. /\ [ss EXCEPT ![k] = r] \in Seq(SinkRec) /\ Len([ss EXCEPT ![k] = r]) = Len(ss)
        /\ \A j \in 1 .. Len(ss) : [ss EXCEPT ![k] = r][j] = IF j = k THEN r ELSE ss[j]
    BY <1>1, <2>2, ExceptSeq
  <2>4. Streamed(ss, k) = [ss EXCEPT ![k] = r]
    BY DEF Streamed, r
  <2> QED BY <2>2, <2>3, <2>4
<1>2. CASE k \notin 1 .. Len(ss)
  <2>1. [ss EXCEPT ![k] = r] = ss
    <3> HIDE DEF r
    <3> QED BY <1>0, <1>2
  <2>2. Streamed(ss, k) = ss
    BY <2>1 DEF Streamed
  <2> QED BY <2>2
<1> QED BY <1>1, <1>2

\* What was queued first is written: sink and queue together hold the same.
LEMMA WrittenNext ==
  ASSUME NEW data \in Seq(Parts), NEW b \in Parts, NEW rest \in Seq(Parts)
  PROVE  data \o (<<b>> \o rest) = Append(data, b) \o rest
<1> DEFINE one == <<b>>
<1>1. one \in Seq(Parts) /\ Append(data, b) = data \o one
  BY AppendIsConcat
<1> HIDE DEF one
<1>2. data \o (one \o rest) = (data \o one) \o rest
  BY <1>1, ConcatAssociative
<1> QED BY <1>1, <1>2 DEF one

-----------------------------------------------------------------------------
\* The step of a link, while nothing is verified or closed.
LEMMA ChainStep ==
  ASSUME DataInv, Links # <<>>, ChainsTyped', SinksTyped', Agree',
         chains'[chain].done + Len(Links') = chains[chain].done + Len(Links),
         \A s \in 1 .. Len(sinks') :
           \/ sinks'[s].stream # "saved"
           \/ s \in 1 .. Len(sinks) /\ sinks[s].stream = "saved",
         UNCHANGED <<fileVars, finished, hashers, hasher, chain, call, saved>>
  PROVE  DataInv'
<1>1. /\ UNCHANGED <<meta, chunkSize, nextIndex, early, reorder, finished, hashers, hasher,
                     chain, call, saved>>
      /\ Contiguous' = Contiguous
  BY DEF fileVars, Contiguous, Total
<1>2. FramesTyped' /\ HashersTyped' /\ CallsTyped' /\ SavedWhole'
  BY <1>1 DEF DataInv, FramesTyped, HashersTyped, CallsTyped, SavedWhole
<1>3. ~Ending /\ \A f \in Files : call[f].at # "digest"
  BY DEF DataInv, Finishing, Digesting
<1>4. ~Ending'
  BY <1>1, <1>3 DEF Ending
<1>5. Flushing' /\ OneBusy' /\ Digesting'
  BY <1>1, <1>3 DEF DataInv, Flushing, OneBusy, Busy, Digesting
<1>6. StillOpen'
  BY <1>1 DEF DataInv, StillOpen
<1>7. Finishing'
  BY <1>4 DEF Finishing, Ending
<1>8. Begun'
  BY <1>1 DEF DataInv, Begun, Total
<1> QED BY <1>2, <1>5, <1>6, <1>7, <1>8 DEF DataInv

\* The sink factory settles.
LEMMA SinkOpensData ==
  ASSUME DataInv, NEW c \in DOMAIN chains, SinkOpens(c)
  PROVE  DataInv'
<1>0. /\ chains[c].links # <<>> /\ Link(c).at = "opening" /\ chains' = LinkDone(c)
      /\ UNCHANGED <<chain, meta, hashers, hasher, writeError>>
      /\ UNCHANGED <<fileVars, finished, hashers, hasher, chain, call, saved>>
  BY DEF SinkOpens, HasLink, fileVars, hashVars, uiVars
<1>1. /\ ChainsTyped' /\ Link(c) = Links[1] /\ Links[1] \in LinkRec
      /\ Links # <<>> /\ Links' = Tail(Links)
      /\ chains'[chain].done + Len(Links') = chains[chain].done + Len(Links)
      /\ Links' # <<>> => Links'[1].at = "queued"
  BY <1>0, LinkDoneFacts DEF DataInv
<1>2. PICK disk \in {ToFolder, ToFolder /\ "openFail" \notin Faults} :
        sinks' = Append(sinks, NewSink(Link(c).file, disk))
  BY DEF SinkOpens
<1> DEFINE new == NewSink(Link(c).file, disk)
<1>3. /\ new \in SinkRec /\ new.data = <<>> /\ new.stream = "none"
      /\ new.disk => ToFolder
  <2>1. Link(c).file \in Files
    BY <1>0, <1>1 DEF LinkRec
  <2>2. <<>> \in Seq(Parts) /\ disk \in BOOLEAN /\ (disk => ToFolder)
    BY EmptySeq, SizeAssumption
  <2> QED BY <2>1, <2>2 DEF NewSink, SinkRec
<1> HIDE DEF new
<1> DEFINE n == Len(sinks)
<1>4. /\ sinks' \in Seq(SinkRec) /\ Len(sinks') = n + 1 /\ n \in Nat /\ sink' = n + 1
      /\ \A s \in 1 .. n : sinks'[s] = sinks[s]
      /\ sinks'[n + 1] = new
  <2>1. sinks \in Seq(SinkRec)
    BY DEF DataInv, SinksTyped
  <2>2. n \in Nat
    BY <2>1, LenProperties
  <2>3. /\ Append(sinks, new) \in Seq(SinkRec) /\ Len(Append(sinks, new)) = Len(sinks) + 1
        /\ \A i \in 1 .. Len(sinks) : Append(sinks, new)[i] = sinks[i]
        /\ Append(sinks, new)[Len(sinks) + 1] = new
    BY <1>3, <2>1, AppendProperties
  <2>4. sinks' = Append(sinks, new) /\ sink' = n + 1
    BY <1>2 DEF new, SinkOpens
  <2> QED BY <2>2, <2>3, <2>4
<1>5. \A s \in 1 .. n : sinks[s].disk => ToFolder
  BY DEF DataInv, SinksTyped
<1> HIDE DEF n
<1>6. SinksTyped'
  BY <1>3, <1>4, <1>5 DEF SinksTyped
<1>7. Agree'
  <2> SUFFICES ASSUME hasher # None, ~writeError, hashers[hasher].state = "open"
               PROVE  /\ ~AtOpening' /\ sink' # None
                      /\ hashers[hasher].data = sinks'[sink'].data \o BytesOf(Links')
                      /\ Links' # <<>> /\ Links'[1].at \in {"creating", "writing"} =>
                           Links'[1].to = sink'
    BY <1>0 DEF Agree
  <2>1. hashers[hasher].data = BytesOf(Links')
    BY <1>0, <1>1 DEF DataInv, Agree, AtOpening
  <2>2. BytesOf(Links') \in Seq(Parts)
    <3>1. Links' \in Seq(LinkRec)
      BY <1>1, LinksTyped, HeadTailProperties DEF DataInv
    <3> QED BY <3>1, BytesOfFacts
  <2>3. <<>> \o BytesOf(Links') = BytesOf(Links')
    BY <2>2, ConcatEmptySeq
  <2>4. sink' # None
    BY <1>4 DEF None
  <2> QED BY <1>1, <1>3, <1>4, <2>1, <2>3, <2>4 DEF AtOpening
<1>8. \A s \in 1 .. Len(sinks') : \/ sinks'[s].stream # "saved"
                                  \/ s \in 1 .. Len(sinks) /\ sinks[s].stream = "saved"
  BY <1>3, <1>4 DEF n
<1> QED BY <1>0, <1>1, <1>6, <1>7, <1>8, ChainStep

\* A chunk was written to the current sink, in memory or on disk.
LEMMA WriteDoneData ==
  ASSUME DataInv, NEW c \in DOMAIN chains, chains[c].links # <<>>, NEW s \in Nat,
         Link(c).at \in {"queued", "writing"}, Link(c).at = "queued" => s = sink,
         Link(c).at = "writing" => s = Link(c).to,
         chains' = LinkDone(c),
         sinks' = [sinks EXCEPT ![s].data = Append(@, Link(c).bytes)],
         UNCHANGED <<fileVars, finished, hashers, hasher, sink, chain, writeError, call, saved>>
  PROVE  DataInv'
<1>0. UNCHANGED <<chain, meta>>
  BY DEF fileVars
<1>1. /\ ChainsTyped' /\ Link(c) = Links[1] /\ Links[1] \in LinkRec
      /\ Links # <<>> /\ Links' = Tail(Links)
      /\ chains'[chain].done + Len(Links') = chains[chain].done + Len(Links)
      /\ BytesOf(Links) = <<Links[1].bytes>> \o BytesOf(Links')
      /\ Links' # <<>> => Links'[1].at = "queued"
  BY <1>0, LinkDoneFacts DEF DataInv
<1> DEFINE b == Link(c).bytes
           new == Written(sinks, s, b)
<1>2. b \in Parts
  BY <1>1 DEF LinkRec
<1> HIDE DEF b
<1>3. /\ new \in Seq(SinkRec) /\ Len(new) = Len(sinks)
      /\ \A j \in 1 .. Len(sinks) :
           /\ new[j].disk = sinks[j].disk /\ new[j].file = sinks[j].file
           /\ new[j].stream = sinks[j].stream
           /\ new[j].data = IF j = s THEN Append(sinks[s].data, b) ELSE sinks[j].data
  <2>1. sinks \in Seq(SinkRec)
    BY DEF DataInv, SinksTyped
  <2> QED BY <1>2, <2>1, SinkWritten
<1>4. sinks' = new
  BY DEF b, Written
<1> HIDE DEF new
<1>5. SinksTyped'
  BY <1>3, <1>4 DEF DataInv, SinksTyped
<1>6. Agree'
  <2> SUFFICES ASSUME hasher # None, ~writeError, hashers[hasher].state = "open"
               PROVE  /\ ~AtOpening' /\ sink # None
                      /\ hashers[hasher].data = sinks'[sink].data \o BytesOf(Links')
                      /\ Links' # <<>> /\ Links'[1].at \in {"creating", "writing"} =>
                           Links'[1].to = sink
    BY DEF Agree
  <2>1. /\ sink # None
        /\ hashers[hasher].data = sinks[sink].data \o BytesOf(Links)
        /\ Links[1].at = "writing" => Links[1].to = sink
    BY <1>1 DEF DataInv, Agree, AtOpening
  <2>2. s = sink
    BY <1>1, <2>1
  <2>3. sink \in 1 .. Len(sinks) /\ sinks[sink] \in SinkRec
    <3>1. sink \in 1 .. Len(sinks)
      BY <2>1 DEF DataInv, SinksTyped, None
    <3> QED BY <3>1, ElementOfSeq DEF DataInv, SinksTyped
  <2>4. sinks[sink].data \in Seq(Parts) /\ BytesOf(Links') \in Seq(Parts)
    <3>1. Links' \in Seq(LinkRec)
      BY <1>1, LinksTyped, HeadTailProperties DEF DataInv
    <3> QED BY <2>3, <3>1, BytesOfFacts DEF SinkRec
  <2>5. sinks[sink].data \o BytesOf(Links) = Append(sinks[sink].data, b) \o BytesOf(Links')
    <3> DEFINE x == sinks[sink].data
               z == BytesOf(Links')
    <3>1. x \in Seq(Parts) /\ z \in Seq(Parts) /\ BytesOf(Links) = <<b>> \o z
      BY <1>1, <2>4 DEF b
    <3> HIDE DEF x, z
    <3>2. x \o (<<b>> \o z) = Append(x, b) \o z
      BY <1>2, <3>1, WrittenNext
    <3> QED BY <3>1, <3>2 DEF x, z
  <2>6. sinks'[sink].data = Append(sinks[sink].data, b)
    BY <1>3, <1>4, <2>2, <2>3
  <2> QED BY <1>1, <2>1, <2>5, <2>6 DEF AtOpening
<1>7. \A k \in 1 .. Len(sinks') : \/ sinks'[k].stream # "saved"
                                  \/ k \in 1 .. Len(sinks) /\ sinks[k].stream = "saved"
  BY <1>3, <1>4
<1> QED BY <1>1, <1>5, <1>6, <1>7, ChainStep

\* A write failed, or was skipped: nothing is verified after that.
LEMMA WriteLostData ==
  ASSUME DataInv, NEW c \in DOMAIN chains, chains[c].links # <<>>,
         Link(c).at # "opening", chains' = LinkDone(c), writeError' \/ sink = None,
         writeError => writeError',
         UNCHANGED <<fileVars, finished, hashers, hasher, sinks, sink, chain, call, saved>>
  PROVE  DataInv'
<1>0. UNCHANGED <<chain, meta>>
  BY DEF fileVars
<1>1. /\ ChainsTyped' /\ Link(c) = Links[1] /\ Links # <<>>
      /\ chains'[chain].done + Len(Links') = chains[chain].done + Len(Links)
  BY <1>0, LinkDoneFacts DEF DataInv
<1>2. SinksTyped'
  BY DEF DataInv, SinksTyped
<1>3. Agree'
  BY <1>1 DEF DataInv, Agree, AtOpening
<1>4. \A k \in 1 .. Len(sinks') : \/ sinks'[k].stream # "saved"
                                  \/ k \in 1 .. Len(sinks) /\ sinks[k].stream = "saved"
  OBVIOUS
<1> QED BY <1>1, <1>2, <1>3, <1>4, ChainStep

\* A disk write goes on to another await.
LEMMA WriteMovesData ==
  ASSUME DataInv, NEW c \in DOMAIN chains, chains[c].links # <<>>,
         Link(c).at # "opening", NEW r \in LinkRec, r.bytes = Link(c).bytes,
         r.at \in {"creating", "writing"}, ToFolder,
         Link(c).at = "queued" => r.to = sink,
         Link(c).at # "queued" => r.to = Link(c).to /\ Link(c).at \in {"creating", "writing"},
         chains' = [chains EXCEPT ![c].links[1] = r],
         SinksTyped', Len(sinks') = Len(sinks),
         \A s \in 1 .. Len(sinks) : /\ sinks'[s].data = sinks[s].data
                                    /\ sinks'[s].stream = "saved" => sinks[s].stream = "saved",
         UNCHANGED <<fileVars, finished, hashers, hasher, sink, chain, writeError, call, saved>>
  PROVE  DataInv'
<1>0. UNCHANGED <<chain, meta>> /\ Link(c) = Links[1]
  <2>1. c \in 1 .. Len(chains) /\ c = chain /\ Links = chains[c].links /\ Links \in Seq(LinkRec)
    BY LinksTyped DEF DataInv
  <2> QED BY <2>1, BytesOfTail DEF fileVars, Link
<1>1. /\ ChainsTyped' /\ Links # <<>> /\ Links' # <<>> /\ Links'[1] = r
      /\ chains'[chain].done = chains[chain].done /\ Len(Links') = Len(Links)
      /\ BytesOf(Links') = BytesOf(Links) /\ ~AtOpening'
  BY <1>0, LinkMoves DEF DataInv
<1>2. Agree'
  <2> SUFFICES ASSUME hasher # None, ~writeError, hashers[hasher].state = "open"
               PROVE  /\ sink # None
                      /\ hashers[hasher].data = sinks'[sink].data \o BytesOf(Links')
                      /\ r.to = sink
    BY <1>1 DEF Agree
  <2>1. /\ sink # None
        /\ hashers[hasher].data = sinks[sink].data \o BytesOf(Links)
        /\ Links[1].at \in {"creating", "writing"} => Links[1].to = sink
    BY <1>0, <1>1 DEF DataInv, Agree, AtOpening
  <2>2. sink \in 1 .. Len(sinks)
    BY <2>1 DEF DataInv, SinksTyped, None
  <2> QED BY <1>0, <1>1, <2>1, <2>2
<1>3. \A k \in 1 .. Len(sinks') : \/ sinks'[k].stream # "saved"
                                  \/ k \in 1 .. Len(sinks) /\ sinks[k].stream = "saved"
  OBVIOUS
<1>4. chains'[chain].done + Len(Links') = chains[chain].done + Len(Links)
  BY <1>1
<1> QED BY <1>1, <1>2, <1>3, <1>4, ChainStep

\* A queued write runs.
LEMMA WriteStartsData ==
  ASSUME DataInv, NEW c \in DOMAIN chains, WriteStarts(c)
  PROVE  DataInv'
<1>0. /\ chains[c].links # <<>> /\ Link(c).at = "queued"
      /\ UNCHANGED <<chain, meta>>
      /\ UNCHANGED <<fileVars, finished, hashers, hasher, sink, chain, writeError, call, saved>>
  BY DEF WriteStarts, HasLink, fileVars, hashVars, uiVars
<1>1. CASE /\ writeError \/ sink = None
           /\ chains' = LinkDone(c)
           /\ UNCHANGED sinks
  BY <1>0, <1>1, WriteLostData
<1>2. CASE /\ chains' = LinkDone(c)
           /\ sinks' = [sinks EXCEPT ![sink].data = Append(@, Link(c).bytes)]
  <2>1. sink \in Nat
    BY LenProperties DEF DataInv, SinksTyped
  <2> QED BY <1>0, <1>2, <2>1, WriteDoneData
<1>3. CASE /\ sink # None /\ sinks[sink].disk
           /\ chains' = [chains EXCEPT ![c].links[1] = [@ EXCEPT !.to = sink,
                !.at = IF sinks[sink].stream = "open" THEN "writing" ELSE "creating"]]
           /\ UNCHANGED sinks
  <2> DEFINE place == IF sinks[sink].stream = "open" THEN "writing" ELSE "creating"
             r == [chains[c].links[1] EXCEPT !.to = sink, !.at = place]
  <2>1. /\ c \in 1 .. Len(chains) /\ chains[c].links \in Seq(LinkRec)
    BY LinksTyped DEF DataInv
  <2>2. chains[c].links[1] \in LinkRec /\ Link(c) = chains[c].links[1]
    BY <1>0, <2>1, BytesOfTail DEF Link
  <2>3. sink \in 1 .. Len(sinks) /\ sink \in Nat /\ ToFolder /\ place \in {"creating", "writing"}
    BY <1>3 DEF DataInv, SinksTyped, None
  <2>4. chains' = [chains EXCEPT ![c].links[1] = r]
    BY <1>3
  <2> HIDE DEF place
  <2>5. r \in LinkRec /\ r.bytes = Link(c).bytes /\ r.at = place /\ r.to = sink
    BY <2>2, <2>3 DEF LinkRec
  <2> HIDE DEF r
  <2>6. SinksTyped'
    BY <1>0, <1>3 DEF DataInv, SinksTyped
  <2>7. \A s \in 1 .. Len(sinks) : /\ sinks'[s].data = sinks[s].data
                                   /\ sinks'[s].stream = "saved" => sinks[s].stream = "saved"
    BY <1>3
  <2>8. Len(sinks') = Len(sinks)
    BY <1>3
  <2> QED BY <1>0, <2>3, <2>4, <2>5, <2>6, <2>7, <2>8, WriteMovesData
<1> QED BY <1>1, <1>2, <1>3 DEF WriteStarts

\* createWritable() settles.
LEMMA StreamCreatedData ==
  ASSUME DataInv, NEW c \in DOMAIN chains, StreamCreated(c)
  PROVE  DataInv'
<1>0. /\ chains[c].links # <<>> /\ Link(c).at = "creating"
      /\ sinks' = [sinks EXCEPT ![Link(c).to].stream = "open"]
      /\ chains' = [chains EXCEPT ![c].links[1].at = "writing"]
      /\ UNCHANGED <<fileVars, finished, hashers, hasher, sink, chain, writeError, call, saved>>
  BY DEF StreamCreated, HasLink, hashVars, uiVars
<1> DEFINE r == [chains[c].links[1] EXCEPT !.at = "writing"]
<1>1. c \in 1 .. Len(chains) /\ c = chain /\ chains[c].links \in Seq(LinkRec)
  BY <1>0, LinksTyped DEF DataInv
<1>2. chains[c].links[1] \in LinkRec /\ Link(c) = chains[c].links[1]
  BY <1>0, <1>1, BytesOfTail DEF Link
<1>3. ToFolder
  BY <1>0, <1>1, <1>2 DEF DataInv, ChainsTyped
<1>4. chains' = [chains EXCEPT ![c].links[1] = r]
  BY <1>0
<1>5. r \in LinkRec /\ r.bytes = Link(c).bytes /\ r.at = "writing" /\ r.to = Link(c).to
  BY <1>2 DEF LinkRec
<1> HIDE DEF r
<1> DEFINE s == Link(c).to
           new == [sinks EXCEPT ![s].stream = "open"]
<1>6. s \in Nat
  BY <1>2 DEF LinkRec
<1> HIDE DEF s
<1>7. /\ sinks' \in Seq(SinkRec) /\ Len(sinks') = Len(sinks)
      /\ \A j \in 1 .. Len(sinks) :
           /\ sinks'[j].disk = sinks[j].disk /\ sinks'[j].file = sinks[j].file
           /\ sinks'[j].data = sinks[j].data
           /\ sinks'[j].stream = "open" \/ sinks'[j].stream = sinks[j].stream
  <2>1. sinks \in Seq(SinkRec)
    BY DEF DataInv, SinksTyped
  <2>2. sinks' = Streamed(sinks, s)
    BY <1>0 DEF Streamed, s
  <2> QED BY <1>6, <2>1, <2>2, SinkStreamed
<1>8. SinksTyped'
  BY <1>0, <1>7 DEF DataInv, SinksTyped
<1>9. \A j \in 1 .. Len(sinks) : /\ sinks'[j].data = sinks[j].data
                                 /\ sinks'[j].stream = "saved" => sinks[j].stream = "saved"
  BY <1>7
<1> QED BY <1>0, <1>3, <1>4, <1>5, <1>7, <1>8, <1>9, WriteMovesData

\* A disk write settles.
LEMMA WriteSettlesData ==
  ASSUME DataInv, NEW c \in DOMAIN chains, WriteSettles(c)
  PROVE  DataInv'
<1>0. /\ chains[c].links # <<>> /\ Link(c).at = "writing" /\ chains' = LinkDone(c)
      /\ UNCHANGED <<fileVars, finished, hashers, hasher, sink, chain, call, saved>>
  BY DEF WriteSettles, HasLink, hashVars, uiVars
<1>1. CASE /\ sinks' = [sinks EXCEPT ![Link(c).to].data = Append(@, Link(c).bytes)]
           /\ UNCHANGED writeError
  <2>1. Link(c).to \in Nat
    <3>1. chains[c].links \in Seq(LinkRec)
      BY LinksTyped DEF DataInv
    <3>2. Link(c) \in LinkRec
      BY <1>0, <3>1, HeadTailProperties DEF Link
    <3> QED BY <3>2 DEF LinkRec
  <2> QED BY <1>0, <1>1, <2>1, WriteDoneData
<1>2. CASE writeError' = TRUE /\ UNCHANGED sinks
  BY <1>0, <1>2, WriteLostData
<1> QED BY <1>1, <1>2 DEF WriteSettles

-----------------------------------------------------------------------------
\* A chunk on the wire carries a part of a file.
LEMMA ChunkFacts ==
  ASSUME NEW m \in Messages
  PROVE  /\ m.type = "CHUNK" => m.bytes \in Parts
         /\ m.type = "TRANSFER_COMPLETE" => m.file \in Files
<1>1. CASE m \in {BatchInfo, CancelMsg}
  BY <1>1 DEF BatchInfo, CancelMsg
<1>2. ASSUME NEW f \in Files, m = Query(f) \/ m = Complete(f)
      PROVE  m.type # "CHUNK" /\ m.file \in Files
  BY <1>2 DEF Query, Complete
<1>3. ASSUME NEW f \in Files, NEW c \in ChunkSizes, m = Metadata(f, c)
      PROVE  m.type \notin {"CHUNK", "TRANSFER_COMPLETE"}
  BY <1>3 DEF Metadata
<1>4. ASSUME NEW f \in Files, NEW c \in ChunkSizes, NEW i \in Nat, m = Chunk(f, c, i)
      PROVE  m.bytes \in Parts /\ m.type = "CHUNK"
  BY <1>4 DEF Chunk, Parts
<1> QED BY <1>1, <1>2, <1>3, <1>4 DEF Messages

\* A frame: too early, past the end, or accepted.
LEMMA OnChunkData ==
  ASSUME Progress, DataInv, Serial, Quiet, NEW i \in Nat, NEW b \in Parts, OnChunk(i, b)
  PROVE  DataInv'
<1>1. CASE meta = None
  <2>1. UNCHANGED <<meta, chunkSize, nextIndex, reorder, finished, hashers, hasher, sinks,
                    sink, chains, chain, writeError, call, saved>>
    BY <1>1 DEF OnChunk, hashVars, sinkVars, chainVars, uiVars
  <2>2. \A k \in DOMAIN early' : early'[k] \in Parts
    BY <1>1 DEF OnChunk, DataInv, FramesTyped
  <2>3. FramesTyped'
    BY <2>1, <2>2 DEF DataInv, FramesTyped
  <2> QED BY <2>1, <2>3, DataKept
<1>2. CASE meta # None /\ i >= Total(meta, chunkSize)
  <2>0. Total(meta, chunkSize) \in Nat /\ ~(i < Total(meta, chunkSize))
    BY <1>2, FileFacts DEF Progress
  <2>1. UNCHANGED <<meta, chunkSize, nextIndex, reorder, early, finished, hashers, hasher,
                    sinks, sink, chains, chain, writeError, call, saved>>
    BY <1>2, <2>0 DEF OnChunk, fileVars, hashVars, sinkVars, chainVars
  <2>2. FramesTyped'
    BY <2>1 DEF DataInv, FramesTyped
  <2> QED BY <2>1, <2>2, DataKept
<1>3. CASE meta # None /\ i < Total(meta, chunkSize)
  BY <1>3, AcceptStep
<1> QED BY <1>1, <1>2, <1>3, FileFacts DEF Progress

\* TRANSFER_COMPLETE
LEMMA OnCompleteData ==
  ASSUME Progress, DataInv, Serial, Quiet, NEW f \in Files, OnComplete(f)
  PROVE  DataInv'
<1>1. CASE UNCHANGED receiverVars
  <2>1. UNCHANGED <<meta, chunkSize, nextIndex, reorder, early, finished, hashers, hasher,
                    sinks, sink, chains, chain, writeError, call, saved>>
    BY <1>1 DEF receiverVars, fileVars, hashVars, sinkVars, chainVars, uiVars
  <2>2. FramesTyped'
    BY <2>1 DEF DataInv, FramesTyped
  <2> QED BY <2>1, <2>2, DataKept
<1>2. CASE /\ meta = f /\ ~finished
           /\ call' = [call EXCEPT ![f].at = "poll", ![f].total = Total(f, chunkSize)]
           /\ UNCHANGED <<fileVars, batchVars, finished, hashVars, sinkVars, chainVars,
                          uiVars>>
  <2>1. chunkSize \in ChunkSizes
    BY <1>2, FileFacts DEF Progress
  <2>2. \A g \in Files : ~Busy(g)
    BY <1>2, QuietVerify
  <2> QED BY <1>2, <2>1, <2>2, PollData DEF uiVars
<1>3. CASE meta = f /\ ~finished /\ Verify(f, Total(f, chunkSize))
  <2>1. chunkSize \in ChunkSizes /\ Total(f, chunkSize) \in Nat /\ meta # None
    BY <1>3, FileFacts DEF Progress
  <2>2. \A g \in Files : ~Busy(g)
    BY <1>3, QuietVerify
  <2> DEFINE t == Total(f, chunkSize)
  <2>3. t \in Nat /\ Verify(f, t) /\ t = Total(meta, chunkSize)
    BY <1>3, <2>1
  <2> HIDE DEF t
  <2> QED BY <2>1, <2>2, <2>3, VerifyData
<1> QED BY <1>1, <1>2, <1>3 DEF OnComplete

\* handleMessage()
LEMMA HandleData ==
  ASSUME Progress, DataInv, Serial, Quiet, NEW m \in Messages, Handle(m)
  PROVE  DataInv'
<1>1. CASE \/ OnBatchInfo(NumFiles) \/ UNCHANGED receiverVars \/ OnCancel
  <2>1. UNCHANGED <<meta, chunkSize, nextIndex, reorder, early, finished, hashers, hasher,
                    sinks, sink, chains, chain, writeError, call, saved>>
    BY <1>1 DEF OnBatchInfo, OnCancel, receiverVars, fileVars, hashVars, sinkVars,
                chainVars, uiVars
  <2>2. FramesTyped'
    BY <2>1 DEF DataInv, FramesTyped
  <2> QED BY <2>1, <2>2, DataKept
<1>2. CASE m.type = "FILE_METADATA" /\ OnMetadata(m.file, m.chunkSize)
  <2>1. m.file \in Files /\ m.chunkSize \in ChunkSizes
    BY <1>2, MessageFacts
  <2>2. UNCHANGED receiverVars \/ (meta # m.file /\ BeginFile(m.file, m.chunkSize))
    BY <1>2 DEF OnMetadata
  <2> QED BY <1>1, <2>1, <2>2, BeginFileData
<1>3. CASE m.type = "CHUNK" /\ OnChunk(m.index, m.bytes)
  BY <1>3, MessageFacts, ChunkFacts, OnChunkData
<1>4. CASE m.type = "TRANSFER_COMPLETE" /\ OnComplete(m.file)
  BY <1>4, ChunkFacts, OnCompleteData
<1> QED BY <1>1, <1>2, <1>3, <1>4 DEF Handle

\* What goes on inside the receiver between messages.
LEMMA ContinueData ==
  ASSUME Progress, DataInv, Serial, Continue \/ Misfortune
  PROVE  DataInv'
<1>1. ASSUME NEW f \in Files, PollEnough(f)
      PROVE  DataInv'
  <2>1. Quiet /\ call[f].at = "poll" /\ Verify(f, call[f].total)
    BY <1>1 DEF PollEnough
  <2>2. /\ meta # None /\ call[f].total \in Nat
        /\ NumFiles = 1 => call[f].total = Total(meta, chunkSize)
    BY <2>1 DEF DataInv, Begun, CallsTyped, CallRec
  <2>3. \A g \in Files : ~Busy(g)
    BY <2>1, QuietVerify
  <2> DEFINE t == call[f].total
  <2>4. t \in Nat /\ Verify(f, t) /\ (NumFiles = 1 => t = Total(meta, chunkSize))
    BY <2>1, <2>2
  <2> HIDE DEF t
  <2> QED BY <2>2, <2>3, <2>4, VerifyData
<1>2. ASSUME NEW f \in Files, AskDigest(f) \/ Digested(f) \/ Closed(f)
      PROVE  DataInv'
  BY <1>2, AskDigestData, DigestedData, ClosedData
<1>3. ASSUME NEW h \in DOMAIN hashers, WorkerAnswers(h)
      PROVE  DataInv'
  BY <1>3, WorkerAnswersData
<1>4. ASSUME NEW c \in DOMAIN chains,
             SinkOpens(c) \/ WriteStarts(c) \/ StreamCreated(c) \/ WriteSettles(c)
      PROVE  DataInv'
  BY <1>4, SinkOpensData, WriteStartsData, StreamCreatedData, WriteSettlesData
<1>5. ASSUME NEW f \in Files, PollGivesUp(f)
      PROVE  DataInv'
  <2>1. meta # None /\ Fail(f)
    BY <1>5 DEF PollGivesUp, DataInv, Begun
  <2> QED BY <2>1, FailData
<1>6. CASE WorkerCrashes \/ Dispose
  BY <1>6, WorkerCrashesData, DisposeData
<1> QED BY <1>1, <1>2, <1>3, <1>4, <1>5, <1>6 DEF Continue, Misfortune

\* Every step of the receiver and of the rest keeps the invariant of the data.
LEMMA NextData ==
  ASSUME IInv, DataInv, Serial, [Next]_vars
  PROVE  DataInv'
<1>1. CASE UNCHANGED receiverVars
  <2>1. UNCHANGED <<meta, chunkSize, nextIndex, reorder, early, finished, hashers, hasher,
                    sinks, sink, chains, chain, writeError, call, saved>>
    BY <1>1 DEF receiverVars, fileVars, hashVars, sinkVars, chainVars, uiVars
  <2>2. FramesTyped'
    BY <2>1 DEF DataInv, FramesTyped
  <2> QED BY <2>1, <2>2, DataKept
<1>2. CASE UNCHANGED vars
  <2>1. UNCHANGED receiverVars
    BY <1>2 DEF vars
  <2> QED BY <1>1, <2>1
<1>3. CASE Sending \/ StatusTimeout \/ SenderStops \/ Drop
  <2>1. UNCHANGED receiverVars
    BY <1>3, SenderStep DEF Drop
  <2> QED BY <1>1, <2>1
<1>4. ASSUME NEW ch \in ChannelIds, Deliver(ch)
      PROVE  DataInv'
  <2>1. PICK k \in DOMAIN net[ch] :
          IF disposed THEN UNCHANGED receiverVars ELSE Handle(net[ch][k])
    BY <1>4 DEF Deliver
  <2>2. Quiet /\ net[ch][k] \in Messages
    BY <1>4, RemoveKeeps DEF Deliver, IInv, Wire
  <2> QED BY <1>1, <2>1, <2>2, HandleData DEF IInv
<1>5. CASE (Continue \/ Misfortune) /\ UNCHANGED <<senderVars, linkVars>>
  BY <1>5, ContinueData DEF IInv
<1> QED BY <1>2, <1>3, <1>4, <1>5 DEF Next

\* A receiver that has not begun holds nothing.
LEMMA InitData ==
  ASSUME Init
  PROVE  DataInv
<1>1. /\ meta = None /\ reorder = <<>> /\ early = <<>> /\ hashers = <<>> /\ hasher = None
      /\ sinks = <<>> /\ sink = None /\ chains = <<>> /\ chain = None /\ saved = <<>>
      /\ call = [f \in Files |-> [at |-> "idle", total |-> 0, chain |-> None, upTo |-> 0,
                                  hasher |-> None, sink |-> None]]
  BY DEF Init, ReceiverInit
<1>2. DOMAIN <<>> = {} /\ Len(<<>>) = 0 /\ 0 \in 0 .. 0 /\ 1 .. 0 = {}
  OBVIOUS
<1>3. FramesTyped
  BY <1>1, <1>2 DEF FramesTyped
<1>4. HashersTyped /\ SinksTyped /\ ChainsTyped
  BY <1>1, <1>2, EmptySeq DEF HashersTyped, SinksTyped, ChainsTyped, None
<1>5. CallsTyped /\ \A f \in Files : call[f].at = "idle"
  BY <1>1 DEF CallsTyped, CallRec, None
<1>6. Agree /\ StillOpen
  BY <1>1 DEF Agree, StillOpen
<1>7. Flushing /\ OneBusy /\ Digesting /\ Begun
  BY <1>5 DEF Flushing, OneBusy, Digesting, Begun, Busy
<1>8. Finishing
  BY <1>1, <1>2, <1>5 DEF Finishing, Ending
<1>9. SavedWhole
  BY <1>1, EmptySeq DEF SavedWhole
<1> QED BY <1>3, <1>4, <1>5, <1>6, <1>7, <1>8, <1>9 DEF DataInv

\* The data of the receiver, in every reachable state.
THEOREM ReceiverData == Serial /\ Spec => []DataInv
<1>1. IInv /\ DataInv /\ Serial /\ [Next]_vars => DataInv'
  BY NextData
<1>2. Init => DataInv
  BY InitData
<1>3. Serial' <=> Serial
  BY DEF Serial, NumFiles
<1> QED BY <1>1, <1>2, <1>3, ReceiverInvariance, PTL DEF Spec

\* What is handed over, or closed on disk, is the sender's file.
THEOREM ReceiverIntact == Serial /\ Spec => []Intact
<1>1. DataInv => Intact
  <2> SUFFICES ASSUME DataInv PROVE Intact
    OBVIOUS
  <2>1. \A k \in DOMAIN saved : saved[k] \in {<<f, Bytes(f)>> : f \in Files}
    BY ElementOfSeq, LenProperties DEF DataInv, SavedWhole
  <2>2. DOMAIN sinks = 1 .. Len(sinks)
    BY LenProperties DEF DataInv, SinksTyped
  <2> QED BY <2>1, <2>2 DEF Intact, DataInv, Finishing
<1> QED BY ReceiverData, <1>1, PTL

-----------------------------------------------------------------------------
(* The batch: what is announced, and what was handed over. *)

\* TRANSFER_COMPLETE of file f is on its way, as message k of channel ch.
Announces(ch, k, f) == net[ch][k].type = "TRANSFER_COMPLETE" /\ net[ch][k].file = f

\* It is sent once, when the sender is done with the file, and nobody has begun
\* to finish the file before it arrives.
AnnouncedOnce ==
  \A f \in Files, ch \in ChannelIds : \A k \in DOMAIN net[ch] : Announces(ch, k, f) =>
    /\ ch = Control /\ f <= fullySent /\ call[f].at = "idle"
    /\ \A l \in DOMAIN net[ch] : Announces(ch, l, f) => l = k

\* Calls are of files that the sender is done with.
CalledAfter ==
  /\ \A f \in Files : call[f].at # "idle" => f <= fullySent
  /\ phase \in {"asking", "sending"} => file = fullySent + 1

\* The receiver knows the size of the batch before it finishes any file.
BatchKnown ==
  \/ totalFiles = NumFiles
  \/ /\ NumFiles # 1
     /\ \A f \in Files : call[f].at = "idle"
     /\ net[Control] # <<>> => net[Control][1].type = "BATCH_INFO"
     /\ phase \in {"asking", "sending"} => net[Control] # <<>>

\* What was handed over was counted, and is done with.
Handed ==
  /\ fileIndex = Len(saved)
  /\ \A k \in 1 .. Len(saved) : call[saved[k][1]].at = "done"
  /\ \A k, l \in 1 .. Len(saved) : saved[k][1] = saved[l][1] => k = l

\* The invariant of the batch.
BatchInv == AnnouncedOnce /\ CalledAfter /\ (ui = "active" => BatchKnown /\ Handed)

\* Batches whose control messages come in order, or of one file.
InTurn == NumFiles = 1 \/ Ordered

-----------------------------------------------------------------------------
\* A call that has begun is not begun anew, and one that is done stays done.
CallsGoOn ==
  \A g \in Files : /\ call'[g].at = "idle" <=> call[g].at = "idle"
                   /\ call[g].at = "done" => call'[g].at = "done"

\* A step that hands over nothing: the panel goes on, or ends otherwise.
NothingGiven ==
  /\ UNCHANGED <<saved, fileIndex>>
  /\ ui' = ui \/ (ui = "active" /\ ui' \in {"error", "cancelled"})

\* A call gets another state.
LEMMA CallMoves ==
  ASSUME CallsTyped, NEW f \in Files, NEW r, call' = [call EXCEPT ![f] = r],
         r.at # "idle", call[f].at # "idle", call[f].at = "done" => r.at = "done"
  PROVE  CallsGoOn
BY DEF CallsTyped, CallsGoOn

\* fail(), for a call that has begun
LEMMA FailBatch ==
  ASSUME CallsTyped, NEW f \in Files, call[f].at # "idle", Fail(f)
  PROVE  NothingGiven /\ CallsGoOn /\ totalFiles' = totalFiles
<1> DEFINE r == [call[f] EXCEPT !.at = "done"]
<1>1. r.at = "done"
  BY DEF CallsTyped, CallRec
<1>2. call' = [call EXCEPT ![f] = r] /\ NothingGiven /\ totalFiles' = totalFiles
  BY DEF Fail, Report, batchVars, NothingGiven
<1> HIDE DEF r
<1> QED BY <1>1, <1>2, CallMoves

\* finishCurrentFile() past its wait, for a call that has begun
LEMMA VerifyBatch ==
  ASSUME CallsTyped, NEW f \in Files, call[f].at = "poll", NEW total, Verify(f, total)
  PROVE  NothingGiven /\ CallsGoOn /\ totalFiles' = totalFiles
<1>1. CASE Fail(f)
  BY <1>1, FailBatch
<1>2. CASE ~Fail(f)
  <2> DEFINE r == [at |-> "flush", total |-> total, chain |-> chain,
                   upTo |-> chains[chain].done + Len(chains[chain].links),
                   hasher |-> None, sink |-> None]
  <2>1. call' = [call EXCEPT ![f] = r] /\ NothingGiven /\ totalFiles' = totalFiles
    BY <1>2 DEF Verify, batchVars, uiVars, NothingGiven
  <2>2. r.at = "flush"
    OBVIOUS
  <2> HIDE DEF r
  <2> QED BY <2>1, <2>2, CallMoves
<1> QED BY <1>1, <1>2

\* A file is handed over with its own content, or nothing is.
HandsOver(f) ==
  /\ call[f].at \in {"digest", "closing"}
  /\ saved' = IF ui = "active" THEN Append(saved, <<f, Bytes(f)>>) ELSE saved
  /\ fileIndex' = fileIndex + 1
  /\ ui' = IF fileIndex + 1 >= totalFiles /\ ui = "active" THEN "done" ELSE ui
  /\ call' = [call EXCEPT ![f].at = "done"]

\* HandOver(), of a file whose sink has its content.
LEMMA HandOverBatch ==
  ASSUME CallsTyped, NEW f \in Files, call[f].at \in {"digest", "closing"}, NEW s,
         HandOver(f, s), Content(sinks[s]) = Bytes(f)
  PROVE  HandsOver(f) /\ CallsGoOn
<1> DEFINE r == [call[f] EXCEPT !.at = "done"]
<1>1. r.at = "done"
  BY DEF CallsTyped, CallRec
<1>2. call' = [call EXCEPT ![f] = r] /\ HandsOver(f)
  BY DEF HandOver, Report, HandsOver
<1> HIDE DEF r
<1> QED BY <1>1, <1>2, CallMoves

\* The steps between messages.
LEMMA ContinueBatch ==
  ASSUME DataInv, Continue \/ Misfortune
  PROVE  /\ CallsGoOn /\ totalFiles' = totalFiles
         /\ NothingGiven \/ \E f \in Files : HandsOver(f)
<1>0. CallsTyped
  BY DEF DataInv
<1>1. ASSUME NEW f \in Files, PollEnough(f)
      PROVE  CallsGoOn /\ totalFiles' = totalFiles /\ NothingGiven
  BY <1>0, <1>1, VerifyBatch DEF PollEnough
<1>2. ASSUME NEW f \in Files, AskDigest(f)
      PROVE  CallsGoOn /\ totalFiles' = totalFiles /\ NothingGiven
  <2>1. CASE Fail(f)
    BY <1>0, <1>2, <2>1, FailBatch DEF AskDigest
  <2>2. CASE ~Fail(f)
    <3>1. /\ call[f].at = "flush" /\ NothingGiven /\ totalFiles' = totalFiles
          /\ call' = [g \in Files |->
               IF g = f THEN [call[f] EXCEPT !.at = "digest", !.hasher = hasher]
               ELSE IF hashers[hasher].inWorker /\ Asks(g, hasher)
               THEN [call[g] EXCEPT !.at = "overtaken"] ELSE call[g]]
      BY <1>2, <2>2 DEF AskDigest, batchVars, uiVars, NothingGiven
    <3>2. \A g \in Files : call[g] \in CallRec
      BY <1>0 DEF CallsTyped
    <3>3. \A g \in Files : /\ [call[g] EXCEPT !.at = "overtaken"].at = "overtaken"
                           /\ [call[g] EXCEPT !.at = "digest", !.hasher = hasher].at = "digest"
      BY <3>2 DEF CallRec
    <3> QED BY <3>1, <3>3 DEF CallsGoOn, Asks
  <2> QED BY <2>1, <2>2
<1>3. ASSUME NEW f \in Files, Digested(f)
      PROVE  /\ CallsGoOn /\ totalFiles' = totalFiles
             /\ NothingGiven \/ \E g \in Files : HandsOver(g)
  <2>0. call[f].at = "digest"
    BY <1>3 DEF Digested
  <2>1. CASE Fail(f)
    BY <1>0, <2>0, <2>1, FailBatch
  <2>2. CASE ~Fail(f)
    <3>1. /\ Content(hashers[call[f].hasher]) = Bytes(f) /\ sink # None
          /\ totalFiles' = totalFiles
          /\ \/ /\ call' = [call EXCEPT ![f].at = "closing", ![f].sink = sink]
                /\ UNCHANGED <<fileIndex, ui, saved>>
             \/ HandOver(f, sink)
      BY <1>3, <2>2 DEF Digested
    <3>2. Content(sinks[sink]) = Bytes(f)
      BY <2>0, <3>1 DEF DataInv, Digesting, Content
    <3>3. CASE HandOver(f, sink)
      BY <1>0, <2>0, <3>1, <3>2, <3>3, HandOverBatch
    <3>4. CASE /\ call' = [call EXCEPT ![f].at = "closing", ![f].sink = sink]
               /\ UNCHANGED <<fileIndex, ui, saved>>
      <4> DEFINE r == [call[f] EXCEPT !.at = "closing", !.sink = sink]
      <4>1. r.at = "closing"
        BY <1>0 DEF CallsTyped, CallRec
      <4>2. call' = [call EXCEPT ![f] = r] /\ NothingGiven
        BY <3>4 DEF NothingGiven
      <4> HIDE DEF r
      <4> QED BY <1>0, <2>0, <3>1, <4>1, <4>2, CallMoves
    <3> QED BY <3>1, <3>3, <3>4
  <2> QED BY <2>1, <2>2
<1>4. ASSUME NEW f \in Files, Closed(f)
      PROVE  /\ CallsGoOn /\ totalFiles' = totalFiles
             /\ NothingGiven \/ \E g \in Files : HandsOver(g)
  <2>0. call[f].at = "closing"
    BY <1>4 DEF Closed
  <2>1. CASE Fail(f)
    BY <1>0, <2>0, <2>1, FailBatch
  <2>2. CASE ~Fail(f)
    <3>1. HandOver(f, call[f].sink) /\ totalFiles' = totalFiles
      BY <1>4, <2>2 DEF Closed
    <3>2. Content(sinks[call[f].sink]) = Bytes(f)
      BY <2>0 DEF DataInv, Finishing
    <3> QED BY <1>0, <2>0, <3>1, <3>2, HandOverBatch
  <2> QED BY <2>1, <2>2
<1>5. ASSUME \/ \E h \in DOMAIN hashers : WorkerAnswers(h)
             \/ WorkerCrashes
             \/ \E c \in DOMAIN chains :
                  SinkOpens(c) \/ WriteStarts(c) \/ StreamCreated(c) \/ WriteSettles(c)
      PROVE  CallsGoOn /\ totalFiles' = totalFiles /\ NothingGiven
  <2>1. UNCHANGED <<call, batchVars, uiVars>>
    BY <1>5 DEF WorkerAnswers, WorkerCrashes, SinkOpens, WriteStarts, StreamCreated,
                WriteSettles
  <2> QED BY <2>1 DEF batchVars, uiVars, CallsGoOn, NothingGiven
<1>6. ASSUME NEW f \in Files, PollGivesUp(f)
      PROVE  CallsGoOn /\ totalFiles' = totalFiles /\ NothingGiven
  BY <1>0, <1>6, FailBatch DEF PollGivesUp
<1>7. ASSUME Dispose
      PROVE  CallsGoOn /\ totalFiles' = totalFiles /\ NothingGiven
  BY <1>7 DEF Dispose, Report, batchVars, CallsGoOn, NothingGiven
<1> QED BY <1>1, <1>2, <1>3, <1>4, <1>5, <1>6, <1>7 DEF Continue, Misfortune

\* handleMessage() hands over nothing, and begins a call for the file announced.
LEMMA HandleBatch ==
  ASSUME CallsTyped, NEW m \in Messages, Handle(m)
  PROVE  /\ NothingGiven
         /\ totalFiles' = IF m.type = "BATCH_INFO" THEN NumFiles ELSE totalFiles
         /\ m.type # "TRANSFER_COMPLETE" => call' = call
         /\ \A f \in Files : f # m.file => call'[f] = call[f]
<1>1. CASE m.type = "BATCH_INFO" /\ OnBatchInfo(NumFiles)
  BY <1>1 DEF OnBatchInfo, uiVars, NothingGiven
<1>2. CASE m.type = "FILE_METADATA" /\ OnMetadata(m.file, m.chunkSize)
  BY <1>2 DEF OnMetadata, receiverVars, BeginFile, Report, batchVars, uiVars, NothingGiven
<1>3. CASE m.type = "RESUME_QUERY" /\ UNCHANGED receiverVars
  BY <1>3 DEF receiverVars, batchVars, uiVars, NothingGiven
<1>4. CASE m.type = "CHUNK" /\ OnChunk(m.index, m.bytes)
  BY <1>4 DEF OnChunk, Report, batchVars, uiVars, NothingGiven
<1>5. CASE m.type = "TRANSFER_COMPLETE" /\ OnComplete(m.file)
  <2>0. m.file \in Files
    BY <1>5, ChunkFacts
  <2>1. CASE Fail(m.file)
    <3>1. NothingGiven /\ totalFiles' = totalFiles
      BY <2>1 DEF Fail, Report, batchVars, NothingGiven
    <3>2. \A f \in Files : f # m.file => call'[f] = call[f]
      BY <2>1 DEF Fail, CallsTyped
    <3> QED BY <1>5, <3>1, <3>2
  <2>2. CASE ~Fail(m.file)
    <3>1. NothingGiven /\ totalFiles' = totalFiles
      BY <1>5, <2>2 DEF OnComplete, Verify, receiverVars, batchVars, uiVars, NothingGiven
    <3>2. \A f \in Files : f # m.file => call'[f] = call[f]
      BY <1>5, <2>2 DEF OnComplete, Verify, receiverVars, CallsTyped
    <3> QED BY <1>5, <3>1, <3>2
  <2> QED BY <2>1, <2>2
<1>6. CASE m.type = "CANCEL" /\ OnCancel
  BY <1>6 DEF OnCancel, Report, batchVars, NothingGiven
<1> QED BY <1>1, <1>2, <1>3, <1>4, <1>5, <1>6 DEF Handle

\* What is left of a queue when message k is taken off it.
LEMMA RemoveIndex ==
  ASSUME NEW S, NEW s \in Seq(S), NEW k \in DOMAIN s
  PROVE  /\ DOMAIN RemoveAt(s, k) = 1 .. Len(s) - 1
         /\ \A j \in 1 .. Len(s) - 1 : RemoveAt(s, k)[j] = s[IF j < k THEN j ELSE j + 1]
<1> DEFINE a == SubSeq(s, 1, k - 1)
           b == SubSeq(s, k + 1, Len(s))
<1>1. k \in 1 .. Len(s) /\ Len(s) \in Nat
  BY LenProperties
<1>2. /\ a \in Seq(S) /\ Len(a) = k - 1 /\ \A j \in 1 .. k - 1 : a[j] = s[j]
      /\ b \in Seq(S) /\ Len(b) = Len(s) - k /\ \A j \in 1 .. Len(s) - k : b[j] = s[k + j]
  <2>1. a \in Seq(S) /\ Len(a) = k - 1 /\ \A j \in 1 .. k - 1 : a[j] = s[j]
    BY <1>1, SubSeqProperties
  <2>2. b \in Seq(S) /\ Len(b) = Len(s) - k /\ \A j \in 1 .. Len(s) - k : b[j] = s[k + j]
    BY <1>1, SubSeqProperties
  <2> QED BY <2>1, <2>2
<1> HIDE DEF a, b
<1>3. /\ a \o b \in Seq(S) /\ Len(a \o b) = Len(a) + Len(b)
      /\ \A j \in 1 .. Len(a) + Len(b) :
           (a \o b)[j] = IF j <= Len(a) THEN a[j] ELSE b[j - Len(a)]
  BY <1>2, ConcatProperties
<1>4. RemoveAt(s, k) = a \o b
  BY DEF RemoveAt, a, b
<1>5. Len(a) + Len(b) = Len(s) - 1
  BY <1>1, <1>2
<1>6. DOMAIN (a \o b) = 1 .. Len(s) - 1
  BY <1>3, <1>5, LenProperties
<1>7. ASSUME NEW j \in 1 .. Len(s) - 1
      PROVE  (a \o b)[j] = s[IF j < k THEN j ELSE j + 1]
  <2>1. (a \o b)[j] = IF j <= Len(a) THEN a[j] ELSE b[j - Len(a)]
    BY <1>3, <1>5
  <2>2. CASE j < k
    BY <1>1, <1>2, <2>1, <2>2
  <2>3. CASE ~(j < k)
    <3>1. j - Len(a) \in 1 .. Len(s) - k /\ k + (j - Len(a)) = j + 1 /\ ~(j <= Len(a))
      BY <1>1, <1>2, <2>3
    <3> QED BY <1>2, <2>1, <2>3, <3>1
  <2> QED BY <2>2, <2>3
<1> QED BY <1>4, <1>6, <1>7

\* Messages more on one channel: at most one of them, the first, announces the end of
\* a file, and that for the first time.
LEMMA SentBatch ==
  ASSUME Wire, AnnouncedOnce, CalledAfter,
         NEW msgs \in Seq(Messages), NEW ch \in ChannelIds,
         net' = [net EXCEPT ![ch] = @ \o msgs], call' = call,
         fullySent \in Nat, fullySent' \in Nat, fullySent <= fullySent',
         \A k \in DOMAIN msgs : msgs[k].type = "TRANSFER_COMPLETE" =>
           k = 1 /\ ch = Control /\ msgs[k].file = fullySent' /\ fullySent < fullySent'
  PROVE  /\ AnnouncedOnce'
         /\ net[ch] # <<>> => net'[ch] # <<>> /\ net'[ch][1] = net[ch][1]
         /\ net[ch] = <<>> => net'[ch] = msgs
         /\ \A g \in ChannelIds : g # ch => net'[g] = net[g]
<1>0. Files \subseteq Nat
  BY FileFacts
<1>1. /\ net[ch] \in Seq(Messages) /\ net'[ch] = net[ch] \o msgs
      /\ \A g \in ChannelIds : g # ch => net'[g] = net[g]
  BY DEF Wire
<1> DEFINE s == net[ch]
           t == s \o msgs
<1>2. /\ t \in Seq(Messages) /\ Len(t) = Len(s) + Len(msgs)
      /\ \A j \in 1 .. Len(s) + Len(msgs) :
           t[j] = IF j <= Len(s) THEN s[j] ELSE msgs[j - Len(s)]
  BY <1>1, ConcatProperties
<1>3. /\ Len(s) \in Nat /\ Len(msgs) \in Nat /\ DOMAIN s = 1 .. Len(s)
      /\ DOMAIN msgs = 1 .. Len(msgs) /\ DOMAIN t = 1 .. Len(t)
  BY <1>1, <1>2, LenProperties
<1>4. s # <<>> => t # <<>> /\ t[1] = s[1]
  <2> SUFFICES ASSUME s # <<>> PROVE t # <<>> /\ t[1] = s[1]
    OBVIOUS
  <2>1. Len(s) >= 1
    BY <1>1, <1>3, EmptySeq
  <2> HIDE DEF s, t
  <2>2. Len(t) # 0
    BY <2>1, <1>2, <1>3
  <2>3. t # <<>>
    BY <2>2
  <2> QED BY <2>1, <2>3, <1>2, <1>3
<1>5. s = <<>> => t = msgs
  BY ConcatEmptySeq
<1>6. ASSUME NEW f \in Files, NEW k \in DOMAIN t,
             t[k].type = "TRANSFER_COMPLETE", t[k].file = f
      PROVE  \/ k \in DOMAIN s /\ Announces(ch, k, f)
             \/ /\ k = Len(s) + 1 /\ ch = Control /\ f = fullySent' /\ fullySent < fullySent'
  <2>1. k \in 1 .. Len(s) + Len(msgs)
    BY <1>2, <1>3
  <2>2. CASE k <= Len(s)
    BY <1>2, <1>3, <1>6, <2>1, <2>2 DEF Announces
  <2>3. CASE ~(k <= Len(s))
    <3>1. k - Len(s) \in DOMAIN msgs /\ t[k] = msgs[k - Len(s)]
      BY <1>2, <1>3, <2>1, <2>3
    <3> HIDE DEF s, t
    <3> QED BY <1>3, <1>6, <2>1, <3>1
  <2> QED BY <2>2, <2>3
<1>7. ASSUME NEW f \in Files, NEW k \in DOMAIN t,
             t[k].type = "TRANSFER_COMPLETE", t[k].file = f
      PROVE  /\ ch = Control /\ f <= fullySent' /\ call[f].at = "idle"
             /\ \A l \in DOMAIN t : t[l].type = "TRANSFER_COMPLETE" /\ t[l].file = f => l = k
  <2>1. CASE k \in DOMAIN s /\ Announces(ch, k, f)
    <3>1. /\ ch = Control /\ f <= fullySent /\ call[f].at = "idle"
          /\ \A l \in DOMAIN s : Announces(ch, l, f) => l = k
      BY <2>1 DEF AnnouncedOnce
    <3> HIDE DEF s, t
    <3> QED BY <1>0, <1>6, <3>1
  <2>2. CASE k = Len(s) + 1 /\ ch = Control /\ f = fullySent' /\ fullySent < fullySent'
    <3>1. ~(f <= fullySent)
      BY <1>0, <2>2
    <3>2. call[f].at = "idle" /\ \A l \in DOMAIN s : ~Announces(ch, l, f)
      BY <3>1 DEF AnnouncedOnce, CalledAfter
    <3> HIDE DEF s, t
    <3> QED BY <1>0, <1>6, <2>2, <3>2
  <2> QED BY <1>6, <1>7, <2>1, <2>2
<1>8. ASSUME NEW f \in Files, NEW g \in ChannelIds, NEW k \in DOMAIN net'[g],
             net'[g][k].type = "TRANSFER_COMPLETE", net'[g][k].file = f
      PROVE  /\ g = Control /\ f <= fullySent' /\ call'[f].at = "idle"
             /\ \A l \in DOMAIN net'[g] :
                  net'[g][l].type = "TRANSFER_COMPLETE" /\ net'[g][l].file = f => l = k
  <2>1. CASE g = ch
    <3>1. net'[g] = t
      BY <1>1, <2>1
    <3> HIDE DEF s, t
    <3> QED BY <1>7, <1>8, <2>1, <3>1
  <2>2. CASE g # ch
    <3>1. net'[g] = net[g] /\ k \in DOMAIN net[g] /\ Announces(g, k, f)
      BY <1>1, <1>8, <2>2 DEF Announces
    <3>2. /\ g = Control /\ f <= fullySent /\ call[f].at = "idle"
          /\ \A l \in DOMAIN net[g] : Announces(g, l, f) => l = k
      BY <3>1 DEF AnnouncedOnce
    <3>3. f <= fullySent'
      BY <1>0, <3>2
    <3> QED BY <3>1, <3>2, <3>3 DEF Announces
  <2> QED BY <2>1, <2>2
<1>9. AnnouncedOnce'
  BY <1>8 DEF AnnouncedOnce, Announces
<1> QED BY <1>1, <1>4, <1>5, <1>9

\* What sendFiles() sends when it comes to a file: no announcement of its end.
LEMMA OpeningBatch ==
  ASSUME NEW f \in Nat \ {0}, NEW c, f \in Files => c \in ChunkSizes,
         NEW m \in {BatchInfo} \cup {Complete(g) : g \in Files}
  PROVE  LET msgs == <<m>> \o Opening(f, c) IN
           /\ msgs \in Seq(Messages) /\ msgs # <<>> /\ msgs[1] = m
           /\ \A k \in DOMAIN msgs : msgs[k].type = "TRANSFER_COMPLETE" => k = 1
<1> DEFINE o == Opening(f, c)
<1>1. m \in Messages
  BY MessageFacts
<1>2. o \in Seq(Messages) /\ \A k \in 1 .. Len(o) : o[k].type # "TRANSFER_COMPLETE"
  <2>1. CASE f > NumFiles
    BY <2>1 DEF Opening
  <2>2. CASE ~(f > NumFiles)
    <3>1. f \in Files /\ c \in ChunkSizes
      BY <2>2, FileFacts
    <3> DEFINE d == Metadata(f, c)
               q == Query(f)
    <3>2. d \in Messages /\ q \in Messages
      BY <3>1, MessageFacts
    <3>3. d.type # "TRANSFER_COMPLETE" /\ q.type # "TRANSFER_COMPLETE"
      BY DEF Metadata, Query
    <3>4. o = <<d, q>>
      BY <2>2 DEF Opening
    <3> HIDE DEF d, q, o
    <3> QED BY <3>2, <3>3, <3>4
  <2> QED BY <2>1, <2>2
<1> HIDE DEF o
<1> DEFINE u == <<m>>
<1>3. u \in Seq(Messages) /\ Len(u) = 1 /\ u[1] = m
  BY <1>1
<1> HIDE DEF u
<1>4. /\ u \o o \in Seq(Messages) /\ Len(u \o o) = 1 + Len(o)
      /\ \A k \in 1 .. 1 + Len(o) : (u \o o)[k] = IF k <= 1 THEN u[k] ELSE o[k - 1]
  <2>1. /\ u \o o \in Seq(Messages) /\ Len(u \o o) = Len(u) + Len(o)
        /\ \A k \in 1 .. Len(u) + Len(o) :
             (u \o o)[k] = IF k <= Len(u) THEN u[k] ELSE o[k - Len(u)]
    BY <1>2, <1>3, ConcatProperties
  <2> QED BY <1>3, <2>1
<1>5. Len(o) \in Nat /\ DOMAIN (u \o o) = 1 .. 1 + Len(o)
  BY <1>2, <1>4, LenProperties
<1>6. u \o o # <<>> /\ (u \o o)[1] = m
  BY <1>3, <1>4, <1>5
<1>7. ASSUME NEW k \in 1 .. 1 + Len(o), k # 1
      PROVE  (u \o o)[k].type # "TRANSFER_COMPLETE"
  <2>1. k - 1 \in 1 .. Len(o) /\ ~(k <= 1)
    BY <1>5, <1>7
  <2> QED BY <1>2, <1>4, <2>1
<1> QED BY <1>4, <1>5, <1>6, <1>7 DEF u, o

\* A step of the sender that puts something on a channel.
LEMMA SendingBatch ==
  ASSUME IInv, BatchInv, UNCHANGED receiverVars, fullySent' \in Nat, fullySent <= fullySent',
         phase' \in {"asking", "sending"} => file' = fullySent' + 1,
         NEW msgs \in Seq(Messages), NEW ch \in ChannelIds,
         net' = [net EXCEPT ![ch] = @ \o msgs],
         \A k \in DOMAIN msgs : msgs[k].type = "TRANSFER_COMPLETE" =>
           k = 1 /\ ch = Control /\ msgs[k].file = fullySent' /\ fullySent < fullySent',
         \/ phase \in {"asking", "sending"}
         \/ ch = Control /\ msgs # <<>> /\ msgs[1].type = "BATCH_INFO"
  PROVE  BatchInv'
<1>1. UNCHANGED <<call, ui, totalFiles, fileIndex, saved>>
  BY DEF receiverVars, batchVars, uiVars
<1>2. Wire /\ AnnouncedOnce /\ CalledAfter /\ fullySent \in Nat /\ call' = call
  BY <1>1 DEF IInv, BatchInv, Sender
<1>3. /\ AnnouncedOnce'
      /\ net[ch] # <<>> => net'[ch] # <<>> /\ net'[ch][1] = net[ch][1]
      /\ net[ch] = <<>> => net'[ch] = msgs
      /\ \A g \in ChannelIds : g # ch => net'[g] = net[g]
  BY <1>2, SentBatch
<1>4. CalledAfter'
  <2>1. Files \subseteq Nat
    BY FileFacts
  <2>2. \A f \in Files : call'[f].at # "idle" => f <= fullySent'
    BY <1>1, <1>2, <2>1 DEF CalledAfter
  <2> QED BY <2>2 DEF CalledAfter
<1>5. ui = "active" => BatchKnown'
  <2> SUFFICES ASSUME ui = "active", totalFiles # NumFiles PROVE BatchKnown'
    BY <1>1 DEF BatchKnown, NumFiles
  <2>1. /\ NumFiles # 1
        /\ \A f \in Files : call[f].at = "idle"
        /\ net[Control] # <<>> => net[Control][1].type = "BATCH_INFO"
        /\ phase \in {"asking", "sending"} => net[Control] # <<>>
    BY DEF BatchInv, BatchKnown
  <2>2. net'[Control] # <<>> /\ net'[Control][1].type = "BATCH_INFO"
    BY <1>3, <2>1, FileFacts
  <2> QED BY <1>1, <2>1, <2>2 DEF BatchKnown, NumFiles, Files
<1>6. ui = "active" => Handed'
  BY <1>1 DEF BatchInv, Handed
<1> QED BY <1>1, <1>3, <1>4, <1>5, <1>6 DEF BatchInv

\* A step that sends nothing and leaves the receiver alone.
LEMMA SilentBatch ==
  ASSUME BatchInv, UNCHANGED <<receiverVars, net, file, fullySent>>,
         phase' \in {"asking", "sending"} => phase \in {"asking", "sending"}
  PROVE  BatchInv'
<1>1. UNCHANGED <<call, ui, totalFiles, fileIndex, saved>>
  BY DEF receiverVars, batchVars, uiVars
<1>2. AnnouncedOnce'
  BY <1>1 DEF BatchInv, AnnouncedOnce, Announces
<1>3. CalledAfter'
  BY <1>1 DEF BatchInv, CalledAfter
<1>4. ui = "active" => BatchKnown'
  BY <1>1 DEF BatchInv, BatchKnown, NumFiles, Files
<1>5. ui = "active" => Handed'
  BY <1>1 DEF BatchInv, Handed
<1> QED BY <1>1, <1>2, <1>3, <1>4, <1>5 DEF BatchInv

\* The sender.
LEMMA SenderBatch ==
  ASSUME IInv, BatchInv, Sending \/ StatusTimeout \/ SenderStops
  PROVE  BatchInv'
<1>0. /\ UNCHANGED receiverVars
      /\ file \in Nat /\ fullySent \in Nat
      /\ phase \in {"asking", "sending"} =>
           file \in Files /\ chunk \in ChunkSizes /\ file = fullySent + 1
  BY SenderStep DEF IInv, Sender, BatchInv, CalledAfter
<1>1. CASE SenderBegins
  <2> DEFINE msgs == <<BatchInfo>> \o Opening(file', chunk')
  <2>1. /\ file' = fullySent + 1 /\ chunk' \in ChunkSizes /\ fullySent' = fullySent
        /\ net' = [net EXCEPT ![Control] = @ \o msgs]
    BY <1>1 DEF SenderBegins, OnControl
  <2>2. file' \in Nat \ {0} /\ BatchInfo \in {BatchInfo} \cup {Complete(g) : g \in Files}
    BY <1>0, <2>1
  <2>3. /\ msgs \in Seq(Messages) /\ msgs # <<>> /\ msgs[1] = BatchInfo
        /\ \A k \in DOMAIN msgs : msgs[k].type = "TRANSFER_COMPLETE" => k = 1
    BY <2>1, <2>2, OpeningBatch
  <2>4. BatchInfo.type = "BATCH_INFO"
    BY DEF BatchInfo
  <2>5. fullySent' \in Nat /\ fullySent <= fullySent' /\ file' = fullySent' + 1
    BY <1>0, <2>1
  <2> HIDE DEF msgs
  <2> QED BY <1>0, <2>1, <2>3, <2>4, <2>5, FileFacts, SendingBatch
<1>2. CASE FinishFile
  <2> DEFINE msgs == <<Complete(file)>> \o Opening(file', chunk)
  <2>1. /\ phase = "sending" /\ fullySent' = file /\ file' = file + 1
        /\ net' = [net EXCEPT ![Control] = @ \o msgs]
    BY <1>2 DEF FinishFile, OnControl
  <2>2. file' \in Nat \ {0} /\ Complete(file) \in {BatchInfo} \cup {Complete(g) : g \in Files}
    BY <1>0, <2>1
  <2>3. /\ msgs \in Seq(Messages) /\ msgs # <<>> /\ msgs[1] = Complete(file)
        /\ \A k \in DOMAIN msgs : msgs[k].type = "TRANSFER_COMPLETE" => k = 1
    BY <1>0, <2>1, <2>2, OpeningBatch
  <2>4. Complete(file).file = file
    BY DEF Complete
  <2>5. /\ fullySent' \in Nat /\ fullySent <= fullySent' /\ fullySent < fullySent'
        /\ file' = fullySent' + 1
    BY <1>0, <2>1
  <2> HIDE DEF msgs
  <2> QED BY <1>0, <2>1, <2>3, <2>4, <2>5, FileFacts, SendingBatch
<1>3. ASSUME NEW ch \in ChannelIds, SendChunk(ch)
      PROVE  BatchInv'
  <2>1. PICK i \in todo : net' = [net EXCEPT ![ch] = Append(@, Chunk(file, chunk, i))]
    BY <1>3 DEF SendChunk
  <2> DEFINE msgs == <<Chunk(file, chunk, i)>>
  <2>2. phase = "sending" /\ UNCHANGED <<phase, file, fullySent>>
    BY <1>3 DEF SendChunk
  <2>3. Chunk(file, chunk, i) \in Messages
    BY <1>0, <2>2, MessageFacts DEF IInv, Sender
  <2>4. msgs \in Seq(Messages) /\ \A k \in DOMAIN msgs : msgs[k].type # "TRANSFER_COMPLETE"
    BY <2>3 DEF Chunk
  <2>5. Append(net[ch], Chunk(file, chunk, i)) = net[ch] \o msgs
    BY <2>3, AppendIsConcat DEF IInv, Wire
  <2>6. net' = [net EXCEPT ![ch] = @ \o msgs]
    BY <2>1, <2>5
  <2>7. fullySent' \in Nat /\ fullySent <= fullySent' /\ file' = fullySent' + 1
    BY <1>0, <2>2
  <2> HIDE DEF msgs
  <2> QED BY <1>0, <2>2, <2>4, <2>6, <2>7, SendingBatch
<1>4. CASE GotStatus \/ StatusTimeout
  <2>1. /\ UNCHANGED <<net, file, fullySent>>
        /\ phase' \in {"asking", "sending"} => phase \in {"asking", "sending"}
    BY <1>4 DEF GotStatus, StatusTimeout, linkVars
  <2> QED BY <1>0, <2>1, SilentBatch
<1>5. CASE SenderStops
  <2> DEFINE msgs == <<CancelMsg>>
  <2>1. /\ phase \in {"asking", "sending"} /\ phase' = "stopped" /\ UNCHANGED <<file, fullySent>>
        /\ net' = [net EXCEPT ![Control] = @ \o msgs]
    BY <1>5 DEF SenderStops, OnControl
  <2>2. msgs \in Seq(Messages) /\ \A k \in DOMAIN msgs : msgs[k].type # "TRANSFER_COMPLETE"
    BY MessageFacts DEF CancelMsg
  <2>3. fullySent' \in Nat /\ fullySent <= fullySent'
    BY <1>0, <2>1
  <2> HIDE DEF msgs
  <2> QED BY <1>0, <2>1, <2>2, <2>3, FileFacts, SendingBatch
<1> QED BY <1>1, <1>2, <1>3, <1>4, <1>5 DEF Sending

\* A lost connection.
LEMMA DropBatch ==
  ASSUME BatchInv, Drop
  PROVE  BatchInv'
<1>1. /\ net' = [ch \in ChannelIds |-> <<>>] /\ UNCHANGED <<fullySent, receiverVars>>
      /\ phase' \notin {"asking", "sending"}
  BY DEF Drop
<1>2. UNCHANGED <<call, ui, totalFiles, fileIndex, saved>>
  BY <1>1 DEF receiverVars, batchVars, uiVars
<1>3. AnnouncedOnce'
  <2>1. \A ch \in ChannelIds : DOMAIN net'[ch] = {}
    BY <1>1
  <2> QED BY <2>1 DEF AnnouncedOnce
<1>4. CalledAfter'
  BY <1>1, <1>2 DEF BatchInv, CalledAfter
<1>5. ui = "active" => BatchKnown'
  BY <1>1, <1>2, FileFacts DEF BatchInv, BatchKnown, NumFiles, Files
<1>6. ui = "active" => Handed'
  BY <1>2 DEF BatchInv, Handed
<1> QED BY <1>2, <1>3, <1>4, <1>5, <1>6 DEF BatchInv

\* A message that arrives.
LEMMA DeliverBatch ==
  ASSUME IInv, DataInv, BatchInv, InTurn, NEW ch \in ChannelIds, Deliver(ch)
  PROVE  BatchInv' /\ NothingGiven
<1>1. PICK k \in DOMAIN net[ch] :
        /\ Ordered => k = 1
        /\ net' = [net EXCEPT ![ch] = RemoveAt(@, k)]
        /\ IF disposed THEN UNCHANGED receiverVars ELSE Handle(net[ch][k])
  BY DEF Deliver
<1> DEFINE m == net[ch][k]
<1>2. /\ net[ch] \in Seq(Messages) /\ m \in Messages /\ CallsTyped
      /\ \A g \in ChannelIds : g # ch => net'[g] = net[g]
      /\ net'[ch] = RemoveAt(net[ch], k)
  BY <1>1, RemoveKeeps DEF IInv, Wire, DataInv
<1>3. UNCHANGED <<phase, file, fullySent>>
  BY DEF Deliver, senderVars
<1>4. /\ NothingGiven
      /\ ui = "active" => totalFiles' = IF m.type = "BATCH_INFO" THEN NumFiles ELSE totalFiles
      /\ m.type # "TRANSFER_COMPLETE" => call' = call
      /\ \A f \in Files : f # m.file => call'[f] = call[f]
  <2>1. CASE disposed
    <3>1. UNCHANGED <<call, ui, totalFiles, fileIndex, saved>> /\ ui # "active"
      BY <1>1, <2>1 DEF receiverVars, batchVars, uiVars, IInv, Terminal
    <3> QED BY <3>1 DEF NothingGiven
  <2>2. CASE ~disposed
    <3>1. Handle(m)
      BY <1>1, <2>2
    <3> HIDE DEF m
    <3> QED BY <1>2, <3>1, HandleBatch
  <2> QED BY <2>1, <2>2
<1>5. /\ DOMAIN net'[ch] = 1 .. Len(net[ch]) - 1 /\ DOMAIN net[ch] = 1 .. Len(net[ch])
      /\ Len(net[ch]) \in Nat /\ k \in 1 .. Len(net[ch])
      /\ \A j \in 1 .. Len(net[ch]) - 1 :
           net'[ch][j] = net[ch][IF j < k THEN j ELSE j + 1]
  BY <1>2, RemoveIndex, LenProperties
\* Where message j of what is left was before.
<1> DEFINE Was(g, j) == IF g = ch /\ ~(j < k) THEN j + 1 ELSE j
<1>6. ASSUME NEW g \in ChannelIds, NEW j \in DOMAIN net'[g]
      PROVE  /\ Was(g, j) \in DOMAIN net[g] /\ net'[g][j] = net[g][Was(g, j)]
             /\ g = ch => Was(g, j) # k
             /\ \A l \in DOMAIN net'[g] : Was(g, l) = Was(g, j) => l = j
  <2>1. CASE g = ch
    <3>1. j \in 1 .. Len(net[ch]) - 1 /\ DOMAIN net'[g] = 1 .. Len(net[ch]) - 1
      BY <1>5, <2>1
    <3>2. net'[g][j] = net[g][Was(g, j)]
      BY <1>5, <2>1, <3>1
    <3>3. /\ Was(g, j) \in 1 .. Len(net[ch]) /\ Was(g, j) # k
          /\ \A l \in 1 .. Len(net[ch]) - 1 : Was(g, l) = Was(g, j) => l = j
      BY <1>5, <2>1, <3>1
    <3> QED BY <1>5, <2>1, <3>1, <3>2, <3>3
  <2>2. CASE g # ch
    BY <1>2, <2>2
  <2> QED BY <2>1, <2>2
<1> HIDE DEF Was
<1>7. AnnouncedOnce'
  <2> SUFFICES ASSUME NEW f \in Files, NEW g \in ChannelIds, NEW j \in DOMAIN net'[g],
                      net'[g][j].type = "TRANSFER_COMPLETE", net'[g][j].file = f
               PROVE  /\ g = Control /\ f <= fullySent' /\ call'[f].at = "idle"
                      /\ \A l \in DOMAIN net'[g] : net'[g][l].type = "TRANSFER_COMPLETE"
                                                   /\ net'[g][l].file = f => l = j
    BY DEF AnnouncedOnce, Announces
  <2>1. Was(g, j) \in DOMAIN net[g] /\ Announces(g, Was(g, j), f)
    BY <1>6 DEF Announces
  <2>2. /\ g = Control /\ f <= fullySent /\ call[f].at = "idle"
        /\ \A l \in DOMAIN net[g] : Announces(g, l, f) => l = Was(g, j)
    BY <2>1 DEF BatchInv, AnnouncedOnce
  <2>3. call'[f] = call[f]
    <3>1. ~(m.type = "TRANSFER_COMPLETE" /\ m.file = f)
      <4> SUFFICES ASSUME m.type = "TRANSFER_COMPLETE", m.file = f PROVE FALSE
        OBVIOUS
      <4>1. Announces(ch, k, f)
        BY DEF Announces
      <4>2. ch = Control
        BY <4>1 DEF BatchInv, AnnouncedOnce
      <4> QED BY <1>6, <2>2, <4>1, <4>2
    <3> QED BY <1>4, <3>1
  <2>4. ASSUME NEW l \in DOMAIN net'[g],
               net'[g][l].type = "TRANSFER_COMPLETE", net'[g][l].file = f
        PROVE  l = j
    <3>1. Was(g, l) \in DOMAIN net[g] /\ Announces(g, Was(g, l), f)
      BY <1>6, <2>4 DEF Announces
    <3> QED BY <1>6, <2>2, <3>1
  <2> QED BY <1>3, <2>2, <2>3, <2>4
\* The message, if it announces the end of a file, is the first to do so.
<1>8. m.type = "TRANSFER_COMPLETE" =>
        /\ ch = Control /\ m.file \in Files /\ m.file <= fullySent
        /\ call[m.file].at = "idle"
  <2> SUFFICES ASSUME m.type = "TRANSFER_COMPLETE"
               PROVE  /\ ch = Control /\ m.file \in Files /\ m.file <= fullySent
                      /\ call[m.file].at = "idle"
    OBVIOUS
  <2>1. m.file \in Files /\ Announces(ch, k, m.file)
    BY <1>2, ChunkFacts DEF Announces
  <2> QED BY <2>1 DEF BatchInv, AnnouncedOnce
<1>9. CalledAfter'
  BY <1>3, <1>4, <1>8 DEF BatchInv, CalledAfter
<1>10. ui = "active" => BatchKnown'
  <2> SUFFICES ASSUME ui = "active", totalFiles # NumFiles, m.type # "BATCH_INFO"
               PROVE  BatchKnown'
    BY <1>4 DEF BatchKnown, NumFiles
  <2>1. /\ NumFiles # 1
        /\ \A f \in Files : call[f].at = "idle"
        /\ net[Control] # <<>> => net[Control][1].type = "BATCH_INFO"
        /\ phase \in {"asking", "sending"} => net[Control] # <<>>
    BY DEF BatchInv, BatchKnown
  <2>2. k = 1
    BY <1>1, <2>1 DEF InTurn
  <2>3. net[ch] # <<>>
    BY <1>5
  <2>4. ch # Control
    BY <2>1, <2>2, <2>3
  <2>5. call' = call /\ net'[Control] = net[Control]
    BY <1>2, <1>4, <1>8, <2>4, FileFacts
  <2> QED BY <1>3, <2>1, <2>5 DEF BatchKnown, NumFiles, Files
<1>11. ui = "active" => Handed'
  <2> SUFFICES ASSUME ui = "active" PROVE Handed'
    OBVIOUS
  <2>1. Handed /\ UNCHANGED <<saved, fileIndex>>
    BY <1>4 DEF BatchInv, NothingGiven
  <2>2. \A f \in Files : call[f].at = "done" => call'[f].at = "done"
    BY <1>4, <1>8
  <2>3. \A i \in 1 .. Len(saved) : saved[i][1] \in Files
    BY ElementOfSeq, LenProperties DEF DataInv, SavedWhole
  <2> QED BY <2>1, <2>2, <2>3 DEF Handed
<1>12. ui' = "active" => ui = "active"
  BY <1>4 DEF NothingGiven
<1> QED BY <1>4, <1>7, <1>9, <1>10, <1>11, <1>12 DEF BatchInv

\* The steps between messages.
LEMMA GoOnBatch ==
  ASSUME DataInv, BatchInv, Continue \/ Misfortune, UNCHANGED <<senderVars, linkVars>>
  PROVE  BatchInv'
<1>1. UNCHANGED <<net, phase, file, fullySent>>
  BY DEF senderVars, linkVars
<1>2. /\ CallsGoOn /\ totalFiles' = totalFiles
      /\ NothingGiven \/ \E f \in Files : HandsOver(f)
  BY ContinueBatch
<1>3. AnnouncedOnce' /\ CalledAfter'
  BY <1>1, <1>2 DEF BatchInv, AnnouncedOnce, Announces, CalledAfter, CallsGoOn
<1>4. ui' = "active" => ui = "active"
  BY <1>2 DEF NothingGiven, HandsOver
<1>5. ui = "active" => BatchKnown'
  BY <1>1, <1>2 DEF BatchInv, BatchKnown, NumFiles, Files, CallsGoOn
<1>6. ui = "active" => Handed'
  <2> SUFFICES ASSUME ui = "active" PROVE Handed'
    OBVIOUS
  <2>0. /\ \A i \in 1 .. Len(saved) : saved[i][1] \in Files
        /\ saved \in Seq(Files \X {Bytes(f) : f \in Files}) /\ Len(saved) \in Nat
    <3>1. saved \in Seq({<<f, Bytes(f)>> : f \in Files})
      BY DEF DataInv, SavedWhole
    <3>2. {<<f, Bytes(f)>> : f \in Files} \subseteq Files \X {Bytes(f) : f \in Files}
      OBVIOUS
    <3> QED BY <3>1, <3>2, SeqMonotonic, ElementOfSeq, LenProperties
  <2>1. CASE NothingGiven
    BY <1>2, <2>0, <2>1 DEF BatchInv, Handed, CallsGoOn, NothingGiven
  <2>2. ASSUME NEW f \in Files, HandsOver(f)
        PROVE  Handed'
    <3> DEFINE x == <<f, Bytes(f)>>
    <3>1. /\ saved' = Append(saved, x) /\ fileIndex' = fileIndex + 1 /\ x[1] = f
          /\ call[f].at # "done" /\ call'[f].at = "done"
      BY <2>2 DEF HandsOver, DataInv, CallsTyped, CallRec
    <3>2. x \in Files \X {Bytes(g) : g \in Files}
      OBVIOUS
    <3> HIDE DEF x
    <3>3. /\ Len(saved') = Len(saved) + 1 /\ saved'[Len(saved) + 1] = x
          /\ \A i \in 1 .. Len(saved) : saved'[i] = saved[i]
      BY <2>0, <3>1, <3>2, AppendProperties
    <3>4. Handed
      BY DEF BatchInv
    <3>5. \A i \in 1 .. Len(saved) : call'[saved[i][1]].at = "done" /\ saved[i][1] # f
      BY <1>2, <2>0, <3>1, <3>4 DEF Handed, CallsGoOn
    <3>6. fileIndex' = Len(saved')
      BY <2>0, <3>1, <3>3, <3>4 DEF Handed
    <3>7. \A i \in 1 .. Len(saved') : i \in 1 .. Len(saved) \/ i = Len(saved) + 1
      BY <2>0, <3>3
    <3>8. \A i \in 1 .. Len(saved') : call'[saved'[i][1]].at = "done"
      BY <3>1, <3>3, <3>5, <3>7
    <3>9. \A i, j \in 1 .. Len(saved') : saved'[i][1] = saved'[j][1] => i = j
      BY <3>1, <3>3, <3>4, <3>5, <3>7 DEF Handed
    <3> QED BY <3>6, <3>8, <3>9 DEF Handed
  <2> QED BY <1>2, <2>1, <2>2
<1> QED BY <1>3, <1>4, <1>5, <1>6 DEF BatchInv

\* Every step.
LEMMA NextBatch ==
  ASSUME IInv, DataInv, BatchInv, InTurn, [Next]_vars
  PROVE  BatchInv'
<1>1. CASE UNCHANGED vars
  <2>1. UNCHANGED <<receiverVars, net, file, fullySent, phase>>
    BY <1>1 DEF vars, senderVars, linkVars
  <2> QED BY <2>1, SilentBatch
<1>2. CASE Sending \/ StatusTimeout \/ SenderStops
  BY <1>2, SenderBatch
<1>3. ASSUME NEW ch \in ChannelIds, Deliver(ch)
      PROVE  BatchInv'
  BY <1>3, DeliverBatch
<1>4. CASE (Continue \/ Misfortune) /\ UNCHANGED <<senderVars, linkVars>>
  BY <1>4, GoOnBatch
<1>5. CASE Drop
  BY <1>5, DropBatch
<1> QED BY <1>1, <1>2, <1>3, <1>4, <1>5 DEF Next

\* Nothing is announced and nothing is handed over yet.
LEMMA InitBatch ==
  ASSUME Init
  PROVE  BatchInv
<1>1. /\ net = [ch \in ChannelIds |-> <<>>] /\ phase = "connecting" /\ totalFiles = 1
      /\ fileIndex = 0 /\ saved = <<>> /\ \A f \in Files : call[f].at = "idle"
  BY DEF Init, ReceiverInit
<1>2. DOMAIN <<>> = {} /\ Len(<<>>) = 0 /\ 1 .. 0 = {}
  OBVIOUS
<1>3. AnnouncedOnce /\ CalledAfter
  BY <1>1, <1>2 DEF AnnouncedOnce, CalledAfter
<1>4. BatchKnown
  BY <1>1, FileFacts DEF BatchKnown
<1>5. Handed
  BY <1>1, <1>2 DEF Handed
<1> QED BY <1>3, <1>4, <1>5 DEF BatchInv

-----------------------------------------------------------------------------
(* The receiver implements FileReceive. *)

\* The file that completes the batch is the one whose count is the size of the batch.
LEMMA LastMissing ==
  ASSUME DataInv, Handed, NEW f \in Files, call[f].at # "done"
  PROVE  f \in Receive!Missing /\ (Receive!Missing = {f} <=> Len(saved) + 1 >= NumFiles)
<1> DEFINE n == Len(saved)
           h == [k \in 1 .. n + 1 |-> IF k = n + 1 THEN f ELSE saved[k][1]]
<1>1. n \in Nat /\ DOMAIN saved = 1 .. n /\ \A k \in 1 .. n : saved[k][1] \in Files
  BY ElementOfSeq, LenProperties DEF DataInv, SavedWhole
<1>2. /\ \A k \in 1 .. n : saved[k][1] # f
      /\ \A k, l \in 1 .. n : saved[k][1] = saved[l][1] => k = l
  BY DEF Handed
<1>3. Receive!Missing = {g \in Files : \A k \in 1 .. n : saved[k][1] # g}
  BY <1>1 DEF Receive!Missing
<1> HIDE DEF n
<1>4. \A k \in 1 .. n + 1 : k \in 1 .. n \/ k = n + 1
  BY <1>1
<1>5. n + 1 \in 1 .. n + 1 /\ \A k \in 1 .. n : k \in 1 .. n + 1 /\ k # n + 1
  BY <1>1
<1>6. /\ h \in [1 .. n + 1 -> Files]
      /\ \A k, l \in 1 .. n + 1 : h[k] = h[l] => k = l
      /\ (\A g \in Files : \E k \in 1 .. n + 1 : h[k] = g) <=> Receive!Missing = {f}
  <2>1. h[n + 1] = f /\ \A k \in 1 .. n : h[k] = saved[k][1]
    BY <1>5
  <2>2. h \in [1 .. n + 1 -> Files]
    BY <1>1, <1>4
  <2> HIDE DEF h
  <2>3. \A k, l \in 1 .. n + 1 : h[k] = h[l] => k = l
    BY <1>2, <1>4, <2>1
  <2>4. ASSUME \A g \in Files : \E k \in 1 .. n + 1 : h[k] = g
        PROVE  Receive!Missing = {f}
    BY <1>2, <1>3, <1>4, <2>1, <2>4
  <2>5. ASSUME Receive!Missing = {f}, NEW g \in Files
        PROVE  \E k \in 1 .. n + 1 : h[k] = g
    BY <1>3, <1>5, <2>1, <2>5
  <2> QED BY <2>2, <2>3, <2>4, <2>5
<1>7. h \in Injection(1 .. n + 1, Files)
  BY <1>6 DEF Injection, IsInjective
<1>8. h \in Surjection(1 .. n + 1, Files) <=> Receive!Missing = {f}
  BY <1>6 DEF Surjection
<1> HIDE DEF h
<1>9. IsFiniteSet(Files) /\ Cardinality(Files) = NumFiles /\ NumFiles \in Nat
  <2>1. NumFiles \in Nat /\ Files = 1 .. NumFiles
    BY FileFacts
  <2>2. /\ IsFiniteSet(1 .. NumFiles)
        /\ Cardinality(1 .. NumFiles) = IF 1 > NumFiles THEN 0 ELSE NumFiles - 1 + 1
    BY <2>1, FS_Interval
  <2> QED BY <2>1, <2>2
<1>10. Cardinality(1 .. n + 1) = n + 1
  <2>1. Cardinality(1 .. n + 1) = IF 1 > n + 1 THEN 0 ELSE (n + 1) - 1 + 1
    BY <1>1, FS_Interval
  <2> QED BY <1>1, <2>1
<1>11. n + 1 <= NumFiles /\ (n + 1 = NumFiles <=> Receive!Missing = {f})
  BY <1>7, <1>8, <1>9, <1>10, FS_Injection
<1>12. f \in Receive!Missing
  BY <1>2, <1>3
<1> QED BY <1>1, <1>9, <1>11, <1>12 DEF n

\* A file handed over is one step of the promise, or none.
LEMMA GiveStep ==
  ASSUME DataInv, BatchInv, NEW f \in Files, HandsOver(f)
  PROVE  [Receive!Next]_(Receive!vars)
<1>1. CASE ui # "active"
  BY <1>1 DEF HandsOver, Receive!vars
<1>2. CASE ui = "active"
  <2>1. call[f].at \notin {"done", "idle"} /\ Handed /\ totalFiles = NumFiles
    BY <1>2 DEF HandsOver, BatchInv, BatchKnown
  <2>2. f \in Receive!Missing /\ (Receive!Missing = {f} <=> Len(saved) + 1 >= NumFiles)
    BY <2>1, LastMissing
  <2>3. /\ saved' = Append(saved, <<f, [g \in Files |-> Bytes(g)][f]>>)
        /\ ui' = IF Receive!Missing = {f} THEN "done" ELSE "active"
    BY <1>2, <2>1, <2>2 DEF HandsOver, Handed
  <2>4. Receive!Give(f)
    BY <1>2, <2>3 DEF Receive!Give
  <2> QED BY <2>2, <2>4 DEF Receive!Next
<1> QED BY <1>1, <1>2

\* A step that hands over nothing is none, or the transfer ends early.
LEMMA NoGiveStep ==
  ASSUME NothingGiven
  PROVE  [Receive!Next]_(Receive!vars)
BY DEF NothingGiven, Receive!Next, Receive!Abandon, Receive!vars

\* Every step of the transfer is one of the promise, or none.
LEMMA RefinementStep ==
  ASSUME IInv, DataInv, BatchInv, InTurn, [Next]_vars
  PROVE  [Receive!Next]_(Receive!vars)
<1>1. CASE UNCHANGED receiverVars
  BY <1>1 DEF receiverVars, uiVars, Receive!vars
<1>2. CASE UNCHANGED vars
  BY <1>1, <1>2 DEF vars
<1>3. CASE Sending \/ StatusTimeout \/ SenderStops \/ Drop
  <2>1. UNCHANGED receiverVars
    BY <1>3, SenderStep DEF Drop
  <2> QED BY <1>1, <2>1
<1>4. ASSUME NEW ch \in ChannelIds, Deliver(ch)
      PROVE  [Receive!Next]_(Receive!vars)
  BY <1>4, DeliverBatch, NoGiveStep
<1>5. CASE (Continue \/ Misfortune) /\ UNCHANGED <<senderVars, linkVars>>
  BY <1>5, ContinueBatch, GiveStep, NoGiveStep
<1> QED BY <1>2, <1>3, <1>4, <1>5 DEF Next

\* Announcements and hand-overs of files, in every reachable state.
THEOREM ReceiverBatch == Serial /\ InTurn /\ Spec => []BatchInv
<1>1. IInv /\ DataInv /\ BatchInv /\ InTurn /\ [Next]_vars => BatchInv'
  BY NextBatch
<1>2. Init => BatchInv
  BY InitBatch
<1>3. InTurn' <=> InTurn
  BY DEF InTurn, NumFiles
<1> QED BY <1>1, <1>2, <1>3, ReceiverInvariance, ReceiverData, PTL DEF Spec

\* The receiver keeps FileReceive's promise.
THEOREM ReceiverRefines == Serial /\ InTurn /\ Spec => ImplementsFileReceive
<1>1. Init => Receive!Init
  BY DEF Init, ReceiverInit, Receive!Init
<1>2. IInv /\ DataInv /\ BatchInv /\ InTurn /\ [Next]_vars => [Receive!Next]_(Receive!vars)
  BY RefinementStep
<1>3. InTurn' <=> InTurn
  BY DEF InTurn, NumFiles
<1> QED BY <1>1, <1>2, <1>3, ReceiverInvariance, ReceiverData, ReceiverBatch, PTL
        DEF Spec, ImplementsFileReceive, Receive!Spec

-----------------------------------------------------------------------------
(* The sender never forgets a chunk index that is nowhere. *)

\* The receiver has chunk i of its file, consumed or in the reorder buffer.
Kept(i) == meta # None /\ (i < nextIndex \/ i \in DOMAIN reorder)

\* What a RESUME_STATUS says is held, is held until the transfer ends.
Told ==
  /\ \A r \in replies : r.held \subseteq Nat
  /\ ui = "active" => \A r \in replies : \A i \in r.held : Kept(i)

\* Accept() drops no chunk of the file that it has not handed on before.
LEMMA AcceptKeeps ==
  ASSUME NEW n \in Nat, NEW total \in Nat,
         NEW buffered, IsFiniteSet(DOMAIN buffered), DOMAIN buffered \subseteq Nat,
         NEW frames, IsFiniteSet(DOMAIN frames), DOMAIN frames \subseteq Nat,
         NEW i \in Nat,
         i < n \/ i \in DOMAIN buffered \/ (i \in DOMAIN frames /\ i < total)
  PROVE  LET a == Accept(n, buffered, frames, total) IN i < a.next \/ i \in DOMAIN a.rest
<1> DEFINE new == {j \in New(n, buffered, frames) : j < total}
           all == [j \in DOMAIN buffered \cup new |->
                     IF j \in new THEN frames[j] ELSE buffered[j]]
           end == EndOfRun(all, n)
           a == Accept(n, buffered, frames, total)
<1>1. DOMAIN all = DOMAIN buffered \cup new
  OBVIOUS
<1>2. IsFiniteSet(DOMAIN all)
  <2>1. new \subseteq DOMAIN frames
    BY DEF New
  <2> HIDE DEF new, all
  <2>2. IsFiniteSet(new)
    BY <2>1, FS_Subset
  <2> QED BY <1>1, <2>2, FS_Union
<1>3. a.next = end /\ DOMAIN a.rest = {j \in DOMAIN all : j >= end}
  BY DEF Accept, Absorb, Restrict
<1>4. i < n \/ i \in DOMAIN all
  <2>1. i \in DOMAIN frames /\ i < total /\ ~(i < n) /\ i \notin DOMAIN buffered => i \in new
    BY DEF New
  <2> HIDE DEF new, all
  <2> QED BY <1>1, <2>1
<1> HIDE DEF all, a
<1>5. end \in Nat /\ n <= end
  BY <1>2, EndOfRunFacts
<1> HIDE DEF end
<1> QED BY <1>3, <1>4, <1>5 DEF a

\* Nothing the receiver has is lost while the transfer goes on; what came too
\* early is kept, or taken in when the file begins.
KeepsAll ==
  ui' = "active" => \A i \in Nat :
    /\ Kept(i) => Kept(i)'
    /\ i \in DOMAIN early => i \in DOMAIN early' \/ Kept(i)'

\* A fresh file, the first, takes in all that came too early.
LEMMA BeginKeeps ==
  ASSUME Progress, meta = None, NEW f \in Files, NEW c \in ChunkSizes, BeginFile(f, c)
  PROVE  KeepsAll
<1> DEFINE a == Accept(0, <<>>, early, Total(f, c))
<1>1. /\ meta' = f /\ nextIndex' = a.next /\ reorder' = a.rest
      /\ ui' = "active" => \A i \in DOMAIN early : ~(i >= Total(f, c))
  BY DEF BeginFile, Report
<1>2. /\ IsFiniteSet(DOMAIN <<>>) /\ DOMAIN <<>> \subseteq Nat
      /\ IsFiniteSet(DOMAIN early) /\ DOMAIN early \subseteq Nat
      /\ Total(f, c) \in Nat /\ f # None
  BY FS_EmptySet, FileFacts DEF Progress
<1>3. ASSUME NEW i \in Nat, i \in DOMAIN early, i < Total(f, c)
      PROVE  i < a.next \/ i \in DOMAIN a.rest
  BY <1>2, <1>3, AcceptKeeps
<1> HIDE DEF a
<1> QED BY <1>1, <1>2, <1>3 DEF KeepsAll, Kept

\* A chunk that arrives is kept, unless the transfer ends with it.
LEMMA ChunkKeeps ==
  ASSUME Progress, NEW i \in Nat, NEW b, OnChunk(i, b)
  PROVE  KeepsAll /\ (ui' = "active" => i \in DOMAIN early' \/ Kept(i)')
<1>1. CASE meta = None
  <2>1. UNCHANGED <<meta, nextIndex, reorder>> /\ DOMAIN early' = DOMAIN early \cup {i}
    BY <1>1 DEF OnChunk
  <2> QED BY <2>1 DEF KeepsAll, Kept
<1>2. CASE meta # None /\ i >= Total(meta, chunkSize)
  <2>1. Total(meta, chunkSize) \in Nat /\ ~(i < Total(meta, chunkSize))
    BY <1>2, FileFacts DEF Progress
  <2>2. ui' # "active"
    BY <1>2, <2>1 DEF OnChunk, Report
  <2> QED BY <2>2 DEF KeepsAll
<1>3. CASE meta # None /\ i < Total(meta, chunkSize)
  <2> DEFINE frames == [k \in {i} |-> b]
             a == Accept(nextIndex, reorder, frames, Total(meta, chunkSize))
  <2>1. Total(meta, chunkSize) \in Nat /\ ~(i >= Total(meta, chunkSize))
    BY <1>3, FileFacts DEF Progress
  <2>2. nextIndex' = a.next /\ reorder' = a.rest /\ UNCHANGED <<meta, early>>
    BY <1>3, <2>1 DEF OnChunk
  <2>3. IsFiniteSet(DOMAIN frames) /\ DOMAIN frames \subseteq Nat /\ DOMAIN frames = {i}
    BY FS_Singleton
  <2>4. nextIndex \in Nat /\ IsFiniteSet(DOMAIN reorder) /\ DOMAIN reorder \subseteq Nat
    BY DEF Progress
  <2> HIDE DEF frames
  <2>5. ASSUME NEW j \in Nat, j < nextIndex \/ j \in DOMAIN reorder \/ j = i
        PROVE  j < a.next \/ j \in DOMAIN a.rest
    BY <1>3, <2>1, <2>3, <2>4, <2>5, AcceptKeeps
  <2> HIDE DEF a
  <2> QED BY <1>3, <2>2, <2>5 DEF KeepsAll, Kept
<1> QED BY <1>1, <1>2, <1>3, FileFacts DEF Progress

\* A message that arrives.
LEMMA HandleKeeps ==
  ASSUME Progress, NumFiles = 1, NEW m \in Messages, Handle(m)
  PROVE  /\ KeepsAll
         /\ ui' = "active" /\ m.type = "CHUNK" => m.index \in DOMAIN early' \/ Kept(m.index)'
<1>1. CASE m.type = "FILE_METADATA" /\ OnMetadata(m.file, m.chunkSize)
  <2>1. m.file \in Files /\ m.chunkSize \in ChunkSizes
    BY <1>1, MessageFacts
  <2>2. CASE meta = m.file /\ UNCHANGED receiverVars
    BY <1>1, <2>2 DEF receiverVars, fileVars, KeepsAll, Kept
  <2>3. CASE meta # m.file /\ BeginFile(m.file, m.chunkSize)
    <3>1. meta = None
      BY <2>1, <2>3, OneFile DEF Progress
    <3> QED BY <1>1, <2>1, <2>3, <3>1, BeginKeeps
  <2> QED BY <1>1, <2>2, <2>3 DEF OnMetadata
<1>2. CASE m.type = "CHUNK" /\ OnChunk(m.index, m.bytes)
  <2>1. m.index \in Nat
    BY <1>2, MessageFacts
  <2> QED BY <1>2, <2>1, ChunkKeeps
<1>3. CASE m.type # "CHUNK" /\ UNCHANGED fileVars
  BY <1>3 DEF fileVars, KeepsAll, Kept
<1>4. CASE m.type = "TRANSFER_COMPLETE" /\ OnComplete(m.file)
  BY <1>3, <1>4 DEF OnComplete, Verify, Fail, receiverVars
<1> QED BY <1>1, <1>2, <1>3, <1>4
        DEF Handle, OnBatchInfo, OnCancel, receiverVars

-----------------------------------------------------------------------------
\* What is on a channel is on the wire.
LEMMA OnWireFacts ==
  \A x : x \in OnWire <=> \E ch \in ChannelIds : \E k \in DOMAIN net[ch] : net[ch][k] = x
BY DEF OnWire, ToSet

\* What is on the wire stays there when more is sent.
LEMMA WireKept ==
  ASSUME Wire, NEW msgs \in Seq(Messages), NEW ch \in ChannelIds,
         net' = [net EXCEPT ![ch] = @ \o msgs]
  PROVE  /\ \A x : x \in OnWire => x \in OnWire'
         /\ \A k \in DOMAIN msgs : msgs[k] \in OnWire'
<1> DEFINE s == net[ch]
           t == s \o msgs
<1>1. /\ s \in Seq(Messages) /\ net'[ch] = t
      /\ \A g \in ChannelIds : g # ch => net'[g] = net[g]
  BY DEF Wire
<1>2. /\ t \in Seq(Messages) /\ Len(t) = Len(s) + Len(msgs)
      /\ \A j \in 1 .. Len(s) + Len(msgs) :
           t[j] = IF j <= Len(s) THEN s[j] ELSE msgs[j - Len(s)]
  BY <1>1, ConcatProperties
<1>3. /\ Len(s) \in Nat /\ Len(msgs) \in Nat /\ DOMAIN s = 1 .. Len(s)
      /\ DOMAIN msgs = 1 .. Len(msgs) /\ DOMAIN t = 1 .. Len(t)
  BY <1>1, <1>2, LenProperties
<1> HIDE DEF s, t
<1>4. /\ \A k \in DOMAIN s : k \in DOMAIN t /\ t[k] = s[k]
      /\ \A k \in DOMAIN msgs : Len(s) + k \in DOMAIN t /\ t[Len(s) + k] = msgs[k]
  BY <1>2, <1>3
<1>5. \A x : x \in OnWire' <=> \E g \in ChannelIds : \E k \in DOMAIN net'[g] : net'[g][k] = x
  BY DEF OnWire, ToSet
<1>6. ASSUME NEW g \in ChannelIds, NEW k \in DOMAIN net[g]
      PROVE  \E l \in DOMAIN net'[g] : net'[g][l] = net[g][k]
  <2>1. CASE g = ch
    BY <1>1, <1>4, <2>1 DEF s
  <2>2. CASE g # ch
    BY <1>1, <2>2
  <2> QED BY <2>1, <2>2
<1>7. \A k \in DOMAIN msgs : \E l \in DOMAIN net'[ch] : net'[ch][l] = msgs[k]
  BY <1>1, <1>4
<1>8. ASSUME NEW x, x \in OnWire
      PROVE  x \in OnWire'
  <2>1. PICK g \in ChannelIds : \E k \in DOMAIN net[g] : net[g][k] = x
    BY <1>8, OnWireFacts
  <2>2. \E l \in DOMAIN net'[g] : net'[g][l] = x
    BY <1>6, <2>1
  <2> QED BY <1>5, <2>2
<1>9. ASSUME NEW k \in DOMAIN msgs
      PROVE  msgs[k] \in OnWire'
  <2>1. PICK l \in DOMAIN net'[ch] : net'[ch][l] = msgs[k]
    BY <1>7
  <2> QED BY <1>5, <2>1
<1> QED BY <1>8, <1>9

\* A message taken off a channel is the only one that is not on the wire any more.
LEMMA WireTaken ==
  ASSUME Wire, NEW ch \in ChannelIds, NEW k \in DOMAIN net[ch],
         net' = [net EXCEPT ![ch] = RemoveAt(@, k)]
  PROVE  \A x : x \in OnWire => x \in OnWire' \/ x = net[ch][k]
<1>1. /\ net[ch] \in Seq(Messages) /\ net'[ch] = RemoveAt(net[ch], k)
      /\ \A g \in ChannelIds : g # ch => net'[g] = net[g]
  BY DEF Wire
<1>2. /\ DOMAIN net'[ch] = 1 .. Len(net[ch]) - 1 /\ DOMAIN net[ch] = 1 .. Len(net[ch])
      /\ Len(net[ch]) \in Nat /\ k \in 1 .. Len(net[ch])
      /\ \A j \in 1 .. Len(net[ch]) - 1 :
           net'[ch][j] = net[ch][IF j < k THEN j ELSE j + 1]
  BY <1>1, RemoveIndex, LenProperties
<1>3. ASSUME NEW j \in DOMAIN net[ch], j # k
      PROVE  \E l \in DOMAIN net'[ch] : net'[ch][l] = net[ch][j]
  <2>1. CASE j < k
    BY <1>2, <1>3, <2>1
  <2>2. CASE ~(j < k)
    <3>1. j - 1 \in 1 .. Len(net[ch]) - 1 /\ ~(j - 1 < k) /\ (j - 1) + 1 = j
      BY <1>2, <1>3, <2>2
    <3> QED BY <1>2, <3>1
  <2> QED BY <2>1, <2>2
<1>4. \A x : x \in OnWire' <=> \E g \in ChannelIds : \E l \in DOMAIN net'[g] : net'[g][l] = x
  BY DEF OnWire, ToSet
<1> QED BY <1>1, <1>3, <1>4, OnWireFacts

\* Chunk i of the file being sent is on the wire or with the receiver.
Somewhere(i) ==
  \/ Chunk(file, chunk, i) \in OnWire
  \/ i \in DOMAIN early
  \/ Kept(i)

\* All that is not still to be sent is.
Covered ==
  phase = "sending" /\ ui = "active" =>
    \A i \in Chunks(file, chunk) \ todo : Somewhere(i)

\* A step that keeps what the receiver has, and the wire but for the message it takes.
LEMMA KeptCovers ==
  ASSUME IInv, Told, Covered, KeepsAll, UNCHANGED senderVars,
         ui' = "active" => ui = "active",
         \A r \in replies' : r \in replies \/ (r.held \subseteq Nat /\ \A i \in r.held : Kept(i)),
         \A i \in Nat : Chunk(file, chunk, i) \in OnWire =>
            \/ Chunk(file, chunk, i) \in OnWire'
            \/ ui' = "active" => i \in DOMAIN early' \/ Kept(i)'
  PROVE  Told' /\ Covered'
<1>1. UNCHANGED <<phase, file, chunk, todo>>
  BY DEF senderVars
<1>2. Told'
  BY DEF Told, KeepsAll
<1>3. ASSUME phase = "sending", ui' = "active", NEW i \in Chunks(file, chunk) \ todo
      PROVE  Somewhere(i)'
  <2>1. i \in Nat /\ Somewhere(i)
    BY <1>3, FileFacts DEF IInv, Sender, Covered
  <2>2. CASE Chunk(file, chunk, i) \in OnWire
    <3>1. Chunk(file, chunk, i)' = Chunk(file, chunk, i)
      BY <1>1 DEF Chunk, Part, Bytes
    <3> QED BY <1>3, <2>1, <2>2, <3>1 DEF Somewhere
  <2>3. CASE i \in DOMAIN early \/ Kept(i)
    BY <1>3, <2>1, <2>3 DEF Somewhere, KeepsAll
  <2> QED BY <2>1, <2>2, <2>3 DEF Somewhere
<1>4. Chunks(file, chunk)' = Chunks(file, chunk)
  BY <1>1 DEF Chunks, Total
<1> QED BY <1>1, <1>2, <1>3, <1>4 DEF Covered

\* A query is about a file of the batch.
LEMMA QueryFacts ==
  ASSUME NEW m \in Messages, m.type = "RESUME_QUERY"
  PROVE  m.file \in Files
<1>1. CASE m \in {BatchInfo, CancelMsg}
  BY <1>1 DEF BatchInfo, CancelMsg
<1>2. ASSUME NEW f \in Files, m = Query(f) \/ m = Complete(f)
      PROVE  m.file \in Files
  BY <1>2 DEF Query, Complete
<1>3. ASSUME NEW f \in Files, NEW c \in ChunkSizes, m = Metadata(f, c)
      PROVE  m.type # "RESUME_QUERY"
  BY <1>3 DEF Metadata
<1>4. ASSUME NEW f \in Files, NEW c \in ChunkSizes, NEW i \in Nat, m = Chunk(f, c, i)
      PROVE  m.type # "RESUME_QUERY"
  BY <1>4 DEF Chunk
<1> QED BY <1>1, <1>2, <1>3, <1>4 DEF Messages

\* A message that arrives.
LEMMA DeliverCovers ==
  ASSUME IInv, NumFiles = 1, Told, Covered, NEW ch \in ChannelIds, Deliver(ch)
  PROVE  Told' /\ Covered'
<1>1. PICK k \in DOMAIN net[ch] :
        /\ net' = [net EXCEPT ![ch] = RemoveAt(@, k)]
        /\ IF disposed THEN UNCHANGED receiverVars ELSE Handle(net[ch][k])
        /\ replies' = IF net[ch][k].type = "RESUME_QUERY" /\ ~disposed
                      THEN replies \cup {Status(net[ch][k].file, Holding(net[ch][k].file))}
                      ELSE replies
  BY DEF Deliver
<1>2. net[ch][k] \in Messages /\ Wire /\ Progress
  BY RemoveKeeps DEF IInv, Wire
<1>m. PICK m \in Messages : m = net[ch][k]
  BY <1>2
<1>3. UNCHANGED senderVars
  BY DEF Deliver
<1>4. \A x : x \in OnWire => x \in OnWire' \/ x = m
  BY <1>1, <1>2, <1>m, WireTaken
<1>5. /\ KeepsAll
      /\ ui' = "active" => ui = "active"
      /\ ui' = "active" /\ m.type = "CHUNK" => m.index \in DOMAIN early' \/ Kept(m.index)'
  <2>1. CASE disposed
    <3>1. UNCHANGED ui /\ ui # "active"
      BY <1>1, <2>1 DEF receiverVars, uiVars, IInv, Terminal
    <3> QED BY <3>1 DEF KeepsAll
  <2>2. CASE ~disposed
    <3>1. Handle(m)
      BY <1>1, <1>m, <2>2
    <3>2. ui' = "active" => ui = "active"
      BY <3>1 DEF Handle, OnBatchInfo, OnMetadata, BeginFile, OnChunk, OnComplete, Verify,
                  Fail, OnCancel, Report, uiVars, receiverVars
    <3> QED BY <1>2, <3>1, <3>2, HandleKeeps
  <2> QED BY <2>1, <2>2
<1>6. ASSUME NEW r \in replies'
      PROVE  r \in replies \/ (r.held \subseteq Nat /\ \A i \in r.held : Kept(i))
  <2> SUFFICES ASSUME r = Status(m.file, Holding(m.file)), m.type = "RESUME_QUERY"
               PROVE  r.held \subseteq Nat /\ \A i \in r.held : Kept(i)
    BY <1>1, <1>m, <1>6
  <2>1. r.held = Holding(m.file)
    BY DEF Status
  <2>2. CASE Holding(m.file) = {}
    BY <2>1, <2>2
  <2>3. CASE Holding(m.file) # {}
    <3>1. r.held = (0 .. nextIndex - 1) \cup DOMAIN reorder
      BY <2>1, <2>3 DEF Holding
    <3>2. meta # None
      <4>1. meta = m.file
        BY <2>3 DEF Holding
      <4> QED BY <4>1, QueryFacts, FileFacts
    <3> QED BY <1>2, <3>1, <3>2 DEF Progress, Kept
  <2> QED BY <2>2, <2>3
<1>7. ASSUME NEW i \in Nat, Chunk(file, chunk, i) \in OnWire
      PROVE  \/ Chunk(file, chunk, i) \in OnWire'
             \/ ui' = "active" => i \in DOMAIN early' \/ Kept(i)'
  <2>1. Chunk(file, chunk, i).type = "CHUNK" /\ Chunk(file, chunk, i).index = i
    BY DEF Chunk
  <2> QED BY <1>4, <1>5, <1>7, <2>1
<1> QED BY <1>3, <1>5, <1>6, <1>7, KeptCovers

\* The steps between messages.
LEMMA GoOnCovers ==
  ASSUME IInv, Told, Covered, Continue \/ Misfortune, UNCHANGED <<senderVars, linkVars>>
  PROVE  Told' /\ Covered'
<1>1. KeepsAll /\ (ui' = "active" => ui = "active")
  <2>1. CASE Dispose
    BY <2>1 DEF Dispose, Report, KeepsAll
  <2>2. CASE ~Dispose
    <3>1. UNCHANGED fileVars /\ (ui # "active" => UNCHANGED ui)
      BY <2>2, ContinueStep DEF Misfortune
    <3> QED BY <3>1 DEF fileVars, KeepsAll, Kept
  <2> QED BY <2>1, <2>2
<1>2. OnWire' = OnWire /\ UNCHANGED <<replies, senderVars>>
  BY DEF linkVars, OnWire
<1> QED BY <1>1, <1>2, KeptCovers

\* What the sender has not sent, is on its way or there.
LEMMA SenderCovers ==
  ASSUME IInv, Told, Covered, Sending \/ StatusTimeout \/ SenderStops
  PROVE  Told' /\ Covered'
<1>0. UNCHANGED receiverVars /\ Wire
  BY SenderStep DEF IInv
<1>1. /\ UNCHANGED <<ui, early>> /\ \A i : Kept(i)' <=> Kept(i)
  BY <1>0 DEF receiverVars, fileVars, uiVars, Kept
<1>2. ASSUME replies' \subseteq replies
      PROVE  Told'
  BY <1>1, <1>2 DEF Told
<1>3. CASE SenderBegins \/ FinishFile \/ SenderStops
  <2>1. phase' # "sending" /\ UNCHANGED replies
    BY <1>3 DEF SenderBegins, FinishFile, SenderStops, NextPhase
  <2> QED BY <1>2, <2>1 DEF Covered
<1>4. CASE StatusTimeout
  <2>1. /\ UNCHANGED <<replies, file, chunk>> /\ todo' = Chunks(file, chunk)
    BY <1>4 DEF StatusTimeout, linkVars
  <2>2. Chunks(file, chunk)' = Chunks(file, chunk)
    BY <2>1 DEF Chunks, Total
  <2> QED BY <1>2, <2>1, <2>2 DEF Covered
<1>5. CASE GotStatus
  <2>1. PICK r \in replies :
          /\ replies' = replies \ {r}
          /\ \/ phase = "asking" /\ phase' = "sending" /\ todo' = Chunks(file, chunk) \ r.held
             \/ UNCHANGED <<phase, todo>>
    BY <1>5 DEF GotStatus
  <2>2. /\ UNCHANGED <<file, chunk, net>>
        /\ Chunks(file, chunk)' = Chunks(file, chunk)
        /\ \A i : Somewhere(i)' <=> Somewhere(i)
    <3>1. UNCHANGED <<file, chunk, net>>
      BY <1>5 DEF GotStatus
    <3>2. Chunks(file, chunk)' = Chunks(file, chunk)
      BY <3>1 DEF Chunks, Total
    <3>3. OnWire' = OnWire /\ \A i : Chunk(file, chunk, i)' = Chunk(file, chunk, i)
      BY <3>1 DEF OnWire, Chunk, Part, Bytes
    <3> QED BY <1>1, <3>1, <3>2, <3>3 DEF Somewhere
  <2>3. CASE phase' = "sending" /\ todo' = Chunks(file, chunk) \ r.held
    <3>1. ui = "active" => \A i \in r.held : Somewhere(i)
      BY DEF Told, Somewhere
    <3> QED BY <1>1, <1>2, <2>1, <2>2, <2>3, <3>1 DEF Covered
  <2>4. CASE UNCHANGED <<phase, todo>>
    BY <1>1, <1>2, <2>1, <2>2, <2>4 DEF Covered
  <2> QED BY <2>1, <2>3, <2>4
<1>6. ASSUME NEW ch \in ChannelIds, SendChunk(ch)
      PROVE  Told' /\ Covered'
  <2>1. PICK i \in todo : /\ todo' = todo \ {i}
                          /\ net' = [net EXCEPT ![ch] = Append(@, Chunk(file, chunk, i))]
    BY <1>6 DEF SendChunk
  <2>2. phase = "sending" /\ UNCHANGED <<phase, file, chunk, replies>>
    BY <1>6 DEF SendChunk
  <2> DEFINE x == Chunk(file, chunk, i)
             msgs == <<x>>
  <2>3. x \in Messages
    BY <2>1, <2>2, MessageFacts DEF IInv, Sender
  <2>4. msgs \in Seq(Messages) /\ 1 \in DOMAIN msgs /\ msgs[1] = x
    BY <2>3
  <2>5. net' = [net EXCEPT ![ch] = @ \o msgs]
    <3>1. Append(net[ch], x) = net[ch] \o msgs
      BY <2>3, AppendIsConcat DEF IInv, Wire
    <3> QED BY <2>1, <3>1
  <2>6. (\A y : y \in OnWire => y \in OnWire') /\ x \in OnWire'
    <3> HIDE DEF msgs, x
    <3> QED BY <1>0, <2>4, <2>5, WireKept
  <2>7. \A j : Chunk(file, chunk, j)' = Chunk(file, chunk, j)
    BY <2>2 DEF Chunk, Part, Bytes
  <2>8. Chunks(file, chunk)' = Chunks(file, chunk)
    BY <2>2 DEF Chunks, Total
  <2>9. \A j : Somewhere(j) \/ j = i => Somewhere(j)'
    BY <1>1, <2>6, <2>7 DEF Somewhere
  <2> QED BY <1>1, <1>2, <2>1, <2>2, <2>8, <2>9 DEF Covered
<1> QED BY <1>3, <1>4, <1>5, <1>6 DEF Sending

\* Every step.
LEMMA NextCovers ==
  ASSUME IInv, NumFiles = 1, Told, Covered, [Next]_vars
  PROVE  Told' /\ Covered'
<1>1. CASE UNCHANGED vars
  <2>1. UNCHANGED <<senderVars, fileVars, ui, net, replies>>
    BY <1>1 DEF vars, receiverVars, uiVars, linkVars
  <2>2. KeepsAll /\ OnWire' = OnWire
    BY <2>1 DEF fileVars, KeepsAll, Kept, OnWire
  <2> QED BY <2>1, <2>2, KeptCovers
<1>2. CASE Sending \/ StatusTimeout \/ SenderStops
  BY <1>2, SenderCovers
<1>3. ASSUME NEW ch \in ChannelIds, Deliver(ch)
      PROVE  Told' /\ Covered'
  BY <1>3, DeliverCovers
<1>4. CASE (Continue \/ Misfortune) /\ UNCHANGED <<senderVars, linkVars>>
  BY <1>4, GoOnCovers
<1>5. CASE Drop
  <2>1. replies' = {} /\ phase' # "sending"
    BY <1>5 DEF Drop
  <2> QED BY <2>1 DEF Told, Covered
<1> QED BY <1>1, <1>2, <1>3, <1>4, <1>5 DEF Next

\* By its index, no chunk of a single file falls between sender and receiver.
LEMMA IndexCovered == NumFiles = 1 /\ Spec => [](Told /\ Covered)
<1>1. IInv /\ NumFiles = 1 /\ Told /\ Covered /\ [Next]_vars => (Told /\ Covered)'
  BY NextCovers
<1>2. Init => Told /\ Covered
  BY DEF Init, Told, Covered
<1>3. (NumFiles = 1)' <=> NumFiles = 1
  BY DEF NumFiles
<1> QED BY <1>1, <1>2, <1>3, ReceiverInvariance, PTL DEF Spec

-----------------------------------------------------------------------------
(* What the chunks of a file add up to. *)

\* The concatenation of a sequence of sequences is what its recursion says: any
\* function that obeys it has its values.
LEMMA FlattenIs ==
  ASSUME NEW s, NEW n \in Nat \ {0}, NEW g, NEW T, Len(s) = n, g \in [1 .. n -> T],
         g[1] = s[1], \A i \in 2 .. n : g[i] = g[i - 1] \o s[i]
  PROVE  FlattenSeq(s) = g[n]
<1> DEFINE Recursion(h) == h = [i \in 1 .. n |-> IF i = 1 THEN s[i] ELSE h[i - 1] \o s[i]]
           flatten == CHOOSE h : Recursion(h)
           Wrong == {k \in 1 .. n : flatten[k] # g[k]}
           Below == OpToRel(<, Nat)
<1>1. Recursion(g)
  <2>1. \A i \in 1 .. n : g[i] = IF i = 1 THEN s[i] ELSE g[i - 1] \o s[i]
    <3> SUFFICES ASSUME NEW i \in 1 .. n
                 PROVE  g[i] = IF i = 1 THEN s[i] ELSE g[i - 1] \o s[i]
      OBVIOUS
    <3>1. i = 1 \/ i \in 2 .. n
      OBVIOUS
    <3>2. i \in 2 .. n => i # 1
      OBVIOUS
    <3> QED BY <3>1, <3>2
  <2> QED BY <2>1
<1>2. Recursion(flatten)
  <2> HIDE DEF Recursion
  <2> QED BY <1>1
<1>3. FlattenSeq(s) = flatten[n]
  BY DEF FlattenSeq
<1>4. \A k \in 1 .. n : flatten[k] = IF k = 1 THEN s[k] ELSE flatten[k - 1] \o s[k]
  <2> HIDE DEF flatten
  <2> QED BY <1>2
<1> HIDE DEF flatten
<1>5. Wrong = {}
  <2> SUFFICES ASSUME Wrong # {} PROVE FALSE
    OBVIOUS
  <2>1. Wrong \subseteq Nat
    OBVIOUS
  <2>2. \E k \in Wrong : \A j \in Wrong : ~(<<j, k>> \in Below)
    <3> HIDE DEF Wrong, Below
    <3> QED BY <2>1, WFMin, NatLessThanWellFounded DEF Below
  <2>3. PICK k \in Wrong : \A j \in Wrong : ~(j < k)
    <3>1. \A j, k \in Nat : j < k => <<j, k>> \in Below
      BY DEF OpToRel
    <3> HIDE DEF Wrong, Below
    <3> QED BY <2>1, <2>2, <3>1
  <2>4. CASE k = 1
    BY <1>4, <2>3, <2>4
  <2>5. CASE k # 1
    <3>1. k \in 2 .. n /\ k - 1 \in 1 .. n /\ k - 1 < k
      BY <2>3, <2>5
    <3>2. flatten[k - 1] = g[k - 1]
      BY <2>3, <3>1
    <3>3. k \in 1 .. n /\ flatten[k] # g[k]
      BY <2>3
    <3>4. flatten[k] = flatten[k - 1] \o s[k]
      BY <1>4, <2>5, <3>3
    <3>5. g[k] = g[k - 1] \o s[k]
      BY <3>1
    <3> QED BY <3>2, <3>3, <3>4, <3>5
  <2> QED BY <2>4, <2>5
<1> QED BY <1>3, <1>5

\* The first n chunks of file f, and how many units they are.
Pieces(f, c, n) == [k \in 1 .. n |-> Part(f, c, k - 1)]

\* The end of the first n chunks.
UpTo(f, c, n) == IF n * c < Size[f] THEN n * c ELSE Size[f]

\* A chunk that belongs to a file starts before its end.
LEMMA TotalFacts ==
  ASSUME NEW f \in Files, NEW c \in ChunkSizes, NEW n \in Nat
  PROVE  /\ Size[f] \in Nat /\ c \in Nat \ {0} /\ n * c \in Nat
         /\ (n + 1) * c = n * c + c
         /\ n < Total(f, c) <=> n * c < Size[f]
<1>1. Size[f] \in Nat /\ c \in Nat \ {0}
  BY SizeAssumption DEF Files
<1>2. /\ n * c \in Nat /\ (n + 1) * c = n * c + c
  BY <1>1
<1> DEFINE s == Size[f] + c - 1
           t == s \div c
<1>3. s \in Nat /\ t \in Nat
  BY <1>1
<1>4. t * c <= s /\ s < (t + 1) * c
  BY <1>1, <1>3
<1>5. Total(f, c) = t
  BY DEF Total
<1> HIDE DEF t
<1>6. \A a, b \in Nat : a <= b => a * c <= b * c
  BY <1>1
<1>7. n < t => n * c < Size[f]
  <2> SUFFICES ASSUME n < t PROVE n * c < Size[f]
    OBVIOUS
  <2>1. n + 1 <= t /\ n + 1 \in Nat
    BY <1>3
  <2>2. (n + 1) * c <= t * c
    BY <1>3, <1>6, <2>1
  <2>3. t * c \in Int
    BY <1>1, <1>3
  <2> QED BY <1>1, <1>2, <1>4, <2>2, <2>3
<1>8. ~(n < t) => ~(n * c < Size[f])
  <2> SUFFICES ASSUME ~(n < t) PROVE ~(n * c < Size[f])
    OBVIOUS
  <2>1. t <= n
    BY <1>3
  <2>2. t * c <= n * c
    BY <1>3, <1>6, <2>1
  <2>3. (t + 1) * c = t * c + c /\ t * c \in Int
    BY <1>1, <1>3
  <2> QED BY <1>1, <1>2, <1>4, <2>2, <2>3
<1> QED BY <1>1, <1>2, <1>5, <1>7, <1>8

\* The chunks of a file, one after the other, are the file as far as they go.
LEMMA PiecesContent ==
  ASSUME NEW f \in Files, NEW c \in ChunkSizes, NEW n \in Nat
  PROVE  /\ FlattenSeq(Pieces(f, c, n)) = SubSeq(Bytes(f), 1, UpTo(f, c, n))
         /\ UpTo(f, c, n) \in 0 .. Size[f] /\ Len(Bytes(f)) = Size[f]
         /\ n >= Total(f, c) => FlattenSeq(Pieces(f, c, n)) = Bytes(f)
<1> DEFINE B == Bytes(f)
           U == {<<f, k>> : k \in Int}
           e(k) == UpTo(f, c, k)
           s == Pieces(f, c, n)
<1>1. Size[f] \in Nat /\ c \in Nat \ {0} /\ Total(f, c) \in Nat
  BY TotalFacts, FileFacts
<1>2. B \in Seq(U) /\ Len(B) = Size[f]
  BY <1>1 DEF Bytes
<1>3. \A k \in Nat : UpTo(f, c, k) \in 0 .. Size[f]
  BY <1>1, TotalFacts DEF UpTo
<1>4. Len(s) = n /\ (n = 0 => s = <<>>)
  BY DEF Pieces
<1>5. ASSUME NEW k \in 1 .. n
      PROVE  /\ s[k] = SubSeq(B, UpTo(f, c, k - 1) + 1, UpTo(f, c, k))
             /\ UpTo(f, c, k - 1) <= UpTo(f, c, k)
  <2>1. k - 1 \in Nat /\ (k - 1) + 1 = k
    OBVIOUS
  <2> DEFINE m == k - 1
  <2>2. m \in Nat /\ m + 1 = k
    BY <2>1
  <2> HIDE DEF m
  <2>3. m * c \in Nat /\ k * c = m * c + c
    BY <2>2, TotalFacts
  <2>4. s[k] = Part(f, c, m)
    BY DEF Pieces, m
  <2>5. Part(f, c, m) = SubSeq(B, m * c + 1, UpTo(f, c, k))
    BY <2>2 DEF Part, UpTo
  <2>6. UpTo(f, c, m) <= UpTo(f, c, k)
    BY <1>1, <2>3 DEF UpTo
  <2>7. CASE m * c < Size[f]
    <3>1. UpTo(f, c, m) = m * c
      BY <2>7 DEF UpTo
    <3> QED BY <2>4, <2>5, <2>6, <3>1 DEF m
  <2>8. CASE ~(m * c < Size[f])
    <3>1. UpTo(f, c, m) = Size[f] /\ UpTo(f, c, k) = Size[f]
      BY <1>1, <2>3, <2>8 DEF UpTo
    <3>2. /\ SubSeq(B, m * c + 1, Size[f]) = <<>>
          /\ SubSeq(B, Size[f] + 1, Size[f]) = <<>>
      <4>1. m * c + 1 \in Int /\ Size[f] + 1 \in Int /\ Size[f] \in Int
            /\ Size[f] < m * c + 1 /\ Size[f] < Size[f] + 1
        BY <1>1, <2>3, <2>8
      <4> QED BY <4>1, SubSeqEmpty
    <3> QED BY <2>4, <2>5, <2>6, <3>1, <3>2 DEF m
  <2> QED BY <2>7, <2>8
<1>6. e(0) = 0
  BY <1>1 DEF UpTo
<1>7. /\ B \in Seq(U) /\ Len(B) = Size[f] /\ \A k \in Nat : e(k) \in 0 .. Len(B)
      /\ \A k \in 1 .. n : e(k - 1) <= e(k) /\ s[k] = SubSeq(B, e(k - 1) + 1, e(k))
  BY <1>2, <1>3, <1>5
<1>8. Len(B) \in Nat
  BY <1>1, <1>2
<1> HIDE DEF e, s, B, U
<1>9. FlattenSeq(s) = SubSeq(B, 1, e(n))
  <2> DEFINE g == [k \in 1 .. n |-> SubSeq(B, 1, e(k))]
  <2>1. CASE n = 0
    <3>1. FlattenSeq(s) = <<>>
      BY <1>4, <2>1 DEF FlattenSeq
    <3>2. SubSeq(B, 1, 0) = <<>>
      BY SubSeqEmpty
    <3> QED BY <1>6, <2>1, <3>1, <3>2
  <2>2. CASE n # 0
    <3>1. 1 \in 1 .. n /\ n \in 1 .. n /\ 1 - 1 = 0 /\ 0 + 1 = 1 /\ n \in Nat \ {0}
      BY <2>2
    <3>2. g[1] = SubSeq(B, 1, e(1)) /\ g[n] = SubSeq(B, 1, e(n))
      BY <3>1
    <3>3. g[1] = s[1]
      <4>1. s[1] = SubSeq(B, e(1 - 1) + 1, e(1))
        BY <1>7, <3>1
      <4> QED BY <1>6, <3>1, <3>2, <4>1
    <3>4. \A i \in 2 .. n : g[i] = g[i - 1] \o s[i]
      <4> SUFFICES ASSUME NEW i \in 2 .. n
                   PROVE  g[i] = g[i - 1] \o s[i]
        OBVIOUS
      <4>1. i - 1 \in 1 .. n /\ i \in 1 .. n /\ i - 1 \in Nat /\ i \in Nat
        OBVIOUS
      <4> DEFINE x == e(i - 1)
                 y == e(i)
      <4>2. x \in 0 .. Len(B) /\ y \in 0 .. Len(B) /\ x <= y /\ s[i] = SubSeq(B, x + 1, y)
        BY <1>7, <4>1
      <4>3. g[i - 1] = SubSeq(B, 1, x) /\ g[i] = SubSeq(B, 1, y)
        BY <4>1
      <4> HIDE DEF x, y, g
      <4>4. SubSeq(B, 1, x) \o SubSeq(B, x + 1, y) = SubSeq(B, 1, y)
        <5>1. 1 \in 1 .. Len(B) + 1 /\ x \in 1 - 1 .. Len(B) /\ y \in x .. Len(B)
          BY <1>8, <4>2
        <5> QED BY <1>7, <5>1, ConcatAdjacentSubSeq
      <4> QED BY <4>2, <4>3, <4>4
    <3>5. g \in [1 .. n -> Seq(U)]
      <4>1. ASSUME NEW k \in 1 .. n
            PROVE  SubSeq(B, 1, e(k)) \in Seq(U)
        <5> DEFINE m == e(k)
        <5>0. m \in 0 .. Len(B)
          BY <1>7
        <5> HIDE DEF m
        <5>1. 1 \in Int /\ m \in Int /\ \A i \in 1 .. m : i \in 1 .. Len(B)
          BY <1>8, <5>0
        <5>2. \A i \in 1 .. m : B[i] \in U
          BY <1>7, <5>1, ElementOfSeq
        <5>3. SubSeq(B, 1, m) \in Seq(U)
          BY <5>1, <5>2, SubSeqProperties
        <5> QED BY <5>3 DEF m
      <4> QED BY <4>1
    <3> HIDE DEF g
    <3>6. FlattenSeq(s) = g[n]
      BY <1>4, <3>1, <3>3, <3>4, <3>5, FlattenIs
    <3> QED BY <3>2, <3>6
  <2> QED BY <2>1, <2>2
<1>10. n >= Total(f, c) => e(n) = Size[f]
  BY <1>1, TotalFacts DEF UpTo, e
<1>11. SubSeq(B, 1, Len(B)) = B
  BY <1>7, SubSeqFull
<1> QED BY <1>7, <1>9, <1>10, <1>11 DEF B, s, e

\* The first chunks of a file are a prefix of it.
LEMMA PiecesPrefix ==
  ASSUME NEW f \in Files, NEW c \in ChunkSizes, NEW n \in Nat
  PROVE  IsPrefix(FlattenSeq(Pieces(f, c, n)), Bytes(f))
<1> DEFINE B == Bytes(f)
           u == UpTo(f, c, n)
           x == SubSeq(B, 1, u)
           U == {<<f, k>> : k \in Int}
<1>1. FlattenSeq(Pieces(f, c, n)) = x /\ u \in 0 .. Len(B) /\ Len(B) \in Nat
  BY PiecesContent, TotalFacts
<1>2. B \in Seq(U)
  <2>1. Size[f] \in Nat
    BY TotalFacts
  <2> QED BY <2>1 DEF Bytes
<1> HIDE DEF B, u, U
<1>3. x \in Seq(U) /\ Len(x) = u
  <2>1. 1 \in Int /\ u \in Int /\ \A i \in 1 .. u : i \in 1 .. Len(B)
    BY <1>1
  <2>2. \A i \in 1 .. u : B[i] \in U
    BY <1>2, <2>1, ElementOfSeq
  <2>3. /\ SubSeq(B, 1, u) \in Seq(U)
        /\ Len(SubSeq(B, 1, u)) = IF 1 <= u THEN u - 1 + 1 ELSE 0
    BY <2>1, <2>2, SubSeqProperties
  <2> QED BY <1>1, <2>3
<1> HIDE DEF x
<1>4. SubSeq(x, 1, Len(x)) = x
  BY <1>3, SubSeqFull
<1>5. IsPrefix(x, B)
  BY <1>1, <1>3, <1>4 DEF IsPrefix, x
<1> QED BY <1>1, <1>5 DEF B

-----------------------------------------------------------------------------
(* The order of the chunks. *)

\* The index of the chunk that the first link left is to write.
Base == nextIndex - Len(Links)

\* Chunk i waits under index i.
WaitInOrder(c) ==
  /\ \A i \in DOMAIN early : early[i] = Part(1, c, i)
  /\ \A i \in DOMAIN reorder : reorder[i] = Part(1, c, i)

\* The links left are to write the chunks up to nextIndex, once the sink is open.
QueuedInOrder(c) ==
  /\ \A k \in 1 .. Len(Links) :
       Links[k].at # "opening" => Links[k].bytes = Part(1, c, Base + k - 1)
  /\ IF AtOpening THEN Base = -1 ELSE Base >= 0
  /\ Len(sinks) = IF meta = None \/ AtOpening THEN 0 ELSE 1

\* The sink has all chunks the links have written.
HasAll(s) == Len(sinks[s].data) = Base

\* The sink has chunks from the first on; and all of them, as long as more are
\* written to it.
WrittenInOrder(c) ==
  /\ \A s \in 1 .. Len(sinks) : sinks[s].data = Pieces(1, c, Len(sinks[s].data))
  /\ ~writeError /\ sink # None => HasAll(sink)
  /\ Links # <<>> /\ Links[1].at \in {"creating", "writing"} =>
       /\ Links[1].to \in 1 .. Len(sinks)
       /\ sinks[Links[1].to].disk /\ HasAll(Links[1].to)

\* What the receiver has of its only file, in chunks of c.
Ordering(c) == WaitInOrder(c) /\ QueuedInOrder(c) /\ WrittenInOrder(c)

\* A run of chunks is handed on in order, and the rest still wait in order.
LEMMA AcceptOrder ==
  ASSUME NEW p, NEW n \in Nat, NEW total \in Nat, NEW buffered, NEW frames,
         n <= total, IsFiniteSet(DOMAIN buffered),
         \A i \in DOMAIN buffered : i \in Nat /\ n <= i /\ i < total,
         \A i \in DOMAIN buffered : buffered[i] = p[i],
         IsFiniteSet(DOMAIN frames), DOMAIN frames \subseteq Nat,
         \A i \in DOMAIN frames : frames[i] = p[i]
  PROVE  LET a == Accept(n, buffered, frames, total) IN
           /\ a.next \in Nat /\ n <= a.next /\ Len(a.run) = a.next - n
           /\ \A k \in 1 .. a.next - n : a.run[k] = p[n + k - 1]
           /\ \A i \in DOMAIN a.rest : a.rest[i] = p[i]
<1> DEFINE new == {i \in New(n, buffered, frames) : i < total}
           all == [i \in DOMAIN buffered \cup new |->
                     IF i \in new THEN frames[i] ELSE buffered[i]]
           a == Absorb(n, buffered, frames, new)
           end == EndOfRun(all, n)
<1>1. /\ new \subseteq DOMAIN frames /\ new \cap DOMAIN buffered = {}
      /\ \A i \in DOMAIN buffered \cup new : i \in Nat /\ n <= i /\ i < total
  BY DEF New
<1>2. IsFiniteSet(new)
  <2> HIDE DEF new
  <2> QED BY <1>1, FS_Subset
<1> HIDE DEF new
<1>3. \A i \in DOMAIN buffered \cup new : all[i] = p[i]
  BY <1>1
<1>4. /\ a.next \in Nat /\ n <= a.next
      /\ n .. a.next - 1 \subseteq DOMAIN buffered \cup new
  BY <1>1, <1>2, AbsorbFacts
<1>5. DOMAIN all = DOMAIN buffered \cup new
  OBVIOUS
<1>6. /\ a.next = end
      /\ a.run = [k \in 1 .. end - n |-> all[n + k - 1]]
      /\ a.rest = Restrict(all, {i \in DOMAIN all : i >= end})
  BY DEF Absorb
<1>7. Accept(n, buffered, frames, total) = a
  BY DEF Accept, a, new
<1> HIDE DEF all, a, end
<1>8. end - n \in Nat /\ \A k \in 1 .. end - n : n + k - 1 \in n .. a.next - 1
  BY <1>4, <1>6
<1>9. \A k \in 1 .. end - n : all[n + k - 1] = p[n + k - 1]
  BY <1>3, <1>4, <1>8
<1>10. Len(a.run) = end - n /\ \A k \in 1 .. end - n : a.run[k] = p[n + k - 1]
  BY <1>6, <1>8, <1>9
<1>11. \A i \in DOMAIN a.rest : a.rest[i] = p[i]
  <2>1. a.rest = [i \in {i \in DOMAIN all : i >= end} |-> all[i]]
    BY <1>6 DEF Restrict
  <2> QED BY <1>3, <1>5, <2>1
<1> QED BY <1>4, <1>6, <1>7, <1>10, <1>11

\* What a sink loses when it is let go of.
LEMMA DiscardedData ==
  ASSUME NEW ss \in Seq(SinkRec), NEW s \in 0 .. Len(ss)
  PROVE  /\ Len(Discarded(ss, s)) = Len(ss)
         /\ \A k \in 1 .. Len(ss) :
              /\ Discarded(ss, s)[k].disk = ss[k].disk
              /\ \/ Discarded(ss, s)[k].data = ss[k].data
                 \/ ~ss[k].disk /\ Discarded(ss, s)[k].data = <<>>
<1>1. CASE s = None
  BY <1>1 DEF Discarded, None
<1>2. CASE s # None
  <2>1. s \in 1 .. Len(ss) /\ ss[s] \in SinkRec
    BY <1>2, ElementOfSeq DEF None
  <2> DEFINE r1 == [ss[s] EXCEPT !.stream = "aborted"]
             r2 == [ss[s] EXCEPT !.data = <<>>]
  <2>2. r1 \in SinkRec /\ r1.disk = ss[s].disk /\ r1.data = ss[s].data
    BY <2>1 DEF SinkRec
  <2>3. <<>> \in Seq(Parts)
    BY EmptySeq
  <2>4. r2 \in SinkRec /\ r2.disk = ss[s].disk /\ r2.data = <<>>
    BY <2>1, <2>3 DEF SinkRec
  <2>5. \/ Discarded(ss, s) \in {ss, [ss EXCEPT ![s] = r1]}
        \/ ~ss[s].disk /\ Discarded(ss, s) = [ss EXCEPT ![s] = r2]
    BY <1>2 DEF Discarded
  <2> HIDE DEF r1, r2
  <2>6. CASE Discarded(ss, s) = ss
    BY <2>6
  <2>7. CASE Discarded(ss, s) = [ss EXCEPT ![s] = r1]
    BY <2>1, <2>2, <2>7, ExceptSeq
  <2>8. CASE ~ss[s].disk /\ Discarded(ss, s) = [ss EXCEPT ![s] = r2]
    BY <2>1, <2>4, <2>8, ExceptSeq
  <2> QED BY <2>5, <2>6, <2>7, <2>8
<1> QED BY <1>1, <1>2

\* No chunk is queued or written: at most a sink is let go of, and a memory sink
\* emptied.
LEMMA OrderKept ==
  ASSUME DataInv, NEW c, Ordering(c), WaitInOrder(c)',
         UNCHANGED <<meta, nextIndex, chains, chain, writeError>>,
         Len(sinks') = Len(sinks),
         \A s \in 1 .. Len(sinks) :
           /\ sinks'[s].disk = sinks[s].disk
           /\ \/ sinks'[s].data = sinks[s].data
              \/ ~sinks[s].disk /\ sinks'[s].data = <<>>,
         \/ sink' = None
         \/ sink' = sink /\ \A s \in 1 .. Len(sinks) : sinks'[s].data = sinks[s].data
  PROVE  Ordering(c)'
<1>1. Links' = Links /\ AtOpening' = AtOpening /\ Base' = Base
  BY DEF Links, AtOpening, Base
<1>2. QueuedInOrder(c)'
  BY <1>1 DEF Ordering, QueuedInOrder
<1>3. WrittenInOrder(c)'
  <2>1. ASSUME NEW s \in 1 .. Len(sinks)
        PROVE  sinks'[s].data = Pieces(1, c, Len(sinks'[s].data))
    <3>1. CASE sinks'[s].data = sinks[s].data
      <4>1. sinks[s].data = Pieces(1, c, Len(sinks[s].data))
        BY DEF Ordering, WrittenInOrder
      <4> QED BY <3>1, <4>1
    <3>2. CASE sinks'[s].data = <<>>
      <4>1. Pieces(1, c, 0) = <<>> /\ Len(<<>>) = 0
        BY DEF Pieces
      <4> QED BY <3>2, <4>1
    <3> QED BY <3>1, <3>2
  <2>2. sink' # None /\ ~writeError => HasAll(sink)'
    <3> SUFFICES ASSUME sink' # None, ~writeError PROVE HasAll(sink)'
      OBVIOUS
    <3>1. sink' = sink /\ sink \in 1 .. Len(sinks)
      BY DEF DataInv, SinksTyped, None
    <3>2. sinks'[sink].data = sinks[sink].data
      BY <3>1
    <3>3. Len(sinks[sink].data) = Base
      BY <3>1 DEF Ordering, WrittenInOrder, HasAll
    <3> QED BY <1>1, <3>1, <3>2, <3>3 DEF HasAll
  <2>3. Links # <<>> /\ Links[1].at \in {"creating", "writing"} =>
          /\ Links[1].to \in 1 .. Len(sinks)
          /\ sinks'[Links[1].to].disk /\ HasAll(Links[1].to)'
    <3> SUFFICES ASSUME Links # <<>>, Links[1].at \in {"creating", "writing"}
                 PROVE  /\ Links[1].to \in 1 .. Len(sinks)
                        /\ sinks'[Links[1].to].disk /\ HasAll(Links[1].to)'
      OBVIOUS
    <3>1. /\ Links[1].to \in 1 .. Len(sinks)
          /\ sinks[Links[1].to].disk /\ Len(sinks[Links[1].to].data) = Base
      BY DEF Ordering, WrittenInOrder, HasAll
    <3>2. sinks'[Links[1].to].data = sinks[Links[1].to].data /\ sinks'[Links[1].to].disk
      BY <3>1
    <3> QED BY <1>1, <3>1, <3>2 DEF HasAll
  <2> QED BY <1>1, <2>1, <2>2, <2>3 DEF WrittenInOrder
<1> QED BY <1>2, <1>3 DEF Ordering

\* The only file begins, with the chunks that came too early.
LEMMA BeginOrder ==
  ASSUME Progress, DataInv, NEW c, NEW f \in Files, NEW size \in ChunkSizes,
         Ordering(c), meta = None, BeginFile(f, size)
  PROVE  Ordering(c)'
<1> DEFINE a == Accept(0, <<>>, early, Total(f, size))
           n == Len(chains) + 1
           w == Writes(a.run)
           l == <<OpenLink(f)>> \o w
           r == [done |-> 0, links |-> l]
<1>1. /\ meta' = f /\ nextIndex' = a.next /\ reorder' = a.rest
      /\ early' = <<>> /\ chain' = n /\ chains' = Append(chains, r)
      /\ writeError' = FALSE /\ UNCHANGED <<sinks, sink>>
  BY DEF BeginFile, sinkVars
<1>2. chains = <<>> /\ n = 1 /\ Len(sinks) = 0 /\ chain = None /\ f # None
  BY FileFacts DEF DataInv, ChainsTyped, Ordering, QueuedInOrder
<1>3. /\ a.next \in Nat /\ Len(a.run) = a.next - 0
      /\ \A k \in 1 .. a.next - 0 : a.run[k] = Part(1, c, 0 + k - 1)
      /\ \A i \in DOMAIN a.rest : a.rest[i] = Part(1, c, i)
      /\ a.run \in Seq(Parts)
  <2>1. DOMAIN <<>> = {} /\ IsFiniteSet(DOMAIN <<>>)
    BY FS_EmptySet
  <2>2. /\ IsFiniteSet(DOMAIN early) /\ DOMAIN early \subseteq Nat
        /\ \A i \in DOMAIN early : early[i] \in Parts
        /\ \A i \in DOMAIN early : early[i] = Part(1, c, i)
    BY DEF Progress, DataInv, FramesTyped, Ordering, WaitInOrder
  <2>3. 0 <= Total(f, size) /\ Total(f, size) \in Nat /\ 0 \in Nat
    BY FileFacts
  <2>4. a.run \in Seq(Parts)
    <3> HIDE DEF a
    <3> QED BY <2>1, <2>2, <2>3, AcceptData DEF a
  <2> DEFINE none == <<>>
             zero == 0
             total == Total(f, size)
             p == [i \in Nat |-> Part(1, c, i)]
             b == Accept(zero, none, early, total)
  <2>5. DOMAIN none = {} /\ IsFiniteSet(DOMAIN none) /\ total \in Nat /\ zero <= total
        /\ zero \in Nat
    BY <2>1, <2>3
  <2>6. b = a /\ \A i \in DOMAIN early : early[i] = p[i]
    BY <2>2
  <2>7. \A i \in Nat : p[i] = Part(1, c, i)
    OBVIOUS
  <2> HIDE DEF a, b, none, total, p, zero
  <2>8. /\ b.next \in Nat /\ zero <= b.next /\ Len(b.run) = b.next - zero
        /\ \A k \in 1 .. b.next - zero : b.run[k] = p[zero + k - 1]
        /\ \A i \in DOMAIN b.rest : b.rest[i] = p[i]
    <3>1. \A i \in DOMAIN none : none[i] = p[i]
      BY <2>5
    <3>2. \A i \in DOMAIN none : i \in Nat /\ zero <= i /\ i < total
      BY <2>5
    <3>3. LET x == Accept(zero, none, early, total) IN
            /\ x.next \in Nat /\ zero <= x.next /\ Len(x.run) = x.next - zero
            /\ \A k \in 1 .. x.next - zero : x.run[k] = p[zero + k - 1]
            /\ \A i \in DOMAIN x.rest : x.rest[i] = p[i]
      <4>1. IsFiniteSet(DOMAIN early) /\ DOMAIN early \subseteq Nat
        BY <2>2
      <4> QED BY <2>5, <2>6, <3>1, <3>2, <4>1, AcceptOrder
    <3> QED BY <3>3 DEF b
  <2>9. DOMAIN b.rest \subseteq Nat
    <3>1. \A i \in DOMAIN none : i \in Nat /\ zero <= i /\ i < total
      BY <2>5
    <3>2. \A i \in DOMAIN b.rest : i \in Nat
      BY <2>2, <2>5, <3>1, AcceptFacts DEF b
    <3> QED BY <3>2
  <2>10. /\ \A k \in 1 .. b.next - 0 : b.run[k] = Part(1, c, 0 + k - 1)
         /\ \A i \in DOMAIN b.rest : b.rest[i] = Part(1, c, i)
    <3>1. \A k \in 1 .. b.next - zero : zero + k - 1 \in Nat
      BY <2>8 DEF zero
    <3> QED BY <2>7, <2>8, <2>9, <3>1 DEF zero
  <2> QED BY <2>4, <2>6, <2>8, <2>10 DEF zero
<1> HIDE DEF a
<1>4. /\ w \in Seq(LinkRec) /\ Len(w) = Len(a.run)
      /\ \A k \in 1 .. Len(w) : w[k].at = "queued" /\ w[k].bytes = a.run[k]
  BY <1>3, WritesFacts
<1>5. OpenLink(f) \in LinkRec /\ OpenLink(f).at = "opening"
  BY DEF OpenLink, LinkRec, Parts, None
<1> HIDE DEF w
<1>6. /\ Len(l) = 1 + a.next /\ l[1] = OpenLink(f) /\ l # <<>>
      /\ \A k \in 2 .. Len(l) : l[k] = w[k - 1]
  <2> DEFINE o == OpenLink(f)
  <2>1. w \in Seq(LinkRec) /\ o \in LinkRec /\ l = <<o>> \o w
    BY <1>4, <1>5
  <2>2. Len(w) = a.next /\ a.next \in Nat
    BY <1>3, <1>4
  <2> HIDE DEF o, l
  <2>3. <<o>> \in Seq(LinkRec) /\ Len(<<o>>) = 1 /\ <<o>>[1] = o
    BY <2>1
  <2>4. /\ l \in Seq(LinkRec) /\ Len(l) = 1 + Len(w)
        /\ \A i \in 1 .. 1 + Len(w) : l[i] = IF i <= 1 THEN <<o>>[i] ELSE w[i - 1]
    BY <2>1, <2>3, ConcatProperties
  <2>5. l # <<>>
    BY <2>2, <2>4, EmptySeq
  <2> QED BY <2>2, <2>3, <2>4, <2>5 DEF o
<1> HIDE DEF l
<1>7. chains' = <<r>> /\ chain' = 1 /\ chain' # None /\ chains'[1] = r /\ r.links = l
  BY <1>1, <1>2 DEF None
<1> HIDE DEF r
<1>8. Links' = l
  BY <1>7 DEF Links
<1>9. AtOpening' /\ Base' = -1
  BY <1>1, <1>3, <1>5, <1>6, <1>8 DEF AtOpening, Base
<1>10. QueuedInOrder(c)'
  <2>1. ASSUME NEW k \in 1 .. Len(l), l[k].at # "opening"
        PROVE  l[k].bytes = Part(1, c, -1 + k - 1)
    <3>1. k \in 2 .. Len(l) /\ k - 1 \in 1 .. a.next
      BY <1>3, <1>5, <1>6, <2>1
    <3>2. l[k].bytes = a.run[k - 1]
      <4>1. l[k] = w[k - 1] /\ k - 1 \in 1 .. Len(w)
        BY <1>3, <1>4, <1>6, <3>1
      <4> QED BY <1>4, <4>1
    <3>3. a.run[k - 1] = Part(1, c, 0 + (k - 1) - 1) /\ 0 + (k - 1) - 1 = -1 + k - 1
      BY <1>3, <3>1
    <3> QED BY <3>2, <3>3
  <2> QED BY <1>1, <1>2, <1>8, <1>9, <2>1 DEF QueuedInOrder
<1>11. WrittenInOrder(c)'
  <2>1. sink = None
    BY <1>2 DEF DataInv, SinksTyped, None
  <2>2. l[1].at = "opening"
    BY <1>5, <1>6
  <2> QED BY <1>1, <1>2, <1>8, <2>1, <2>2 DEF WrittenInOrder
<1>12. WaitInOrder(c)'
  BY <1>1, <1>3 DEF WaitInOrder
<1> QED BY <1>10, <1>11, <1>12 DEF Ordering

\* A chunk of the file that is accepted.
LEMMA AcceptedOrder ==
  ASSUME Progress, DataInv, NEW c, Ordering(c), NEW i \in Nat, NEW b \in Parts,
         b = Part(1, c, i), meta # None, i < Total(meta, chunkSize), OnChunk(i, b)
  PROVE  Ordering(c)'
<1> DEFINE frames == [k \in {i} |-> b]
           total == Total(meta, chunkSize)
           a == Accept(nextIndex, reorder, frames, total)
           p == [k \in Nat |-> Part(1, c, k)]
<1>0. /\ total \in Nat /\ nextIndex \in Nat /\ nextIndex <= total
      /\ IsFiniteSet(DOMAIN reorder)
      /\ \A k \in DOMAIN reorder : k \in Nat /\ nextIndex <= k /\ k < total
  BY FileFacts DEF Progress
<1>1. /\ nextIndex' = a.next /\ reorder' = a.rest
      /\ chains' = [chains EXCEPT ![chain].links = @ \o Writes(a.run)]
      /\ UNCHANGED <<meta, chunkSize, early, sinks, sink, chain, writeError>>
  <2>1. ~(i >= total)
    BY <1>0
  <2> QED BY <2>1 DEF OnChunk, sinkVars
<1>2. /\ IsFiniteSet(DOMAIN frames) /\ DOMAIN frames \subseteq Nat
      /\ \A k \in DOMAIN frames : frames[k] \in Parts /\ frames[k] = p[k]
  BY FS_Singleton
<1>3. \A k \in Nat : p[k] = Part(1, c, k)
  OBVIOUS
<1> HIDE DEF frames, total, p
<1>4. /\ \A k \in DOMAIN reorder : reorder[k] \in Parts
      /\ \A k \in DOMAIN reorder : reorder[k] = p[k]
  BY <1>0, <1>3 DEF DataInv, FramesTyped, Ordering, WaitInOrder
<1>5. a.run \in Seq(Parts)
  BY <1>0, <1>2, <1>4, AcceptData
<1>6. /\ a.next \in Nat /\ nextIndex <= a.next /\ Len(a.run) = a.next - nextIndex
      /\ \A k \in 1 .. a.next - nextIndex : a.run[k] = p[nextIndex + k - 1]
      /\ \A k \in DOMAIN a.rest : a.rest[k] = p[k]
  BY <1>0, <1>2, <1>4, AcceptOrder
<1>7. \A k \in DOMAIN a.rest : k \in Nat
  BY <1>0, <1>2, AcceptFacts
<1> HIDE DEF a
<1> DEFINE w == Writes(a.run)
<1>8. /\ w \in Seq(LinkRec) /\ Len(w) = Len(a.run)
      /\ \A k \in 1 .. Len(w) : w[k].at = "queued" /\ w[k].bytes = a.run[k]
  BY <1>5, WritesFacts
<1>9. /\ chain # None /\ chain \in 1 .. Len(chains) /\ Links = chains[chain].links
      /\ Links \in Seq(LinkRec) /\ Len(Links) \in Nat
      /\ \A k \in 2 .. Len(Links) : Links[k].at = "queued"
  BY LinksTyped DEF DataInv, ChainsTyped
<1> DEFINE l == Links \o w
<1>10. Links' = l
  <2>1. chains \in Seq(ChainRec) /\ DOMAIN chains = 1 .. Len(chains)
    BY LenProperties DEF DataInv, ChainsTyped
  <2>2. chains[chain] \in ChainRec
    BY <1>9, <2>1, ElementOfSeq
  <2>3. chains'[chain] = [chains[chain] EXCEPT !.links = l]
    BY <1>1, <1>9, <2>1
  <2>4. [chains[chain] EXCEPT !.links = l].links = l
    <3> HIDE DEF l
    <3> QED BY <2>2 DEF ChainRec
  <2> HIDE DEF l
  <2> QED BY <1>1, <1>9, <2>3, <2>4 DEF Links
<1> HIDE DEF w
<1>11. /\ l \in Seq(LinkRec) /\ Len(l) = Len(Links) + Len(w)
       /\ \A k \in 1 .. Len(Links) + Len(w) :
            l[k] = IF k <= Len(Links) THEN Links[k] ELSE w[k - Len(Links)]
  <2> DEFINE s == Links
  <2>1. s \in Seq(LinkRec) /\ w \in Seq(LinkRec) /\ l = s \o w
    BY <1>8, <1>9
  <2> HIDE DEF s, l
  <2>2. /\ s \o w \in Seq(LinkRec) /\ Len(s \o w) = Len(s) + Len(w)
        /\ \A k \in 1 .. Len(s) + Len(w) :
             (s \o w)[k] = IF k <= Len(s) THEN s[k] ELSE w[k - Len(s)]
    BY <2>1, ConcatProperties
  <2> QED BY <2>1, <2>2 DEF s
<1>12. /\ \/ Links # <<>> /\ l # <<>> /\ l[1] = Links[1]
          \/ Links = <<>> /\ (l # <<>> => l[1].at = "queued")
  BY <1>8, <1>9, QueueFacts
<1> HIDE DEF l
<1>13. AtOpening' = AtOpening
  BY <1>10, <1>12 DEF AtOpening
<1>14. Base' = Base /\ Base = nextIndex - Len(Links)
  <2> DEFINE n == nextIndex
             m == a.next
             x == Len(Links)
             y == Len(l)
  <2>1. n \in Nat /\ m \in Nat /\ x \in Nat /\ y = x + (m - n)
    BY <1>0, <1>6, <1>8, <1>9, <1>11
  <2>2. nextIndex' = m /\ Len(Links') = y
    BY <1>1, <1>10
  <2> HIDE DEF n, m, x, y
  <2>3. m - y = n - x
    BY <2>1
  <2>4. Base' = m - y /\ Base = n - x
    BY <2>2 DEF Base, n, x
  <2> QED BY <2>3, <2>4 DEF n, x
<1>15. ASSUME NEW k \in 1 .. Len(l), l[k].at # "opening"
       PROVE  l[k].bytes = Part(1, c, Base + k - 1)
  <2>1. CASE k <= Len(Links)
    <3>1. l[k] = Links[k] /\ k \in 1 .. Len(Links)
      BY <1>9, <1>11, <2>1
    <3> QED BY <1>15, <3>1 DEF Ordering, QueuedInOrder
  <2>2. CASE ~(k <= Len(Links))
    <3> DEFINE j == k - Len(Links)
    <3>1. l[k] = w[j] /\ j \in 1 .. Len(w) /\ j \in 1 .. a.next - nextIndex
      <4>1. k \in 1 .. Len(Links) + Len(w) /\ Len(w) = a.next - nextIndex
        BY <1>6, <1>8, <1>11
      <4> QED BY <1>0, <1>6, <1>9, <1>11, <2>2, <4>1
    <3>2. nextIndex + j - 1 = Base + k - 1 /\ nextIndex + j - 1 \in Nat
      BY <1>0, <1>9, <1>14, <2>2
    <3> HIDE DEF j
    <3>3. l[k].bytes = p[nextIndex + j - 1]
      BY <1>6, <1>8, <3>1
    <3> QED BY <1>3, <3>2, <3>3
  <2> QED BY <2>1, <2>2
<1>16. QueuedInOrder(c)'
  BY <1>1, <1>10, <1>13, <1>14, <1>15 DEF Ordering, QueuedInOrder
<1>17. WrittenInOrder(c)'
  <2>1. \A s : HasAll(s)' = HasAll(s)
    BY <1>1, <1>14 DEF HasAll
  <2>2. \A s \in 1 .. Len(sinks) : sinks[s].data = Pieces(1, c, Len(sinks[s].data))
    BY DEF Ordering, WrittenInOrder
  <2>3. ~writeError /\ sink # None => HasAll(sink)
    BY DEF Ordering, WrittenInOrder
  <2>4. l # <<>> /\ l[1].at \in {"creating", "writing"} =>
          /\ l[1].to \in 1 .. Len(sinks)
          /\ sinks[l[1].to].disk /\ HasAll(l[1].to)
    BY <1>12 DEF Ordering, WrittenInOrder
  <2> QED BY <1>1, <1>10, <1>14, <2>1, <2>2, <2>3, <2>4 DEF WrittenInOrder, HasAll
<1>18. WaitInOrder(c)'
  BY <1>1, <1>3, <1>6, <1>7 DEF Ordering, WaitInOrder
<1> QED BY <1>16, <1>17, <1>18 DEF Ordering

\* A frame: too early, past the end, or accepted.
LEMMA ChunkOrder ==
  ASSUME Progress, DataInv, NEW c, Ordering(c), NEW i \in Nat, NEW b \in Parts,
         b = Part(1, c, i), OnChunk(i, b)
  PROVE  Ordering(c)'
<1>1. CASE meta = None
  <2>1. /\ UNCHANGED <<meta, nextIndex, reorder, chains, chain, writeError, sinks, sink>>
        /\ early' = IF i \in DOMAIN early THEN early
                    ELSE [k \in DOMAIN early \cup {i} |-> IF k = i THEN b ELSE early[k]]
    BY <1>1 DEF OnChunk, sinkVars, chainVars
  <2>2. \A k \in DOMAIN early' : early'[k] = Part(1, c, k)
    BY <2>1 DEF Ordering, WaitInOrder
  <2>3. WaitInOrder(c)'
    BY <2>1, <2>2 DEF Ordering, WaitInOrder
  <2> QED BY <2>1, <2>3, OrderKept
<1>2. CASE meta # None /\ i >= Total(meta, chunkSize)
  <2>0. Total(meta, chunkSize) \in Nat /\ ~(i < Total(meta, chunkSize))
    BY <1>2, FileFacts DEF Progress
  <2>1. UNCHANGED <<meta, nextIndex, reorder, early, chains, chain, writeError, sinks, sink>>
    BY <1>2, <2>0 DEF OnChunk, fileVars, sinkVars, chainVars
  <2>2. WaitInOrder(c)'
    BY <2>1 DEF Ordering, WaitInOrder
  <2> QED BY <2>1, <2>2, OrderKept
<1>3. CASE meta # None /\ i < Total(meta, chunkSize)
  BY <1>3, AcceptedOrder
<1> QED BY <1>1, <1>2, <1>3, FileFacts DEF Progress

\* When the first link is done, the next one is to write the next chunk.
LEMMA NextLink ==
  ASSUME Progress, DataInv, NEW c, QueuedInOrder(c), NEW x \in DOMAIN chains,
         chains[x].links # <<>>, chains' = LinkDone(x), UNCHANGED <<chain, meta, nextIndex>>
  PROVE  /\ Base \in Int /\ Base' = Base + 1 /\ Base' >= 0 /\ ~AtOpening' /\ meta # None
         /\ Link(x) = Links[1] /\ Links[1] \in LinkRec /\ Links # <<>>
         /\ Links[1].at # "opening" =>
              /\ Base \in Nat /\ Links[1].bytes = Part(1, c, Base) /\ Len(sinks) = 1
         /\ Links[1].at = "opening" => Len(sinks) = 0
         /\ \A k \in 1 .. Len(Links') : Links'[k].bytes = Part(1, c, Base' + k - 1)
         /\ Links' # <<>> => Links'[1].at = "queued"
<1>1. /\ x = chain /\ chain # None
      /\ Link(x) = Links[1] /\ Links[1] \in LinkRec
      /\ Links # <<>> /\ Links' = Tail(Links)
      /\ Links' # <<>> => Links'[1].at = "queued"
  BY LinkDoneFacts DEF DataInv
<1>2. Links \in Seq(LinkRec) /\ \A k \in 2 .. Len(Links) : Links[k].at = "queued"
  BY LinksTyped DEF DataInv
<1>3. /\ Len(Tail(Links)) = Len(Links) - 1 /\ Len(Links) \in Nat \ {0}
      /\ \A k \in 1 .. Len(Links) - 1 : Tail(Links)[k] = Links[k + 1]
  BY <1>1, <1>2, BytesOfTail
<1>4. nextIndex \in Nat /\ nextIndex' = nextIndex /\ Base = nextIndex - Len(Links)
      /\ Base' = nextIndex - Len(Links')
  BY DEF Progress, Base
<1>5. Base \in Int /\ Base' = Base + 1
  <2> DEFINE n == Len(Links)
             m == Len(Links')
  <2>1. n \in Nat /\ m = n - 1 /\ Base = nextIndex - n /\ Base' = nextIndex - m
    BY <1>1, <1>3, <1>4
  <2> HIDE DEF n, m
  <2> QED BY <1>4, <2>1
<1>6. ~AtOpening'
  BY <1>1 DEF AtOpening
<1>7. meta # None /\ Base' >= 0
  <2>1. meta # None
    BY <1>1 DEF DataInv, ChainsTyped
  <2> QED BY <1>5, <2>1 DEF QueuedInOrder
<1>8. ASSUME Links[1].at # "opening"
      PROVE  Base \in Nat /\ Links[1].bytes = Part(1, c, Base) /\ Len(sinks) = 1
  <2>1. 1 \in 1 .. Len(Links) /\ Base + 1 - 1 = Base
    BY <1>3, <1>5
  <2>2. ~AtOpening
    BY <1>8 DEF AtOpening
  <2>3. Base >= 0 /\ Len(sinks) = 1
    BY <1>7, <2>2 DEF QueuedInOrder
  <2>4. Links[1].bytes = Part(1, c, Base + 1 - 1)
    BY <1>8, <2>1 DEF QueuedInOrder
  <2> QED BY <1>5, <2>1, <2>3, <2>4
<1>9. Links[1].at = "opening" => Len(sinks) = 0
  BY <1>1 DEF QueuedInOrder, AtOpening
<1>10. ASSUME NEW k \in 1 .. Len(Links')
       PROVE  Links'[k].bytes = Part(1, c, Base' + k - 1)
  <2>1. k \in 1 .. Len(Links) - 1 /\ k + 1 \in 2 .. Len(Links) /\ k + 1 \in 1 .. Len(Links)
    BY <1>1, <1>3
  <2>2. Links'[k] = Links[k + 1] /\ Links[k + 1].at = "queued"
    BY <1>1, <1>2, <1>3, <2>1
  <2>3. Links[k + 1].bytes = Part(1, c, Base + (k + 1) - 1)
    BY <2>1, <2>2 DEF QueuedInOrder
  <2>4. Base + (k + 1) - 1 = Base' + k - 1
    BY <1>5, <2>1
  <2> QED BY <2>2, <2>3, <2>4
<1> QED BY <1>1, <1>5, <1>6, <1>7, <1>8, <1>9, <1>10

\* The sink factory settles.
LEMMA SinkOpensOrder ==
  ASSUME Progress, DataInv, NEW c, Ordering(c), NEW x \in DOMAIN chains, SinkOpens(x)
  PROVE  Ordering(c)'
<1>1. /\ chains[x].links # <<>> /\ Link(x).at = "opening" /\ chains' = LinkDone(x)
      /\ UNCHANGED <<chain, meta, nextIndex, early, reorder, writeError>>
  BY DEF SinkOpens, HasLink, fileVars
<1>2. /\ Base' = Base + 1 /\ Base \in Int /\ Base' >= 0 /\ ~AtOpening' /\ meta # None
      /\ Link(x) = Links[1] /\ Links # <<>> /\ Len(sinks) = 0
      /\ \A k \in 1 .. Len(Links') : Links'[k].bytes = Part(1, c, Base' + k - 1)
      /\ Links' # <<>> => Links'[1].at = "queued"
  BY <1>1, NextLink DEF Ordering
<1>3. Base' = 0
  BY <1>1, <1>2 DEF Ordering, QueuedInOrder, AtOpening
<1>4. PICK disk \in {ToFolder, ToFolder /\ "openFail" \notin Faults} :
        sinks' = Append(sinks, NewSink(Link(x).file, disk))
  BY DEF SinkOpens
<1> DEFINE new == NewSink(Link(x).file, disk)
<1>5. new.data = <<>>
  BY DEF NewSink
<1> HIDE DEF new
<1>6. Len(sinks') = 1 /\ sinks'[1] = new /\ sink' = 1
  <2>1. sinks = <<>>
    BY <1>2, EmptySeq DEF DataInv, SinksTyped
  <2>2. sinks' = <<new>> /\ sink' = 0 + 1
    BY <1>2, <1>4, <2>1 DEF new, SinkOpens
  <2> QED BY <2>2
<1>7. sinks'[1].data = Pieces(1, c, Len(sinks'[1].data)) /\ Len(sinks'[1].data) = 0
  <2>1. Len(<<>>) = 0 /\ Pieces(1, c, 0) = <<>>
    BY DEF Pieces
  <2> QED BY <1>5, <1>6, <2>1
<1>8. QueuedInOrder(c)'
  BY <1>1, <1>2, <1>6 DEF QueuedInOrder
<1>9. WrittenInOrder(c)'
  BY <1>2, <1>3, <1>6, <1>7 DEF WrittenInOrder, HasAll
<1>10. WaitInOrder(c)'
  BY <1>1 DEF Ordering, WaitInOrder
<1> QED BY <1>8, <1>9, <1>10 DEF Ordering

\* A value more.
LEMMA MoreOf ==
  ASSUME NEW S, NEW data \in Seq(S), NEW b \in S, NEW n \in Nat, NEW p,
         b = p[n], data = [k \in 1 .. n |-> p[k - 1]]
  PROVE  Append(data, b) = [k \in 1 .. n + 1 |-> p[k - 1]] /\ Len(data) = n
<1> DEFINE x == [k \in 1 .. n + 1 |-> p[k - 1]]
           y == Append(data, b)
<1>1. Len(data) = n
  OBVIOUS
<1>2. /\ y \in Seq(S) /\ Len(y) = Len(data) + 1
      /\ \A i \in 1 .. Len(data) : y[i] = data[i]
      /\ y[Len(data) + 1] = b
  BY AppendProperties
<1> HIDE DEF y
<1>3. \A k \in 1 .. n + 1 : y[k] = p[k - 1]
  <2> SUFFICES ASSUME NEW k \in 1 .. n + 1 PROVE y[k] = p[k - 1]
    OBVIOUS
  <2>1. CASE k = n + 1
    BY <1>1, <1>2, <2>1
  <2>2. CASE k # n + 1
    <3>1. k \in 1 .. n
      BY <2>2
    <3> QED BY <1>1, <1>2, <3>1
  <2> QED BY <2>1, <2>2
<1>4. Len(y) = n + 1
  BY <1>1, <1>2
<1>5. \A k \in 1 .. n + 1 : x[k] = y[k] /\ x[k] \in S
  BY <1>2, <1>3, <1>4, ElementOfSeq
<1>6. x \in Seq(S) /\ Len(x) = n + 1
  <2>1. n + 1 \in Nat
    OBVIOUS
  <2>2. \A k \in 1 .. n + 1 : p[k - 1] \in S
    BY <1>5
  <2> QED BY <2>1, <2>2
<1> HIDE DEF x
<1>7. x = y
  BY <1>2, <1>4, <1>5, <1>6, SeqEqual
<1> QED BY <1>1, <1>7 DEF x, y

\* A chunk more.
LEMMA PieceMore ==
  ASSUME NEW data \in Seq(Parts), NEW b \in Parts, NEW c, NEW n \in Nat,
         b = Part(1, c, n), data = Pieces(1, c, n)
  PROVE  Len(data) = n /\ Append(data, b) = Pieces(1, c, n + 1)
<1> DEFINE p == [k \in Nat |-> Part(1, c, k)]
<1>1. Pieces(1, c, n) = [k \in 1 .. n |-> p[k - 1]]
  BY DEF Pieces
<1>2. Pieces(1, c, n + 1) = [k \in 1 .. n + 1 |-> p[k - 1]]
  BY DEF Pieces
<1>3. b = p[n]
  OBVIOUS
<1> HIDE DEF p
<1>4. Append(data, b) = [k \in 1 .. n + 1 |-> p[k - 1]] /\ Len(data) = n
  BY <1>1, <1>3, MoreOf
<1> QED BY <1>2, <1>4

\* The first link is done, and the sinks are as the next one expects them.
LEMMA DoneOrder ==
  ASSUME Progress, DataInv, NEW c, Ordering(c), NEW x \in DOMAIN chains,
         chains[x].links # <<>>, Links[1].at # "opening", chains' = LinkDone(x),
         UNCHANGED <<chain, meta, nextIndex, early, reorder, sink>>,
         Len(sinks') = Len(sinks),
         \A s \in 1 .. Len(sinks) : sinks'[s].data = Pieces(1, c, Len(sinks'[s].data)),
         ~writeError' /\ sink # None => Len(sinks'[sink].data) = Base + 1
  PROVE  Ordering(c)'
<1>1. /\ Base \in Int /\ Base' = Base + 1 /\ Base' >= 0 /\ ~AtOpening' /\ meta # None
      /\ Len(sinks) = 1
      /\ \A k \in 1 .. Len(Links') : Links'[k].bytes = Part(1, c, Base' + k - 1)
      /\ Links' # <<>> => Links'[1].at = "queued"
  BY NextLink DEF Ordering
<1>2. QueuedInOrder(c)'
  BY <1>1 DEF QueuedInOrder
<1>3. WrittenInOrder(c)'
  BY <1>1 DEF WrittenInOrder, HasAll
<1>4. WaitInOrder(c)'
  BY DEF Ordering, WaitInOrder
<1> QED BY <1>2, <1>3, <1>4 DEF Ordering

\* A chunk was written, in memory or on disk.
LEMMA WriteDoneOrder ==
  ASSUME Progress, DataInv, NEW c, Ordering(c), NEW x \in DOMAIN chains,
         chains[x].links # <<>>, NEW s \in Nat,
         Link(x).at \in {"queued", "writing"},
         Link(x).at = "queued" => s = sink /\ ~writeError /\ sink # None,
         Link(x).at = "writing" => s = Link(x).to,
         chains' = LinkDone(x),
         sinks' = [sinks EXCEPT ![s].data = Append(@, Link(x).bytes)],
         UNCHANGED <<chain, meta, nextIndex, early, reorder, sink, writeError>>
  PROVE  Ordering(c)'
<1>1. /\ Base \in Nat /\ Links # <<>> /\ Link(x) = Links[1] /\ Links[1].at # "opening"
      /\ Link(x).bytes = Part(1, c, Base) /\ Link(x) \in LinkRec /\ Len(sinks) = 1
  <2>1. /\ Link(x) = Links[1] /\ Links[1] \in LinkRec /\ Links # <<>>
        /\ Links[1].at # "opening" =>
              /\ Base \in Nat /\ Links[1].bytes = Part(1, c, Base) /\ Len(sinks) = 1
    BY NextLink DEF Ordering
  <2> QED BY <2>1
<1>2. s \in 1 .. Len(sinks) /\ Len(sinks[s].data) = Base
  <2>1. CASE Link(x).at = "queued"
    <3>1. s = sink /\ sink \in 1 .. Len(sinks)
      BY <2>1 DEF DataInv, SinksTyped, None
    <3> QED BY <2>1, <3>1 DEF Ordering, WrittenInOrder, HasAll
  <2>2. CASE Link(x).at = "writing"
    BY <1>1, <2>2 DEF Ordering, WrittenInOrder, HasAll
  <2> QED BY <2>1, <2>2
<1> DEFINE b == Link(x).bytes
           d == sinks[s].data
           new == Written(sinks, s, b)
<1>3. b \in Parts /\ b = Part(1, c, Base)
  BY <1>1 DEF LinkRec
<1>4. d \in Seq(Parts) /\ d = Pieces(1, c, Base)
  <2>1. sinks[s] \in SinkRec
    BY <1>2, ElementOfSeq DEF DataInv, SinksTyped
  <2>2. d = Pieces(1, c, Len(d))
    BY <1>2 DEF Ordering, WrittenInOrder
  <2> QED BY <1>2, <2>1, <2>2 DEF SinkRec
<1>5. sinks' = new
  BY DEF Written
<1> HIDE DEF b
<1>6. /\ Len(new) = Len(sinks)
      /\ \A j \in 1 .. Len(sinks) :
           new[j].data = IF j = s THEN Append(sinks[s].data, b) ELSE sinks[j].data
  <2>1. sinks \in Seq(SinkRec)
    BY DEF DataInv, SinksTyped
  <2> QED BY <1>3, <2>1, SinkWritten
<1> HIDE DEF d, new
<1>7. Append(d, b) = Pieces(1, c, Base + 1) /\ Len(Append(d, b)) = Base + 1
  <2> DEFINE n == Base
  <2>1. n \in Nat /\ b = Part(1, c, n) /\ d = Pieces(1, c, n)
    BY <1>1, <1>3, <1>4
  <2> HIDE DEF n
  <2>2. Len(d) = n /\ Append(d, b) = Pieces(1, c, n + 1)
    BY <1>3, <1>4, <2>1, PieceMore
  <2>3. Len(Append(d, b)) = Len(d) + 1
    BY <1>3, <1>4, AppendProperties
  <2> QED BY <2>2, <2>3 DEF n
<1>8. \A j \in 1 .. Len(sinks) : j = s /\ sinks'[j].data = Append(d, b)
  <2> SUFFICES ASSUME NEW j \in 1 .. Len(sinks)
               PROVE  j = s /\ sinks'[j].data = Append(d, b)
    OBVIOUS
  <2>1. j = s
    BY <1>1, <1>2
  <2>2. sinks'[j].data = Append(sinks[s].data, b)
    BY <1>5, <1>6, <2>1
  <2> QED BY <2>1, <2>2 DEF d
<1>9. \A j \in 1 .. Len(sinks) : sinks'[j].data = Pieces(1, c, Len(sinks'[j].data))
  BY <1>7, <1>8
<1>10. ~writeError' /\ sink # None => Len(sinks'[sink].data) = Base + 1
  <2>1. sink # None => sink \in 1 .. Len(sinks)
    BY DEF DataInv, SinksTyped, None
  <2> QED BY <1>7, <1>8, <2>1
<1>11. Len(sinks') = Len(sinks)
  BY <1>5, <1>6
<1> QED BY <1>1, <1>9, <1>10, <1>11, DoneOrder

\* A write failed, or was skipped.
LEMMA WriteLostOrder ==
  ASSUME Progress, DataInv, NEW c, Ordering(c), NEW x \in DOMAIN chains,
         chains[x].links # <<>>, Link(x).at # "opening",
         chains' = LinkDone(x), writeError' \/ sink = None,
         UNCHANGED <<chain, meta, nextIndex, early, reorder, sinks, sink>>
  PROVE  Ordering(c)'
<1>1. Link(x) = Links[1]
  BY NextLink DEF Ordering
<1>2. \A s \in 1 .. Len(sinks) : sinks'[s].data = Pieces(1, c, Len(sinks'[s].data))
  BY DEF Ordering, WrittenInOrder
<1> QED BY <1>1, <1>2, DoneOrder

\* A disk write goes on to another await.
LEMMA WriteMovesOrder ==
  ASSUME DataInv, NEW c, Ordering(c), NEW x \in DOMAIN chains, chains[x].links # <<>>,
         Link(x).at # "opening", NEW r \in LinkRec, r.bytes = Link(x).bytes,
         r.at \in {"creating", "writing"}, ToFolder,
         r.to \in 1 .. Len(sinks), sinks[r.to].disk, HasAll(r.to),
         chains' = [chains EXCEPT ![x].links[1] = r], Len(sinks') = Len(sinks),
         \A s \in 1 .. Len(sinks) :
           sinks'[s].data = sinks[s].data /\ sinks'[s].disk = sinks[s].disk,
         UNCHANGED <<chain, meta, nextIndex, early, reorder, sink, writeError>>
  PROVE  Ordering(c)'
<1>0. /\ Link(x) = Links[1] /\ Links \in Seq(LinkRec) /\ Len(Links) \in Nat \ {0}
      /\ \A k \in 2 .. Len(Links) : Links[k].at = "queued"
  <2>1. x \in 1 .. Len(chains) /\ x = chain /\ Links = chains[x].links /\ Links \in Seq(LinkRec)
        /\ \A k \in 2 .. Len(Links) : Links[k].at = "queued"
    BY LinksTyped DEF DataInv
  <2> QED BY <2>1, BytesOfTail DEF Link
<1>1. /\ ChainsTyped' /\ Links # <<>> /\ Links' # <<>> /\ Links'[1] = r
      /\ Len(Links') = Len(Links) /\ BytesOf(Links') = BytesOf(Links) /\ ~AtOpening'
  BY <1>0, LinkMoves DEF DataInv
<1>2. \A k \in 1 .. Len(Links) : Links'[k].bytes = Links[k].bytes
  <2>1. Links' \in Seq(LinkRec)
    <3>1. /\ chain' \in 1 .. Len(chains') /\ chains' \in Seq(ChainRec)
          /\ Links' = chains'[chain'].links
      <4>1. chain' # None
        BY <1>1 DEF Links
      <4> QED BY <1>1, <4>1 DEF ChainsTyped, Links, None
    <3>2. chains'[chain'] \in ChainRec
      BY <3>1, ElementOfSeq
    <3> QED BY <3>1, <3>2 DEF ChainRec
  <2>2. \A k \in 1 .. Len(Links') : BytesOf(Links')[k] = Links'[k].bytes
    BY <2>1, BytesOfFacts
  <2>3. \A k \in 1 .. Len(Links) : BytesOf(Links)[k] = Links[k].bytes
    BY <1>0, BytesOfFacts
  <2> QED BY <1>1, <2>2, <2>3
<1>3. ~AtOpening /\ \A k \in 1 .. Len(Links) : Links[k].at # "opening"
  BY <1>0 DEF AtOpening
<1>4. Base' = Base
  BY <1>1 DEF Base
<1>5. QueuedInOrder(c)'
  BY <1>1, <1>2, <1>3, <1>4 DEF Ordering, QueuedInOrder
<1>6. WrittenInOrder(c)'
  <2>1. \A s \in 1 .. Len(sinks) : HasAll(s)' <=> HasAll(s)
    BY <1>4 DEF HasAll
  <2>2. \A s \in 1 .. Len(sinks) : sinks'[s].data = Pieces(1, c, Len(sinks'[s].data))
    BY DEF Ordering, WrittenInOrder
  <2>3. ~writeError /\ sink # None => HasAll(sink)'
    BY <2>1 DEF Ordering, WrittenInOrder, DataInv, SinksTyped, None
  <2>4. Links'[1].to \in 1 .. Len(sinks) /\ sinks'[r.to].disk /\ HasAll(r.to)'
    BY <1>1, <2>1
  <2> QED BY <1>1, <2>2, <2>3, <2>4 DEF WrittenInOrder, HasAll
<1>7. WaitInOrder(c)'
  BY DEF Ordering, WaitInOrder
<1> QED BY <1>5, <1>6, <1>7 DEF Ordering

\* A queued write runs.
LEMMA WriteStartsOrder ==
  ASSUME Progress, DataInv, NEW c, Ordering(c), NEW x \in DOMAIN chains, WriteStarts(x)
  PROVE  Ordering(c)'
<1>0. /\ chains[x].links # <<>> /\ Link(x).at = "queued"
      /\ UNCHANGED <<chain, meta, nextIndex, early, reorder, sink, writeError>>
  BY DEF WriteStarts, HasLink, fileVars
<1>1. CASE /\ writeError \/ sink = None
           /\ chains' = LinkDone(x)
           /\ UNCHANGED sinks
  BY <1>0, <1>1, WriteLostOrder
<1>2. CASE /\ ~writeError /\ sink # None
           /\ chains' = LinkDone(x)
           /\ sinks' = [sinks EXCEPT ![sink].data = Append(@, Link(x).bytes)]
  <2>1. sink \in Nat
    BY DEF DataInv, SinksTyped
  <2> QED BY <1>0, <1>2, <2>1, WriteDoneOrder
<1>3. CASE /\ ~writeError /\ sink # None /\ sinks[sink].disk
           /\ chains' = [chains EXCEPT ![x].links[1] = [@ EXCEPT !.to = sink,
                !.at = IF sinks[sink].stream = "open" THEN "writing" ELSE "creating"]]
           /\ UNCHANGED sinks
  <2> DEFINE place == IF sinks[sink].stream = "open" THEN "writing" ELSE "creating"
             r == [chains[x].links[1] EXCEPT !.to = sink, !.at = place]
  <2>1. x \in 1 .. Len(chains) /\ chains[x].links \in Seq(LinkRec)
    BY LinksTyped DEF DataInv
  <2>2. chains[x].links[1] \in LinkRec /\ Link(x) = chains[x].links[1]
    BY <1>0, <2>1, BytesOfTail DEF Link
  <2>3. /\ sink \in 1 .. Len(sinks) /\ sink \in Nat /\ ToFolder
        /\ place \in {"creating", "writing"} /\ HasAll(sink)
    BY <1>3 DEF DataInv, SinksTyped, None, Ordering, WrittenInOrder
  <2>4. chains' = [chains EXCEPT ![x].links[1] = r]
    BY <1>3
  <2> HIDE DEF place
  <2>5. r \in LinkRec /\ r.bytes = Link(x).bytes /\ r.at = place /\ r.to = sink
    BY <2>2, <2>3 DEF LinkRec
  <2> HIDE DEF r
  <2>6. Len(sinks') = Len(sinks)
        /\ \A s \in 1 .. Len(sinks) :
             sinks'[s].data = sinks[s].data /\ sinks'[s].disk = sinks[s].disk
    BY <1>3
  <2> QED BY <1>0, <1>3, <2>3, <2>4, <2>5, <2>6, WriteMovesOrder
<1> QED BY <1>1, <1>2, <1>3 DEF WriteStarts

\* createWritable() settles.
LEMMA StreamCreatedOrder ==
  ASSUME DataInv, NEW c, Ordering(c), NEW x \in DOMAIN chains, StreamCreated(x)
  PROVE  Ordering(c)'
<1>0. /\ chains[x].links # <<>> /\ Link(x).at = "creating"
      /\ sinks' = [sinks EXCEPT ![Link(x).to].stream = "open"]
      /\ chains' = [chains EXCEPT ![x].links[1].at = "writing"]
      /\ UNCHANGED <<chain, meta, nextIndex, early, reorder, sink, writeError>>
  BY DEF StreamCreated, HasLink, fileVars
<1> DEFINE r == [chains[x].links[1] EXCEPT !.at = "writing"]
<1>1. x \in 1 .. Len(chains) /\ x = chain /\ chains[x].links \in Seq(LinkRec)
      /\ Links = chains[x].links
  BY <1>0, LinksTyped DEF DataInv
<1>2. chains[x].links[1] \in LinkRec /\ Link(x) = chains[x].links[1] /\ Link(x) = Links[1]
  BY <1>0, <1>1, BytesOfTail DEF Link
<1>3. ToFolder
  BY <1>0, <1>1, <1>2 DEF DataInv, ChainsTyped
<1>4. chains' = [chains EXCEPT ![x].links[1] = r]
  BY <1>0
<1>5. r \in LinkRec /\ r.bytes = Link(x).bytes /\ r.at = "writing" /\ r.to = Link(x).to
  BY <1>2 DEF LinkRec
<1> HIDE DEF r
<1> DEFINE s == Link(x).to
<1>6. s \in 1 .. Len(sinks) /\ sinks[s].disk /\ HasAll(s) /\ s \in Nat
  <2>1. Links # <<>> /\ Links[1].at = "creating"
    BY <1>0, <1>1, <1>2
  <2>2. Link(x).to \in Nat
    BY <1>2 DEF LinkRec
  <2> QED BY <1>2, <2>1, <2>2 DEF Ordering, WrittenInOrder
<1>7. sinks' = Streamed(sinks, s)
  BY <1>0 DEF Streamed
<1>8. Link(x).at # "opening" /\ r.at \in {"creating", "writing"} /\ r.to = s
  BY <1>0, <1>5
<1> HIDE DEF s
<1>9. /\ Len(sinks') = Len(sinks)
      /\ \A j \in 1 .. Len(sinks) :
           sinks'[j].data = sinks[j].data /\ sinks'[j].disk = sinks[j].disk
  <2>1. sinks \in Seq(SinkRec)
    BY DEF DataInv, SinksTyped
  <2> QED BY <1>6, <1>7, <2>1, SinkStreamed
<1> QED BY <1>0, <1>3, <1>4, <1>5, <1>6, <1>8, <1>9, WriteMovesOrder

\* A disk write settles.
LEMMA WriteSettlesOrder ==
  ASSUME Progress, DataInv, NEW c, Ordering(c), NEW x \in DOMAIN chains, WriteSettles(x)
  PROVE  Ordering(c)'
<1>0. /\ chains[x].links # <<>> /\ Link(x).at = "writing" /\ chains' = LinkDone(x)
      /\ UNCHANGED <<chain, meta, nextIndex, early, reorder, sink>>
  BY DEF WriteSettles, HasLink, fileVars
<1>1. CASE /\ sinks' = [sinks EXCEPT ![Link(x).to].data = Append(@, Link(x).bytes)]
           /\ UNCHANGED writeError
  <2>1. Link(x).to \in Nat
    <3>1. chains[x].links \in Seq(LinkRec)
      BY LinksTyped DEF DataInv
    <3>2. Link(x) \in LinkRec
      BY <1>0, <3>1, BytesOfTail DEF Link
    <3> QED BY <3>2 DEF LinkRec
  <2> QED BY <1>0, <1>1, <2>1, WriteDoneOrder
<1>2. CASE writeError' = TRUE /\ UNCHANGED sinks
  BY <1>0, <1>2, WriteLostOrder
<1> QED BY <1>1, <1>2 DEF WriteSettles

-----------------------------------------------------------------------------
\* fail() and dispose() let go of the sink.
LEMMA ReleaseOrder ==
  ASSUME DataInv, NEW c, Ordering(c), WaitInOrder(c)',
         UNCHANGED <<meta, nextIndex, chains, chain, writeError>>,
         sinks' = Discarded(sinks, sink), sink' = None
  PROVE  Ordering(c)'
<1>1. /\ Len(sinks') = Len(sinks)
      /\ \A k \in 1 .. Len(sinks) :
           /\ sinks'[k].disk = sinks[k].disk
           /\ \/ sinks'[k].data = sinks[k].data
              \/ ~sinks[k].disk /\ sinks'[k].data = <<>>
  BY DiscardedData DEF DataInv, SinksTyped
<1> QED BY <1>1, OrderKept

\* fail()
LEMMA FailOrder ==
  ASSUME DataInv, NEW c, Ordering(c), NEW f, Fail(f)
  PROVE  Ordering(c)'
<1>1. /\ UNCHANGED <<meta, nextIndex, chains, chain, writeError, early, reorder>>
      /\ sinks' = Discarded(sinks, sink) /\ sink' = None
  BY DEF Fail, fileVars, chainVars
<1>2. WaitInOrder(c)'
  BY <1>1 DEF Ordering, WaitInOrder
<1> QED BY <1>1, <1>2, ReleaseOrder

\* cancel()
LEMMA DisposeOrder ==
  ASSUME DataInv, NEW c, Ordering(c), Dispose
  PROVE  Ordering(c)'
<1>1. /\ UNCHANGED <<meta, nextIndex, chains, chain, writeError>>
      /\ sinks' = Discarded(sinks, sink) /\ sink' = None
      /\ early' = <<>> /\ reorder' = <<>>
  BY DEF Dispose, chainVars
<1>2. DOMAIN <<>> = {}
  OBVIOUS
<1>3. WaitInOrder(c)'
  BY <1>1, <1>2 DEF WaitInOrder
<1> QED BY <1>1, <1>3, ReleaseOrder

\* A step that leaves the chunks alone, and perhaps takes the sink.
LEMMA ChunksKept ==
  ASSUME DataInv, NEW c, Ordering(c),
         UNCHANGED <<meta, nextIndex, early, reorder, chains, chain, writeError, sinks>>,
         sink' = None \/ sink' = sink
  PROVE  Ordering(c)'
<1>1. WaitInOrder(c)'
  BY DEF Ordering, WaitInOrder
<1> QED BY <1>1, OrderKept

\* stream.close() is done, or fails.
LEMMA ClosedOrder ==
  ASSUME DataInv, NEW c, Ordering(c), NEW f \in Files, Closed(f)
  PROVE  Ordering(c)'
<1>1. CASE Fail(f)
  BY <1>1, FailOrder
<1>2. CASE ~Fail(f)
  <2> DEFINE s == call[f].sink
             r == [sinks[s] EXCEPT !.stream = "saved"]
  <2>1. /\ sinks' = [sinks EXCEPT ![s] = r]
        /\ UNCHANGED <<fileVars, sink, chainVars>>
    BY <1>2 DEF Closed
  <2>2. s \in 1 .. Len(sinks) /\ sinks \in Seq(SinkRec)
    BY DEF Closed, DataInv, Finishing, SinksTyped
  <2>3. r \in SinkRec /\ r.data = sinks[s].data /\ r.disk = sinks[s].disk
    <3>1. sinks[s] \in SinkRec
      BY <2>2, ElementOfSeq
    <3> QED BY <3>1 DEF SinkRec
  <2>4. /\ UNCHANGED <<meta, nextIndex, early, reorder, chains, chain, writeError, sink>>
    BY <2>1 DEF fileVars, chainVars
  <2> HIDE DEF s, r
  <2>5. /\ Len(sinks') = Len(sinks)
        /\ \A k \in 1 .. Len(sinks) : sinks'[k] = IF k = s THEN r ELSE sinks[k]
    <3>1. /\ [sinks EXCEPT ![s] = r] \in Seq(SinkRec)
          /\ Len([sinks EXCEPT ![s] = r]) = Len(sinks)
          /\ \A j \in 1 .. Len(sinks) :
               [sinks EXCEPT ![s] = r][j] = IF j = s THEN r ELSE sinks[j]
      BY <2>2, <2>3, ExceptSeq
    <3> QED BY <2>1, <3>1
  <2>6. \A k \in 1 .. Len(sinks) :
          sinks'[k].data = sinks[k].data /\ sinks'[k].disk = sinks[k].disk
    BY <2>3, <2>5
  <2>7. WaitInOrder(c)'
    BY <2>4 DEF Ordering, WaitInOrder
  <2> QED BY <2>4, <2>5, <2>6, <2>7, OrderKept
<1> QED BY <1>1, <1>2

\* What goes on inside the receiver between messages.
LEMMA ContinueOrder ==
  ASSUME Progress, DataInv, NEW c, Ordering(c), Continue \/ Misfortune
  PROVE  Ordering(c)'
<1>1. ASSUME NEW f \in Files, NEW total, Verify(f, total)
      PROVE  Ordering(c)'
  <2>1. CASE Fail(f)
    BY <2>1, FailOrder
  <2>2. CASE ~Fail(f)
    <3>1. UNCHANGED <<meta, nextIndex, early, reorder, chains, chain, writeError, sinks, sink>>
      BY <1>1, <2>2 DEF Verify, fileVars, chainVars, sinkVars
    <3> QED BY <3>1, ChunksKept
  <2> QED BY <2>1, <2>2
<1>2. ASSUME NEW f \in Files, PollEnough(f)
      PROVE  Ordering(c)'
  BY <1>1, <1>2 DEF PollEnough
<1>3. ASSUME NEW f \in Files, AskDigest(f)
      PROVE  Ordering(c)'
  <2>1. CASE Fail(f)
    BY <2>1, FailOrder
  <2>2. CASE ~Fail(f)
    <3>1. UNCHANGED <<meta, nextIndex, early, reorder, chains, chain, writeError, sinks, sink>>
      BY <1>3, <2>2 DEF AskDigest, fileVars, chainVars, sinkVars
    <3> QED BY <3>1, ChunksKept
  <2> QED BY <2>1, <2>2
<1>4. ASSUME NEW f \in Files, Digested(f)
      PROVE  Ordering(c)'
  <2>1. CASE Fail(f)
    BY <2>1, FailOrder
  <2>2. CASE ~Fail(f)
    <3>1. /\ UNCHANGED <<meta, nextIndex, early, reorder, chains, chain, writeError, sinks>>
          /\ sink' = None
      BY <1>4, <2>2 DEF Digested, fileVars, chainVars
    <3> QED BY <3>1, ChunksKept
  <2> QED BY <2>1, <2>2
<1>5. ASSUME NEW f \in Files, Closed(f)
      PROVE  Ordering(c)'
  BY <1>5, ClosedOrder
<1>6. ASSUME NEW h \in DOMAIN hashers, WorkerAnswers(h)
      PROVE  Ordering(c)'
  <2>1. UNCHANGED <<meta, nextIndex, early, reorder, chains, chain, writeError, sinks, sink>>
    BY <1>6 DEF WorkerAnswers, fileVars, chainVars, sinkVars
  <2> QED BY <2>1, ChunksKept
<1>7. ASSUME NEW x \in DOMAIN chains,
             SinkOpens(x) \/ WriteStarts(x) \/ StreamCreated(x) \/ WriteSettles(x)
      PROVE  Ordering(c)'
  BY <1>7, SinkOpensOrder, WriteStartsOrder, StreamCreatedOrder, WriteSettlesOrder
<1>8. ASSUME NEW f \in Files, PollGivesUp(f)
      PROVE  Ordering(c)'
  BY <1>8, FailOrder DEF PollGivesUp
<1>9. CASE WorkerCrashes
  <2>1. UNCHANGED <<meta, nextIndex, early, reorder, chains, chain, writeError, sinks, sink>>
    BY <1>9 DEF WorkerCrashes, fileVars, chainVars, sinkVars
  <2> QED BY <2>1, ChunksKept
<1>10. CASE Dispose
  BY <1>10, DisposeOrder
<1> QED BY <1>2, <1>3, <1>4, <1>5, <1>6, <1>7, <1>8, <1>9, <1>10 DEF Continue, Misfortune

\* handleMessage(), for a message that has the right part of the file.
LEMMA HandleOrder ==
  ASSUME NumFiles = 1, Progress, DataInv, NEW c, Ordering(c), NEW m \in Messages,
         m.type = "CHUNK" => m.bytes = Part(1, c, m.index), Handle(m)
  PROVE  Ordering(c)'
<1>1. CASE \/ OnBatchInfo(NumFiles) \/ UNCHANGED receiverVars \/ OnCancel
  <2>1. UNCHANGED <<meta, nextIndex, early, reorder, chains, chain, writeError, sinks, sink>>
    BY <1>1 DEF OnBatchInfo, OnCancel, receiverVars, fileVars, chainVars, sinkVars
  <2> QED BY <2>1, ChunksKept
<1>2. CASE m.type = "FILE_METADATA" /\ OnMetadata(m.file, m.chunkSize)
  <2>1. m.file \in Files /\ m.chunkSize \in ChunkSizes
    BY <1>2, MessageFacts
  <2>2. UNCHANGED receiverVars \/ (meta # m.file /\ BeginFile(m.file, m.chunkSize))
    BY <1>2 DEF OnMetadata
  <2>3. meta # m.file => meta = None
    BY <2>1, OneFile DEF Progress
  <2> QED BY <1>1, <2>1, <2>2, <2>3, BeginOrder
<1>3. CASE m.type = "CHUNK" /\ OnChunk(m.index, m.bytes)
  <2>1. m.index \in Nat /\ m.bytes \in Parts
    BY <1>3, MessageFacts, ChunkFacts
  <2> QED BY <1>3, <2>1, ChunkOrder
<1>4. CASE m.type = "TRANSFER_COMPLETE" /\ OnComplete(m.file)
  <2>1. CASE Fail(m.file)
    BY <2>1, FailOrder
  <2>2. CASE ~Fail(m.file)
    <3>1. UNCHANGED <<meta, nextIndex, early, reorder, chains, chain, writeError, sinks, sink>>
      BY <1>4, <2>2 DEF OnComplete, Verify, receiverVars, fileVars, chainVars, sinkVars
    <3> QED BY <3>1, ChunksKept
  <2> QED BY <2>1, <2>2
<1> QED BY <1>1, <1>2, <1>3, <1>4 DEF Handle

-----------------------------------------------------------------------------
\* Messages whose chunks are cut to size c.
Cut(c) == {m \in Messages : m.type = "CHUNK" => m.bytes = Part(1, c, m.index)}

\* All that is on its way is cut to size c.
WireInOrder(c) == \A ch \in ChannelIds : net[ch] \in Seq(Cut(c))

\* Before the first connection there is no chunk size, and nothing came of it.
Begins ==
  /\ drops \in Nat
  /\ MaxDrops = 0 /\ phase = "connecting" => chunk = 0
  /\ chunk = 0 => /\ phase = "connecting" /\ meta = None /\ early = <<>>
                  /\ \A ch \in ChannelIds : net[ch] = <<>>

\* The invariant of the order.
InOrder ==
  Begins /\ \E c \in ChunkSizes \cup {0} : c = chunk /\ WireInOrder(c) /\ Ordering(c)

\* A file is sent in chunks of one size, reconnects included.
OneSize == MaxDrops = 0 \/ \E c \in ChunkSizes : ChunkSizes = {c}

\* More messages cut to size c.
LEMMA WireCut ==
  ASSUME Wire, NEW c, WireInOrder(c), NEW ch \in ChannelIds, NEW msgs \in Seq(Cut(c)),
         net' = [net EXCEPT ![ch] = @ \o msgs]
  PROVE  WireInOrder(c)'
<1>1. net[ch] \o msgs \in Seq(Cut(c))
  BY ConcatProperties DEF WireInOrder
<1> QED BY <1>1 DEF Wire, WireInOrder

\* What sendFiles() sends when it comes to a file: no chunk.
LEMMA OpeningCut ==
  ASSUME NEW f \in Nat \ {0}, NEW d, f \in Files => d \in ChunkSizes, NEW c,
         NEW m \in {BatchInfo} \cup {Complete(g) : g \in Files}
  PROVE  <<m>> \o Opening(f, d) \in Seq(Cut(c))
<1>1. m \in Cut(c)
  <2>1. m \in Messages
    BY MessageFacts
  <2>2. m.type # "CHUNK"
    BY DEF BatchInfo, Complete
  <2> QED BY <2>1, <2>2 DEF Cut
<1>2. Opening(f, d) \in Seq(Cut(c))
  <2>1. CASE f > NumFiles
    BY <2>1 DEF Opening
  <2>2. CASE ~(f > NumFiles)
    <3>1. f \in Files /\ d \in ChunkSizes
      BY <2>2, FileFacts
    <3>2. Metadata(f, d) \in Messages /\ Query(f) \in Messages
      BY <3>1, MessageFacts
    <3>3. Metadata(f, d).type # "CHUNK" /\ Query(f).type # "CHUNK"
      BY DEF Metadata, Query
    <3>4. Metadata(f, d) \in Cut(c) /\ Query(f) \in Cut(c)
      BY <3>2, <3>3 DEF Cut
    <3> QED BY <2>2, <3>4 DEF Opening
  <2> QED BY <2>1, <2>2
<1> QED BY <1>1, <1>2, ConcatProperties

\* Nothing is there to be out of order.
LEMMA NothingYet ==
  ASSUME Progress, DataInv, NEW c, NEW d, Ordering(c), meta = None, early = <<>>
  PROVE  Ordering(d) /\ sinks = <<>>
<1>1. /\ Links = <<>> /\ ~AtOpening /\ Len(Links) = 0
  BY DEF DataInv, ChainsTyped, Links, AtOpening
<1>2. Base >= 0
  BY <1>1 DEF Progress, Base
<1>3. Len(sinks) = 0 /\ sinks = <<>> /\ sink = None
  BY EmptySeq DEF Ordering, QueuedInOrder, DataInv, SinksTyped, None
<1>4. DOMAIN reorder = {} /\ DOMAIN early = {}
  <2>1. \A i \in DOMAIN reorder : FALSE
    BY DEF Progress
  <2>2. DOMAIN <<>> = {}
    OBVIOUS
  <2> QED BY <2>1, <2>2
<1>5. WaitInOrder(d)
  BY <1>4 DEF WaitInOrder
<1>6. QueuedInOrder(d)
  BY <1>1, <1>2, <1>3 DEF QueuedInOrder
<1>7. WrittenInOrder(d)
  BY <1>1, <1>3 DEF WrittenInOrder
<1> QED BY <1>3, <1>5, <1>6, <1>7 DEF Ordering

\* The receiver is left alone.
LEMMA SameOrder ==
  ASSUME NEW c, Ordering(c), UNCHANGED receiverVars
  PROVE  Ordering(c)'
<1>1. UNCHANGED <<meta, nextIndex, early, reorder, chains, chain, writeError, sinks, sink>>
  BY DEF receiverVars, fileVars, chainVars, sinkVars
<1>2. Links' = Links /\ AtOpening' = AtOpening /\ Base' = Base
  BY <1>1 DEF Links, AtOpening, Base
<1> QED BY <1>1, <1>2 DEF Ordering, WaitInOrder, QueuedInOrder, WrittenInOrder, HasAll

\* The sender, once it has a chunk size.
LEMMA SizedOrder ==
  ASSUME IInv, Begins, NEW c \in ChunkSizes, c = chunk, WireInOrder(c), Ordering(c),
         UNCHANGED <<receiverVars, chunk, drops>>, phase' # "connecting",
         NEW msgs \in Seq(Cut(c)), NEW ch \in ChannelIds,
         net' = [net EXCEPT ![ch] = @ \o msgs]
  PROVE  InOrder'
<1>1. WireInOrder(c)'
  BY WireCut DEF IInv
<1>2. Ordering(c)'
  BY SameOrder
<1>3. chunk # 0
  BY SizeAssumption
<1>4. Begins'
  BY <1>3 DEF Begins
<1> QED BY <1>1, <1>2, <1>4 DEF InOrder

\* The sender.
LEMMA SenderOrder ==
  ASSUME IInv, DataInv, NumFiles = 1, OneSize, InOrder, Sending \/ StatusTimeout \/ SenderStops
  PROVE  InOrder'
<1>0. /\ UNCHANGED receiverVars /\ Wire /\ Progress /\ Begins
      /\ file \in Nat /\ fullySent \in Nat
      /\ phase \in {"asking", "sending"} => file \in Files /\ chunk \in ChunkSizes
  BY SenderStep DEF IInv, Sender, InOrder
<1>1. PICK c \in ChunkSizes \cup {0} : c = chunk /\ WireInOrder(c) /\ Ordering(c)
  BY DEF InOrder
<1>2. Control \in ChannelIds /\ 0 \notin ChunkSizes /\ MaxDrops \in Nat
  BY SizeAssumption, TransferAssumption DEF Control, ChannelIds
<1>3. CASE SenderBegins
  <2> DEFINE msgs == <<BatchInfo>> \o Opening(file', chunk')
  <2>1. /\ file' = fullySent + 1 /\ chunk' \in ChunkSizes
        /\ net' = [net EXCEPT ![Control] = @ \o msgs]
        /\ phase = "connecting" /\ phase' # "connecting" /\ drops' = drops
    BY <1>3 DEF SenderBegins, OnControl, NextPhase
  <2>2. PICK d \in ChunkSizes : d = chunk'
    BY <2>1
  <2>3. file' \in Nat \ {0} /\ BatchInfo \in {BatchInfo} \cup {Complete(g) : g \in Files}
    BY <1>0, <2>1
  <2>4. msgs \in Seq(Cut(d))
    BY <2>1, <2>3, OpeningCut
  <2> HIDE DEF msgs
  <2>5. WireInOrder(d) /\ Ordering(d)
    <3>1. CASE chunk = 0
      <4>1. meta = None /\ early = <<>> /\ \A ch \in ChannelIds : net[ch] = <<>>
        BY <1>0, <3>1 DEF Begins
      <4>2. Ordering(d)
        BY <1>0, <1>1, <4>1, NothingYet
      <4> QED BY <4>1, <4>2, EmptySeq DEF WireInOrder
    <3>2. CASE chunk # 0
      <4>1. MaxDrops # 0
        BY <1>0, <2>1, <3>2 DEF Begins
      <4>2. d = c
        BY <1>1, <3>2, <4>1 DEF OneSize
      <4> QED BY <1>1, <4>2
    <3> QED BY <3>1, <3>2
  <2>6. WireInOrder(d)'
    BY <1>0, <1>2, <2>1, <2>4, <2>5, WireCut
  <2>7. Ordering(d)'
    BY <1>0, <2>5, SameOrder
  <2>8. Begins'
    BY <1>0, <1>2, <2>1 DEF Begins
  <2> QED BY <2>2, <2>6, <2>7, <2>8 DEF InOrder
<1>5. CASE GotStatus \/ StatusTimeout
  <2>1. /\ UNCHANGED <<net, drops, chunk>>
        /\ phase' # phase => phase = "asking" /\ phase' = "sending"
    BY <1>5 DEF GotStatus, StatusTimeout, linkVars
  <2>2. Begins'
    BY <1>0, <2>1 DEF Begins, receiverVars, fileVars
  <2>3. WireInOrder(c)' /\ Ordering(c)'
    BY <1>0, <1>1, <2>1, SameOrder DEF WireInOrder
  <2> QED BY <1>1, <2>1, <2>2, <2>3 DEF InOrder
<1>6. CASE FinishFile
  <2> DEFINE msgs == <<Complete(file)>> \o Opening(file', chunk)
  <2>1. /\ phase = "sending" /\ file' = file + 1 /\ chunk' = chunk /\ drops' = drops
        /\ net' = [net EXCEPT ![Control] = @ \o msgs] /\ phase' # "connecting"
    BY <1>6 DEF FinishFile, OnControl, NextPhase
  <2>2. file' \in Nat \ {0} /\ Complete(file) \in {BatchInfo} \cup {Complete(g) : g \in Files}
    BY <1>0, <2>1
  <2>3. chunk \in ChunkSizes /\ c \in ChunkSizes
    BY <1>0, <1>1, <2>1
  <2>4. msgs \in Seq(Cut(c))
    BY <2>2, <2>3, OpeningCut
  <2> HIDE DEF msgs
  <2> QED BY <1>0, <1>1, <1>2, <2>1, <2>3, <2>4, SizedOrder
<1>7. ASSUME NEW ch \in ChannelIds, SendChunk(ch)
      PROVE  InOrder'
  <2>1. PICK i \in todo : net' = [net EXCEPT ![ch] = Append(@, Chunk(file, chunk, i))]
    BY <1>7 DEF SendChunk
  <2>2. phase = "sending" /\ UNCHANGED <<phase, chunk, drops>> /\ i \in Nat
    BY <1>7 DEF SendChunk, IInv, Sender
  <2> DEFINE x == Chunk(1, c, i)
             msgs == <<x>>
  <2>3. c \in ChunkSizes /\ file = 1 /\ x = Chunk(file, chunk, i)
    BY <1>0, <1>1, <2>2, FileFacts
  <2>4. x \in Messages /\ x.bytes = Part(1, c, i) /\ x.index = i
    <3>1. Chunk(1, c, i) \in Messages
      BY <1>0, <2>2, <2>3, MessageFacts
    <3> QED BY <3>1 DEF Chunk
  <2> HIDE DEF x
  <2>5. msgs \in Seq(Cut(c))
    BY <2>4 DEF Cut
  <2>6. net' = [net EXCEPT ![ch] = @ \o msgs]
    <3>1. Append(net[ch], x) = net[ch] \o msgs
      BY <1>0, <2>4, AppendIsConcat DEF Wire
    <3> QED BY <2>1, <2>3, <3>1
  <2> HIDE DEF msgs
  <2> QED BY <1>0, <1>1, <2>2, <2>3, <2>5, <2>6, SizedOrder
<1>8. CASE SenderStops
  <2> DEFINE msgs == <<CancelMsg>>
  <2>1. /\ phase \in {"asking", "sending"} /\ phase' = "stopped" /\ UNCHANGED <<chunk, drops>>
        /\ net' = [net EXCEPT ![Control] = @ \o msgs]
    BY <1>8 DEF SenderStops, OnControl
  <2>2. msgs \in Seq(Cut(c))
    BY MessageFacts DEF CancelMsg, Cut
  <2>3. c \in ChunkSizes
    BY <1>0, <1>1, <2>1
  <2> HIDE DEF msgs
  <2> QED BY <1>0, <1>1, <1>2, <2>1, <2>2, <2>3, SizedOrder
<1> QED BY <1>3, <1>5, <1>6, <1>7, <1>8 DEF Sending

\* A message that arrives.
LEMMA DeliverOrder ==
  ASSUME IInv, DataInv, NumFiles = 1, InOrder, NEW ch \in ChannelIds, Deliver(ch)
  PROVE  InOrder'
<1>1. PICK k \in DOMAIN net[ch] :
        /\ net' = [net EXCEPT ![ch] = RemoveAt(@, k)]
        /\ IF disposed THEN UNCHANGED receiverVars ELSE Handle(net[ch][k])
  BY DEF Deliver
<1>2. UNCHANGED <<phase, chunk, drops>>
  BY DEF Deliver, senderVars
<1>3. PICK c \in ChunkSizes \cup {0} : c = chunk /\ WireInOrder(c) /\ Ordering(c)
  BY DEF InOrder
<1>4. /\ net[ch] \in Seq(Cut(c)) /\ RemoveAt(net[ch], k) \in Seq(Cut(c))
      /\ net[ch][k] \in Cut(c)
  BY <1>1, <1>3, RemoveKeeps DEF WireInOrder
<1>5. WireInOrder(c)'
  BY <1>1, <1>3, <1>4 DEF WireInOrder, IInv, Wire
<1>6. PICK m \in Cut(c) : m = net[ch][k]
  BY <1>4
<1>7. Ordering(c)'
  <2>1. CASE disposed
    BY <1>1, <1>3, <2>1, SameOrder
  <2>2. CASE ~disposed
    <3>1. Handle(m)
      BY <1>1, <1>6, <2>2
    <3>2. m \in Messages /\ (m.type = "CHUNK" => m.bytes = Part(1, c, m.index))
      BY DEF Cut
    <3> QED BY <1>3, <3>1, <3>2, HandleOrder DEF IInv
  <2> QED BY <2>1, <2>2
<1>8. chunk # 0
  <2>1. net[ch] # <<>>
    BY <1>1
  <2> QED BY <2>1 DEF InOrder, Begins
<1>9. Begins'
  BY <1>2, <1>8 DEF InOrder, Begins
<1> QED BY <1>2, <1>3, <1>5, <1>7, <1>9 DEF InOrder

\* The steps between messages.
LEMMA GoOnOrder ==
  ASSUME IInv, DataInv, InOrder, Continue \/ Misfortune, UNCHANGED <<senderVars, linkVars>>
  PROVE  InOrder'
<1>1. PICK c \in ChunkSizes \cup {0} : c = chunk /\ WireInOrder(c) /\ Ordering(c)
  BY DEF InOrder
<1>2. UNCHANGED <<phase, chunk, drops, net>>
  BY DEF senderVars, linkVars
<1>3. WireInOrder(c)' /\ Ordering(c)'
  BY <1>1, <1>2, ContinueOrder DEF WireInOrder, IInv
<1>4. meta = None /\ early = <<>> => meta' = None /\ early' = <<>>
  <2>1. CASE Dispose
    BY <2>1 DEF Dispose
  <2>2. CASE ~Dispose
    BY <2>2, ContinueStep DEF Misfortune, fileVars, IInv
  <2> QED BY <2>1, <2>2
<1>5. Begins'
  BY <1>2, <1>4 DEF InOrder, Begins
<1> QED BY <1>1, <1>2, <1>3, <1>5 DEF InOrder

\* A lost connection.
LEMMA DropOrder ==
  ASSUME InOrder, Drop
  PROVE  InOrder'
<1>1. PICK c \in ChunkSizes \cup {0} : c = chunk /\ WireInOrder(c) /\ Ordering(c)
  BY DEF InOrder
<1>2. /\ UNCHANGED <<receiverVars, chunk>> /\ drops' = drops + 1 /\ drops < MaxDrops
      /\ net' = [ch \in ChannelIds |-> <<>>]
      /\ phase \in {"asking", "sending", "stopped", "done"}
  BY DEF Drop
<1>3. WireInOrder(c)' /\ Ordering(c)'
  BY <1>1, <1>2, SameOrder, EmptySeq DEF WireInOrder
<1>4. chunk # 0 /\ MaxDrops # 0
  BY <1>2 DEF InOrder, Begins
<1>5. Begins'
  BY <1>2, <1>4 DEF InOrder, Begins
<1> QED BY <1>1, <1>2, <1>3, <1>5 DEF InOrder

\* Every step.
LEMMA NextOrder ==
  ASSUME IInv, DataInv, NumFiles = 1, OneSize, InOrder, [Next]_vars
  PROVE  InOrder'
<1>1. CASE UNCHANGED vars
  <2>1. PICK c \in ChunkSizes \cup {0} : c = chunk /\ WireInOrder(c) /\ Ordering(c)
    BY DEF InOrder
  <2>2. UNCHANGED <<receiverVars, meta, early, phase, chunk, drops, net>>
    BY <1>1 DEF vars, receiverVars, fileVars, senderVars, linkVars
  <2>3. WireInOrder(c)' /\ Ordering(c)'
    BY <2>1, <2>2, SameOrder DEF WireInOrder
  <2>4. Begins'
    BY <2>2 DEF InOrder, Begins
  <2> QED BY <2>1, <2>2, <2>3, <2>4 DEF InOrder
<1>2. CASE Sending \/ StatusTimeout \/ SenderStops
  BY <1>2, SenderOrder
<1>3. ASSUME NEW ch \in ChannelIds, Deliver(ch)
      PROVE  InOrder'
  BY <1>3, DeliverOrder
<1>4. CASE (Continue \/ Misfortune) /\ UNCHANGED <<senderVars, linkVars>>
  BY <1>4, GoOnOrder
<1>5. CASE Drop
  BY <1>5, DropOrder
<1> QED BY <1>1, <1>2, <1>3, <1>4, <1>5 DEF Next

\* Nothing is on its way, and nothing has come.
LEMMA InitOrder ==
  ASSUME Init
  PROVE  InOrder
<1>1. /\ meta = None /\ nextIndex = 0 /\ reorder = <<>> /\ early = <<>> /\ sinks = <<>>
      /\ sink = None /\ chain = None /\ chunk = 0 /\ drops = 0 /\ phase = "connecting"
      /\ net = [ch \in ChannelIds |-> <<>>]
  BY DEF Init, ReceiverInit
<1>2. DOMAIN <<>> = {} /\ Len(<<>>) = 0
  OBVIOUS
<1>3. Links = <<>> /\ ~AtOpening
  BY <1>1 DEF Links, AtOpening
<1>4. Base = 0
  <2>1. Len(Links) = 0
    BY <1>2, <1>3
  <2> QED BY <1>1, <2>1 DEF Base
<1>5. WaitInOrder(0)
  BY <1>1, <1>2 DEF WaitInOrder
<1>6. QueuedInOrder(0) /\ WrittenInOrder(0)
  BY <1>1, <1>2, <1>3, <1>4 DEF QueuedInOrder, WrittenInOrder
<1>7. WireInOrder(0)
  BY <1>1, EmptySeq DEF WireInOrder
<1>8. Begins
  BY <1>1 DEF Begins
<1> QED BY <1>1, <1>5, <1>6, <1>7, <1>8 DEF InOrder, Ordering

\* A sink holds the file's chunks from the first on, and so a prefix of it.
LEMMA OrderedPrefix ==
  ASSUME IInv, DataInv, NumFiles = 1, InOrder
  PROVE  SinksInOrder
<1>1. PICK c \in ChunkSizes \cup {0} : c = chunk /\ WireInOrder(c) /\ Ordering(c)
  BY DEF InOrder
<1> SUFFICES ASSUME NEW s \in DOMAIN sinks
             PROVE  IsPrefix(Content(sinks[s]), Bytes(sinks[s].file))
  BY DEF SinksInOrder
<1>2. s \in 1 .. Len(sinks) /\ sinks[s] \in SinkRec
  BY LenProperties, ElementOfSeq DEF DataInv, SinksTyped
<1>3. sinks[s].file = 1 /\ 1 \in Files
  <2>1. sinks[s].file \in Files
    BY <1>2 DEF SinkRec
  <2> QED BY <2>1, FileFacts
<1>4. c \in ChunkSizes
  <2>1. chunk = 0 => sinks = <<>>
    BY <1>1, NothingYet DEF InOrder, Begins, IInv
  <2>2. sinks # <<>>
    BY <1>2
  <2> QED BY <1>1, <2>1, <2>2
<1> DEFINE n == Len(sinks[s].data)
<1>5. n \in Nat /\ sinks[s].data = Pieces(1, c, n)
  <2>1. n \in Nat
    BY <1>2, LenProperties DEF SinkRec
  <2> QED BY <1>1, <1>2, <2>1 DEF Ordering, WrittenInOrder
<1> HIDE DEF n
<1>6. IsPrefix(FlattenSeq(Pieces(1, c, n)), Bytes(1))
  BY <1>3, <1>4, <1>5, PiecesPrefix
<1> QED BY <1>3, <1>5, <1>6 DEF Content

\* In a batch of one file, cut to one size, a sink never holds anything but a
\* prefix of the file, whatever fails on the way.
THEOREM ReceiverInOrder == NumFiles = 1 /\ OneSize /\ Spec => []SinksInOrder
<1>1. IInv /\ DataInv /\ NumFiles = 1 /\ OneSize /\ InOrder /\ [Next]_vars => InOrder'
  BY NextOrder
<1>2. Init => InOrder
  BY InitOrder
<1>3. IInv /\ DataInv /\ NumFiles = 1 /\ InOrder => SinksInOrder
  BY OrderedPrefix
<1>4. NumFiles = 1 => Serial
  BY DEF Serial
<1>5. ((NumFiles = 1)' <=> NumFiles = 1) /\ (OneSize' <=> OneSize)
  BY DEF NumFiles, OneSize
<1> QED BY <1>1, <1>2, <1>3, <1>4, <1>5, ReceiverInvariance, ReceiverData, PTL DEF Spec

-----------------------------------------------------------------------------
(* No byte of a file is lost between sender and receiver. *)

\* A file that nobody has begun to finish has its hasher.
StillHashed ==
  ui = "active" /\ meta # None /\ (\A f \in Files : call[f].at = "idle") => hasher # None

\* fail() ends the transfer.
LEMMA FailEnds ==
  ASSUME NEW f, Fail(f)
  PROVE  StillHashed'
BY DEF Fail, Report, StillHashed

\* A call that has begun is not the hasher's concern here.
LEMMA CallBegun ==
  ASSUME CallsTyped, NEW f \in Files, NEW r, call' = [call EXCEPT ![f] = r],
         r.at # "idle"
  PROVE  StillHashed'
BY DEF CallsTyped, StillHashed

\* Who waits for stragglers, or is past that.
LEMMA VerifyHashed ==
  ASSUME CallsTyped, NEW f \in Files, NEW total, Verify(f, total)
  PROVE  StillHashed'
<1>1. CASE Fail(f)
  BY <1>1, FailEnds
<1>2. CASE ~Fail(f)
  <2> DEFINE r == [at |-> "flush", total |-> total, chain |-> chain,
                   upTo |-> chains[chain].done + Len(chains[chain].links),
                   hasher |-> None, sink |-> None]
  <2>1. call' = [call EXCEPT ![f] = r]
    BY <1>2 DEF Verify
  <2>2. r.at # "idle"
    OBVIOUS
  <2> HIDE DEF r
  <2> QED BY <2>1, <2>2, CallBegun
<1> QED BY <1>1, <1>2

\* A message.
LEMMA HandleHashed ==
  ASSUME IInv, DataInv, StillHashed, NEW m \in Messages, Handle(m)
  PROVE  StillHashed'
<1>1. CallsTyped /\ Len(hashers) \in Nat
  BY LenProperties DEF DataInv, HashersTyped
<1>2. ASSUME UNCHANGED <<meta, hasher, call>>, ui' = ui \/ ui' # "active"
      PROVE  StillHashed'
  BY <1>2 DEF StillHashed
<1>3. CASE UNCHANGED receiverVars
  BY <1>2, <1>3 DEF receiverVars, fileVars, hashVars, uiVars
<1>4. CASE OnBatchInfo(NumFiles)
  BY <1>2, <1>4 DEF OnBatchInfo, fileVars, hashVars, uiVars
<1>5. ASSUME NEW f \in Files, NEW c, OnMetadata(f, c)
      PROVE  StillHashed'
  <2>1. CASE UNCHANGED receiverVars
    BY <1>3, <2>1
  <2>2. CASE BeginFile(f, c)
    <3>1. hasher' = Len(hashers) + 1
      BY <2>2 DEF BeginFile
    <3> QED BY <1>1, <3>1 DEF StillHashed, None
  <2> QED BY <1>5, <2>1, <2>2 DEF OnMetadata
<1>6. ASSUME NEW i, NEW b, OnChunk(i, b)
      PROVE  StillHashed'
  <2>1. UNCHANGED <<meta, hasher, call>> /\ (ui' = ui \/ ui' = "error")
    BY <1>6 DEF OnChunk, Report, fileVars, hashVars, uiVars
  <2> QED BY <1>2, <2>1
<1>7. ASSUME NEW f \in Files, OnComplete(f)
      PROVE  StillHashed'
  <2>1. CASE UNCHANGED receiverVars
    BY <1>3, <2>1
  <2>2. CASE Verify(f, Total(f, chunkSize))
    BY <1>1, <2>2, VerifyHashed
  <2>3. CASE call' = [call EXCEPT ![f].at = "poll", ![f].total = Total(f, chunkSize)]
    <3> DEFINE r == [call[f] EXCEPT !.at = "poll", !.total = Total(f, chunkSize)]
    <3>1. r.at = "poll"
      BY <1>1 DEF CallsTyped, CallRec
    <3>2. call' = [call EXCEPT ![f] = r]
      BY <1>1, <2>3 DEF CallsTyped
    <3> HIDE DEF r
    <3> QED BY <1>1, <3>1, <3>2, CallBegun
  <2> QED BY <1>7, <2>1, <2>2, <2>3 DEF OnComplete
<1>8. CASE OnCancel
  BY <1>2, <1>8 DEF OnCancel, Report, fileVars, hashVars
<1>9. CASE m.type = "FILE_METADATA" /\ OnMetadata(m.file, m.chunkSize)
  BY <1>5, <1>9, MessageFacts
<1>10. CASE m.type = "TRANSFER_COMPLETE" /\ OnComplete(m.file)
  BY <1>7, <1>10, ChunkFacts
<1>11. CASE m.type = "CHUNK" /\ OnChunk(m.index, m.bytes)
  BY <1>6, <1>11
<1>12. CASE m.type = "BATCH_INFO" /\ OnBatchInfo(NumFiles)
  BY <1>4, <1>12
<1>13. CASE m.type = "RESUME_QUERY" /\ UNCHANGED receiverVars
  BY <1>3, <1>13
<1>14. CASE m.type = "CANCEL" /\ OnCancel
  BY <1>8, <1>14
<1> QED BY <1>9, <1>10, <1>11, <1>12, <1>13, <1>14, Zenon DEF Handle

\* What goes on between messages.
LEMMA GoOnHashed ==
  ASSUME DataInv, StillHashed, Continue \/ Misfortune
  PROVE  StillHashed'
<1>1. CallsTyped
  BY DEF DataInv
<1>2. ASSUME UNCHANGED <<meta, hasher, call, ui>>
      PROVE  StillHashed'
  BY <1>2 DEF StillHashed
<1>3. ASSUME NEW f \in Files, PollEnough(f) \/ PollGivesUp(f)
      PROVE  StillHashed'
  BY <1>1, <1>3, FailEnds, VerifyHashed DEF PollEnough, PollGivesUp
<1>4. ASSUME NEW f \in Files, AskDigest(f)
      PROVE  StillHashed'
  <2>1. CASE Fail(f)
    BY <2>1, FailEnds
  <2>2. CASE ~Fail(f)
    <3> DEFINE r == [call[f] EXCEPT !.at = "digest", !.hasher = hasher]
    <3>1. call'[f] = r
      BY <1>4, <2>2 DEF AskDigest
    <3>2. r.at = "digest"
      BY <1>1 DEF CallsTyped, CallRec
    <3> HIDE DEF r
    <3> QED BY <3>1, <3>2 DEF StillHashed
  <2> QED BY <2>1, <2>2
<1>5. ASSUME NEW f \in Files, Digested(f) \/ Closed(f)
      PROVE  StillHashed'
  <2>1. CASE Fail(f)
    BY <2>1, FailEnds
  <2>2. CASE ~Fail(f)
    <3>1. \/ \E s : HandOver(f, s)
          \/ call' = [call EXCEPT ![f].at = "closing", ![f].sink = sink]
      BY <1>5, <2>2 DEF Digested, Closed
    <3>2. call'[f].at \in {"closing", "done"}
      BY <1>1, <3>1 DEF HandOver, CallsTyped, CallRec
    <3> QED BY <3>2 DEF StillHashed
  <2> QED BY <2>1, <2>2
<1>6. CASE \E h \in DOMAIN hashers : WorkerAnswers(h)
  BY <1>2, <1>6 DEF WorkerAnswers, fileVars, uiVars
<1>7. CASE \E c \in DOMAIN chains :
             SinkOpens(c) \/ WriteStarts(c) \/ StreamCreated(c) \/ WriteSettles(c)
  BY <1>2, <1>7 DEF SinkOpens, WriteStarts, StreamCreated, WriteSettles, fileVars,
     hashVars, uiVars
<1>8. CASE WorkerCrashes
  BY <1>2, <1>8 DEF WorkerCrashes, fileVars, uiVars
<1>9. CASE Dispose
  BY <1>9 DEF Dispose, Report, StillHashed
<1> QED BY <1>3, <1>4, <1>5, <1>6, <1>7, <1>8, <1>9 DEF Continue, Misfortune

\* Every step.
LEMMA NextHashed ==
  ASSUME IInv, DataInv, StillHashed, [Next]_vars
  PROVE  StillHashed'
<1>1. CASE UNCHANGED receiverVars
  BY <1>1 DEF receiverVars, fileVars, hashVars, uiVars, StillHashed
<1>2. CASE Sending \/ StatusTimeout \/ SenderStops
  BY <1>1, <1>2, SenderStep
<1>3. ASSUME NEW ch \in ChannelIds, Deliver(ch)
      PROVE  StillHashed'
  <2>1. PICK k \in DOMAIN net[ch] :
          IF disposed THEN UNCHANGED receiverVars ELSE Handle(net[ch][k])
    BY <1>3 DEF Deliver
  <2>2. net[ch][k] \in Messages
    BY <2>1, ElementOfSeq, LenProperties DEF IInv, Wire
  <2> QED BY <1>1, <2>1, <2>2, HandleHashed
<1>4. CASE (Continue \/ Misfortune) /\ UNCHANGED <<senderVars, linkVars>>
  BY <1>4, GoOnHashed
<1>5. CASE Drop
  BY <1>1, <1>5 DEF Drop
<1>6. CASE UNCHANGED vars
  BY <1>1, <1>6 DEF vars
<1> QED BY <1>2, <1>3, <1>4, <1>5, <1>6 DEF Next

\* What was handed on before nextIndex, in a file that goes on, is in the sink or
\* queued to be written to it.
LEMMA HandedOnAll ==
  ASSUME IInv, DataInv, NumFiles = 1, NEW c, Ordering(c), meta # None, hasher # None,
         \A f \in Files : call[f].at = "idle", ~writeError,
         NEW i \in Nat, i < nextIndex
  PROVE  Part(1, c, i) \in HandedOn
<1>1. /\ Links = chains[chain].links /\ chain \in 1 .. Len(chains)
      /\ \A k \in 2 .. Len(Links) : Links[k].at = "queued"
  BY DEF DataInv, ChainsTyped, Links, None
<1>2. PICK n \in Nat : n = Len(Links)
  BY LinksTyped DEF DataInv
<1>3. DOMAIN Links = 1 .. n
  BY <1>2, LinksTyped, LenProperties DEF DataInv
<1>4. Base = nextIndex - n /\ nextIndex \in Nat
  BY <1>2 DEF Base, IInv, Progress
<1>5. ASSUME NEW k \in 1 .. n, Links[k].at # "opening", Base + k - 1 = i
      PROVE  Part(1, c, i) \in HandedOn
  <2>1. Links[k].bytes = Part(1, c, i)
    BY <1>2, <1>5 DEF Ordering, QueuedInOrder
  <2>2. k \in DOMAIN chains[chain].links
    BY <1>1, <1>3
  <2> QED BY <1>1, <2>1, <2>2 DEF HandedOn
<1>6. hashers[hasher].state = "open"
  BY DEF DataInv, StillOpen
<1>7. CASE AtOpening
  <2>1. Base = -1
    BY <1>7 DEF Ordering, QueuedInOrder
  <2>2. i + 2 \in 2 .. n /\ Base + (i + 2) - 1 = i
    BY <1>4, <2>1
  <2>3. Links[i + 2].at = "queued" /\ i + 2 \in 1 .. n
    BY <1>1, <1>2, <2>2
  <2> QED BY <1>5, <2>2, <2>3
<1>8. CASE ~AtOpening
  <2>1. sink # None /\ sink \in 1 .. Len(sinks)
    BY <1>6, <1>8 DEF DataInv, Agree, SinksTyped, None
  <2>2. Base >= 0 /\ Len(sinks[sink].data) = Base
        /\ sinks[sink].data = Pieces(1, c, Base)
    BY <1>8, <2>1 DEF Ordering, QueuedInOrder, WrittenInOrder, HasAll
  <2>3. CASE i < Base
    <3>1. i + 1 \in 1 .. Base /\ (i + 1) - 1 = i
      BY <1>4, <2>2, <2>3
    <3>2. DOMAIN Pieces(1, c, Base) = 1 .. Base
          /\ Pieces(1, c, Base)[i + 1] = Part(1, c, i)
      BY <3>1 DEF Pieces
    <3>3. Part(1, c, i) \in ToSet(sinks[sink].data)
      BY <2>2, <3>1, <3>2 DEF ToSet
    <3> QED BY <2>1, <3>3 DEF HandedOn
  <2>4. CASE ~(i < Base)
    <3>1. i - Base + 1 \in 1 .. n /\ Base + (i - Base + 1) - 1 = i
      BY <1>4, <2>2, <2>4
    <3>2. Links[i - Base + 1].at # "opening"
      <4>1. i - Base + 1 = 1 \/ i - Base + 1 \in 2 .. n
        BY <3>1
      <4>2. Links # <<>>
        BY <1>2, <3>1
      <4> QED BY <1>1, <1>2, <1>8, <4>1, <4>2 DEF AtOpening
    <3> QED BY <1>5, <3>1, <3>2
  <2> QED BY <2>3, <2>4
<1> QED BY <1>7, <1>8

\* An index that is with the receiver stands for its bytes.
LEMMA BytesCovered ==
  ASSUME IInv, DataInv, CalledAfter, NumFiles = 1, InOrder, Covered, StillHashed
  PROVE  EveryChunkSomewhere
<1> SUFFICES ASSUME phase = "sending", ui = "active", ~writeError,
                    NEW i \in Chunks(file, chunk) \ todo
             PROVE  \/ Chunk(file, chunk, i) \in OnWire
                    \/ i \in DOMAIN early /\ early[i] = Part(file, chunk, i)
                    \/ /\ meta = file
                       /\ \/ i \in DOMAIN reorder /\ reorder[i] = Part(file, chunk, i)
                          \/ Part(file, chunk, i) \in HandedOn
  BY DEF EveryChunkSomewhere
<1>1. PICK c \in ChunkSizes \cup {0} : c = chunk /\ WireInOrder(c) /\ Ordering(c)
  BY DEF InOrder
<1>2. file = 1 /\ 1 \in Files /\ (meta # None => meta = 1) /\ i \in Nat
  <2>1. file \in Files /\ chunk \in ChunkSizes /\ meta \in Files \cup {None}
    BY DEF IInv, Sender, Progress
  <2> QED BY <2>1, FileFacts
<1>3. \A f \in Files : call[f].at = "idle"
  <2>1. file = fullySent + 1 /\ fullySent \in Nat
    BY DEF CalledAfter, IInv, Sender
  <2>2. ASSUME NEW f \in Files PROVE ~(f <= fullySent)
    BY <1>2, <2>1, OneFile
  <2> QED BY <2>2 DEF CalledAfter
<1>4. Somewhere(i)
  BY DEF Covered
<1>5. CASE i \in DOMAIN early
  BY <1>1, <1>2, <1>5 DEF Ordering, WaitInOrder
<1>6. CASE meta # None /\ i \in DOMAIN reorder
  BY <1>1, <1>2, <1>6 DEF Ordering, WaitInOrder
<1>7. CASE meta # None /\ i < nextIndex
  <2>1. hasher # None
    BY <1>3, <1>7 DEF StillHashed
  <2> QED BY <1>1, <1>2, <1>3, <1>7, <2>1, HandedOnAll
<1> QED BY <1>4, <1>5, <1>6, <1>7 DEF Somewhere, Kept

\* In a batch of one file, cut to one size, what the sender will not send again is
\* on the wire or, byte for byte, with the receiver.
THEOREM ReceiverCovered == NumFiles = 1 /\ OneSize /\ Spec => []EveryChunkSomewhere
<1>1. IInv /\ DataInv /\ StillHashed /\ [Next]_vars => StillHashed'
  BY NextHashed
<1>2. IInv /\ DataInv /\ NumFiles = 1 /\ OneSize /\ InOrder /\ [Next]_vars => InOrder'
  BY NextOrder
<1>3. Init => InOrder /\ StillHashed
  BY InitOrder DEF Init, ReceiverInit, StillHashed
<1>4. IInv /\ DataInv /\ BatchInv /\ NumFiles = 1 /\ InOrder /\ Told /\ Covered /\ StillHashed
        => EveryChunkSomewhere
  BY BytesCovered DEF BatchInv
<1>5. NumFiles = 1 => Serial /\ InTurn
  BY DEF Serial, InTurn
<1>6. ((NumFiles = 1)' <=> NumFiles = 1) /\ (OneSize' <=> OneSize)
  BY DEF NumFiles, OneSize
<1> QED BY <1>1, <1>2, <1>3, <1>4, <1>5, <1>6, ReceiverInvariance, ReceiverData,
           ReceiverBatch, IndexCovered, PTL DEF Spec

-----------------------------------------------------------------------------
(* A transfer that nothing befalls is not reported as failed. *)

\* Nothing happens that the user may hear of as a failure: a folder may refuse a
\* file, the user may cancel, and the sender may give up a lost connection.
AllWell == Faults \subseteq {"openFail", "dispose", "giveUp"}

\* Messages about the chunks of the only file, cut to size c.
Fine(c) ==
  {m \in Messages :
     /\ m.type # "CANCEL"
     /\ m.type = "CHUNK" => m.index < Total(1, c)
     /\ m.type = "FILE_METADATA" => m.chunkSize = c}

\* All that is on its way is about such chunks, and so is what the sender and the
\* receiver know.
Sized(c) ==
  /\ \A ch \in ChannelIds : net[ch] \in Seq(Fine(c))
  /\ \A i \in todo \cup DOMAIN early : i < Total(1, c)
  /\ meta # None => chunkSize = c

\* The current file, until it was verified, has its hasher, and its sink as soon
\* as one was opened; no write failed, and none goes to a stream that is gone.
Unharmed ==
  /\ ~writeError
  /\ \A f \in Files : meta # None /\ call[f].at \in {"idle", "poll", "flush", "digest"} =>
       hasher # None /\ (Len(sinks) = 1 => sink # None)
  /\ \A f \in Files : call[f].at = "digest" => hashers[call[f].hasher].state # "rejected"
  /\ Links # <<>> /\ Links[1].at = "writing" => sinks[Links[1].to].stream = "open"

\* No error was reported, and as long as nothing else was, none can be.
Calm == ui # "error" /\ (ui = "active" => Unharmed)

-----------------------------------------------------------------------------
\* A panel that is done or was cancelled stays so.
LEMMA EndedCalm ==
  ASSUME Calm, ui # "active", ui' = ui
  PROVE  Calm'
BY DEF Calm

\* A step that leaves alone what could be harmed.
LEMMA UnharmedKept ==
  ASSUME Unharmed,
         UNCHANGED <<writeError, meta, call, hashers, hasher, sinks, sink, chains, chain>>
  PROVE  Unharmed'
<1>1. Links' = Links
  BY DEF Links
<1> QED BY <1>1 DEF Unharmed

\* The file begins: it has a hasher, and its first link is to open its sink.
LEMMA BeginUnharmed ==
  ASSUME Progress, DataInv, NEW c \in ChunkSizes, NEW d, Ordering(d), Sized(c), Unharmed,
         NumFiles = 1, NEW f \in Files, meta = None, BeginFile(f, c)
  PROVE  Unharmed' /\ ui' = ui /\ early' = <<>> /\ chunkSize' = c
<1>1. /\ meta' = f /\ early' = <<>> /\ chunkSize' = c /\ writeError' = FALSE
      /\ hasher' = Len(hashers) + 1 /\ UNCHANGED <<call, sinks, sink>>
      /\ ui' = ui \/ \E i \in DOMAIN early : i >= Total(f, c)
  BY DEF BeginFile, sinkVars
<1>2. f = 1 /\ f # None /\ Total(1, c) \in Nat
  BY FileFacts
<1>3. ui' = ui
  <2>1. \A i \in DOMAIN early : i \in Nat /\ i < Total(1, c)
    BY DEF Sized, Progress
  <2> QED BY <1>1, <1>2, <2>1
<1>4. hasher' # None
  <2>1. Len(hashers) \in Nat
    BY LenProperties DEF DataInv, HashersTyped
  <2> QED BY <1>1, <2>1 DEF None
<1>5. Len(sinks) = 0
  BY DEF Ordering, QueuedInOrder
<1>6. \A g \in Files : call[g].at = "idle"
  BY DEF DataInv, Begun
<1>7. AtOpening'
  <2>1. Ordering(d)'
    BY BeginOrder
  <2> QED BY <1>1, <1>2, <1>5, <2>1 DEF Ordering, QueuedInOrder
<1>8. Links'[1].at # "writing"
  BY <1>7 DEF AtOpening
<1> QED BY <1>1, <1>3, <1>4, <1>5, <1>6, <1>8 DEF Unharmed

\* A chunk is accepted: it is queued behind what goes on.
LEMMA AcceptedUnharmed ==
  ASSUME Progress, DataInv, Unharmed, NEW i \in Nat, NEW b \in Parts,
         meta # None, i < Total(meta, chunkSize), OnChunk(i, b)
  PROVE  Unharmed' /\ UNCHANGED <<ui, meta, chunkSize, early>>
<1> DEFINE frames == [k \in {i} |-> b]
           total == Total(meta, chunkSize)
           a == Accept(nextIndex, reorder, frames, total)
<1>0. /\ total \in Nat /\ nextIndex \in Nat /\ nextIndex <= total
      /\ IsFiniteSet(DOMAIN reorder)
      /\ \A k \in DOMAIN reorder : k \in Nat /\ nextIndex <= k /\ k < total
  BY FileFacts DEF Progress
<1>1. /\ chains' = [chains EXCEPT ![chain].links = @ \o Writes(a.run)]
      /\ hashers' = Fed(hashers, hasher, a.run)
      /\ UNCHANGED <<meta, chunkSize, early, sinks, sink, chain, writeError, hasher, call, ui>>
  <2>1. ~(i >= total)
    BY <1>0
  <2> QED BY <2>1 DEF OnChunk, sinkVars, uiVars
<1>2. /\ IsFiniteSet(DOMAIN frames) /\ DOMAIN frames \subseteq Nat
      /\ \A k \in DOMAIN frames : frames[k] \in Parts
  BY FS_Singleton
<1> HIDE DEF frames, total
<1>3. \A k \in DOMAIN reorder : reorder[k] \in Parts
  BY DEF DataInv, FramesTyped
<1>4. a.run \in Seq(Parts)
  BY <1>0, <1>2, <1>3, AcceptData
<1> HIDE DEF a
<1> DEFINE w == Writes(a.run)
<1>5. w \in Seq(LinkRec) /\ \A k \in 1 .. Len(w) : w[k].at = "queued"
  BY <1>4, WritesFacts
<1>6. /\ chain # None /\ chain \in 1 .. Len(chains) /\ Links = chains[chain].links
      /\ Links \in Seq(LinkRec) /\ \A k \in 2 .. Len(Links) : Links[k].at = "queued"
  BY LinksTyped DEF DataInv, ChainsTyped
<1> DEFINE l == Links \o w
<1>7. Links' = l
  <2>1. chains \in Seq(ChainRec) /\ DOMAIN chains = 1 .. Len(chains)
    BY LenProperties DEF DataInv, ChainsTyped
  <2>2. chains[chain] \in ChainRec
    BY <1>6, <2>1, ElementOfSeq
  <2>3. chains'[chain] = [chains[chain] EXCEPT !.links = l]
    BY <1>1, <1>6, <2>1
  <2>4. [chains[chain] EXCEPT !.links = l].links = l
    <3> HIDE DEF l
    <3> QED BY <2>2 DEF ChainRec
  <2> HIDE DEF l
  <2> QED BY <1>1, <1>6, <2>3, <2>4 DEF Links
<1> HIDE DEF w
<1>8. \/ Links # <<>> /\ l # <<>> /\ l[1] = Links[1]
      \/ Links = <<>> /\ (l # <<>> => l[1].at = "queued")
  BY <1>5, <1>6, QueueFacts
<1> HIDE DEF l
<1>9. ASSUME NEW f \in Files, call[f].at = "digest"
      PROVE  hashers'[call[f].hasher].state = hashers[call[f].hasher].state
  <2>1. call[f].hasher \in 1 .. Len(hashers)
    BY <1>9 DEF DataInv, Digesting
  <2>2. hashers \in Seq(HasherRec) /\ hasher \in 0 .. Len(hashers)
    BY DEF DataInv, HashersTyped
  <2> QED BY <1>1, <1>4, <2>1, <2>2, FedFacts
<1> QED BY <1>1, <1>7, <1>8, <1>9 DEF Unharmed

\* A write chain goes on to its next link.
LEMMA NextUnharmed ==
  ASSUME DataInv, Unharmed, NEW x \in DOMAIN chains, chains[x].links # <<>>,
         chains' = LinkDone(x), ~writeError', Len(sinks') = 1 /\ sink' = None =>
           Len(sinks) = 1 /\ sink = None,
         UNCHANGED <<meta, call, hashers, hasher, chain>>
  PROVE  Unharmed'
<1>1. Links' # <<>> => Links'[1].at = "queued"
  BY LinkDoneFacts DEF DataInv
<1> QED BY <1>1 DEF Unharmed

\* The write chain, where nothing fails.
LEMMA ChainUnharmed ==
  ASSUME Progress, DataInv, NEW c, Ordering(c), AllWell, Unharmed, NEW x \in DOMAIN chains,
         SinkOpens(x) \/ WriteStarts(x) \/ StreamCreated(x) \/ WriteSettles(x)
  PROVE  Unharmed'
<1>0. /\ chains[x].links # <<>>
      /\ UNCHANGED <<meta, call, hashers, hasher, chain>>
      /\ ~writeError
  BY DEF SinkOpens, WriteStarts, StreamCreated, WriteSettles, HasLink, fileVars, hashVars,
         Unharmed
<1>1. sinks \in Seq(SinkRec) /\ Len(sinks) \in Nat /\ sink \in 0 .. Len(sinks)
  BY LenProperties DEF DataInv, SinksTyped
<1>2. /\ x = chain /\ Links # <<>> /\ Links = chains[x].links /\ Link(x) = Links[1]
      /\ Links[1] \in LinkRec /\ ChainsTyped
  <2>1. x \in 1 .. Len(chains) /\ x = chain /\ Links = chains[x].links /\ Links \in Seq(LinkRec)
    BY <1>0, LinksTyped DEF DataInv
  <2>2. Links[1] \in LinkRec /\ Link(x) = Links[1] /\ Links # <<>>
    BY <1>0, <2>1, BytesOfTail DEF Link
  <2> QED BY <2>1, <2>2 DEF DataInv
<1>3. CASE SinkOpens(x)
  <2>1. chains' = LinkDone(x) /\ sink' # None /\ writeError' = writeError
    BY <1>1, <1>3 DEF SinkOpens, None
  <2> QED BY <1>0, <2>1, NextUnharmed
<1>4. CASE WriteStarts(x) /\ chains' = LinkDone(x)
  <2>1. UNCHANGED <<sink, writeError>> /\ (sink = None => UNCHANGED sinks)
    BY <1>4, <1>0 DEF WriteStarts
  <2> QED BY <1>0, <1>4, <2>1, NextUnharmed DEF Unharmed
<1>5. CASE WriteStarts(x) /\ chains' # LinkDone(x)
  <2> DEFINE place == IF sinks[sink].stream = "open" THEN "writing" ELSE "creating"
             r == [chains[x].links[1] EXCEPT !.to = sink, !.at = place]
  <2>1. /\ sink # None /\ sinks[sink].disk /\ chains' = [chains EXCEPT ![x].links[1] = r]
        /\ UNCHANGED <<sinks, sink, writeError>>
    BY <1>0, <1>5 DEF WriteStarts
  <2>2. ToFolder /\ place \in {"creating", "writing"} /\ sink \in Nat
    BY <1>1, <2>1 DEF DataInv, SinksTyped, None
  <2>3. (place = "writing" => sinks[sink].stream = "open")
    OBVIOUS
  <2> HIDE DEF place
  <2>4. r \in LinkRec /\ r.bytes = Links[1].bytes /\ r.at = place /\ r.to = sink
    BY <1>2, <2>2 DEF LinkRec
  <2> HIDE DEF r
  <2>5. Links' # <<>> /\ Links'[1] = r
    BY <1>0, <1>2, <2>1, <2>2, <2>4, LinkMoves
  <2> QED BY <1>0, <2>1, <2>3, <2>4, <2>5 DEF Unharmed
<1>6. CASE StreamCreated(x)
  <2> DEFINE r == [chains[x].links[1] EXCEPT !.at = "writing"]
             s == Link(x).to
  <2>1. /\ Links[1].at = "creating" /\ sinks' = Streamed(sinks, s)
        /\ chains' = [chains EXCEPT ![x].links[1] = r] /\ UNCHANGED <<sink, writeError>>
    BY <1>2, <1>6 DEF StreamCreated, HasLink, Streamed
  <2>2. s \in 1 .. Len(sinks) /\ s \in Nat
    <3>1. Link(x).to \in Nat
      BY <1>2 DEF LinkRec
    <3> QED BY <1>2, <2>1, <3>1 DEF Ordering, WrittenInOrder
  <2>3. r \in LinkRec /\ r.bytes = Links[1].bytes /\ r.at = "writing" /\ r.to = s
    BY <1>2 DEF LinkRec
  <2>4. ToFolder
    BY <1>2, <2>1 DEF ChainsTyped
  <2> HIDE DEF r
  <2>5. Links'[1] = r
    BY <1>0, <1>2, <2>1, <2>3, <2>4, LinkMoves
  <2> HIDE DEF s
  <2>6. Len(sinks') = Len(sinks)
    BY <1>1, <2>1, <2>2, SinkStreamed
  <2>7. sinks'[s].stream = "open"
    <3>1. DOMAIN sinks = 1 .. Len(sinks) /\ sinks[s] \in SinkRec
      BY <1>1, <2>2, LenProperties, ElementOfSeq
    <3> QED BY <2>1, <2>2, <3>1 DEF Streamed, SinkRec
  <2> QED BY <1>0, <2>1, <2>3, <2>5, <2>6, <2>7 DEF Unharmed
<1>7. CASE WriteSettles(x)
  <2>1. Links[1].at = "writing" /\ sinks[Link(x).to].stream = "open"
    BY <1>2, <1>7 DEF WriteSettles, HasLink, Unharmed
  <2>2. "writeFail" \notin Faults
    BY DEF AllWell
  <2>3. chains' = LinkDone(x) /\ sink' = sink /\ writeError' = writeError
        /\ sinks' = Written(sinks, Link(x).to, Link(x).bytes)
    BY <1>7, <2>1, <2>2 DEF WriteSettles, Written
  <2>4. Len(sinks') = Len(sinks)
    <3> DEFINE s == Link(x).to
               b == Link(x).bytes
    <3>1. s \in Nat /\ b \in Parts
      BY <1>2 DEF LinkRec
    <3> HIDE DEF s, b
    <3>2. Len(Written(sinks, s, b)) = Len(sinks)
      BY <1>1, <3>1, SinkWritten
    <3> QED BY <2>3, <3>2 DEF s, b
  <2> QED BY <1>0, <2>3, <2>4, NextUnharmed
<1> QED BY <1>3, <1>4, <1>5, <1>6, <1>7

\* The whole file is there when its count says so: no hole is found.
LEMMA VerifyUnharmed ==
  ASSUME Progress, DataInv, Counted, Unharmed, NumFiles = 1, ~disposed, NEW f \in Files,
         meta # None, call[f].at \in {"idle", "poll"},
         received >= Total(meta, chunkSize), Verify(f, Total(meta, chunkSize))
  PROVE  Unharmed' /\ ui' = ui
<1>1. ~(nextIndex < Total(meta, chunkSize))
  <2>1. nextIndex = Total(meta, chunkSize) /\ nextIndex \in Nat
    BY DEF Counted, Progress
  <2> QED BY <2>1
<1> DEFINE r == [at |-> "flush", total |-> Total(meta, chunkSize), chain |-> chain,
                 upTo |-> chains[chain].done + Len(chains[chain].links), hasher |-> None,
                 sink |-> None]
<1>2. call' = [call EXCEPT ![f] = r]
      /\ UNCHANGED <<writeError, meta, hashers, hasher, sinks, sink, chains, chain, ui>>
  BY <1>1 DEF Verify, fileVars, hashVars, sinkVars, chainVars, uiVars
<1>3. r.at = "flush"
  OBVIOUS
<1> HIDE DEF r
<1>4. \A g \in Files : call'[g].at = "flush"
  BY <1>2, <1>3, OneFile DEF DataInv, CallsTyped
<1>5. Links' = Links
  BY <1>2 DEF Links
<1>6. \A g \in Files : g = f
  BY OneFile
<1> QED BY <1>2, <1>4, <1>5, <1>6 DEF Unharmed

\* The digest is asked for: the writes are done, and the hasher is there.
LEMMA AskUnharmed ==
  ASSUME DataInv, Unharmed, NumFiles = 1, NEW f \in Files, AskDigest(f)
  PROVE  Unharmed' /\ ui' = ui
<1>1. call[f].at = "flush" /\ meta # None /\ ~writeError
  BY DEF AskDigest, DataInv, Flushing, Contiguous, Unharmed
<1>2. hasher # None /\ hasher \in 1 .. Len(hashers)
  BY <1>1 DEF Unharmed, DataInv, HashersTyped, None
<1> DEFINE r == [call[f] EXCEPT !.at = "digest", !.hasher = hasher]
           answer == IF ~hashers[hasher].inWorker THEN "answered"
                     ELSE IF worker THEN "asked" ELSE "lost"
<1>3. /\ call'[f] = r /\ hashers' = [hashers EXCEPT ![hasher].state = answer]
      /\ UNCHANGED <<writeError, meta, hasher, sinks, sink, chains, chain, ui>>
  BY <1>1, <1>2 DEF AskDigest, fileVars, sinkVars, chainVars, uiVars
<1>4. answer # "rejected"
  OBVIOUS
<1> HIDE DEF answer
<1>5. r.at = "digest" /\ r.hasher = hasher
  BY DEF DataInv, CallsTyped, CallRec
<1> HIDE DEF r
<1>6. hashers'[hasher].state = answer
  <2>1. hashers[hasher] \in HasherRec /\ DOMAIN hashers = 1 .. Len(hashers)
    BY <1>2, ElementOfSeq, LenProperties DEF DataInv, HashersTyped
  <2> QED BY <1>2, <1>3, <2>1 DEF HasherRec
<1>7. Links' = Links
  BY <1>3 DEF Links
<1>8. \A g \in Files : g = f
  BY OneFile
<1> QED BY <1>1, <1>3, <1>4, <1>5, <1>6, <1>7, <1>8 DEF Unharmed

\* What was hashed is the whole file.
LEMMA WholeHashed ==
  ASSUME Progress, DataInv, NEW c \in ChunkSizes, Ordering(c), Sized(c), Unharmed,
         NumFiles = 1, NEW f \in Files, call[f].at = "digest"
  PROVE  sink # None /\ Content(hashers[call[f].hasher]) = Bytes(f) /\ Links = <<>>
<1>1. /\ Links = <<>> /\ meta # None /\ nextIndex >= Total(meta, chunkSize)
      /\ sink # None => hashers[call[f].hasher].data = sinks[sink].data
  BY DEF DataInv, Digesting, Contiguous
<1>2. ~AtOpening /\ Len(sinks) = 1
  BY <1>1 DEF AtOpening, Ordering, QueuedInOrder
<1>3. sink # None /\ ~writeError /\ sink \in 1 .. Len(sinks)
  BY <1>1, <1>2 DEF Unharmed, DataInv, SinksTyped, None
<1>4. Base = nextIndex
  <2>1. Len(Links) = 0 /\ nextIndex \in Nat
    BY <1>1 DEF Progress
  <2> QED BY <2>1 DEF Base
<1>5. sinks[sink].data = Pieces(1, c, nextIndex)
  BY <1>3, <1>4 DEF Ordering, WrittenInOrder, HasAll
<1>6. chunkSize = c /\ meta = 1 /\ f = 1 /\ nextIndex \in Nat /\ 1 \in Files
  BY <1>1, FileFacts, OneFile DEF Sized, Progress
<1>7. FlattenSeq(Pieces(1, c, nextIndex)) = Bytes(1)
  BY <1>1, <1>6, PiecesContent
<1> QED BY <1>1, <1>3, <1>5, <1>6, <1>7 DEF Content

\* A file is handed over.
LEMMA HandedCalm ==
  ASSUME Unharmed, ui = "active", DataInv, NumFiles = 1, NEW f \in Files,
         call' = [call EXCEPT ![f].at = "done"] \/
           call' = [call EXCEPT ![f].at = "closing", ![f].sink = sink],
         ui' = ui \/ ui' = "done", Links = <<>>,
         UNCHANGED <<chainVars>>
  PROVE  Calm'
<1>1. \A g \in Files : call'[g].at \in {"done", "closing"}
  BY OneFile DEF DataInv, CallsTyped, CallRec
<1>2. Links' = <<>> /\ ~writeError'
  BY DEF Links, chainVars, Unharmed
<1> QED BY <1>1, <1>2 DEF Calm, Unharmed

\* The digests are equal.
LEMMA DigestedCalm ==
  ASSUME Progress, DataInv, NEW c \in ChunkSizes, Ordering(c), Sized(c), Unharmed,
         ui = "active", NumFiles = 1, NEW f \in Files, Digested(f)
  PROVE  Calm'
<1>1. call[f].at = "digest" /\ hashers[call[f].hasher].state # "rejected"
  BY DEF Digested, Unharmed
<1>2. sink # None /\ Content(hashers[call[f].hasher]) = Bytes(f) /\ Links = <<>>
  BY <1>1, WholeHashed
<1>3. /\ \/ call' = [call EXCEPT ![f].at = "done"]
         \/ call' = [call EXCEPT ![f].at = "closing", ![f].sink = sink]
      /\ ui' = ui \/ ui' = "done"
      /\ UNCHANGED chainVars
  BY <1>1, <1>2 DEF Digested, HandOver, Report
<1> QED BY <1>2, <1>3, HandedCalm

\* The file is closed.
LEMMA ClosedCalm ==
  ASSUME DataInv, AllWell, Unharmed, ui = "active", NumFiles = 1, NEW f \in Files, Closed(f)
  PROVE  Calm'
<1>1. Links = <<>>
  BY DEF Closed, DataInv, Finishing, Ending
<1>2. /\ call' = [call EXCEPT ![f].at = "done"] /\ UNCHANGED chainVars
      /\ ui' = ui \/ ui' = "done"
  BY DEF Closed, AllWell, HandOver, Report
<1> QED BY <1>1, <1>2, HandedCalm

\* What goes on inside the receiver between messages.
LEMMA ContinueCalm ==
  ASSUME Progress, Terminal, DataInv, Counted, NumFiles = 1, AllWell,
         NEW c, meta # None => c \in ChunkSizes, Ordering(c), Sized(c), Calm,
         Continue \/ Misfortune
  PROVE  Calm'
<1>1. CASE Dispose
  <2>1. ui' # "active" /\ ui' # "error"
    BY <1>1 DEF Dispose, Report, Calm
  <2> QED BY <2>1 DEF Calm
<1>2. CASE ui # "active" /\ ~Dispose
  BY <1>2, ContinueStep, EndedCalm DEF Misfortune
<1>3. CASE ui = "active" /\ ~Dispose
  <2>0. Unharmed /\ ~disposed
    BY <1>3 DEF Calm, Terminal
  <2>1. ASSUME Unharmed', ui' = ui
        PROVE  Calm'
    BY <1>3, <2>1 DEF Calm
  <2>2. ASSUME NEW f \in Files, PollEnough(f)
        PROVE  Calm'
    <3>1. /\ call[f].at = "poll" /\ meta # None /\ call[f].total = Total(meta, chunkSize)
      BY <2>2 DEF PollEnough, DataInv, Begun
    <3>2. received >= Total(meta, chunkSize) /\ Verify(f, Total(meta, chunkSize))
      BY <2>2, <3>1 DEF PollEnough
    <3> QED BY <2>0, <2>1, <3>1, <3>2, VerifyUnharmed
  <2>3. ASSUME NEW f \in Files, AskDigest(f)
        PROVE  Calm'
    BY <2>0, <2>1, <2>3, AskUnharmed
  <2>4. ASSUME NEW f \in Files, Digested(f)
        PROVE  Calm'
    <3>1. meta # None
      BY <2>4 DEF Digested, DataInv, Begun
    <3> QED BY <1>3, <2>0, <2>4, <3>1, DigestedCalm
  <2>5. ASSUME NEW f \in Files, Closed(f)
        PROVE  Calm'
    BY <1>3, <2>0, <2>5, ClosedCalm
  <2>6. ASSUME NEW h \in DOMAIN hashers, WorkerAnswers(h)
        PROVE  Calm'
    <3>1. /\ hashers' = [hashers EXCEPT ![h].state = "answered"]
          /\ UNCHANGED <<writeError, meta, call, hasher, sinks, sink, chains, chain, ui>>
      BY <2>6 DEF WorkerAnswers, fileVars, sinkVars, chainVars, uiVars
    <3>2. ASSUME NEW f \in Files, call[f].at = "digest"
          PROVE  hashers'[call[f].hasher].state # "rejected"
      <4>1. call[f].hasher \in 1 .. Len(hashers)
        BY <3>2 DEF DataInv, Digesting
      <4>2. hashers[call[f].hasher] \in HasherRec /\ call[f].hasher \in DOMAIN hashers
        BY <4>1, ElementOfSeq, LenProperties DEF DataInv, HashersTyped
      <4> QED BY <2>0, <3>1, <3>2, <4>2 DEF HasherRec, Unharmed
    <3>3. Links' = Links
      BY <3>1 DEF Links
    <3>4. Unharmed'
      BY <2>0, <3>1, <3>2, <3>3 DEF Unharmed
    <3> QED BY <2>1, <3>1, <3>4
  <2>7. ASSUME NEW x \in DOMAIN chains,
               SinkOpens(x) \/ WriteStarts(x) \/ StreamCreated(x) \/ WriteSettles(x)
        PROVE  Calm'
    <3>1. ui' = ui
      BY <2>7 DEF SinkOpens, WriteStarts, StreamCreated, WriteSettles, uiVars
    <3> QED BY <2>0, <2>1, <2>7, <3>1, ChainUnharmed
  <2>8. ~WorkerCrashes /\ \A f \in Files : ~PollGivesUp(f)
    BY DEF AllWell, WorkerCrashes, PollGivesUp
  <2> QED BY <1>3, <2>2, <2>3, <2>4, <2>5, <2>6, <2>7, <2>8 DEF Continue, Misfortune
<1> QED BY <1>1, <1>2, <1>3

\* A message that arrives keeps the size.
LEMMA HandleSized ==
  ASSUME NumFiles = 1, Progress, NEW c, Sized(c), NEW m \in Fine(c), Handle(m)
  PROVE  /\ \A i \in DOMAIN early' : i < Total(1, c)
         /\ meta' # None => chunkSize' = c
<1>0. m \in Messages /\ (\A i \in DOMAIN early : i < Total(1, c)) /\ (meta # None => chunkSize = c)
  BY DEF Fine, Sized
<1>1. CASE OnBatchInfo(NumFiles) \/ UNCHANGED receiverVars \/ OnCancel
  BY <1>0, <1>1 DEF OnBatchInfo, OnCancel, receiverVars, fileVars
<1>2. CASE m.type = "FILE_METADATA" /\ OnMetadata(m.file, m.chunkSize)
  <2>1. CASE UNCHANGED receiverVars
    BY <1>1, <2>1
  <2>2. CASE BeginFile(m.file, m.chunkSize)
    <3>1. early' = <<>> /\ chunkSize' = m.chunkSize /\ m.chunkSize = c
      BY <1>2, <2>2 DEF BeginFile, Fine
    <3>2. DOMAIN <<>> = {}
      OBVIOUS
    <3> QED BY <3>1, <3>2
  <2> QED BY <1>2, <2>1, <2>2 DEF OnMetadata
<1>3. CASE m.type = "CHUNK" /\ OnChunk(m.index, m.bytes)
  <2>1. m.index < Total(1, c)
    BY <1>3 DEF Fine
  <2>2. UNCHANGED <<meta, chunkSize>>
    BY <1>3 DEF OnChunk, fileVars
  <2>3. \A i \in DOMAIN early' : i \in DOMAIN early \/ i = m.index
    BY <1>3 DEF OnChunk, fileVars
  <2> QED BY <1>0, <2>1, <2>2, <2>3
<1>4. CASE m.type = "TRANSFER_COMPLETE" /\ OnComplete(m.file)
  <2>1. UNCHANGED fileVars
    BY <1>4 DEF OnComplete, Verify, Fail, receiverVars
  <2> QED BY <1>0, <2>1 DEF fileVars
<1> QED BY <1>1, <1>2, <1>3, <1>4 DEF Handle

\* No message makes the receiver report an error.
LEMMA HandleCalm ==
  ASSUME Progress, Terminal, ~disposed, DataInv, Counted, NumFiles = 1,
         NEW c \in ChunkSizes, Ordering(c), Sized(c), Calm, NEW m \in Fine(c),
         m.type = "TRANSFER_COMPLETE" => m.file \in Files /\ call[m.file].at = "idle",
         Handle(m)
  PROVE  Calm'
<1>0. m \in Messages
  BY DEF Fine
<1>1. CASE ui # "active"
  BY <1>0, <1>1, HandleStep, EndedCalm
<1>2. CASE ui = "active"
  <2>0. Unharmed
    BY <1>2 DEF Calm
  <2>1. ASSUME Unharmed', ui' = ui
        PROVE  Calm'
    BY <1>2, <2>1 DEF Calm
  <2>2. CASE OnBatchInfo(NumFiles) \/ UNCHANGED receiverVars
    <3>1. UNCHANGED <<writeError, meta, call, hashers, hasher, sinks, sink, chains, chain, ui>>
      BY <2>2 DEF OnBatchInfo, receiverVars, fileVars, hashVars, sinkVars, chainVars, uiVars
    <3> QED BY <2>0, <2>1, <3>1, UnharmedKept
  <2>3. CASE m.type = "FILE_METADATA" /\ OnMetadata(m.file, m.chunkSize)
    <3>1. m.file \in Files /\ m.chunkSize = c
      BY <1>0, <2>3, MessageFacts DEF Fine
    <3>2. CASE meta = m.file
      <4>1. UNCHANGED receiverVars
        BY <2>3, <3>2 DEF OnMetadata
      <4> QED BY <2>2, <4>1
    <3>3. CASE meta # m.file
      <4>1. meta = None
        BY <3>1, <3>3, OneFile DEF Progress
      <4>2. BeginFile(m.file, c)
        BY <2>3, <3>1, <3>3 DEF OnMetadata
      <4> QED BY <2>0, <2>1, <3>1, <4>1, <4>2, BeginUnharmed
    <3> QED BY <3>2, <3>3
  <2>4. CASE m.type = "CHUNK" /\ OnChunk(m.index, m.bytes)
    <3>1. m.index \in Nat /\ m.bytes \in Parts /\ m.index < Total(1, c)
      BY <1>0, <2>4, MessageFacts, ChunkFacts DEF Fine
    <3>2. CASE meta = None
      <4>1. UNCHANGED <<writeError, meta, call, hashers, hasher, sinks, sink, chains, chain, ui>>
        BY <2>4, <3>2 DEF OnChunk, hashVars, sinkVars, chainVars, uiVars
      <4> QED BY <2>0, <2>1, <4>1, UnharmedKept
    <3>3. CASE meta # None
      <4>1. m.index < Total(meta, chunkSize)
        BY <3>1, <3>3, FileFacts DEF Progress, Sized
      <4> QED BY <2>0, <2>1, <2>4, <3>1, <3>3, <4>1, AcceptedUnharmed
    <3> QED BY <3>2, <3>3
  <2>5. CASE m.type = "TRANSFER_COMPLETE" /\ OnComplete(m.file)
    <3>1. CASE UNCHANGED receiverVars
      BY <2>2, <3>1
    <3>2. CASE ~UNCHANGED receiverVars
      <4> DEFINE f == m.file
                 total == Total(f, chunkSize)
      <4>0. f \in Files /\ call[f].at = "idle" /\ meta = f /\ meta # None
        BY <2>5, <3>2, FileFacts DEF OnComplete
      <4>1. CASE received < total
        <5>1. /\ call' = [call EXCEPT ![f].at = "poll", ![f].total = total]
              /\ UNCHANGED <<writeError, meta, hashers, hasher, sinks, sink, chains, chain, ui>>
          BY <2>5, <3>2, <4>1 DEF OnComplete, fileVars, hashVars, sinkVars, chainVars, uiVars
        <5>2. \A g \in Files : g = f
          BY <4>0, OneFile
        <5>3. call'[f].at = "poll"
          BY <4>0, <5>1 DEF DataInv, CallsTyped, CallRec
        <5>4. Links' = Links
          BY <5>1 DEF Links
        <5>5. Unharmed'
          BY <2>0, <4>0, <5>1, <5>2, <5>3, <5>4 DEF Unharmed
        <5> QED BY <2>1, <5>1, <5>5
      <4>2. CASE ~(received < total)
        <5>1. Verify(f, Total(meta, chunkSize))
          BY <2>5, <3>2, <4>0, <4>2 DEF OnComplete
        <5>2. received >= Total(meta, chunkSize)
          <6>1. Total(meta, chunkSize) \in Nat /\ nextIndex \in Nat
                /\ received = nextIndex + Cardinality(DOMAIN reorder)
                /\ Cardinality(DOMAIN reorder) \in Nat
            BY <4>0, FileFacts, FS_CardinalityType DEF Progress
          <6> QED BY <4>0, <4>2, <6>1
        <5> QED BY <2>0, <2>1, <4>0, <5>1, <5>2, VerifyUnharmed
      <4> QED BY <4>1, <4>2
    <3> QED BY <3>1, <3>2
  <2>6. m.type # "CANCEL"
    BY DEF Fine
  <2> QED BY <2>2, <2>3, <2>4, <2>5, <2>6 DEF Handle
<1> QED BY <1>1, <1>2

\* The invariant of a transfer on which nothing fails.
Steady == Calm /\ \E c \in ChunkSizes \cup {0} : c = chunk /\ Sized(c)

\* The receiver is left alone.
LEMMA SameCalm ==
  ASSUME Calm, UNCHANGED receiverVars
  PROVE  Calm' /\ UNCHANGED <<meta, early, chunkSize>>
<1>1. UNCHANGED <<writeError, meta, call, hashers, hasher, sinks, sink, chains, chain, ui,
                  early, chunkSize>>
  BY DEF receiverVars, fileVars, hashVars, sinkVars, chainVars, uiVars
<1>2. Unharmed => Unharmed'
  BY <1>1, UnharmedKept
<1> QED BY <1>1, <1>2 DEF Calm

\* More messages about chunks of size c.
LEMMA SizedGrows ==
  ASSUME Wire, NEW c, Sized(c), NEW ch \in ChannelIds, NEW msgs \in Seq(Fine(c)),
         net' = [net EXCEPT ![ch] = @ \o msgs], UNCHANGED <<meta, early, chunkSize>>,
         \A i \in todo' : i < Total(1, c)
  PROVE  Sized(c)'
<1>1. net[ch] \o msgs \in Seq(Fine(c))
  BY ConcatProperties DEF Sized
<1>2. \A x \in ChannelIds : net'[x] \in Seq(Fine(c))
  BY <1>1 DEF Wire, Sized
<1>3. \A i \in todo' \cup DOMAIN early' : i < Total(1, c)
  BY DEF Sized
<1> QED BY <1>2, <1>3 DEF Sized

\* What sendFiles() sends when it comes to a file.
LEMMA OpeningFine ==
  ASSUME NEW f \in Nat \ {0}, NEW c \in ChunkSizes,
         NEW m \in {BatchInfo} \cup {Complete(g) : g \in Files}
  PROVE  <<m>> \o Opening(f, c) \in Seq(Fine(c))
<1>1. m \in Fine(c)
  <2>1. m \in Messages
    BY MessageFacts
  <2>2. m.type \in {"BATCH_INFO", "TRANSFER_COMPLETE"}
    BY DEF BatchInfo, Complete
  <2> QED BY <2>1, <2>2 DEF Fine
<1>2. Opening(f, c) \in Seq(Fine(c))
  <2>1. CASE f > NumFiles
    BY <2>1 DEF Opening
  <2>2. CASE ~(f > NumFiles)
    <3>1. f \in Files
      BY <2>2, FileFacts
    <3>2. Metadata(f, c) \in Messages /\ Query(f) \in Messages
      BY <3>1, MessageFacts
    <3>3. /\ Metadata(f, c).type = "FILE_METADATA" /\ Query(f).type = "RESUME_QUERY"
          /\ Metadata(f, c).chunkSize = c
      BY DEF Metadata, Query
    <3>4. Metadata(f, c) \in Fine(c) /\ Query(f) \in Fine(c)
      BY <3>2, <3>3 DEF Fine
    <3> QED BY <2>2, <3>4 DEF Opening
  <2> QED BY <2>1, <2>2
<1> QED BY <1>1, <1>2, ConcatProperties

\* The sender.
LEMMA SenderSteady ==
  ASSUME IInv, NumFiles = 1, OneSize, AllWell, Begins, Steady,
         Sending \/ StatusTimeout \/ SenderStops
  PROVE  Steady'
<1>0. /\ Wire /\ file \in Nat /\ fullySent \in Nat /\ todo \subseteq Nat
      /\ phase \in {"asking", "sending"} => file \in Files /\ chunk \in ChunkSizes
  BY DEF IInv, Sender
<1>1. Calm' /\ UNCHANGED <<meta, early, chunkSize>>
  BY SenderStep, SameCalm DEF Steady
<1>2. PICK c \in ChunkSizes \cup {0} : c = chunk /\ Sized(c)
  BY DEF Steady
<1>3. Control \in ChannelIds /\ MaxDrops \in Nat
  BY TransferAssumption DEF Control, ChannelIds
<1>4. \A f \in Files : f = 1
  BY FileFacts
<1>5. \A i \in todo : i < Total(1, c)
  BY <1>2 DEF Sized
<1>6. CASE SenderBegins
  <2> DEFINE msgs == <<BatchInfo>> \o Opening(file', chunk')
  <2>1. /\ file' = fullySent + 1 /\ chunk' \in ChunkSizes /\ todo' = {}
        /\ net' = [net EXCEPT ![Control] = @ \o msgs] /\ phase = "connecting"
    BY <1>6 DEF SenderBegins, OnControl
  <2>2. PICK d \in ChunkSizes : d = chunk'
    BY <2>1
  <2>3. file' \in Nat \ {0} /\ BatchInfo \in {BatchInfo} \cup {Complete(g) : g \in Files}
    BY <1>0, <2>1
  <2>4. msgs \in Seq(Fine(d))
    BY <2>2, <2>3, OpeningFine
  <2> HIDE DEF msgs
  <2>5. /\ \A ch \in ChannelIds : net[ch] \in Seq(Fine(d))
        /\ \A i \in DOMAIN early : i < Total(1, d)
        /\ meta # None => chunkSize = d
    <3>1. CASE chunk = 0
      <4>1. meta = None /\ early = <<>> /\ \A ch \in ChannelIds : net[ch] = <<>>
        BY <3>1 DEF Begins
      <4>2. DOMAIN <<>> = {}
        OBVIOUS
      <4> QED BY <4>1, <4>2, EmptySeq
    <3>2. CASE chunk # 0
      <4>1. MaxDrops # 0
        BY <2>1, <3>2 DEF Begins
      <4>2. d = c
        BY <1>2, <3>2, <4>1 DEF OneSize
      <4> QED BY <1>2, <4>2 DEF Sized
    <3> QED BY <3>1, <3>2
  <2>6. net[Control] \o msgs \in Seq(Fine(d))
    BY <1>3, <2>4, <2>5, ConcatProperties
  <2>7. Sized(d)'
    BY <1>0, <1>1, <2>1, <2>5, <2>6 DEF Sized, Wire
  <2> QED BY <1>1, <2>2, <2>7 DEF Steady
<1>7. CASE GotStatus \/ StatusTimeout
  <2>1. /\ UNCHANGED <<net, chunk>>
        /\ todo' = todo \/ (phase = "asking" /\ todo' \subseteq Chunks(file, chunk))
    BY <1>7 DEF GotStatus, StatusTimeout, linkVars
  <2>2. \A i \in todo' : i < Total(1, c)
    <3>1. CASE phase = "asking" /\ todo' \subseteq Chunks(file, chunk)
      <4>1. todo' \subseteq Chunks(1, c) /\ Total(1, c) \in Nat
        BY <1>0, <1>2, <1>4, <3>1, FileFacts
      <4> QED BY <4>1 DEF Chunks
    <3> QED BY <1>5, <2>1, <3>1
  <2>3. Sized(c)'
    BY <1>1, <1>2, <2>1, <2>2 DEF Sized
  <2> QED BY <1>1, <1>2, <2>1, <2>3 DEF Steady
<1>8. CASE FinishFile
  <2> DEFINE msgs == <<Complete(file)>> \o Opening(file', chunk)
  <2>1. /\ phase = "sending" /\ file' = file + 1 /\ chunk' = chunk /\ todo' = todo
        /\ net' = [net EXCEPT ![Control] = @ \o msgs]
    BY <1>8 DEF FinishFile, OnControl
  <2>2. file' \in Nat \ {0} /\ Complete(file) \in {BatchInfo} \cup {Complete(g) : g \in Files}
    BY <1>0, <2>1
  <2>3. chunk \in ChunkSizes /\ c \in ChunkSizes
    BY <1>0, <1>2, <2>1
  <2>4. msgs \in Seq(Fine(c))
    BY <1>2, <2>2, <2>3, OpeningFine
  <2> HIDE DEF msgs
  <2>5. Sized(c)'
    BY <1>0, <1>1, <1>2, <1>3, <1>5, <2>1, <2>4, SizedGrows
  <2> QED BY <1>1, <1>2, <2>1, <2>5 DEF Steady
<1>9. ASSUME NEW ch \in ChannelIds, SendChunk(ch)
      PROVE  Steady'
  <2>1. PICK i \in todo : /\ net' = [net EXCEPT ![ch] = Append(@, Chunk(file, chunk, i))]
                          /\ todo' = todo \ {i}
    BY <1>9 DEF SendChunk
  <2>2. phase = "sending" /\ chunk' = chunk
    BY <1>9 DEF SendChunk
  <2> DEFINE x == Chunk(1, c, i)
             msgs == <<x>>
  <2>3. x \in Fine(c) /\ x = Chunk(file, chunk, i)
    <3>1. file = 1 /\ file \in Files /\ c \in ChunkSizes /\ i \in Nat /\ i < Total(1, c)
      BY <1>0, <1>2, <1>4, <1>5, <2>2
    <3>2. Chunk(1, c, i) \in Messages
      BY <3>1, MessageFacts
    <3>3. Chunk(1, c, i).type = "CHUNK" /\ Chunk(1, c, i).index = i
      BY DEF Chunk
    <3> QED BY <1>2, <3>1, <3>2, <3>3 DEF Fine
  <2> HIDE DEF x
  <2>4. msgs \in Seq(Fine(c))
    BY <2>3
  <2>5. net' = [net EXCEPT ![ch] = @ \o msgs]
    <3>1. x \in Messages
      BY <2>3 DEF Fine
    <3>2. Append(net[ch], x) = net[ch] \o msgs
      BY <1>0, <3>1, AppendIsConcat DEF Wire
    <3> QED BY <2>1, <2>3, <3>2
  <2> HIDE DEF msgs
  <2>6. Sized(c)'
    BY <1>0, <1>1, <1>2, <1>5, <2>1, <2>4, <2>5, SizedGrows
  <2> QED BY <1>1, <1>2, <2>2, <2>6 DEF Steady
<1>10. ~SenderStops
  BY DEF AllWell, SenderStops
<1> QED BY <1>6, <1>7, <1>8, <1>9, <1>10 DEF Sending

\* A message arrives.
LEMMA DeliverSteady ==
  ASSUME IInv, DataInv, Counted, AnnouncedOnce, InOrder, NumFiles = 1, Steady,
         NEW ch \in ChannelIds, Deliver(ch)
  PROVE  Steady'
<1>1. PICK k \in DOMAIN net[ch] :
        /\ net' = [net EXCEPT ![ch] = RemoveAt(@, k)]
        /\ IF disposed THEN UNCHANGED receiverVars ELSE Handle(net[ch][k])
  BY DEF Deliver
<1>2. UNCHANGED <<chunk, todo>>
  BY DEF Deliver, senderVars
<1>3. PICK c \in ChunkSizes \cup {0} : c = chunk /\ WireInOrder(c) /\ Ordering(c)
  BY DEF InOrder
<1>4. Calm /\ Sized(c)
  BY <1>3 DEF Steady
<1>5. c \in ChunkSizes
  <2>1. net[ch] # <<>>
    BY <1>1
  <2> QED BY <1>3, <2>1 DEF InOrder, Begins
<1>6. /\ RemoveAt(net[ch], k) \in Seq(Fine(c)) /\ net[ch][k] \in Fine(c)
      /\ net[ch][k] \in Cut(c)
  BY <1>1, <1>3, <1>4, RemoveKeeps DEF Sized, WireInOrder
<1>7. PICK m \in Fine(c) : m = net[ch][k]
  BY <1>6
<1>8. /\ m \in Messages /\ m \in Cut(c)
      /\ m.type = "TRANSFER_COMPLETE" => m.file \in Files
  BY <1>6, <1>7 DEF Cut, Messages, BatchInfo, CancelMsg, Metadata, Query, Complete, Chunk
<1>9. m.type = "TRANSFER_COMPLETE" => call[m.file].at = "idle"
  BY <1>1, <1>7, <1>8 DEF AnnouncedOnce, Announces
<1>10. /\ Calm'
       /\ \A i \in DOMAIN early' : i < Total(1, c)
       /\ meta' # None => chunkSize' = c
  <2>1. CASE disposed
    BY <1>1, <1>4, <2>1, SameCalm DEF Sized
  <2>2. CASE ~disposed
    <3>1. Handle(m)
      BY <1>1, <1>7, <2>2
    <3> QED BY <1>3, <1>4, <1>5, <1>8, <1>9, <2>2, <3>1, HandleCalm, HandleSized DEF IInv
  <2> QED BY <2>1, <2>2
<1>11. Sized(c)'
  BY <1>1, <1>2, <1>4, <1>6, <1>10 DEF Sized, IInv, Wire
<1> QED BY <1>2, <1>3, <1>10, <1>11 DEF Steady

\* The steps between messages.
LEMMA GoOnSteady ==
  ASSUME IInv, DataInv, Counted, InOrder, NumFiles = 1, AllWell, Steady,
         Continue \/ Misfortune, UNCHANGED <<senderVars, linkVars>>
  PROVE  Steady'
<1>1. PICK c \in ChunkSizes \cup {0} : c = chunk /\ WireInOrder(c) /\ Ordering(c)
  BY DEF InOrder
<1>2. Calm /\ Sized(c) /\ UNCHANGED <<chunk, todo, net>>
  BY <1>1 DEF Steady, senderVars, linkVars
<1>3. meta # None => c \in ChunkSizes
  BY <1>1 DEF InOrder, Begins
<1>4. Calm'
  BY <1>1, <1>2, <1>3, ContinueCalm DEF IInv
<1>5. Sized(c)'
  <2>1. CASE Dispose
    <3>1. early' = <<>> /\ UNCHANGED <<meta, chunkSize>>
      BY <2>1 DEF Dispose
    <3>2. DOMAIN <<>> = {}
      OBVIOUS
    <3> QED BY <1>2, <3>1, <3>2 DEF Sized
  <2>2. CASE ~Dispose
    BY <1>2, <2>2, ContinueStep DEF Misfortune, fileVars, Sized
  <2> QED BY <2>1, <2>2
<1> QED BY <1>1, <1>2, <1>4, <1>5 DEF Steady

\* Every step.
LEMMA NextSteady ==
  ASSUME IInv, DataInv, Counted, AnnouncedOnce, InOrder, NumFiles = 1, OneSize, AllWell,
         Steady, [Next]_vars
  PROVE  Steady'
<1>1. CASE UNCHANGED vars
  <2>1. UNCHANGED <<receiverVars, chunk, todo, net>>
    BY <1>1 DEF vars, senderVars, linkVars
  <2>2. Calm' /\ UNCHANGED <<meta, early, chunkSize>>
    BY <2>1, SameCalm DEF Steady
  <2> QED BY <2>1, <2>2 DEF Steady, Sized
<1>2. CASE Sending \/ StatusTimeout \/ SenderStops
  BY <1>2, SenderSteady DEF InOrder
<1>3. ASSUME NEW ch \in ChannelIds, Deliver(ch)
      PROVE  Steady'
  BY <1>3, DeliverSteady
<1>4. CASE (Continue \/ Misfortune) /\ UNCHANGED <<senderVars, linkVars>>
  BY <1>4, GoOnSteady
<1>5. CASE Drop
  <2>1. UNCHANGED <<receiverVars, chunk, todo>> /\ net' = [ch \in ChannelIds |-> <<>>]
    BY <1>5 DEF Drop
  <2>2. Calm' /\ UNCHANGED <<meta, early, chunkSize>>
    BY <2>1, SameCalm DEF Steady
  <2>3. PICK c \in ChunkSizes \cup {0} : c = chunk /\ Sized(c)
    BY DEF Steady
  <2>4. Sized(c)'
    BY <2>1, <2>2, <2>3, EmptySeq DEF Sized
  <2> QED BY <2>1, <2>2, <2>3, <2>4 DEF Steady
<1> QED BY <1>1, <1>2, <1>3, <1>4, <1>5 DEF Next

\* Nothing is on its way, and nothing has come.
LEMMA InitSteady ==
  ASSUME Init
  PROVE  Steady
<1>1. /\ meta = None /\ early = <<>> /\ chunk = 0 /\ todo = {} /\ writeError = FALSE
      /\ chain = None /\ net = [ch \in ChannelIds |-> <<>>] /\ ui = "active"
      /\ \A f \in Files : call[f].at = "idle"
  BY DEF Init, ReceiverInit
<1>2. DOMAIN <<>> = {} /\ Links = <<>>
  BY <1>1 DEF Links
<1>3. Sized(0)
  BY <1>1, <1>2, EmptySeq DEF Sized
<1>4. Calm
  BY <1>1, <1>2 DEF Calm, Unharmed
<1> QED BY <1>1, <1>3, <1>4 DEF Steady

\* A batch of one file, cut to one size, that nothing befalls but a folder that
\* refuses it, a cancel and lost connections, is never reported as failed.
THEOREM ReceiverCalm == NumFiles = 1 /\ OneSize /\ AllWell /\ Spec => []NoFalseAlarm
<1>1. IInv /\ DataInv /\ Counted /\ BatchInv /\ InOrder /\ NumFiles = 1 /\ OneSize /\ AllWell
        /\ Steady /\ [Next]_vars => Steady'
  BY NextSteady DEF BatchInv
<1>2. IInv /\ DataInv /\ NumFiles = 1 /\ OneSize /\ InOrder /\ [Next]_vars => InOrder'
  BY NextOrder
<1>3. Init => InOrder /\ Steady
  BY InitOrder, InitSteady
<1>4. Steady => NoFalseAlarm
  BY DEF Steady, Calm, NoFalseAlarm
<1>5. NumFiles = 1 => Serial /\ InTurn
  BY DEF Serial, InTurn
<1>6. /\ (NumFiles = 1)' <=> NumFiles = 1
      /\ OneSize' <=> OneSize
      /\ AllWell' <=> AllWell
  BY DEF NumFiles, OneSize, AllWell
<1> QED BY <1>1, <1>2, <1>3, <1>4, <1>5, <1>6, ReceiverInvariance, ReceiverData,
           ReceiverCounts, ReceiverBatch, PTL DEF Spec
=============================================================================
