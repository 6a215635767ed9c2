---------------------------- MODULE LiveTransfer ----------------------------
(***************************************************************************)
(* A batch of files on its way from sendFiles() to a FileReceiver: the     *)
(* sender's protocol per file, the data channels between them, and the     *)
(* receiver of FileReceiver.  The pipeline that sendFiles() runs per file  *)
(* is SendPipeline; here it is the set of chunks still to be sent.         *)
(*                                                                         *)
(* A connection may be lost with everything on it; the panels then set up  *)
(* another one and call sendFiles() again for the files not fully sent,    *)
(* with the same FileReceiver at the other end.                            *)
(***************************************************************************)
EXTENDS FileReceiver

CONSTANTS
  NumChannels,   \* open data channels; channel 1 also carries the control messages
  Ordered,       \* createDataChannel's `ordered`
  MaxDrops       \* how often the connection is lost

ChannelIds == 1 .. NumChannels
Control == 1
NumFiles == Len(Size)

ASSUME TransferAssumption ==
  /\ NumChannels \in Nat \ {0}
  /\ Ordered \in BOOLEAN
  /\ MaxDrops \in Nat
  /\ Faults \subseteq ReceiverFaults \cup {"senderStops", "giveUp"}

VARIABLES
  net,           \* per channel, the messages on their way to the receiver
  replies,       \* RESUME_STATUS messages on their way back
  phase,         \* where sendFiles is: see the actions
  file,          \* the file it is at
  chunk,         \* CHUNK_SIZE of this connection
  held,          \* what the receiver reported to hold of it
  todo,          \* chunks of it the pipeline has not sent
  fullySent,     \* files dropped from the checkpoint by onFileFullySent
  drops,
  missed         \* part of a file that counts as sent never reached the receiver,
                 \* or its announcement came before its metadata

senderVars == <<phase, file, chunk, held, todo, fullySent>>
linkVars == <<net, replies, drops, missed>>
vars == <<receiverVars, senderVars, linkVars>>

-----------------------------------------------------------------------------
(* Messages *)

BatchInfo == [type |-> "BATCH_INFO"]
Metadata(f, c) == [type |-> "FILE_METADATA", file |-> f, chunkSize |-> c]
Query(f) == [type |-> "RESUME_QUERY", file |-> f]
Part(f, c, i) == SubSeq(Bytes(f), i * c + 1, IF (i + 1) * c < Size[f]
                                             THEN (i + 1) * c ELSE Size[f])
Chunk(f, c, i) == [type |-> "CHUNK", index |-> i, bytes |-> Part(f, c, i)]
Complete(f) == [type |-> "TRANSFER_COMPLETE", file |-> f]
CancelMsg == [type |-> "CANCEL"]
Status(f, has) == [file |-> f, held |-> has]

OnControl(msgs) == [net EXCEPT ![Control] = @ \o msgs]

\* FILE_METADATA and RESUME_QUERY of file f, or nothing after the last file.
Opening(f, c) == IF f > NumFiles THEN <<>> ELSE <<Metadata(f, c), Query(f)>>
NextPhase(f) == IF f > NumFiles THEN "done" ELSE "asking"

-----------------------------------------------------------------------------
(* The sender *)

\* sendFiles() on a fresh connection, for the files the checkpoint has left.
SenderBegins ==
  /\ Quiet
  /\ phase = "connecting"
  /\ file' = fullySent + 1
  /\ chunk' \in ChunkSizes
  /\ phase' = NextPhase(file')
  /\ net' = OnControl(<<BatchInfo>> \o Opening(file', chunk'))
  /\ held' = {} /\ todo' = {}
  /\ UNCHANGED <<fullySent, replies, drops, missed, receiverVars>>

\* queryAlreadyReceived() resolves with the receiver's answer ...
GotStatus ==
  /\ Quiet
  /\ \E r \in replies :
       /\ replies' = replies \ {r}
       /\ \/ /\ phase = "asking" /\ r.file = file
             /\ phase' = "sending"
             /\ held' = r.held
             /\ todo' = Chunks(file, chunk) \ r.held
          \/ /\ phase # "asking" \/ r.file # file
             /\ UNCHANGED <<phase, held, todo>>
  /\ UNCHANGED <<file, chunk, fullySent, net, drops, missed, receiverVars>>

\* ... or after 2.5 s without it.
StatusTimeout ==
  /\ Quiet
  /\ "slow" \in Faults
  /\ phase = "asking"
  /\ phase' = "sending"
  /\ held' = {}
  /\ todo' = Chunks(file, chunk)
  /\ UNCHANGED <<file, chunk, fullySent, linkVars, receiverVars>>

\* A consumer sends: frames leave the queue in order, one per channel.
SendChunk(ch) ==
  /\ Quiet
  /\ phase = "sending"
  /\ \E i \in todo :
       /\ Cardinality({j \in todo : j < i}) < NumChannels
       /\ todo' = todo \ {i}
       /\ net' = [net EXCEPT ![ch] = Append(@, Chunk(file, chunk, i))]
  /\ UNCHANGED <<phase, file, chunk, held, fullySent, replies, drops, missed,
                 receiverVars>>

\* Everything is sent: TRANSFER_COMPLETE, onFileFullySent, and at once the
\* next file.
FinishFile ==
  /\ Quiet
  /\ phase = "sending" /\ todo = {}
  /\ fullySent' = file
  /\ file' = file + 1
  /\ phase' = NextPhase(file')
  /\ net' = OnControl(<<Complete(file)>> \o Opening(file', chunk))
  /\ held' = {}
  /\ UNCHANGED <<chunk, todo, replies, drops, missed, receiverVars>>

\* sendFiles fails or is cancelled, and says so.
SenderStops ==
  /\ Quiet
  /\ "senderStops" \in Faults
  /\ phase \in {"asking", "sending"}
  /\ phase' = "stopped"
  /\ net' = OnControl(<<CancelMsg>>)
  /\ UNCHANGED <<file, chunk, held, todo, fullySent, replies, drops, missed,
                 receiverVars>>

-----------------------------------------------------------------------------
(* The channels *)

\* What handleMessage does with m.
Handle(m) ==
  \/ m.type = "BATCH_INFO" /\ OnBatchInfo(NumFiles)
  \/ m.type = "FILE_METADATA" /\ OnMetadata(m.file, m.chunkSize)
  \/ m.type = "RESUME_QUERY" /\ UNCHANGED receiverVars
  \/ m.type = "CHUNK" /\ OnChunk(m.index, m.bytes)
  \/ m.type = "TRANSFER_COMPLETE" /\ OnComplete(m.file)
  \/ m.type = "CANCEL" /\ OnCancel

\* The announcement of a file the receiver is not at, which it will ignore.
Unexpected(m) == m.type = "TRANSFER_COMPLETE" /\ meta # m.file

\* A message arrives: the oldest of its channel, or any when unordered.
Deliver(ch) ==
  /\ Quiet
  /\ \E k \in DOMAIN net[ch] :
       /\ Ordered => k = 1
       /\ net' = [net EXCEPT ![ch] = RemoveAt(@, k)]
       /\ IF disposed THEN UNCHANGED receiverVars ELSE Handle(net[ch][k])
       /\ replies' = IF net[ch][k].type = "RESUME_QUERY" /\ ~disposed
                     THEN replies \cup {Status(net[ch][k].file, Holding(net[ch][k].file))}
                     ELSE replies
       /\ missed' = (missed \/ Unexpected(net[ch][k]))
  /\ UNCHANGED <<senderVars, drops>>

\* Part of a file the sender no longer accounts for.
Remains(f) ==
  {Complete(f)} \cup UNION {{Chunk(f, c, i) : i \in Chunks(f, c)} : c \in ChunkSizes}
OnWire == UNION {ToSet(net[ch]) : ch \in ChannelIds}

\* The connection is lost.  The sender's panel reconnects only while its
\* checkpoint has files left, and may give up; the receiver's panel is done
\* with reconnecting once terminalRef is set.
Drop ==
  /\ Quiet
  /\ drops < MaxDrops
  /\ ui = "active"
  /\ drops' = drops + 1
  /\ missed' = (missed \/ (\E f \in 1 .. fullySent : OnWire \cap Remains(f) # {}))
  /\ net' = [ch \in ChannelIds |-> <<>>]
  /\ replies' = {}
  /\ \/ phase \in {"asking", "sending"} /\ phase' = "connecting"
     \/ phase \in {"asking", "sending"} /\ "giveUp" \in Faults /\ phase' = "stopped"
     \/ phase \in {"stopped", "done"} /\ UNCHANGED phase
  /\ UNCHANGED <<file, chunk, held, todo, fullySent, receiverVars>>

-----------------------------------------------------------------------------

Init ==
  /\ ReceiverInit
  /\ net = [ch \in ChannelIds |-> <<>>]
  /\ replies = {}
  /\ phase = "connecting"
  /\ file = 0 /\ chunk = 0 /\ held = {} /\ todo = {}
  /\ fullySent = 0
  /\ drops = 0 /\ missed = FALSE

Sending ==
  \/ SenderBegins \/ GotStatus \/ FinishFile
  \/ \E ch \in ChannelIds : SendChunk(ch)

Next ==
  \/ Sending
  \/ StatusTimeout
  \/ SenderStops
  \/ \E ch \in ChannelIds : Deliver(ch)
  \/ (Continue \/ Misfortune) /\ UNCHANGED <<senderVars, linkVars>>
  \/ Drop

Spec == Init /\ [][Next]_vars

\* The engines on both sides run what is due, disks and workers answer, and
\* what a live channel carries arrives.
Fairness ==
  /\ WF_vars(Sending)
  /\ \A ch \in ChannelIds : WF_vars(Deliver(ch))
  /\ WF_vars(Continue /\ UNCHANGED <<senderVars, linkVars>>)

FairSpec == Spec /\ Fairness

-----------------------------------------------------------------------------
(* Properties *)

\* A file handed to the user, or closed on disk, has exactly the bytes of the
\* sender's file, in order, however frames, files, faults and reconnects were
\* interleaved.
Intact ==
  /\ \A k \in DOMAIN saved : saved[k][2] = Bytes(saved[k][1])
  /\ \A s \in DOMAIN sinks :
       sinks[s].stream = "saved" => Content(sinks[s]) = Bytes(sinks[s].file)

\* chunksReceived counts what is in the prefix and in the reorder buffer, and
\* enough chunks means a contiguous file: the completion poll, which looks at
\* the count only, finds nothing missing.
Counted ==
  meta # None /\ ~disposed =>
    /\ received = nextIndex + Cardinality(DOMAIN reorder)
    /\ received >= Total(meta, chunkSize) => nextIndex = Total(meta, chunkSize)

\* The receiver implements FileReceive: however messages, files, faults and
\* reconnects are interleaved, what is reported to the panel is each file of
\* the batch once and whole, "done" with the last of them, and nothing after.
Receive == INSTANCE FileReceive
             WITH Whole <- [f \in Files |-> Bytes(f)], given <- saved, outcome <- ui
ImplementsFileReceive == Receive!Spec

\* A transfer on which nothing fails is not reported as failed.
NoFalseAlarm == ui # "error"

\* The chunks of the current file in its sink or queued to be written to it.
HandedOn ==
  (IF sink = None THEN {} ELSE ToSet(sinks[sink].data))
    \cup {chains[chain].links[k].bytes : k \in DOMAIN chains[chain].links}

\* No bytes of the file being sent fall between two stools: a chunk that is not
\* still to be sent is on the wire, or just its bytes are with the receiver,
\* under their index or handed on to the sink, so that what RESUME_STATUS made
\* the sender skip is really there (unless a write failed, which ends in an
\* error).
EveryChunkSomewhere ==
  phase = "sending" /\ ui = "active" /\ ~writeError =>
    \A i \in Chunks(file, chunk) \ todo :
      \/ Chunk(file, chunk, i) \in OnWire
      \/ i \in DOMAIN early /\ early[i] = Part(file, chunk, i)
      \/ /\ meta = file
         /\ \/ i \in DOMAIN reorder /\ reorder[i] = Part(file, chunk, i)
            \/ Part(file, chunk, i) \in HandedOn

\* A sink holds a prefix of its own file, chunk by chunk in order.
SinksInOrder ==
  \A s \in DOMAIN sinks : IsPrefix(Content(sinks[s]), Bytes(sinks[s].file))

\* After a cancel the panel hands over no file, whatever was under way.
NothingAfterCancel == [][disposed => saved' = saved]_vars

\* The user gets everything unless something of a file that counts as sent
\* was on a connection that was lost, or its announcement overtook its
\* metadata.
ArrivesUnlessMissed == <>(ui = "done" \/ missed)
=============================================================================
