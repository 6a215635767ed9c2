---------------------------- MODULE FileReceiver ----------------------------
(***************************************************************************)
(* FileReceiver (lib/webrtc/transfer.ts) with what it drives: its streaming*)
(* hasher (hash.ts), its sinks and their write chain (sink.ts), and the    *)
(* panel callbacks that report to the user (app/page.tsx).                 *)
(*                                                                         *)
(* A message handler runs to completion; what it leaves behind are writes, *)
(* digests and finishCurrentFile() calls that go on later, sharing the     *)
(* receiver's fields with whatever file is current by then.  As in         *)
(* SendPipeline, an event waits until the event loop is Quiet.             *)
(*                                                                         *)
(* A file is a sequence of units <<file, number>>, and chunkSize is a      *)
(* number of them.  A chunk is a part of that sequence; a frame on the wire*)
(* names its index only, and no guard of the receiver looks at the units.  *)
(***************************************************************************)
EXTENDS Integers, Sequences, FiniteSets, SequencesExt, Functions

CONSTANTS
  Size,          \* Size[f]: the size of file f; the batch is DOMAIN Size
  ChunkSizes,    \* chunk sizes resolveChunkSize() may choose for a connection
  HashInWorker,  \* a hash worker can be started
  ToFolder,      \* directorySinkFactory rather than memorySinkFactory
  Faults         \* what may go wrong

ReceiverFaults == {"openFail", "writeFail", "workerCrash", "slow", "dispose"}

ASSUME SizeAssumption ==
  /\ Size \in Seq(Nat)
  /\ ChunkSizes \subseteq Nat \ {0} /\ ChunkSizes # {}
  /\ HashInWorker \in BOOLEAN
  /\ ToFolder \in BOOLEAN

Files == DOMAIN Size
None == 0                        \* null: no file, no hasher, no sink

\* totalChunks, in chunks of c
Total(f, c) == (Size[f] + c - 1) \div c
Chunks(f, c) == 0 .. Total(f, c) - 1

\* The whole of a file, in order: what both digests are taken of.
Bytes(f) == [k \in 1 .. Size[f] |-> <<f, k - 1>>]

VARIABLES
  meta,          \* currentMeta: a file, or None,
  chunkSize,     \* and its chunkSize
  nextIndex,     \* every chunk below it was hashed and queued for writing
  received,      \* chunksReceived
  reorder,       \* reorderBuffer: index -> bytes
  early,         \* pendingChunks: index -> bytes
  finished,
  fileIndex,
  totalFiles,
  hashers,       \* every streaming hasher created, and the current one
  hasher,
  worker,        \* the hash worker is alive
  sinks,         \* every sink created, and the current one
  sink,
  chains,        \* every write chain created, and the current one
  chain,
  writeError,
  call,          \* per file, where its finishCurrentFile() is
  ui,            \* what the panel shows: "active" until terminalRef is set
  saved,         \* files handed over: <<file, bytes>>
  disposed

fileVars == <<meta, chunkSize, nextIndex, received, reorder, early>>
batchVars == <<fileIndex, totalFiles>>
hashVars == <<hashers, hasher, worker>>
sinkVars == <<sinks, sink>>
chainVars == <<chains, chain, writeError>>
uiVars == <<ui, saved, disposed>>
receiverVars == <<fileVars, batchVars, finished, hashVars, sinkVars, chainVars,
                  call, uiVars>>

-----------------------------------------------------------------------------
(* Hashers: data is the chunks update() was fed. *)

Fresh(inWorker) == [data |-> <<>>, inWorker |-> inWorker, state |-> "open"]

\* hasher.abort(): the reply to a digest already asked for will be ignored.
\* Without a worker abort() does nothing.
Aborted(hs, h) ==
  IF h # None /\ hs[h].inWorker THEN [hs EXCEPT ![h].state = "aborted"] ELSE hs

-----------------------------------------------------------------------------
(* Sinks: a MemorySink never has a stream; a DiskSink opens one lazily.  data
   is the chunks written. *)

NewSink(f, disk) == [file |-> f, disk |-> disk, data |-> <<>>, stream |-> "none"]

\* The bytes of the chunks of a hasher or a sink, one after the other.
Content(x) == FlattenSeq(x.data)

\* sink.abort()
Discarded(ss, s) ==
  IF s = None THEN ss
  ELSE IF ss[s].disk
       THEN IF ss[s].stream = "open" THEN [ss EXCEPT ![s].stream = "aborted"] ELSE ss
       ELSE [ss EXCEPT ![s].data = <<>>]

-----------------------------------------------------------------------------
(* Write chains: links done, and the links still to run. *)

OpenLink(f) == [file |-> f, bytes |-> <<>>, at |-> "opening", to |-> None]
WriteLink(b) == [file |-> None, bytes |-> b, at |-> "queued", to |-> None]

Link(c) == Head(chains[c].links)
HasLink(c, place) == chains[c].links # <<>> /\ Link(c).at = place
LinkDone(c) == [chains EXCEPT ![c] = [done |-> @.done + 1, links |-> Tail(@.links)]]

\* A link that needs no event: a queued write, or a memory sink's opening.
ChainDue(c) ==
  \/ HasLink(c, "queued")
  \/ HasLink(c, "opening") /\ ~ToFolder

\* Mutant of Flushed: the write chain is not awaited.
NotAwaited(f) == f \in Files

\* A finishCurrentFile() call with nothing left to wait for.
Flushed(f) == chains[call[f].chain].done >= call[f].upTo
CallDue(f) ==
  \/ call[f].at = "flush" /\ Flushed(f)
  \/ call[f].at = "digest" /\ hashers[call[f].hasher].state \in {"answered", "rejected"}

Quiet ==
  /\ \A c \in DOMAIN chains : ~ChainDue(c)
  /\ \A f \in Files : ~CallDue(f)

-----------------------------------------------------------------------------
(* Chunks *)

\* The first index from n on that is not in the buffer.
EndOfRun(buffer, n) ==
  CHOOSE k \in n .. n + Cardinality(DOMAIN buffer) :
    k \notin DOMAIN buffer /\ \A j \in n .. k - 1 : j \in DOMAIN buffer

\* The chunks of `frames` in `new`, on top of what is buffered behind index n:
\* the contiguous run is handed on, the rest stays in the reorder buffer.
Absorb(n, buffered, frames, new) ==
  LET all == [i \in DOMAIN buffered \cup new |->
                IF i \in new THEN frames[i] ELSE buffered[i]]
      end == EndOfRun(all, n)
  IN  [next |-> end,
       run |-> [k \in 1 .. end - n |-> all[n + k - 1]],
       rest |-> Restrict(all, {i \in DOMAIN all : i >= end}),
       new |-> Cardinality(new)]

\* Not a duplicate: neither consumed already nor waiting in the buffer.
New(n, buffered, frames) == {i \in DOMAIN frames : i >= n /\ i \notin DOMAIN buffered}

\* Mutants of Accept: chunks go on in the order they arrive; duplicates are
\* counted.
AcceptOnArrival(n, buffered, frames, total) ==
  LET new == {i \in DOMAIN frames : i < total}
  IN  [next |-> n + Cardinality(new), run |-> SetToSeq({frames[i] : i \in new}),
       rest |-> buffered, new |-> Cardinality(new)]
AcceptCountsTwice(n, buffered, frames, total) ==
  [Absorb(n, buffered, frames, {i \in New(n, buffered, frames) : i < total})
     EXCEPT !.new = Cardinality(DOMAIN frames)]

\* acceptChunk() for the frames in `frames`, in index order.
Accept(n, buffered, frames, total) ==
  Absorb(n, buffered, frames, {i \in New(n, buffered, frames) : i < total})

\* consume() of a run: hash it and queue its writes.
Fed(hs, h, run) ==
  IF h # None /\ hs[h].state = "open" THEN [hs EXCEPT ![h].data = @ \o run] ELSE hs

Writes(run) == [k \in DOMAIN run |-> WriteLink(run[k])]

-----------------------------------------------------------------------------
(* Reports to the panel. *)

Report(what) == ui' = IF ui = "active" THEN what ELSE ui

\* fail()
Fail(f) ==
  /\ finished' = TRUE
  /\ hashers' = Aborted(hashers, hasher) /\ hasher' = None
  /\ sinks' = Discarded(sinks, sink) /\ sink' = None
  /\ call' = [call EXCEPT ![f].at = "done"]
  /\ Report("error")
  /\ UNCHANGED <<fileVars, batchVars, worker, chainVars, saved, disposed>>

-----------------------------------------------------------------------------
(* handleMessage(), one operator for each kind of message. *)

OnBatchInfo(n) ==
  /\ totalFiles' = n
  /\ UNCHANGED <<fileVars, fileIndex, finished, hashVars, sinkVars, chainVars,
                 call, uiVars>>

\* beginFile() for another file: a fresh hasher and write chain, and the
\* chunks that came too early.
BeginFile(f, c) ==
  /\ LET a == Accept(0, <<>>, early, Total(f, c)) IN
       /\ meta' = f /\ chunkSize' = c
       /\ nextIndex' = a.next /\ received' = a.new /\ reorder' = a.rest
       /\ early' = <<>>
       /\ hasher' = Len(hashers) + 1
       /\ hashers' = Fed(Append(Aborted(hashers, hasher),
                                Fresh(HashInWorker /\ worker)), hasher', a.run)
       /\ chain' = Len(chains) + 1
       /\ chains' = Append(chains, [done |-> 0,
                                    links |-> <<OpenLink(f)>> \o Writes(a.run)])
  /\ finished' = FALSE
  /\ writeError' = FALSE
  /\ IF \E i \in DOMAIN early : i >= Total(f, c) THEN Report("error") ELSE UNCHANGED ui
  /\ UNCHANGED <<batchVars, worker, sinkVars, call, saved, disposed>>

\* The file that is current already, announced again after a reconnect, is
\* kept as it is, chunk size included: fileId does not name it.
OnMetadata(f, c) ==
  \/ meta = f /\ UNCHANGED receiverVars
  \/ meta # f /\ BeginFile(f, c)

\* A binary frame: index i, bytes b.
OnChunk(i, b) ==
  \/ /\ meta = None
     /\ early' = IF i \in DOMAIN early THEN early
                 ELSE [k \in DOMAIN early \cup {i} |-> IF k = i THEN b ELSE early[k]]
     /\ UNCHANGED <<meta, chunkSize, nextIndex, received, reorder, batchVars, finished,
                    hashVars, sinkVars, chainVars, call, uiVars>>
  \/ /\ meta # None /\ i >= Total(meta, chunkSize)
     /\ Report("error")
     /\ UNCHANGED <<fileVars, batchVars, finished, hashVars, sinkVars, chainVars, call,
                    saved, disposed>>
  \/ /\ meta # None /\ i < Total(meta, chunkSize)
     /\ LET a == Accept(nextIndex, reorder, [k \in {i} |-> b], Total(meta, chunkSize)) IN
          /\ nextIndex' = a.next /\ reorder' = a.rest
          /\ received' = received + a.new
          /\ hashers' = Fed(hashers, hasher, a.run)
          /\ chains' = [chains EXCEPT ![chain].links = @ \o Writes(a.run)]
     /\ UNCHANGED <<meta, chunkSize, early, batchVars, finished, hasher, worker, sinkVars,
                    chain, writeError, call, uiVars>>

\* finishCurrentFile() past the wait for stragglers.
Verify(f, total) ==
  \/ nextIndex < total /\ Fail(f)
  \/ /\ nextIndex >= total
     /\ finished' = TRUE
     /\ call' = [call EXCEPT ![f] =
          [at |-> "flush", total |-> total, chain |-> chain,
           upTo |-> chains[chain].done + Len(chains[chain].links), hasher |-> None,
           sink |-> None]]
     /\ UNCHANGED <<fileVars, batchVars, hashVars, sinkVars, chainVars, uiVars>>

\* Mutant of OnComplete: no wait for stragglers.
CompletesAtOnce(f) ==
  \/ (meta # f \/ finished) /\ UNCHANGED receiverVars
  \/ meta = f /\ ~finished /\ Verify(f, Total(f, chunkSize))

\* TRANSFER_COMPLETE: ignored for a file that is not current.
OnComplete(f) ==
  \/ /\ meta # f \/ finished
     /\ UNCHANGED receiverVars
  \/ /\ meta = f /\ ~finished
     /\ IF received < Total(f, chunkSize)
        THEN /\ call' = [call EXCEPT ![f].at = "poll", ![f].total = Total(f, chunkSize)]
             /\ UNCHANGED <<fileVars, batchVars, finished, hashVars, sinkVars,
                            chainVars, uiVars>>
        ELSE Verify(f, Total(f, chunkSize))

OnCancel ==
  /\ Report("error")
  /\ UNCHANGED <<fileVars, batchVars, finished, hashVars, sinkVars, chainVars, call,
                 saved, disposed>>

\* Mutants of Holding: one chunk too many; everything up to the last chunk
\* buffered instead of the contiguous prefix.
HoldingOneMore(f) ==
  IF meta = f THEN (0 .. nextIndex) \cap Chunks(f, chunkSize) ELSE {}
HoldingUpToLast(f) ==
  IF meta = f THEN {i \in Chunks(f, chunkSize) : i < nextIndex \/ \E j \in DOMAIN reorder : i <= j}
  ELSE {}

\* What replyResumeStatus() answers about f.
Holding(f) ==
  IF meta = f THEN (0 .. nextIndex - 1) \cup DOMAIN reorder ELSE {}

-----------------------------------------------------------------------------
(* finishCurrentFile() after its awaits. *)

\* The 100 ms poll sees enough chunks; chunksReceived and nextIndex are those
\* of the file that is current now.
PollEnough(f) ==
  /\ Quiet
  /\ call[f].at = "poll"
  /\ received >= call[f].total
  /\ Verify(f, call[f].total)

\* The 15 s deadline passes first.
PollGivesUp(f) ==
  /\ Quiet
  /\ "slow" \in Faults
  /\ call[f].at = "poll"
  /\ received < call[f].total
  /\ Fail(f)

\* The writes awaited are done; ask this.hasher for the digest.  A second
\* question to one worker hasher takes the place of the first in `pending`.
Asks(g, h) == call[g].at = "digest" /\ call[g].hasher = h
AskDigest(f) ==
  /\ call[f].at = "flush" /\ Flushed(f)
  /\ IF writeError \/ hasher = None
     THEN Fail(f)
     ELSE /\ call' = [g \in Files |->
               IF g = f THEN [call[f] EXCEPT !.at = "digest", !.hasher = hasher]
               ELSE IF hashers[hasher].inWorker /\ Asks(g, hasher)
               THEN [call[g] EXCEPT !.at = "overtaken"] ELSE call[g]]
          /\ hashers' = [hashers EXCEPT ![hasher].state =
               IF ~hashers[hasher].inWorker THEN "answered"
               ELSE IF worker THEN "asked" ELSE "lost"]
          /\ UNCHANGED <<fileVars, batchVars, finished, hasher, worker, sinkVars,
                         chainVars, uiVars>>

\* The worker's answer, unless abort() made the page forget the question.
WorkerAnswers(h) ==
  /\ Quiet
  /\ worker
  /\ hashers[h].state = "asked"
  /\ hashers' = [hashers EXCEPT ![h].state = "answered"]
  /\ UNCHANGED <<fileVars, batchVars, finished, hasher, worker, sinkVars, chainVars,
                 call, uiVars>>

\* The worker's error event rejects what was asked; a hasher that is still
\* being fed does not notice.
WorkerCrashes ==
  /\ Quiet
  /\ "workerCrash" \in Faults
  /\ HashInWorker /\ worker
  /\ worker' = FALSE
  /\ hashers' = [h \in DOMAIN hashers |->
       IF hashers[h].state = "asked" THEN [hashers[h] EXCEPT !.state = "rejected"]
       ELSE hashers[h]]
  /\ UNCHANGED <<fileVars, batchVars, finished, hasher, sinkVars, chainVars, call,
                 uiVars>>

\* Mutants of HandOver: the terminal check of onFileComplete is missing; the
\* last file is not recognised.
HandsOverAnyway(f, s) ==
  /\ call' = [call EXCEPT ![f].at = "done"]
  /\ saved' = Append(saved, <<f, Content(sinks[s])>>)
  /\ fileIndex' = fileIndex + 1
  /\ IF fileIndex + 1 >= totalFiles THEN Report("done") ELSE UNCHANGED ui
MissesLast(f, s) ==
  /\ call' = [call EXCEPT ![f].at = "done"]
  /\ saved' = IF ui = "active" THEN Append(saved, <<f, Content(sinks[s])>>) ELSE saved
  /\ fileIndex' = fileIndex + 1
  /\ IF fileIndex >= totalFiles THEN Report("done") ELSE UNCHANGED ui

\* The file is handed over; counting fileIndex decides about onAllComplete.
HandOver(f, s) ==
  /\ call' = [call EXCEPT ![f].at = "done"]
  /\ saved' = IF ui = "active" THEN Append(saved, <<f, Content(sinks[s])>>) ELSE saved
  /\ fileIndex' = fileIndex + 1
  /\ IF fileIndex + 1 >= totalFiles THEN Report("done") ELSE UNCHANGED ui

\* Mutant of Digested: the digest is not compared.
TakesAnyDigest(f) ==
  /\ call[f].at = "digest"
  /\ LET h == call[f].hasher IN
       \/ /\ hashers[h].state \in {"answered", "rejected"}
          /\ hashers[h].state = "rejected" \/ sink = None
          /\ Fail(f)
       \/ /\ hashers[h].state = "answered" /\ sink # None
          /\ hasher' = None /\ sink' = None
          /\ IF sinks[sink].disk
             THEN /\ call' = [call EXCEPT ![f].at = "closing", ![f].sink = sink]
                  /\ UNCHANGED <<fileIndex, ui, saved>>
             ELSE HandOver(f, sink)
          /\ UNCHANGED <<fileVars, totalFiles, finished, hashers, worker, sinks,
                         chainVars, disposed>>

\* The digest is there: compare it, take this.sink and finish it.
Digested(f) ==
  /\ call[f].at = "digest"
  /\ LET h == call[f].hasher IN
       \/ /\ hashers[h].state \in {"answered", "rejected"}
          /\ \/ hashers[h].state = "rejected"
             \/ Content(hashers[h]) # Bytes(f)
             \/ sink = None
          /\ Fail(f)
       \/ /\ hashers[h].state = "answered" /\ Content(hashers[h]) = Bytes(f)
          /\ sink # None
          /\ hasher' = None /\ sink' = None
          /\ IF sinks[sink].disk
             THEN /\ call' = [call EXCEPT ![f].at = "closing", ![f].sink = sink]
                  /\ UNCHANGED <<fileIndex, ui, saved>>
             ELSE HandOver(f, sink)
          /\ UNCHANGED <<fileVars, totalFiles, finished, hashers, worker, sinks,
                         chainVars, disposed>>

\* stream.close() is done, or fails.
Closed(f) ==
  /\ Quiet
  /\ call[f].at = "closing"
  /\ LET s == call[f].sink IN
       \/ /\ sinks' = [sinks EXCEPT ![s].stream = "saved"]
          /\ HandOver(f, s)
          /\ UNCHANGED <<fileVars, totalFiles, finished, hashVars, sink, chainVars,
                         disposed>>
       \/ "writeFail" \in Faults /\ Fail(f)

-----------------------------------------------------------------------------
(* The write chain. *)

\* The sink factory settles and its sink becomes this.sink.  A folder that
\* refuses the file yields a MemorySink instead.
SinkOpens(c) ==
  /\ HasLink(c, "opening")
  /\ ToFolder => Quiet
  /\ \E disk \in {ToFolder, ToFolder /\ "openFail" \notin Faults} :
       sinks' = Append(sinks, NewSink(Link(c).file, disk))
  /\ sink' = Len(sinks) + 1
  /\ chains' = LinkDone(c)
  /\ UNCHANGED <<fileVars, batchVars, finished, hashVars, chain, writeError, call,
                 uiVars>>

\* A write link runs: skipped after an error, lost without a sink, done at
\* once in memory, and begun on disk.
WriteStarts(c) ==
  /\ HasLink(c, "queued")
  /\ \/ /\ writeError \/ sink = None
        /\ chains' = LinkDone(c)
        /\ UNCHANGED sinks
     \/ /\ ~writeError /\ sink # None /\ ~sinks[sink].disk
        /\ chains' = LinkDone(c)
        /\ sinks' = [sinks EXCEPT ![sink].data = Append(@, Link(c).bytes)]
     \/ /\ ~writeError /\ sink # None /\ sinks[sink].disk
        /\ chains' = [chains EXCEPT ![c].links[1] = [@ EXCEPT !.to = sink,
               !.at = IF sinks[sink].stream = "open" THEN "writing" ELSE "creating"]]
        /\ UNCHANGED sinks
  /\ UNCHANGED <<fileVars, batchVars, finished, hashVars, sink, chain, writeError,
                 call, uiVars>>

\* createWritable() settles: the sink has its stream, whatever happened to
\* the sink in the meantime, and the write goes on.
StreamCreated(c) ==
  /\ Quiet
  /\ HasLink(c, "creating")
  /\ sinks' = [sinks EXCEPT ![Link(c).to].stream = "open"]
  /\ chains' = [chains EXCEPT ![c].links[1].at = "writing"]
  /\ UNCHANGED <<fileVars, batchVars, finished, hashVars, sink, chain, writeError,
                 call, uiVars>>

\* A disk write settles; one to a stream that is gone rejects.
WriteSettles(c) ==
  /\ Quiet
  /\ HasLink(c, "writing")
  /\ chains' = LinkDone(c)
  /\ LET s == Link(c).to IN
       \/ /\ sinks[s].stream = "open"
          /\ sinks' = [sinks EXCEPT ![s].data = Append(@, Link(c).bytes)]
          /\ UNCHANGED writeError
       \/ /\ sinks[s].stream # "open" \/ "writeFail" \in Faults
          /\ writeError' = TRUE
          /\ UNCHANGED sinks
  /\ UNCHANGED <<fileVars, batchVars, finished, hashVars, sink, chain, call, uiVars>>

-----------------------------------------------------------------------------

\* cancel() or the stall watchdog: terminalRef is set, then dispose().
Dispose ==
  /\ Quiet
  /\ "dispose" \in Faults
  /\ ~disposed
  /\ disposed' = TRUE
  /\ Report("cancelled")
  /\ finished' = TRUE
  /\ hashers' = Aborted(hashers, hasher) /\ hasher' = None
  /\ sinks' = Discarded(sinks, sink) /\ sink' = None
  /\ reorder' = <<>> /\ early' = <<>>
  /\ UNCHANGED <<meta, chunkSize, nextIndex, received, batchVars, worker, chainVars, call, saved>>

ReceiverInit ==
  /\ meta = None /\ chunkSize = 0
  /\ nextIndex = 0 /\ received = 0 /\ reorder = <<>> /\ early = <<>>
  /\ finished = FALSE
  /\ fileIndex = 0 /\ totalFiles = 1
  /\ hashers = <<>> /\ hasher = None /\ worker = HashInWorker
  /\ sinks = <<>> /\ sink = None
  /\ chains = <<>> /\ chain = None /\ writeError = FALSE
  /\ call = [f \in Files |-> [at |-> "idle", total |-> 0, chain |-> None, upTo |-> 0,
                              hasher |-> None, sink |-> None]]
  /\ ui = "active" /\ saved = <<>> /\ disposed = FALSE

\* What goes on inside the receiver between messages.
Continue ==
  \/ \E f \in Files : PollEnough(f) \/ AskDigest(f) \/ Digested(f) \/ Closed(f)
  \/ \E h \in DOMAIN hashers : WorkerAnswers(h)
  \/ \E c \in DOMAIN chains :
       SinkOpens(c) \/ WriteStarts(c) \/ StreamCreated(c) \/ WriteSettles(c)

Misfortune ==
  \/ \E f \in Files : PollGivesUp(f)
  \/ WorkerCrashes
  \/ Dispose
=============================================================================
