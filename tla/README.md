# A verification project for fast-transfer

fast-transfer moves files from one browser to another. In *live* mode a sender
and a receiver meet in a signaling room, open WebRTC data channels and stream
the files directly; in *stored* mode the sender uploads encrypted chunks that
receivers fetch later. This directory holds TLA+ models of the parts in which
concurrency, failure and ordering decide whether files arrive, the TLC runs
that check them on small instances, and TLAPS proofs about the send loop, the receiver,
the signaling room, the stored transfers, the handshake, the panels and the
arithmetic of chunks and windows.

All source paths below are relative to the repository root.

## 1. The system

### Components

| component | code | state | operations |
|---|---|---|---|
| Send pipeline | `apps/web/lib/webrtc/transfer.ts` (`ChunkQueue` 523-578, `sendFiles` 608-1013, `waitForBufferSpace` 1019-1046, `safeSend` 350-371), `adaptive.ts` | queue, two lists of parked promises, read-ahead, one frame per consumer, cancellation | push, pull, close; read, retry, wait, send; cancel, abort, join, announce |
| Sender protocol | `transfer.ts` 660-800 and 960-1012, `app/page.tsx` `runTransfer` 8511-8603 | which file, what the receiver holds, the checkpoint of files not fully sent | BATCH_INFO, FILE_METADATA, RESUME_QUERY with its timeout, TRANSFER_COMPLETE, CANCEL |
| File receiver | `transfer.ts` `FileReceiver` 1060-1550 | current file, contiguous prefix, reorder buffer, early chunks, write chain, counters | one handler per message, `finishCurrentFile` with its awaits, `fail`, `dispose` |
| Streaming hashers | `hash.ts`, `hash-worker.ts` | one hash state per job in the worker, a table of pending digests on the page, a queue of messages each way | open, update, digest, abort, hash a whole file, worker crash |
| Sinks | `sink.ts` | memory parts, or a lazily opened stream | write, finish, abort, folder fallback |
| Panels | `app/page.tsx` `SendPanel` 8327-8807, `ReceivePanel` 9012-9410 | phase shown, `terminalRef`, reconnect attempts, checkpoint | connect, cancel, reconnect with backoff, stall watchdog |
| Peer connection | `peer.ts`, `multi-peer.ts` | offer/answer state, queued ICE candidates | create, answer, add candidate, await parallel peers |
| Signaling client | `lib/signaling/client.ts` | socket, handlers, retry | connect, send, wait, close |
| Transfer room | `apps/signaling/src/room.ts` | one socket per role, expiry alarm | upgrade, relay, close, alarm |
| Stored transfers | `apps/signaling/src/store.ts`, `index.ts`, `lib/store/storeclient.ts`, `app/s/page.tsx` | transfer record, R2 objects, download count | create, upload, complete, status, download, commit, revoke, expire, clean up |
| Adaptive window, chunk sizing | `adaptive.ts`, `transfer.ts` 1-350 | window, RTT estimate | record, grow, shrink |
| Others | encryption, pairing codes, progress reports, statistics, error texts, native shells (`apps/mobile/App.tsx` with `lib/native/incoming-share.ts`, `apps/desktop`), landing page | - | - |

### Interactions

* `sendFiles` drives one producer and one consumer per data channel; they share
  a `ChunkQueue` and the flag `cancelled`. Cancels come from the panel (abort
  signal), from the receiver (a CANCEL message) and, on a reconnect, from the
  panel that abandons the old connection.
* Control messages travel on the first channel, frames on all of them. A frame
  is a chunk index and bytes; it names no file.
* `FileReceiver.handleMessage` is synchronous, but leaves behind asynchronous
  work: a chain of writes, digests computed by a worker, and
  `finishCurrentFile()` calls that poll and await. All of it shares the fields
  of the receiver with the file that is current by the time it continues.
* When the connection is lost both panels reconnect through the same room; the
  sender calls `sendFiles` again for the files left in its checkpoint, the
  receiver keeps its `FileReceiver`.

### What is hard here

The list of hazards with their lines is in `PROJECT.json`. In short: promises
parked on both sides of a bounded queue with a cancel that releases only one of
them; state read before an `await` and used after it; messages of different
channels (and of unordered channels) overtaking each other; connections lost
with messages on them; files counted as sent before they arrived.

## 2. Plan

Order is by importance of the behaviour; each module keeps recursion out of
the modules that are proved about.

1. **`FileSend`, `SendPipeline`** - the send loop and the abstract promise it
   implements. *Modelled, checked, proved.*
2. **`FileReceiver`, `LiveTransfer`** - the receiver, and its composition with
   the sender's protocol, the channels and reconnects, and **`FileReceive`**, the
   promise to the user that the whole implements. *Modelled, checked, proved, the
   refinement included.*
3. **`TransferRoom`** - socket replacement, relay, close and expiry in the
   Durable Object. *Modelled, checked, proved.*
4. **`SendPanel`, `ReceivePanel`, `Session`** - the two panels, each against
   anything its environment may do, and both composed over the room, with the
   contents of the transfer abstracted to "some files left". *Modelled and
   checked; the safety properties are proved, those of `Session` through the
   panels.*
5. **`StoredLifecycle`, `StoredTransfer`** - upload, download, commit,
   revocation and cleanup by several receivers. *Modelled, checked, proved, the
   refinement included.*
6. **`Sizing`, `Handshake`** - the arithmetic of connections, chunks and windows,
   and the exchange of descriptions and candidates that makes one set of
   connections. *Modelled, checked, proved.*
7. **`HashWorker`** - the page's side and the worker's side of hashing.
   *Modelled, checked, proved.*

## 3. Modules

### `FileSend` and `SendPipeline`

`FileSend` is what sending one file promises: each chunk the receiver lacks is
transmitted at most once, in any order; `Complete` needs all of them; the send
may be abandoned. `SendPipeline` is the code of `sendFiles()` for one file.

| in the model | in `transfer.ts` |
|---|---|
| `Push`, `Pull`, `Close`, `parked`, `prod = "parked"` | `ChunkQueue` 523-578; a parked promise is a place in `cons` or `prod`, `parked` is the list the code keeps of waiting consumers |
| `ProducerStart` ... `ProducerResume`, `TopUp` | the producer 851-892, `readEveryChunk` is `inline` |
| `ConsumerPull` ... `ConsumerRetry` | one consumer per channel 897-942, with `waitForBufferSpace` and `safeSend` |
| `MainJoin`, `Announce`, `FailWith` | `Promise.all` and what follows it 944-1012 |
| `Cancel`, `Abort`, `PeerCancel` | `triggerCancel` 636-642, the abort signal, CANCEL |
| `Drain`, `ChannelClose` | the data channel |

An action is the code between two awaits. JavaScript runs the continuations of
settled promises before it takes the next event; so an action that starts with
an event (a read ends, a channel drains, a timer fires, the user clicks) has the
guard `Quiet`: no continuation is due. The order of the continuations that are
due at once is left open, which allows more than any engine does. A read that was
issued ahead has settled long before or not, so `ReadDone` and `ReadFail`, which
go on from it, need no quiet.

`held` is any set of chunks: RESUME_STATUS reports a prefix and a set of
buffered chunks. While the sender waited for it, it may have been cancelled and a
channel may have closed: the loop may start so (`Cancels`). The adaptive window is any member of `Windows` after each send.
Buffered amounts are counted in frames. `Announce` is that of the last file of
a batch; for an earlier file the loop goes on with the next instead.

### `FileReceive`, `FileReceiver` and `LiveTransfer`

`FileReceive` is what the user is promised: each file of the batch is handed over
at most once and with its own content, "done" comes with the last of them, and
after "done", an error or a cancel nothing follows. `FileReceiver` has the receiver of `transfer.ts` 1060-1550, its hashers, its
sinks and what the panel's callbacks do with its reports; `LiveTransfer` adds
the sender's protocol, the channels and the reconnect, with the pipeline reduced
to the set `todo`.

| in the model | in the code |
|---|---|
| `OnBatchInfo`, `OnMetadata`/`BeginFile`, `OnChunk`, `OnComplete`, `OnCancel`, `Holding` | `handleMessage` 1177-1247, `beginFile` 1251-1306, `acceptChunk` 1311-1349, `replyResumeStatus` 1401-1416 |
| `PollEnough`, `PollGivesUp`, `Verify`, `AskDigest`, `Digested`, `Closed`, `HandOver`, `Fail` | `finishCurrentFile` 1421-1530 cut at its awaits, `fail` 1537-1547; `call[f]` says where the call for file `f` is |
| `chains`, `SinkOpens`, `WriteStarts`, `StreamCreated`, `WriteSettles` | `writeChain`, `beginFile` 1276-1288, `consume` 1354-1368, `sink.ts` |
| `hashers`, `Fed`, `Aborted`, `WorkerAnswers`, `WorkerCrashes` | `hash.ts` 89-106 and 176-218 |
| `ui`, `saved`, `Report`, `Dispose` | `page.tsx` 9211-9267, `terminalRef`, cancel and watchdog |
| `SenderBegins`, `GotStatus`, `StatusTimeout`, `SendChunk`, `FinishFile`, `SenderStops` | `page.tsx` 8511-8603, `transfer.ts` 660-1012 |
| `Deliver`, `Drop` | the channels; `attemptReconnect` of both panels, with its result |

A file is a sequence of units, pairs of the file and a number. `ChunkSizes` are
the sizes `resolveChunkSize` may come to, in units: each connection picks one
(`chunk`), cuts the file by it (`Part`, `Total`) and says so in FILE_METADATA; the
receiver keeps the size of the metadata it accepted (`chunkSize`), also when a later
connection announces another for the same file. A frame on the wire names an index
and carries units; no guard of the receiver looks at what they are. Hashers
and sinks hold the chunks they were given; `Content` is the units of those, one
chunk after the other, and a digest is equal exactly when the contents are. Hash states, sinks and write
chains are numbered in the order they are made, so that a continuation can hold
on to one that is no longer current, as it does in the code.

Simplifications, each towards more behaviour unless it says otherwise:

* The continuations that are due at once run in any order.
* `Drop` assumes that the two panels find each other again, or, under the fault
  `giveUp`, that the sender's does not; how they do is `Session`.
* The stall watchdog and the user's cancel are one action, `Dispose`.
* Two write chains that open a stream for one sink at the same time open one
  stream (the code would call `createWritable` twice); this allows less, and is
  possible only in a batch written to a folder, which no passing run claims
  anything about.
* Progress callbacks, statistics and file names are left out.

### `HashWorker`

`hash.ts` and `hash-worker.ts` with a queue of messages each way. A job is one
streaming hasher or one file hashed in the background.

| in the model | in the code |
|---|---|
| `GetWorker`, `WorkerError`, `PageHears` | `getWorker` with its listeners, `hash.ts` 75-114 |
| `Open`, `Update`, `Digest`, `Abort` | `createStreamingHasher` and the two hashers it may return, 176-218 |
| `HashFile` | `hashFileInBackground` |
| `pending`, `nextId` | the table of promises that wait, and the counter both kinds of jobs draw ids from |
| `WorkerTakes`, `ReadGoesOn`, `streams`, `reads` | the listener of `hash-worker.ts` and its `hashBlob` |

The bytes of a job are numbered pieces and a digest is the sequence of pieces that
went into it. An error of the worker may end it or not (`Ends`); what is posted to a
worker that ended goes nowhere. `abort()` deletes the promise that waits, which
then never settles, as in the code; its callers do not wait for it.

### `TransferRoom`

The Durable Object `room.ts` with the WebSockets the runtime holds for it. Its
handlers await only the object's own storage, so each is one step.

| in the model | in the code |
|---|---|
| `sockets`, `room`, `expired` | `this.sockets`, the record "room" in storage, `Date.now() > expiresAt` |
| `Upgrade`, `UpgradeRefused` | `handleWebSocketUpgrade` 99-138 |
| `WebSocketMessage`, `WebSocketClose`, `Alarm` | the handlers of those names 140-199 |
| `Evict`, `Wake`, `Listed` | hibernation; the constructor 30-52 over `getWebSockets()` |
| `wire` | what became of each connection: open, left by its client with the room still to hear of it, dead, closed by the room with the client still to answer, closed |
| `told`, `relayed` | the presence message a client got last; whether it got a message of its peer |

What the runtime does with a socket the object itself closed is not in the
repository. The fault `linger` lets it do all it may: the socket is still listed,
in any order, its messages are delivered, and so is its close. `disturbed`
records that the room listened to one; the properties are claimed up to then
(section 5). PING, the status route and the contents of messages are left out.

### `StoredLifecycle` and `StoredTransfer`

`StoredLifecycle` is what the head of `store.ts` promises: *uploading*,
*available*, *gone*, in that order, and no more downloads than the allowance.
`StoredTransfer` has the four parties that keep it: the uploading page, the
pages that open the link, the Worker's routes and the Durable Object, with the
R2 bucket between them.

| in the model | in the code |
|---|---|
| `HandleInit`, `CompleteChecked`/`CompleteStored`, `CommitCounted`/`CommitStored`, `RevokeChecked`/`RevokeMarked`/`RevokeStored`, `AlarmFires`/`AlarmDone`, `Status` | the handlers of `store.ts` 67-159, cut where they await something other than storage |
| `stored`, `meta`, `loaded` | the record in storage, the object `this.meta` points to, and whether it points to one (`loadMeta` 179-184) |
| `PutChecked`/`PutStored`, `GetChecked`/`GetServed` | the routes of `index.ts` 164-203 with `isUploadable`, `requireAvailable`, `fetchObject` |
| `Create`, `StartPut`, `PutAnswered`, `UploadGoesOn` | `uploadStored` 266-364, `runWithConcurrency` 227-244 |
| `Revoke`, `RevokeAnswered` | `page.tsx` `revokeStoreSend` 8800-8807 |
| `OpenLink`, `Download`, `StartGet`, `PageGoesOn` | `app/s/page.tsx` 43-90, `downloadStoredFiles` 388-440 |
| `PutLost`, NetFails disjuncts, `Crash`, `Expire` | a fetch that rejects, an evicted object, the clock |

A Durable Object delivers no event while it waits for its own storage, so
reading and writing the record is one step; it does deliver events while a
handler awaits a request body, a digest or R2, and there the handlers are cut.
The records handlers hold across such an await are one and the same object, as
in the code, so a mark made by one is saved by the other.

Simplifications: one file (the chunks of several files are numbered through
anyway); the deletion of all objects of a transfer is one step, and none fails;
what an object contains is not looked at, so neither is the check of a file's
hash; the alarm may come at any time after the expiry. The model has the R2 binding the code
uses; `apps/signaling/wrangler.toml:14` has it commented out at this commit.

### `SendPanel`, `ReceivePanel` and `Session`

The panels are React components: refs, a phase, and closures that continue after
an `await`. `SendPanel` and `ReceivePanel` have one action per callback, click,
timer and continuation, with no environment: a socket may be found closed, a
channel may open and a connection may be lost whenever there is one. Establishing
connections is numbered: a *try* is one call of the sender's
`establishAndRun()`, a *listen* one of the receiver's `establishAndListen()`.

| in the model | in `app/page.tsx` |
|---|---|
| `StartSend`, `RoomMade`, `Joined`, `StartFails` | `startSend` 8419-8446 and 8749-8753, cut at `createRoom` and `connect` |
| `OnPeerJoined`, `OnPeerLeft`, `OnClose` | the handlers of the room and of the socket's close, `attachTopLevelHandlers` 8486-8508 |
| `MayEstablish`, `RunEstablish`, `Establish`, `EstablishThrows` | `runEstablish` 8460-8484, `establishAndRun` 8605-8681 |
| `ChannelOpens`, `Built`, `NoneBuilt`, `RunTransfer`, `Measured` | the two ways a try ends, and `runTransfer` 8511-8603 up to `sendFiles` with its `sampleRttMs` |
| `LoopCompletes`, `LoopFails`, `LoopFallsSilent` | how `sendFiles` may end, and `onError`, `onAllComplete` |
| `AttemptReconnect`, `BackoffEnds`, `Rejoined`, `RejoinFails`, `ConnectionLost` | `attemptReconnect` 8684-8745 and what calls it |
| `Cancel`, `CleanUp` | `cancel` 8756-8779, `cleanup` 8399-8415 |
| `phase`, `terminal`, `establishing`, `attempts`, `peers`, `current`, `aborted` | the refs of those names |
| `ReceivePanel` | `ReceivePanel` 9056-9411: `startLiveReceive`, `runListen`, `establishAndListen` with `waitForConfig`, `attemptReconnect`, the watchdog, `cancel`, and the reports of the `FileReceiver` |

Each connection, socket and loop belongs to the start and the try that made it,
since the closures of a start outlive it. `late` and `crossed` (`rLate` and
`rTorn` at the receiver) record history: that a cancel found work it does not
stop, and that two recoveries were under way at once. What the code does from
there on is a list of disagreements (section 5), not of promises, and every
property says so; `Straight` is their negation.

`Session` puts the two together. It says when the events come: the room tells the
sender that the receiver's socket came or went, and relays configuration, offers
and answers in order; a channel opens when both ends have each other's
description; a connection fails when its other end is gone or answered another;
a mute socket is closed by its heartbeat (`lib/signaling/client.ts`). The faults
break a socket (with or without a close event), a connection, or let the timers
of a handshake run out early. `missed` records that an offer or an answer found
nobody who could take it.

Simplifications: the connections of one try are one unit, which opens, fails and
closes as a whole (how they come to be is `Handshake`); `initiate()` is one step,
which makes an offer or throws, and so are its offers; a connection whose
`initiate()` threw stays in `peersRef`, as in the code, and never opens; `createRoom` and `checkRoom` are answers that come or
fail; the checkpoint of files is the flag `left`; a backoff (a second and more)
is longer than the measurement of a round trip (300 ms at most), which is the
only assumption about durations in `SendPanel`. In `Session` a timer of a
handshake does not run out while one is going on, unless the fault `slow` says so.

### `Handshake` and `Sizing`

`Handshake` is one round of `establishParallelSenderConnections` and
`establishParallelReceiverConnections`: the CONFIG and its timeout, and per slot a
pair of `PeerConnection`s with each await of `initiate`, `handleOffer`,
`handleAnswer` and `flushPendingCandidates` a step of its own, so that messages
arrive in between. `stage` is where a connection is, `pending` is
`pendingRemoteCandidates`, `flushing` what the flush took, `known` what the
browser has. `establishOne` and `mergeResults` are `ChannelOpens`, `SlotTimeout`
and `Merge`; `SmallestLimit` is what `runTransfer` makes of the limits. The
browser is external: it gathers candidates after the local description is set,
and opens a channel when both descriptions and a working candidate are there.

`Sizing` has the arithmetic of `chooseConnectionCount`, `resolveChunkSize`,
`frameChunk`, `estimateInitialWindow` and `AdaptiveWindowController` as operators
on natural numbers; a rate is a number of bytes per second, and the clock that
spaces the samples is left out.

## 4. Runs

| run | instance | what it shows |
|---|---|---|
| `pipeline_faults` | 4 chunks, 2 channels, queue of 1, 2 reads ahead, 1 retry, 2 windows, all faults | the inductive invariant, `CompleteMeansAllSent`, `NoLostWakeup`, `BufferBounded`, `CancelStopsSending`, and that the loop implements `FileSend` |
| `pipeline_settles` | 6 chunks, 2 channels, queue of 1, 1 read ahead, failed reads and refused sends | `MemoryBounded` on a file that does not fit, `Settles`, `NothingLeftRunning` |
| `receive_one_file` | 3 chunks of one size, 2 unordered channels, hash worker, one lost connection | `EveryChunkSomewhere`, `NoFalseAlarm`, `ArrivesUnlessMissed` |
| `receive_folder` | 3 chunks, 2 unordered channels, hash worker, disk, every fault | `Intact`, `SinksInOrder`, `NothingAfterCancel` |
| `receive_batch` | files of 2 and 1 units, chunks of 1 or 2 units anew on each connection, 2 ordered channels, main-thread hash, two lost connections, late answers, a cancel, a sender that stops or gives up | `Counted`, and that the whole implements `FileReceive` |
| `hash_worker` | one stream and one file of 3 pieces, every fault | `AnswersMatch`, `StreamsReleased`, `AnsweredIfUp` |
| `stored_cleanup` | 1 chunk, 1 page, no fault | *violates* `NothingLeftBehind` |
| `room` | 2 connections of each role, every fault, evictions at any time | `Reachable`, `PresenceTold`, `IntroducedFirst`, `EndsForAll` |
| `stored_faults` | 2 chunks uploaded 2 at a time, 2 pages, an allowance of 1 or unlimited, every fault | `OfferedIsThere`, `Frozen`, `GoneForGood`, `PagesSettle`, and that the stored record implements `StoredLifecycle` |
| `send_panel` | 2 starts, 2 reconnects each, one or several connections, no environment | `OneLoop`, `RightFiles`, `CancelIsClean`, `IdleStays`, `DoneStays` |
| `session` | both panels, 1 start, 1 reconnect on each side, one fault of any kind | `OneSet`, `SenderSettles`, `ReceiverSettles` |
| `handshake` | 1 or 2 connections, 2 and 1 candidates, two limits, late CONFIG, slow slots | `NoCandidateLost`, `FramesFit`, `Connects` |

### Bounds

The pipeline's instances have more chunks than queue, read-ahead and consumers'
hands can take together where a property is about that (`pipeline_settles`), and
enough to fill the queue and park both sides everywhere. Two channels make two
consumers compete for one item; two windows let the window shrink under a
waiting consumer. The theorems cover every other size.

For the receiver three chunks make a gap of two in the reorder buffer and two
channels let frames overtake frames and control messages. A second file is
enough for every clash of a continuation with the current file. One lost
connection lets every message be lost at every point, and a second one lets what
the first left behind meet a third connection; `MaxDrops` bounds how often. Two
chunk sizes, one twice the other, make the same index mean different bytes and the
same bytes another number of chunks, in a file that is one chunk or two.
`Size`, `ChunkSizes`, `NumChannels`, `MaxDrops` are the only bounds; messages are
finite because the sender's protocol is.

One stream and one file are a job of each kind, and two jobs are enough to take
each other's ids or messages; three pieces let a message come before, between and
after those of the other job.

Two connections of each role are enough for one to replace the other while the
peer watches, comes or goes; the theorems cover any number.

For a stored transfer two chunks uploaded two at a time let one fail, or be late,
while the other goes on; two pages are enough to compete for an allowance of
one, and an unlimited allowance takes the other branch of `handleCommit`.
Everything happens at most once per transfer, so nothing else needs a bound but
the evictions, which add no state.

For the sender's panel two starts let the closures of a cancelled start meet the
next one, and two reconnects let a second loss come during the recovery from the
first. `MaxStarts` and `MaxAttempts` are the bounds; `MaxTries` is not one: no
start can make more tries than it counts. `CONSTRAINT Straight` ends a behaviour
where the properties stop speaking of it. In `Session` one fault comes at every
point of the life of a transfer and of its reconnect; `MaxDrops` bounds the
faults, and one attempt on each side lets both panels reconnect at once.

In `handshake` two slots let the CONFIG be believed by one side only, two
candidates let one be queued while the other is flushed, and a limit that one of
the connections does not tell takes the branch of `SmallestLimit` that ignores
it. The theorems cover every other number.

### Fairness

`SendPipeline!Fairness`: due continuations run, reads end, timers fire, the
hash worker answers and an *open* channel drains. Weak fairness is enough, as an
event stays possible until it is taken. No fault is fair. `LiveTransfer!Fairness`
asks the same of the receiver's continuations, of delivery on each channel and
of the sender; delivery of *some* message of an unordered channel, and the
channels carry finitely many, so all of them arrive. `StoredTransfer!Fairness`: requests
are handled and answered and the pages' code goes on; clicks, expiry, failures
and evictions are not fair.

`Session!Fairness`: the room and the sockets deliver, a wait ends, a timer fires,
a connection whose other end is gone fails, and a mute socket is closed by its
heartbeat. Nothing is assumed of the users, of the faults, or of a send loop; so
`SenderSettles` speaks of connecting and reconnecting, not of sending.
`Handshake!Fairness`: messages are delivered and the browser does what it was
asked (no step is taken twice, so one condition covers all), and a slot gives up
when nobody will answer.

`HashWorker!Fairness`: both event loops take their messages and a read settles.
Nothing makes a worker fail, or the page ask.

`TransferRoom` and `SendPanel` have no liveness property and no fairness.

Every run but the liveness ones of `SendPipeline` has `CHECK_DEADLOCK FALSE`
where the system ends: a transfer that is over does nothing more.

## 5. Disagreements found

One run ends in a violation, `stored_cleanup`; `PROJECT.json` quotes the lines it
disagrees with. The models do what the code does, so the other disagreements are
behaviours of the modules too; the properties name the case in a condition, or are
about another. The first four break what a comment of the source or its README says.

* *The clean-up deletes nothing.* `handleInit` makes `meta.id` of the hex id of the
  Durable Object (`store.ts:74`), and `deleteObjects` deletes keys made from it
  (`store.ts:162`); the Worker stores the objects under the id of the URL
  (`index.ts:137`, `169`, `178`). After a commit, a revocation or the alarm every
  object is still in the bucket; README.md:178 and `store.ts:10` say that they are
  deleted. The run uploads, revokes, and finds the objects still there.
* *A reconnect ends in "error".* `attemptReconnect` aborts the loop of the broken
  connection, whose error is reported while `terminalRef` is still false
  (`page.tsx:8582`, `8704`): the panel shows "error" and the reconnect that wakes
  up does nothing. The comment at 8696-8703 describes just this as repaired.
  In `Session` a step from `phase = "reconnecting"` to `"error"` comes after one
  connection that breaks.
* *A hasher whose worker failed never answers.* The error listener rejects what is
  in flight (`hash.ts:98-106`), but a streaming hasher keeps the worker it was made
  with; a digest it is asked for later (`hash.ts:203`) stays in the table of pending
  ones for ever, and `finishCurrentFile` waits for it (`transfer.ts:1478`).
  `AnsweredIfUp` has the condition `worker = "up"`; `hash.ts:99` promises to "fail
  it and stop trying".
* *Shares into the mobile app do not arrive.* The shell posts
  `{ type: "INCOMING_SHARE", incomingFiles }` (`apps/mobile/App.tsx:147`) and the page
  returns unless `msg.files` is an array (`lib/native/incoming-share.ts:49`).
  The shell is not modelled; this is read from the two lines.

Met while modelling, besides. In the send loop and the receiver:

* A cancel releases consumers, not a producer parked in `push()`
  (`transfer.ts:948`). If every consumer breaks on `cancelled`, nobody pulls
  again, and `close()` waits for the producer: `sendFiles` never settles.
  `pipeline_settles` has no cancels for that reason.
* FILE_METADATA of the next file aborts the hasher of the file whose digest is
  being awaited (`transfer.ts:1267`), and the digest is of what was hashed when
  it was asked for, while what is handed over is the sink after the answer
  (`transfer.ts:1478`). With a hash worker both are races of every batch;
  `receive_batch` hashes on the main thread for that reason. The second can hand
  over a wrong file without any fault: TRANSFER_COMPLETE of a one-chunk file
  arrives before its chunk, the next file begins, the late chunk is counted for
  that one, the poll of the first file sees enough and asks the digest of the
  second one's hasher, which so far was fed just the chunk of the first; before
  the worker answers, a chunk of the second file is written to the same sink.
  This is why `Intact` is proved under `Serial` (section 6).
* A file leaves the checkpoint when its TRANSFER_COMPLETE was given to the
  channel, not when it arrived (`page.tsx:8568`): what is lost with the
  connection then is never sent again. This is the first half of `missed` in
  `ArrivesUnlessMissed`.
* A cancel between the join and the end of the last file is silent: `sendFiles`
  resolves with neither `onAllComplete` nor `onError` (`transfer.ts:987`), and
  no CANCEL is sent. The model calls this outcome `"silent"`.
* On unordered channels, or on two ordered ones, chunks of one file arrive after
  the metadata of the next, are counted for it, and a healthy batch ends in an
  error. On unordered channels TRANSFER_COMPLETE may overtake FILE_METADATA, is
  ignored, and even a single file then never completes (this is the second half
  of `missed` in `ArrivesUnlessMissed`).
* A queued write goes to `this.sink` when it runs (`transfer.ts:1360`): in a
  batch written to a folder, to the next file's sink.
* `totalFiles` is 1 until BATCH_INFO comes (`transfer.ts:1079`). On unordered
  channels (`peer.ts:143`) the first file of a batch may be finished before, and
  the panel shows "done" with the others outstanding. This is why the refinement
  is proved under `InTurn`.
* A reconnect that comes to another chunk size for a file the receiver has begun
  leaves the two with different ideas of an index (`page.tsx:8532`,
  `transfer.ts:1255`). The sender skips an index that RESUME_STATUS names though
  the receiver has other bytes under it, and part of what was to be sent is nowhere:
  with two chunk sizes TLC finds `EveryChunkSomewhere` violated, which is why its
  run has one, and its theorem `OneSize`. The digest refuses what is put together
  of both: the transfer ends in an error, not in a wrong file.
* `dispose()` aborts the stream it sees; one that `createWritable()` delivers
  later (`sink.ts:97`) is never closed.

In the panels:

* PEER_LEFT does not look at `terminalRef`: a sender that is done shows "error"
  when its receiver leaves. `DoneStays` excepts it.
* `attemptReconnect` goes on after its backoff whatever happened meanwhile. After
  a cancel it joins the old room again and shows "waiting" with `terminalRef`
  set, a panel that can do nothing; after the next start it may put that start's
  files on the old room's connection. `late` excludes this.
* A cancel while `createRoom`, `connect` or the parallel connections are under
  way leaves a continuation that later shows "sending" or "error" (`late`).
* PEER_JOINED may overtake a backoff, and then two recoveries work at once
  (`crossed`). At the receiver a reconnect during `waitForConfig` leaves two
  sets of connections, the second of which ends in "No connection" over a running
  transfer (`rTorn`).
* A sender with one connection has no timer: it stays at "connecting" when its
  offer is missed. So does one with no file left whose loop was aborted at its
  end. `SenderSettles` excepts both.

In the handshake:

* The control channel is the first that opened, at each end: when slot 0 is
  given up by one end only, the ends use different ones. `Connects` has the
  condition `~hurried`, that no slot gave up while it could still open; a slot
  given up by one side only also brings the other into a reconnect.
* When no connection tells its limit the chunk is 64 KiB, and its frame four
  bytes more: too large for a connection whose limit is 64 KiB. When some tell, a
  limit of 0, "none", counts as the smallest. Hence `limit[s] > 0` in `FramesFit`
  and `0 \notin Limits` in its theorem.

In the stored transfers and the room:

* Several receivers may fetch a transfer whose allowance is one, as long as none
  of them has committed; the later commits are refused and their pages do not
  look at the answer (`storeclient.ts:437`). What the allowance bounds is the
  downloads acknowledged.
* A status of "consumed" or "revoked" may be answered and then go back to
  "available", when the object is evicted between the mark in memory and the
  save (`store.ts:130-134`, `146-149`); `GoneForGood` holds from the
  acknowledgement on.
* A socket that was replaced and reports its close late takes its replacement out
  of the room (`room.ts:178` deletes by role, not by socket) and tells the peer
  it left; the constructor may restore a replaced socket in place of the new one.
  `room.ts:114` and TESTING.md:213-217 count on the replacement. Without the
  condition `~disturbed`, `Reachable` and `PresenceTold` fail in the run `room`.
* `revokeStored()` ignores a refusal and a failure; the page forgets the token.

## 6. Proofs

`SendPipeline_proofs` proves, for every number of chunks, every finite set of
channels, every capacity, read-ahead, retry count and set of windows, and every
set of faults (assumptions `PipelineAssumption` and `ChannelsFinite`):

| theorem | statement |
|---|---|
| `Invariance` | `Spec => []IInv` |
| `TypeCorrect` | `Spec => []TypeOK` |
| `Completeness` | `Spec => []CompleteMeansAllSent` |
| `Wakeups` | `Spec => []NoLostWakeup` |
| `Buffers` | `Spec => []BufferBounded` |
| `Memory` | `Spec => []MemoryBounded` |
| `CancelStops` | `Spec => CancelStopsSending` |
| `Refinement` | `Spec => ImplementsFileSend` |

`TransferRoom_proofs` proves, for every number of connections and every set of
faults (assumption `RoomAssumption`), `RoomInvariance`, `RoomReachable`,
`RoomPresence`, `RoomIntroduces` and `RoomEnds`: `Spec => []` of `IInv`,
`Reachable`, `PresenceTold`, `IntroducedFirst` and `EndsForAll`. The properties
need that a role has one connection at most that is not over (`OneEach`), also
while the object is out of memory, since that is what makes `Wake` restore the
right one; that what is registered is such a connection (`RegisteredPresent`);
and that nobody was told anything before there was a connection (`Untold`).

**The inductive invariant of the send loop.** None of the properties is inductive. That
everything is sent at the announcement needs to know where each chunk is, so
`IInv` says: a chunk is in one place only (`OnePlace`: unread, in flight, in the
producer's hand, queued, with one consumer, sent), no chunk is dropped while
nothing was cancelled and nothing threw (`NothingDropped`), and a consumer that
returned in such a run has left an empty, closed queue behind (`Closing`). At
the join both together leave only "sent" (`Joined`). `Hands` and `ParkedList`
tie the program counters to the frames and to the list the queue keeps;
`RoomToSend` and `ReadAheadBounded` are what the two resource bounds need. TLC
checks `IInv` in `pipeline_faults`.

There is one lemma per action (`ProducerStartStep`, ...), with one step per
conjunct it can disturb; `PushStep` and `AttemptStep` serve the actions that
share `Push` and `Attempt`. The lemmas at its head are the facts about `ToSet`
and `IsInjective` of a queue that the library does not state.

**The refinement** maps `main` to the outcome; `AcceptedTransmits` shows that an
accepted frame is a `Transmit` of a chunk not sent yet, from `FramePlace`; the
announcement is `Complete` by `Joined`; every other step leaves `held`, `sent`
and the outcome alone or abandons.

**The receiver.** `LiveTransfer_proofs` proves `ReceiverCounts` (`Counted`) and
`ReceiverQuietAfterCancel` (`NothingAfterCancel`) for every batch, every number
of chunks per file, every set of chunk sizes, one of which each connection picks anew,
every set of channels and every set of faults (`SizeAssumption`, `TransferAssumption`). `received` is kept apart from the
contents it counts, and `finishCurrentFile()` trusts the count; `Counted` says
that a count of `totalChunks` means that no chunk is missing. It follows from
`Progress`: the reorder buffer holds only indexes above `nextIndex` and below
`totalChunks`, so as many chunks as the file has leave no hole before them.
`Sender` and `Wire` say that the channels carry only messages of this protocol
about files of this batch; in what order they come, or for which file a frame
was meant, the count does not depend on. `Terminal` says that the panel is done
when its receiver was disposed of. `AbsorbFacts` shows that draining the buffer ends at the least index
that is missing, which exists since the order of the naturals is well-founded.

`ReceiverIntact` (`Intact`) and `ReceiverRefines` (`ImplementsFileReceive`) are
about the contents. They hold where nothing of a file is under way when the next
begins: `Serial`, a batch of one file, in any mode, or a batch of any size without
a hash worker and without a folder; and the refinement further needs that the size
of the batch is known when its first file is finished: `InTurn`, one file or
ordered channels. Neither condition is for the proof's sake: without either TLC
finds the counterexamples of section 5. The runs claim the two properties in such
modes only, too.

What is handed over is the sink's content, what is verified the hasher's. The
heart of `DataInv` is therefore `Agree`: while the current hasher is open, what it
was fed is what the current sink holds followed by what the write chain has queued,
also while the chain still has to open its sink, and unless a write failed. A call
takes part in `Flushing` (it awaits all links there are), `Digesting` (no link is
left, so hasher and sink are equal) and `Finishing`. What a serial batch has and
the others have not is `OneBusy` and the fact that the next file finds no call
between its wait and its digest: without a worker and a folder these are
continuations that are due at once, so no message comes between them
(`QuietBegin`, `QuietVerify`); in a batch of one file there is no next. A chunk is
fed and queued in one step (`AcceptStep`), a link done moves its chunk from the
queue to the sink (`WriteDoneData`), one that fails or is skipped ends the claim of
`Agree`, and `AskDigest` turns such a file into an error. No lemma looks into
`Content`: equal chunks have equal contents, and `Digested` compares.

`BatchInv` is about control messages and calls: a TRANSFER_COMPLETE is on the wire
once, on the first channel, after the sender is done with its file, before anybody
began to finish it (`AnnouncedOnce`, `CalledAfter`), so no call begins anew and no
file is handed over twice (`Handed`); and until `totalFiles` is right, BATCH_INFO is
the head of the control channel and no call has begun (`BatchKnown`), also across
reconnects. `LastMissing` then equates the receiver's test, a count, with the
promise's, a set: the files handed over are distinct. TLC checked `BatchInv` on
batches of two and three files before it was proved.

`ReceiverCovered` (`EveryChunkSomewhere`) says for a batch of one file that is
always cut to one size that the bytes of a chunk the sender will not send again are
on the wire, buffered under their index, queued to be written or in the sink, until
a write fails. The proof has two halves. By index (`IndexCovered`, which holds for
any sizes) a chunk can be lost in two ways: the sender skips what RESUME_STATUS
says is held, and the receiver drops what it takes for a duplicate. `Told` is about the first: a
status that is still on its way names only chunks that are handed on or buffered
now (`Kept`), and `KeepsAll`, which every step satisfies while the transfer goes
on, says that they stay so until it is read. For the second, `AcceptKeeps` says
that Accept() drops only indexes it has handed on before or that no chunk of the
file has; and a chunk in front of its metadata is still in `early` when the file
begins, or already too far for it, which ends the transfer (`BeginKeeps`). A
lost connection empties the channels, and the sender puts back in `todo` what no
status names. That an index stands for its bytes (`BytesCovered`) is the order in
which they were handed on, the invariant of `ReceiverInOrder` below, while there is
a hasher, which `StillHashed` says there is until somebody begins to finish the
file: below `nextIndex` the sink and the queue then hold just the first chunks of
the file (`HandedOnAll`). One file is what the proof covers, and the run checks it
on one file: `beginFile()` takes what waits in `pendingChunks` for chunks of its own
file, and that they are is not a matter of one file's bookkeeping.

`ReceiverInOrder` (`SinksInOrder`) is about the order of the bytes and holds also
where nothing else does any more: after a failed write, a cancel or an error, a
sink still has a prefix of its file, never a file with a hole. The invariant counts:
the first link of the write chain writes chunk `Base`, that is `nextIndex` less the
links left (`QueuedInOrder`); the sink has exactly the chunks below `Base` as
long as more are written to it (`HasAll`), and some number of first chunks after a
link failed or was skipped (`WrittenInOrder`). An aborted sink in memory is emptied, and an
empty one is a prefix too. `WaitInOrder` and `WireInOrder` say that chunk `i`, in `reorder`,
in `early` or on a channel, is the i-th of its size. That size must be one:
`OneSize` asks for no reconnect, or for one possible chunk size, because the
metadata that a reconnected sender announces again leaves the receiver's chunk size as it
was. That the first chunks, one after the
other, are the file up to their end (`PiecesPrefix`) is a fact about a recursion,
`FlattenSeq`: `FlattenIs` says that any function which obeys it has its values,
since there is no least index at which they differ, and the prefixes of the file
are such a function.

`ReceiverCalm` (`NoFalseAlarm`) excludes, for such a file, every line that reports
an error. `AllWell` leaves a folder that refuses the file, a cancel, a sender that
gives up and any number of lost connections; a wait that runs out, a write that
fails, a worker that crashes and a sender that stops are left out because they do
end in an error, as they should. `Sized` says that all messages on their way, and all chunks
held, are of one size, so that none lies past the end of the file; `Unharmed`
that until the file was verified it has its hasher, its sink as soon as one was
opened, and no failed write. That no hole is found at the end is `Counted`, that a
file does not begin to finish twice `AnnouncedOnce`; and that the digest
is the announced one takes both the agreement of hasher and sink (`DataInv`) and
the order in the sink (`InOrder`): only then is what was hashed the whole file
(`WholeHashed`).

**The stored transfers.** `StoredTransfer_proofs` proves, for every finite number
of receivers, every number of chunks, every allowance and every set of faults
(`StoredAssumption`, `ReceiversFinite`), `StoredTypes`, `StoredOffer`,
`StoredFrozen`, `StoredGone` (`TypeOK`, `OfferedIsThere`, `Frozen`,
`GoneForGood`) and `StoredRefines`: the whole implements `StoredLifecycle`.
There may be three copies of the record at once - the stored one, the one in
memory, and the one a handler holds across an await - and the two invariants are
about their agreement: `Held` says whose copies may be saved, `CompleteOnce` and
`RevokedForGood` that none of them goes back on what another has seen, `CountIs`
that the count is that of the commits. On the uploader's side `Untouched`,
`UploadOrder` and `LinkFirst` say that `complete` is asked for only when every
PUT was answered, which makes `OfferedIsThere` and `Frozen` hold in the presence
of PUTs that are answered late. Every action has its lemma for the invariant;
`StepMaps` collects which of them are steps of the lifecycle.

**The sender's panel.** `SendPanel_proofs` proves `OneLoop`, `RightFiles`,
`CancelIsClean`, `IdleStays` and `DoneStays` for every number of starts and
reconnects (`SendPanelAssumption`). The invariant says that a `Straight` panel has
one try at most whose connections are not closed, that every loop that was not
aborted sends on that one, and that whatever could start another (an opening, a
backoff, a `connect()`) is there only while there is none.

**The session.** `SessionHasSender` proves that a session implements `SendPanel`,
so that its theorems hold there (`SessionSender`); `SessionListens` proves
`OneSet`, by an invariant of the receiver's panel of the same kind, for every
number of attempts, starts, faults and tries.

**The handshake.** `Handshake_proofs` proves `NoCandidateLost` and `FramesFit` for
every batch, number of candidates, set of limits and faults
(`HandshakeAssumption`; the second for limits without 0). A candidate that was
sent is on the wire, in one of the two queues of the connection, or with the
browser (`Whereabouts`), and the queues of a stable connection are empty
(`Queues`); that nothing overtakes the CONFIG (`ConfigFirst`) is needed because a
candidate for a connection that does not exist yet is dropped.

**The hash worker.** `HashWorker_proofs` proves `HashAnswers` (`AnswersMatch`) and
`HashReleased` (`StreamsReleased`) for every number of streams, files and pieces and
every set of faults (`HashAssumption`). The two sides meet in the queue to the
worker, and most of the invariant is about what is in it: the messages about one
stream carry its pieces on from those already in the hash state, in order and
without a gap, and a question comes after the pieces that were fed before it
(`InOrder`), although `update()` goes on posting after the question. So the
message in front is the next piece, or finds the hash state complete
(`FrontFacts`). A stream that was refused, aborted or answered has no hash state
and none on its way, because the "open" about it, if it is still queued, comes
first (`Opens`); otherwise it can be asked for, or the message that ends it is queued
(`Wanted`), which with an empty queue is `StreamsReleased`. That ids are never
shared (`Ids`) is what keeps an answer, and an error between question and answer,
from reaching another job.

**The arithmetic.** The first part of `Handshake_proofs` proves what the operators
of `Sizing` return for every number: a chunk is not empty and its frame fits its
limit (`ChunkFits`), and any larger one (`ChunkFitsLarger`); a batch gets 1 to 4
connections and a larger one no fewer; the window stays within its bounds whatever
is measured, never grows again once settled, and is never below its low watermark.

## 7. What is only model-checked, and what is not modelled

Liveness (`Settles`, `NothingLeftRunning`, `ArrivesUnlessMissed`, `PagesSettle`,
`SenderSettles`, `ReceiverSettles`, `Connects`, `AnsweredIfUp`) needs fairness and
is checked by TLC only. Every safety property a passing run checks is proved, most
of those of the receiver for the batches section 6 names. The type invariants and
the inductive invariants of the other modules are proved, and checked by no run
but that of the send loop, `IInv` of `pipeline_faults`.

Partly modelled: the panels (progress, statistics, dialogs and layout are left
out) and the signaling client (its HTTP calls are answers). In the send loop the
background hash is one step, whose inside is `HashWorker`.

Not modelled: encryption (`storecrypto.ts`, calls to Web Crypto), the pairing
code generator (a random choice), progress reports, statistics, error texts and ICE configuration
(display and configuration), type declarations of the wire protocol, and the
native shells and the landing page (platform glue; the desktop's write commands
are not called by the web application at this commit).

The map covers a small share of the repository's lines because most of them are
none of this: 6,800 of the 9,800 lines of `app/page.tsx` are older versions of it in
comments and much of the rest is JSX; tests, the landing page, the tutorial and the
drop zone make up most of the other files.
