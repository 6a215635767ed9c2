------------------------------ MODULE SendPanel ------------------------------
(***************************************************************************)
(* The sender's panel (SendPanel in app/page.tsx): what it shows, the      *)
(* flags its callbacks share, and the asynchronous work that a click, a    *)
(* message of the room, a lost connection or a cancel leaves behind.       *)
(* startSend() makes closures, which outlive a cancel: what they do is     *)
(* kept per start, what they share (the refs) is not. sendFiles() is a     *)
(* loop that ends well, ends with an error, or never ends (see             *)
(* SendPipeline).                                                          *)
(*                                                                         *)
(* When the events come is the environment's: Session says it.             *)
(***************************************************************************)
EXTENDS Integers, FiniteSets

CONSTANTS
  MaxStarts,        \* how often the user sends, at most
  MaxAttempts,      \* RECONNECT_BACKOFF_MS.length
  Modes             \* TRUE: several connections; FALSE: one

ASSUME SendPanelAssumption ==
  /\ MaxStarts \in Nat \ {0}
  /\ MaxAttempts \in Nat
  /\ Modes \subseteq BOOLEAN /\ Modes # {}

Starts == 1 .. MaxStarts
\* A start calls establishAndRun() once, and each of its reconnects at most twice.
MaxTries == MaxStarts * (2 * MaxAttempts + 1)
Tries == Starts \X (1 .. MaxTries)      \* the nth establishAndRun()
None == <<0, 0>>
StartOf(e) == e[1]

VARIABLES
  phase, terminal, establishing, attempts,  \* phase (and phaseRef) and the refs
  start,            \* the last startSend()
  left,             \* the checkpoint of that one has files left
  several,          \* connectionCount > 1
  opening,          \* per start: "room" or "join", what it awaits
  client,           \* per start: its SignalingClient
  current,          \* signalingRef: whose client
  sleeping,         \* per start: attemptReconnect()s in their backoff
  rejoining,        \* per start: those that await connect()
  tries,            \* per start: establishAndRun()s so far
  peers,            \* peersRef: the try whose connections it holds
  live,             \* the tries whose connections are not closed
  opened,           \* the tries whose channel has opened, or never will
  building,         \* the tries that await their parallel connections
  deaf,             \* the tries whose listeners are on a client that was closed
  measuring,        \* the tries that await the round-trip time
  loops,            \* the tries whose sendFiles() has not ended
  stopped,          \* those of them that were aborted
  aborted,          \* the current AbortController is
  cargo,            \* per try: the start whose checkpoint it sends
  late,             \* a cancel found a continuation that it does not stop
  crossed              \* two recoveries were under way at once

flagVars == <<phase, terminal, establishing, attempts>>
startVars == <<start, several>>
roomVars == <<opening, client, current>>
waitVars == <<sleeping, rejoining>>
tryVars == <<tries, peers, live, opened, building, deaf>>
loopVars == <<measuring, loops, stopped, aborted, cargo, left>>
historyVars == <<late, crossed>>
sendVars == <<flagVars, startVars, roomVars, waitVars, tryVars, loopVars, historyVars>>

Phases == {"idle", "waiting", "connecting", "sending", "reconnecting", "done", "error"}
Clients == {"none", "connecting", "open", "mute", "lost", "closed"}

\* readyState is OPEN, also when nothing arrives any more.
IsConnected(s) == client[s] \in {"open", "mute"}

-----------------------------------------------------------------------------
(* What the handlers have in common *)

Show(p) == phase' = p
Over(p) == phase' = p /\ terminal' = TRUE
Stays == UNCHANGED <<phase, terminal>>

\* Mutant of AbortLoops: a reconnect leaves the old loop alone.
KeepLoops == UNCHANGED <<stopped, aborted>>

\* A reconnect aborts the loops, and makes another AbortController.
AbortLoops == stopped' = loops /\ aborted' = FALSE

\* The connections of another try, in the place of those peersRef holds.  `sleepers`
\* are the reconnects that are still in their backoff.
Try(s, sleepers) ==
  LET e == <<s, tries[s] + 1>> IN
  /\ tries[s] < MaxTries
  /\ tries' = [tries EXCEPT ![s] = @ + 1]
  /\ live' = (live \ {peers}) \cup {e}
  /\ peers' = IF several THEN None ELSE e
  /\ building' = IF several THEN building \cup {e} ELSE building
  /\ crossed' = (crossed \/ \E r \in Starts : sleepers[r] > 0 \/ rejoining[r] > 0)

\* establishAndRun(), up to its first wait; the offer of a single connection
\* is out by then.
Establish(s, sleepers) ==
  /\ Try(s, sleepers)
  /\ Show("connecting")
  /\ establishing' = several
  /\ UNCHANGED <<terminal, attempts, opened, deaf>>

\* establishAndRun() throws: before it has made a connection; or out of initiate(),
\* whose connection, without an offer, stays in peersRef and will not open.
EstablishThrows(s, sleepers) ==
  /\ Over("error")
  /\ \/ /\ live' = live \ {peers}
        /\ peers' = None
        /\ UNCHANGED <<tries, opened, building, crossed>>
     \/ /\ ~several
        /\ Try(s, sleepers)
        /\ opened' = opened \cup {<<s, tries'[s]>>}
  /\ UNCHANGED <<establishing, attempts, deaf>>

\* Mutant of MayEstablish: only where the sender waits for the receiver.
WhileWaiting == ~terminal /\ ~establishing /\ phase = "waiting"

MayEstablish == ~terminal /\ ~establishing /\ phase \in {"waiting", "reconnecting"}

\* runEstablish()
RunEstablish(s, sleepers) ==
  IF MayEstablish THEN Establish(s, sleepers) \/ EstablishThrows(s, sleepers)
                  ELSE UNCHANGED <<flagVars, tryVars, crossed>>

\* attemptReconnect(), up to its backoff.
AttemptReconnect(s) ==
  IF attempts >= MaxAttempts
  THEN /\ Over("error")
       /\ UNCHANGED <<establishing, attempts, sleeping, tryVars, stopped, aborted, crossed>>
  ELSE /\ Show("reconnecting")
       /\ attempts' = attempts + 1
       /\ AbortLoops
       /\ live' = live \ {peers}
       /\ peers' = None
       /\ establishing' = FALSE
       /\ sleeping' = [sleeping EXCEPT ![s] = @ + 1]
       /\ crossed' = (crossed \/ building # {})
       /\ UNCHANGED <<terminal, tries, opened, building, deaf>>

\* The continuations that a cancel does not stop.
Outstanding ==
  \/ \E s \in Starts : opening[s] # "no" \/ sleeping[s] > 0 \/ rejoining[s] > 0
  \/ building # {}

-----------------------------------------------------------------------------
(* The user *)

StartSend ==
  /\ phase = "idle" /\ start < MaxStarts
  /\ phase' = "waiting" /\ terminal' = FALSE /\ establishing' = FALSE
  /\ attempts' = 0
  /\ start' = start + 1
  /\ left' = TRUE
  /\ aborted' = FALSE
  /\ opening' = [opening EXCEPT ![start + 1] = "room"]
  /\ UNCHANGED <<several, client, current, waitVars, tryVars, measuring, loops,
                 stopped, cargo, historyVars>>

CloseClient ==
  /\ client' = IF current = 0 THEN client ELSE [client EXCEPT ![current] = "closed"]
  /\ current' = 0
ClosePeers == live' = live \ {peers} /\ peers' = None

\* Mutants of CleanUp: the connections stay open; the socket does.
CleanUpSocket == CloseClient /\ peers' = None /\ establishing' = FALSE /\ UNCHANGED live
CleanUpPeers == ClosePeers /\ current' = 0 /\ establishing' = FALSE /\ UNCHANGED client

\* cleanup()
CleanUp == ClosePeers /\ CloseClient /\ establishing' = FALSE

\* cancel()
Cancel ==
  /\ phase # "idle"
  /\ phase' = "idle" /\ terminal' = TRUE
  /\ stopped' = loops /\ aborted' = TRUE
  /\ CleanUp
  /\ late' = (late \/ Outstanding)
  /\ UNCHANGED <<attempts, startVars, opening, waitVars, tries, opened, building, deaf,
                 measuring, loops, cargo, left, crossed>>

-----------------------------------------------------------------------------
(* The room *)

\* createRoom() has answered, connect() is on its way.
RoomMade(s) ==
  /\ opening[s] = "room"
  /\ opening' = [opening EXCEPT ![s] = "join"]
  /\ client' = [client EXCEPT ![s] = "connecting"]
  /\ current' = s
  /\ UNCHANGED <<flagVars, startVars, waitVars, tryVars, loopVars, historyVars>>

Joined(s) ==
  /\ opening[s] = "join" /\ client[s] = "connecting"
  /\ opening' = [opening EXCEPT ![s] = "no"]
  /\ client' = [client EXCEPT ![s] = "open"]
  /\ UNCHANGED <<flagVars, startVars, current, waitVars, tryVars, loopVars, historyVars>>

\* The catch of startSend(); a client that cancel() closed ends here too.
StartFails(s) ==
  /\ opening[s] # "no"
  /\ opening' = [opening EXCEPT ![s] = "no"]
  /\ client' = [client EXCEPT ![s] = IF @ = "connecting" THEN "lost" ELSE @]
  /\ Over("error")
  /\ UNCHANGED <<establishing, attempts, startVars, current, waitVars, tryVars,
                 loopVars, historyVars>>

\* PEER_JOINED
OnPeerJoined(s) ==
  /\ client[s] = "open"
  /\ RunEstablish(s, sleeping)
  /\ UNCHANGED <<startVars, roomVars, waitVars, loopVars, late>>

\* PEER_LEFT
OnPeerLeft(s) ==
  /\ client[s] = "open"
  /\ Over("error")
  /\ UNCHANGED <<establishing, attempts, startVars, roomVars, waitVars, tryVars,
                 loopVars, historyVars>>

\* The socket is found closed: its handlers run only once startSend() or
\* attemptReconnect() attached them.
OnClose(s) ==
  /\ IsConnected(s)
  /\ client' = [client EXCEPT ![s] = "lost"]
  /\ IF ~terminal /\ phase = "waiting"
     THEN AttemptReconnect(s)
     ELSE UNCHANGED <<flagVars, sleeping, tryVars, stopped, aborted, crossed>>
  /\ UNCHANGED <<startVars, opening, current, rejoining, measuring, loops, cargo,
                 left, late>>

\* The path of the socket dies, and nobody is told.
GoesMute(s) ==
  /\ client[s] = "open"
  /\ client' = [client EXCEPT ![s] = "mute"]
  /\ UNCHANGED <<flagVars, startVars, opening, current, waitVars, tryVars,
                 loopVars, historyVars>>

\* attemptReconnect() after its backoff, which is longer than a measurement:
\* one on closed connections is over.
BackoffEnds(s) ==
  /\ sleeping[s] > 0
  /\ measuring \subseteq live
  /\ sleeping' = [sleeping EXCEPT ![s] = @ - 1]
  /\ IF IsConnected(s)
     THEN /\ RunEstablish(s, [sleeping EXCEPT ![s] = @ - 1])
          /\ UNCHANGED <<client, current, rejoining>>
     ELSE /\ client' = [client EXCEPT ![s] = "connecting"]
          /\ current' = s
          /\ rejoining' = [rejoining EXCEPT ![s] = @ + 1]
          /\ deaf' = deaf \cup {e \in live : StartOf(e) = s}
          /\ UNCHANGED <<flagVars, tries, peers, live, opened, building, crossed>>
  /\ UNCHANGED <<startVars, opening, loopVars, late>>

Rejoined(s) ==
  /\ rejoining[s] > 0 /\ client[s] = "connecting"
  /\ rejoining' = [rejoining EXCEPT ![s] = @ - 1]
  /\ client' = [client EXCEPT ![s] = "open"]
  /\ Show("waiting")
  /\ UNCHANGED <<terminal, establishing, attempts, startVars, opening, current,
                 sleeping, tryVars, loopVars, historyVars>>

\* connect() fails, or its client was closed or replaced.
RejoinFails(s) ==
  /\ rejoining[s] > 0
  /\ rejoining' = [rejoining EXCEPT ![s] = @ - 1]
  /\ client' = [client EXCEPT ![s] =
       IF @ = "connecting" /\ rejoining[s] = 1 THEN "lost" ELSE @]
  /\ Over("error")
  /\ UNCHANGED <<establishing, attempts, startVars, opening, current, sleeping,
                 tryVars, loopVars, historyVars>>

-----------------------------------------------------------------------------
(* The connections *)

\* runTransfer(), up to its measurement.
RunTransfer(e) ==
  /\ Show("sending")
  /\ measuring' = measuring \cup {e}
  /\ cargo' = [cargo EXCEPT ![e] = start]

\* The channel of a single connection opens.
ChannelOpens(e) ==
  /\ e \in live \ opened /\ ~several
  /\ opened' = opened \cup {e}
  /\ RunTransfer(e)
  /\ UNCHANGED <<terminal, establishing, attempts, startVars, roomVars, waitVars,
                 tries, peers, live, building, deaf, loops, stopped, aborted, left, historyVars>>

\* establishParallelSenderConnections() returns the connections that opened.
Built(e) ==
  /\ e \in building
  /\ building' = building \ {e}
  /\ establishing' = FALSE
  /\ peers' = e
  /\ opened' = opened \cup {e}
  /\ RunTransfer(e)
  /\ UNCHANGED <<terminal, attempts, startVars, roomVars, waitVars, tries, live, deaf,
                 loops, stopped, aborted, left, historyVars>>

\* None did in time.
NoneBuilt(e) ==
  /\ e \in building
  /\ building' = building \ {e}
  /\ establishing' = FALSE
  /\ peers' = None
  /\ live' = live \ {e}
  /\ Over("error")
  /\ UNCHANGED <<attempts, startVars, roomVars, waitVars, tries, opened, deaf, loopVars,
                 historyVars>>

\* Mutant of ToResume: whatever the panel is at.
AlwaysResume == attempts <= MaxAttempts

ToResume == ~terminal /\ left

\* "failed" or "disconnected"
ConnectionLost(e) ==
  /\ e \in live
  /\ IF ToResume
     THEN AttemptReconnect(StartOf(e))
     ELSE UNCHANGED <<flagVars, sleeping, tryVars, stopped, aborted, crossed>>
  /\ UNCHANGED <<startVars, roomVars, rejoining, measuring, loops, cargo, left, late>>

-----------------------------------------------------------------------------
(* sendFiles() *)

\* Mutant of Report: a panel that is over is told too.
ReportsAnyway(p) == Over(p)

\* onError(), onAllComplete(): reported once at most.
Report(p) == IF terminal THEN Stays ELSE Over(p)

\* The time is known, or given up: the loop starts, with the AbortController
\* of this moment; it fails at once on a closed channel or when aborted.
Measured(e) ==
  /\ e \in measuring
  /\ measuring' = measuring \ {e}
  /\ IF e \in live /\ ~aborted
     THEN loops' = loops \cup {e} /\ Stays
     ELSE Report("error") /\ UNCHANGED loops
  /\ UNCHANGED <<establishing, attempts, startVars, roomVars, waitVars, tryVars,
                 stopped, aborted, cargo, left, historyVars>>

Ends(e) ==
  /\ loops' = loops \ {e}
  /\ stopped' = stopped \ {e}
  /\ UNCHANGED <<establishing, attempts, startVars, roomVars, waitVars, tryVars,
                 measuring, aborted, cargo, historyVars>>

\* onFileFullySent() of the last file and onAllComplete()
LoopCompletes(e) ==
  /\ e \in loops \ stopped
  /\ left' = (left /\ cargo[e] # start)
  /\ Report("done")
  /\ Ends(e)

\* The catch of sendFiles(): a channel closed, an abort, a CANCEL, a read error.
LoopFails(e) ==
  /\ e \in loops
  /\ Report("error")
  /\ Ends(e) /\ UNCHANGED left

\* An abort while TRANSFER_COMPLETE of the last file waits for the channel.
LoopFallsSilent(e) ==
  /\ e \in stopped
  /\ left' = (left /\ cargo[e] # start)
  /\ Stays
  /\ Ends(e)

-----------------------------------------------------------------------------

SendInit ==
  /\ phase = "idle" /\ terminal = FALSE /\ establishing = FALSE /\ attempts = 0
  /\ start = 0 /\ left = FALSE
  /\ several \in Modes
  /\ opening = [s \in Starts |-> "no"]
  /\ client = [s \in Starts |-> "none"]
  /\ current = 0
  /\ sleeping = [s \in Starts |-> 0] /\ rejoining = [s \in Starts |-> 0]
  /\ tries = [s \in Starts |-> 0]
  /\ peers = None
  /\ live = {} /\ opened = {} /\ deaf = {} /\ building = {} /\ measuring = {}
  /\ loops = {} /\ stopped = {} /\ aborted = FALSE
  /\ cargo = [e \in Tries |-> 0]
  /\ late = FALSE /\ crossed = FALSE

SendNext ==
  \/ StartSend \/ Cancel
  \/ \E s \in Starts :
       \/ RoomMade(s) \/ Joined(s) \/ StartFails(s)
       \/ OnPeerJoined(s) \/ OnPeerLeft(s) \/ OnClose(s) \/ GoesMute(s)
       \/ BackoffEnds(s) \/ Rejoined(s) \/ RejoinFails(s)
  \/ \E e \in Tries :
       \/ ChannelOpens(e) \/ Built(e) \/ NoneBuilt(e) \/ ConnectionLost(e)
       \/ Measured(e) \/ LoopCompletes(e) \/ LoopFails(e) \/ LoopFallsSilent(e)

\* The panel, whatever the room, the network and the user do.
SendSpec == SendInit /\ [][SendNext]_sendVars

-----------------------------------------------------------------------------
(* Properties *)

\* What the panel does once two recoveries have met, or a cancel has left one
\* behind, no property speaks of: a run need not follow it.
Straight == ~late /\ ~crossed

SendTypeOK ==
  /\ phase \in Phases /\ terminal \in BOOLEAN /\ establishing \in BOOLEAN
  /\ attempts \in 0 .. MaxAttempts
  /\ start \in 0 .. MaxStarts /\ left \in BOOLEAN /\ several \in BOOLEAN
  /\ opening \in [Starts -> {"no", "room", "join"}]
  /\ client \in [Starts -> Clients]
  /\ current \in 0 .. MaxStarts
  /\ sleeping \in [Starts -> Nat] /\ rejoining \in [Starts -> Nat]
  /\ tries \in [Starts -> Nat]
  /\ peers \in Tries \cup {None}
  /\ live \subseteq Tries /\ opened \subseteq Tries /\ building \subseteq live /\ deaf \subseteq Tries
  /\ measuring \subseteq Tries /\ stopped \subseteq loops /\ loops \subseteq Tries
  /\ aborted \in BOOLEAN
  /\ cargo \in [Tries -> 0 .. MaxStarts]
  /\ late \in BOOLEAN /\ crossed \in BOOLEAN

\* However often the connection is lost and made again, one send loop at most
\* works for the panel, unless a reconnect or a cancel left one to itself that
\* it does not know of.
OneLoop == crossed \/ late \/ Cardinality(loops \ stopped) <= 1

\* What goes into a room's connection are the files that were chosen with its
\* code: a transfer that was cancelled and the next one share every ref.
RightFiles == late \/ crossed \/ \A e \in loops \cup measuring : cargo[e] = StartOf(e)

\* A panel that was cancelled holds nothing open and sends nothing more.
CancelIsClean ==
  phase = "idle" /\ ~late /\ ~crossed =>
    /\ live = {} /\ loops = stopped
    /\ \A s \in Starts : client[s] \in {"none", "lost", "closed"}

\* And it stays as it is until the user sends again.
IdleStays ==
  [][phase = "idle" /\ ~late /\ ~crossed =>
       phase' = "idle" \/ start' # start]_sendVars

\* A transfer that is done is not undone, unless the room says that the
\* receiver left.
DoneStays ==
  [][phase = "done" /\ ~late /\ ~crossed =>
       phase' \in {"done", "idle"} \/ \E s \in Starts : OnPeerLeft(s)]_sendVars
=============================================================================
