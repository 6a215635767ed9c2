---------------------------- MODULE ReceivePanel ----------------------------
(***************************************************************************)
(* The receiver's panel (ReceivePanel in app/page.tsx) for one code: what  *)
(* it shows, the flags its callbacks share, and the asynchronous work that *)
(* outlives a lost connection, the stall watchdog or a cancel.  Each       *)
(* establishAndListen() has a number; its connections are one set.         *)
(***************************************************************************)
EXTENDS Integers, FiniteSets

CONSTANT MaxRetries     \* RECONNECT_BACKOFF_MS.length

ASSUME ReceivePanelAssumption == MaxRetries \in Nat

Listens == 1 .. MaxRetries + 1      \* the nth call of establishAndListen
NoListen == 0

VARIABLES
  rPhase, rTerminal, rEstablishing, rAttempts,  \* phase (and phaseRef) and the refs
  rStarted,         \* startLiveReceive() was called
  rOpening,         \* "check" or "join", what it awaits
  rClient,          \* its SignalingClient
  rCurrent,         \* signalingRef holds it
  rSleeping,        \* attemptReconnect()s in their backoff
  rRejoining,       \* those that await connect()
  rListens,         \* establishAndListen()s so far
  rConfigs,         \* those that wait for the CONFIG
  rBuilding,        \* those that await their connections
  rPeers,           \* peersRef: whose connections it holds
  rLive,            \* those whose connections are not closed
  rOpened,          \* those whose channel has opened
  rDeaf,            \* those whose listeners are on a client that was closed
  receiver,         \* the FileReceiver: "none", "ready" or "disposed"
  rLate,            \* a cancel or the watchdog found work it does not stop
  rTorn             \* a reconnect found an establishAndListen() in progress

rFlagVars == <<rPhase, rTerminal, rEstablishing, rAttempts>>
rRoomVars == <<rStarted, rOpening, rClient, rCurrent>>
rWaitVars == <<rSleeping, rRejoining>>
rListenVars == <<rListens, rConfigs, rBuilding, rPeers, rLive, rOpened, rDeaf>>
rHistoryVars == <<rLate, rTorn>>
receiveVars == <<rFlagVars, rRoomVars, rWaitVars, rListenVars, receiver, rHistoryVars>>

RIsConnected == rClient \in {"open", "mute"}
RShow(p) == rPhase' = p
ROver(p) == rPhase' = p /\ rTerminal' = TRUE

-----------------------------------------------------------------------------
(* What the handlers have in common *)

\* runListen(), and establishAndListen() up to waitForConfig().
RunListen ==
  IF rTerminal \/ rEstablishing
  THEN UNCHANGED <<rEstablishing, rListens, rConfigs>>
  ELSE /\ rEstablishing' = TRUE
       /\ rListens' = rListens + 1
       /\ rConfigs' = rConfigs \cup {rListens + 1}

\* Mutant of RClosePeers: they are forgotten, and stay open.
RForgetPeers == rPeers' = NoListen /\ UNCHANGED rLive

RClosePeers == rPeers' = NoListen /\ rLive' = rLive \ {rPeers}

\* attemptReconnect(), up to its backoff.
RAttemptReconnect ==
  IF rAttempts >= MaxRetries
  THEN /\ ROver("error")
       /\ UNCHANGED <<rEstablishing, rAttempts, rSleeping, rPeers, rLive, rTorn>>
  ELSE /\ RShow("reconnecting")
       /\ rAttempts' = rAttempts + 1
       /\ RClosePeers
       /\ rEstablishing' = FALSE
       /\ rSleeping' = rSleeping + 1
       /\ rTorn' = (rTorn \/ rConfigs \cup rBuilding # {})
       /\ UNCHANGED rTerminal

\* cleanup()
RCleanUp ==
  /\ RClosePeers
  /\ rClient' = IF rCurrent THEN "closed" ELSE rClient
  /\ rCurrent' = FALSE
  /\ rEstablishing' = FALSE
  /\ receiver' = IF receiver = "ready" THEN "disposed" ELSE receiver
  /\ rLate' = (rLate \/ rOpening # "no" \/ rSleeping > 0 \/ rRejoining > 0
                     \/ rConfigs \cup rBuilding # {})

-----------------------------------------------------------------------------
(* The user and the watchdog *)

StartReceive ==
  /\ rPhase = "idle" /\ ~rStarted
  /\ rStarted' = TRUE
  /\ rPhase' = "connecting" /\ rTerminal' = FALSE /\ rEstablishing' = FALSE
  /\ rAttempts' = 0
  /\ rOpening' = "check"
  /\ UNCHANGED <<rClient, rCurrent, rWaitVars, rListenVars, receiver, rHistoryVars>>

\* cancel()
CancelReceive ==
  /\ rPhase # "idle"
  /\ ROver("idle")
  /\ RCleanUp
  /\ UNCHANGED <<rAttempts, rStarted, rOpening, rWaitVars, rListens, rConfigs,
                 rBuilding, rOpened, rDeaf, rTorn>>

\* Mutant of Watched: only once bytes have come.
WatchedOnceReceiving == rPhase \in {"receiving", "verifying"}

Watched == rPhase \in {"connecting", "receiving", "verifying", "reconnecting"}

\* STALL_TIMEOUT_MS have passed since the last sign of life.
Watchdog ==
  /\ Watched /\ ~rTerminal
  /\ ROver("error")
  /\ RCleanUp
  /\ UNCHANGED <<rAttempts, rStarted, rOpening, rWaitVars, rListens, rConfigs,
                 rBuilding, rOpened, rDeaf, rTorn>>

-----------------------------------------------------------------------------
(* The room *)

\* checkRoom() found it; connect() is on its way.
RoomFound ==
  /\ rOpening = "check"
  /\ rOpening' = "join"
  /\ rClient' = "connecting"
  /\ rCurrent' = TRUE
  /\ UNCHANGED <<rFlagVars, rStarted, rWaitVars, rListenVars, receiver, rHistoryVars>>

RJoined ==
  /\ rOpening = "join" /\ rClient = "connecting"
  /\ rOpening' = "no"
  /\ rClient' = "open"
  /\ receiver' = "ready"
  /\ RunListen
  /\ UNCHANGED <<rPhase, rTerminal, rAttempts, rStarted, rCurrent, rWaitVars,
                 rBuilding, rPeers, rLive, rOpened, rDeaf, rHistoryVars>>

\* No such room, or the catch of startLiveReceive(): terminalRef stays as it is.
StartReceiveFails ==
  /\ rOpening # "no"
  /\ rOpening' = "no"
  /\ rClient' = IF rClient = "connecting" THEN "lost" ELSE rClient
  /\ RShow("error")
  /\ UNCHANGED <<rTerminal, rEstablishing, rAttempts, rStarted, rCurrent, rWaitVars,
                 rListenVars, receiver, rHistoryVars>>

ROnClose ==
  /\ RIsConnected
  /\ rClient' = "lost"
  /\ IF ~rTerminal /\ rPhase = "connecting"
     THEN RAttemptReconnect
     ELSE UNCHANGED <<rFlagVars, rSleeping, rPeers, rLive, rTorn>>
  /\ UNCHANGED <<rStarted, rOpening, rCurrent, rRejoining, rListens, rConfigs,
                 rBuilding, rOpened, rDeaf, receiver, rLate>>

RGoesMute ==
  /\ rClient = "open"
  /\ rClient' = "mute"
  /\ UNCHANGED <<rFlagVars, rStarted, rOpening, rCurrent, rWaitVars, rListenVars,
                 receiver, rHistoryVars>>

\* attemptReconnect() after its backoff.  Closing the client drops the
\* listeners of whatever was waiting on it.
RBackoffEnds ==
  /\ rSleeping > 0
  /\ rSleeping' = rSleeping - 1
  /\ IF RIsConnected
     THEN /\ RunListen
          /\ UNCHANGED <<rClient, rCurrent, rRejoining, rDeaf>>
     ELSE /\ rClient' = "connecting"
          /\ rCurrent' = TRUE
          /\ rRejoining' = rRejoining + 1
          /\ rDeaf' = rDeaf \cup rConfigs \cup rLive
          /\ UNCHANGED <<rEstablishing, rListens, rConfigs>>
  /\ UNCHANGED <<rPhase, rTerminal, rAttempts, rStarted, rOpening, rBuilding,
                 rPeers, rLive, rOpened, receiver, rHistoryVars>>

RRejoined ==
  /\ rRejoining > 0 /\ rClient = "connecting"
  /\ rRejoining' = rRejoining - 1
  /\ rClient' = "open"
  /\ RunListen
  /\ UNCHANGED <<rPhase, rTerminal, rAttempts, rStarted, rOpening, rCurrent,
                 rSleeping, rBuilding, rPeers, rLive, rOpened, rDeaf, receiver,
                 rHistoryVars>>

RRejoinFails ==
  /\ rRejoining > 0
  /\ rRejoining' = rRejoining - 1
  /\ rClient' = IF rClient = "connecting" /\ rRejoining = 1 THEN "lost" ELSE rClient
  /\ ROver("error")
  /\ UNCHANGED <<rEstablishing, rAttempts, rStarted, rOpening, rCurrent, rSleeping,
                 rListenVars, receiver, rHistoryVars>>

-----------------------------------------------------------------------------
(* The connections *)

\* waitForConfig() is over; the connections listen on the client of now.
Listen(heard) ==
  /\ rConfigs' = rConfigs \ heard
  /\ rBuilding' = rBuilding \cup heard
  /\ rLive' = rLive \cup heard
  /\ rDeaf' = rDeaf \ heard
  /\ UNCHANGED <<rFlagVars, rRoomVars, rWaitVars, rListens, rPeers, rOpened,
                 receiver, rHistoryVars>>

\* No connection can be made: the catch of runListen().
ListenThrows(heard) ==
  /\ heard # {}
  /\ rConfigs' = rConfigs \ heard
  /\ rEstablishing' = FALSE
  /\ IF rTerminal THEN UNCHANGED <<rPhase, rTerminal>> ELSE ROver("error")
  /\ UNCHANGED <<rAttempts, rRoomVars, rWaitVars, rListens, rBuilding, rPeers, rLive,
                 rOpened, rDeaf, receiver, rHistoryVars>>

WaitOver(heard) == Listen(heard) \/ ListenThrows(heard)
OnConfig == rClient = "open" /\ WaitOver(rConfigs \ rDeaf)
ConfigTimeout(h) == h \in rConfigs /\ WaitOver({h})

RChannelOpens(h) ==
  /\ h \in rLive \ rOpened
  /\ rOpened' = rOpened \cup {h}
  /\ UNCHANGED <<rFlagVars, rRoomVars, rWaitVars, rListens, rConfigs, rBuilding,
                 rPeers, rLive, rDeaf, receiver, rHistoryVars>>

\* establishParallelReceiverConnections() returns what has opened.
RBuilt(h) ==
  /\ h \in rBuilding
  /\ rBuilding' = rBuilding \ {h}
  /\ rEstablishing' = FALSE
  /\ IF h \in rOpened
     THEN /\ rPeers' = h
          /\ UNCHANGED <<rPhase, rLive>>
     ELSE /\ rPeers' = NoListen
          /\ rLive' = rLive \ {h}
          /\ rPhase' = IF rTerminal THEN rPhase ELSE "error"
  /\ UNCHANGED <<rTerminal, rAttempts, rRoomVars, rWaitVars, rListens, rConfigs,
                 rOpened, rDeaf, receiver, rHistoryVars>>

RConnectionLost(h) ==
  /\ h \in rLive
  /\ IF ~rTerminal
     THEN RAttemptReconnect
     ELSE UNCHANGED <<rFlagVars, rSleeping, rPeers, rLive, rTorn>>
  /\ UNCHANGED <<rRoomVars, rRejoining, rListens, rConfigs, rBuilding, rOpened,
                 rDeaf, receiver, rLate>>

-----------------------------------------------------------------------------
(* The FileReceiver reports *)

ReceiverSays(p, over) ==
  /\ receiver = "ready" /\ ~rTerminal
  /\ rPhase' = p
  /\ rTerminal' = over
  /\ UNCHANGED <<rEstablishing, rAttempts, rRoomVars, rWaitVars, rListenVars,
                 receiver, rHistoryVars>>

OnProgress == rPhase # "done" /\ ReceiverSays("receiving", FALSE)
OnVerifying == ReceiverSays("verifying", FALSE)
OnAllComplete == ReceiverSays("done", TRUE)
OnReceiveError == ReceiverSays("error", TRUE)

-----------------------------------------------------------------------------

ReceiveInit ==
  /\ rPhase = "idle" /\ rTerminal = FALSE /\ rEstablishing = FALSE /\ rAttempts = 0
  /\ rStarted = FALSE
  /\ rOpening = "no" /\ rClient = "none" /\ rCurrent = FALSE
  /\ rSleeping = 0 /\ rRejoining = 0
  /\ rListens = 0 /\ rPeers = NoListen
  /\ rConfigs = {} /\ rBuilding = {} /\ rLive = {} /\ rOpened = {} /\ rDeaf = {}
  /\ receiver = "none"
  /\ rLate = FALSE /\ rTorn = FALSE
=============================================================================
