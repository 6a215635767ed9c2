--------------------------- MODULE Session_proofs ---------------------------
(***************************************************************************)
(* What holds of the two panels that meet in a room, for every number of   *)
(* starts and reconnects, and every set and number of faults.              *)
(*                                                                         *)
(* The sender's panel of a session is the one of SendPanel, so that all    *)
(* that SendPanel_proofs shows of it alone holds in a session.             *)
(*                                                                         *)
(* The receiver listens on one set of connections because whatever could   *)
(* start another establishAndListen() (an opening, a backoff, a connect()) *)
(* is there only while there is none, and there is one of these at most.   *)
(***************************************************************************)
EXTENDS Session, SendPanel_proofs

\* The receiver's panel, whatever the room, the network and the user do.
ReceiveNext ==
  \/ StartReceive \/ CancelReceive \/ Watchdog
  \/ RoomFound \/ RJoined \/ StartReceiveFails \/ ROnClose \/ RGoesMute
  \/ RBackoffEnds \/ RRejoined \/ RRejoinFails \/ OnConfig
  \/ \E h \in Listens :
       ConfigTimeout(h) \/ RChannelOpens(h) \/ RBuilt(h) \/ RConnectionLost(h)
  \/ OnProgress \/ OnVerifying \/ OnAllComplete \/ OnReceiveError

ReceiveSpec == ReceiveInit /\ [][ReceiveNext]_receiveVars

\* startLiveReceive() or attemptReconnect() waits for something.
RUnrest == rOpening # "no" \/ rSleeping > 0 \/ rRejoining > 0

\* Nothing listens, and nothing will unless it is started.
Silent == ~rEstablishing /\ rConfigs = {} /\ rBuilding = {} /\ rLive = {}

\* One establishAndListen() is going on, or its connections are kept.
OneListen ==
  /\ rConfigs \cup rBuilding \subseteq {rListens}
  /\ rLive \subseteq rBuilding \cup {rPeers}
  /\ rEstablishing => rLive \subseteq rBuilding
  /\ ~rEstablishing => rConfigs = {} /\ rBuilding = {}
  /\ rConfigs # {} => rBuilding = {}

\* One thing waits, and while it does there is silence.
OneWaits ==
  /\ RUnrest => Silent
  /\ rSleeping \in Nat /\ rRejoining \in Nat /\ rSleeping + rRejoining <= 1
  /\ rOpening # "no" => rSleeping = 0 /\ rRejoining = 0 /\ ~RIsConnected
  /\ rPhase = "connecting" => rSleeping = 0 /\ rRejoining = 0

\* A page that has not started.
Fresh == ~rStarted => Silent /\ ~RUnrest /\ ~RIsConnected

Calm == ~rTorn /\ ~rLate
Single == OneListen /\ OneWaits /\ Fresh
RInv == Calm => Single

-----------------------------------------------------------------------------
(* The steps of the receiver's panel *)

USE DEF rFlagVars, rRoomVars, rWaitVars, rListenVars, rHistoryVars

\* A click finds a page that has not started.
LEMMA StartReceiveStep ==
  ASSUME RInv, StartReceive
  PROVE  RInv'
<1> SUFFICES ASSUME Calm' PROVE Single'
  BY DEF RInv
<1>1. Calm /\ Single
  BY DEF RInv, Calm, StartReceive
<1>2. OneListen'
  BY <1>1 DEF StartReceive, Single, OneListen, Fresh, Silent
<1>3. OneWaits'
  BY <1>1 DEF StartReceive, Single, OneWaits, Fresh, Silent, RUnrest, RIsConnected
<1>4. Fresh'
  BY <1>1 DEF StartReceive, Fresh
<1> QED BY <1>2, <1>3, <1>4 DEF Single

\* A cancel that finds nothing under way closes what there is.
LEMMA CancelReceiveStep ==
  ASSUME RInv, CancelReceive
  PROVE  RInv'
<1> SUFFICES ASSUME Calm' PROVE Single'
  BY DEF RInv
<1>1. Calm /\ Single
  BY DEF RInv, Calm, CancelReceive, ROver, RCleanUp, RClosePeers
<1>2. OneListen'
  BY <1>1 DEF CancelReceive, RCleanUp, RClosePeers, Calm, Single, OneListen
<1>3. OneWaits'
  BY <1>1 DEF CancelReceive, ROver, RCleanUp, RClosePeers, Single, OneWaits, Silent,
     RUnrest, RIsConnected
<1>4. Fresh'
  BY <1>1 DEF CancelReceive, RCleanUp, RClosePeers, Single, Fresh, Silent, RUnrest,
     RIsConnected
<1> QED BY <1>2, <1>3, <1>4 DEF Single

\* So does the watchdog.
LEMMA WatchdogStep ==
  ASSUME RInv, Watchdog
  PROVE  RInv'
<1> SUFFICES ASSUME Calm' PROVE Single'
  BY DEF RInv
<1>1. Calm /\ Single
  BY DEF RInv, Calm, Watchdog, ROver, RCleanUp, RClosePeers
<1>2. OneListen'
  BY <1>1 DEF Watchdog, RCleanUp, RClosePeers, Calm, Single, OneListen
<1>3. OneWaits'
  BY <1>1 DEF Watchdog, ROver, RCleanUp, RClosePeers, Single, OneWaits, Silent,
     RUnrest, RIsConnected
<1>4. Fresh'
  BY <1>1 DEF Watchdog, RCleanUp, RClosePeers, Single, Fresh, Silent, RUnrest,
     RIsConnected
<1> QED BY <1>2, <1>3, <1>4 DEF Single

\* The room is there.
LEMMA RoomFoundStep ==
  ASSUME RInv, RoomFound
  PROVE  RInv'
<1> SUFFICES ASSUME Calm' PROVE Single'
  BY DEF RInv
<1>1. Calm /\ Single
  BY DEF RInv, Calm, RoomFound
<1>2. OneListen'
  BY <1>1 DEF RoomFound, Single, OneListen
<1>3. OneWaits'
  BY <1>1 DEF RoomFound, Single, OneWaits, Silent, RUnrest, RIsConnected
<1>4. Fresh'
  BY <1>1 DEF RoomFound, Single, Fresh, RUnrest
<1> QED BY <1>2, <1>3, <1>4 DEF Single

\* The first establishAndListen() starts in silence.
LEMMA RJoinedStep ==
  ASSUME RInv, RJoined
  PROVE  RInv'
<1> SUFFICES ASSUME Calm' PROVE Single'
  BY DEF RInv
<1>1. Calm /\ Single
  BY DEF RInv, Calm, RJoined, RunListen
<1>2. OneListen'
  BY <1>1 DEF RJoined, RunListen, Single, OneListen, OneWaits, Silent, RUnrest
<1>3. OneWaits'
  BY <1>1 DEF RJoined, Single, OneWaits, RUnrest
<1>4. Fresh'
  BY <1>1 DEF RJoined, Single, Fresh, RUnrest
<1> QED BY <1>2, <1>3, <1>4 DEF Single

\* There is no room, or no socket.
LEMMA StartReceiveFailsStep ==
  ASSUME RInv, StartReceiveFails
  PROVE  RInv'
<1> SUFFICES ASSUME Calm' PROVE Single'
  BY DEF RInv
<1>1. Calm /\ Single
  BY DEF RInv, Calm, StartReceiveFails, RShow
<1>2. OneListen'
  BY <1>1 DEF StartReceiveFails, Single, OneListen
<1>3. OneWaits'
  BY <1>1 DEF StartReceiveFails, Single, OneWaits, RUnrest
<1>4. Fresh'
  BY <1>1 DEF StartReceiveFails, Single, Fresh, RUnrest
<1> QED BY <1>2, <1>3, <1>4 DEF Single

\* A socket that is found closed starts a reconnect before there is a connection.
LEMMA ROnCloseStep ==
  ASSUME RInv, ROnClose
  PROVE  RInv'
<1> SUFFICES ASSUME Calm' PROVE Single'
  BY DEF RInv
<1>1. Calm /\ Single
  BY DEF RInv, Calm, ROnClose, RAttemptReconnect, ROver, RShow, RClosePeers
<1>2. OneListen'
  BY <1>1 DEF ROnClose, RAttemptReconnect, RClosePeers, Calm, Single, OneListen
<1>3. OneWaits'
  <2>1. CASE rSleeping' # rSleeping
    <3>1. /\ rSleeping = 0 /\ rRejoining = 0 /\ rOpening = "no"
          /\ rSleeping' = 1 /\ rRejoining' = 0 /\ rOpening' = "no"
      BY <1>1, <2>1 DEF ROnClose, RAttemptReconnect, Single, OneWaits
    <3>2. rConfigs = {} /\ rBuilding = {}
      BY <2>1 DEF ROnClose, RAttemptReconnect, ROver, RShow, RClosePeers, Calm
    <3>3. Silent'
      BY <1>1, <2>1, <3>2 DEF ROnClose, RAttemptReconnect, RClosePeers, Single,
         OneListen, Silent
    <3> QED BY <2>1, <3>1, <3>3 DEF ROnClose, RAttemptReconnect, ROver, RShow,
       RClosePeers, OneWaits
  <2>2. CASE rSleeping' = rSleeping
    BY <1>1, <2>2 DEF ROnClose, Single, OneWaits, Silent, RUnrest
  <2> QED BY <2>1, <2>2
<1>4. Fresh'
  BY <1>1 DEF ROnClose, Single, Fresh
<1> QED BY <1>2, <1>3, <1>4 DEF Single

\* A socket dies.
LEMMA RGoesMuteStep ==
  ASSUME RInv, RGoesMute
  PROVE  RInv'
<1> SUFFICES ASSUME Calm' PROVE Single'
  BY DEF RInv
<1>1. Calm /\ Single
  BY DEF RInv, Calm, RGoesMute
<1>2. OneListen'
  BY <1>1 DEF RGoesMute, Single, OneListen
<1>3. OneWaits'
  BY <1>1 DEF RGoesMute, Single, OneWaits, Silent, RUnrest, RIsConnected
<1>4. Fresh'
  BY <1>1 DEF RGoesMute, Single, Fresh, RIsConnected
<1> QED BY <1>2, <1>3, <1>4 DEF Single

\* A backoff ends in silence.
LEMMA RBackoffEndsStep ==
  ASSUME RInv, RBackoffEnds
  PROVE  RInv'
<1> SUFFICES ASSUME Calm' PROVE Single'
  BY DEF RInv
<1>1. Calm /\ Single
  BY DEF RInv, Calm, RBackoffEnds, RunListen
<1>2. OneListen'
  BY <1>1 DEF RBackoffEnds, RunListen, Single, OneListen, OneWaits, Silent, RUnrest
<1>3. OneWaits'
  BY <1>1 DEF RBackoffEnds, Single, OneWaits, Silent, RUnrest
<1>4. Fresh'
  BY <1>1 DEF RBackoffEnds, Single, Fresh, RUnrest
<1> QED BY <1>2, <1>3, <1>4 DEF Single

\* So does a connect().
LEMMA RRejoinedStep ==
  ASSUME RInv, RRejoined
  PROVE  RInv'
<1> SUFFICES ASSUME Calm' PROVE Single'
  BY DEF RInv
<1>1. Calm /\ Single
  BY DEF RInv, Calm, RRejoined, RunListen
<1>2. OneListen'
  BY <1>1 DEF RRejoined, RunListen, Single, OneListen, OneWaits, Silent, RUnrest
<1>3. OneWaits'
  BY <1>1 DEF RRejoined, Single, OneWaits, RUnrest
<1>4. Fresh'
  BY <1>1 DEF RRejoined, Single, Fresh, RUnrest
<1> QED BY <1>2, <1>3, <1>4 DEF Single

\* It fails.
LEMMA RRejoinFailsStep ==
  ASSUME RInv, RRejoinFails
  PROVE  RInv'
<1> SUFFICES ASSUME Calm' PROVE Single'
  BY DEF RInv
<1>1. Calm /\ Single
  BY DEF RInv, Calm, RRejoinFails, ROver
<1>2. OneListen'
  BY <1>1 DEF RRejoinFails, Single, OneListen
<1>3. OneWaits'
  BY <1>1 DEF RRejoinFails, Single, OneWaits, RUnrest
<1>4. Fresh'
  BY <1>1 DEF RRejoinFails, Single, Fresh, RUnrest
<1> QED BY <1>2, <1>3, <1>4 DEF Single

\* A CONFIG, or its timeout, turns the wait into connections.
LEMMA OnConfigStep ==
  ASSUME RInv, OnConfig
  PROVE  RInv'
<1> SUFFICES ASSUME Calm' PROVE Single'
  BY DEF RInv
<1>1. Calm /\ Single
  BY DEF RInv, Calm, OnConfig, WaitOver, Listen, ListenThrows, ROver
<1>2. OneListen'
  BY <1>1 DEF OnConfig, WaitOver, Listen, ListenThrows, Single, OneListen
<1>3. OneWaits'
  BY <1>1 DEF OnConfig, WaitOver, Listen, ListenThrows, Single, OneWaits, Silent,
     RUnrest, RIsConnected
<1>4. Fresh'
  BY <1>1 DEF OnConfig, WaitOver, Listen, ListenThrows, Single, Fresh, RIsConnected
<1> QED BY <1>2, <1>3, <1>4 DEF Single

\* The wait for the CONFIG is over.
LEMMA ConfigTimeoutStep ==
  ASSUME RInv, NEW h \in Listens, ConfigTimeout(h)
  PROVE  RInv'
<1> SUFFICES ASSUME Calm' PROVE Single'
  BY DEF RInv
<1>1. Calm /\ Single
  BY DEF RInv, Calm, ConfigTimeout, WaitOver, Listen, ListenThrows, ROver
<1>2. OneListen'
  BY <1>1 DEF ConfigTimeout, WaitOver, Listen, ListenThrows, Single, OneListen
<1>3. OneWaits'
  BY <1>1 DEF ConfigTimeout, WaitOver, Listen, ListenThrows, Single, OneWaits, Silent,
     RUnrest
<1>4. Fresh'
  BY <1>1 DEF ConfigTimeout, WaitOver, Listen, ListenThrows, Single, Fresh, Silent
<1> QED BY <1>2, <1>3, <1>4 DEF Single

\* A channel opens.
LEMMA RChannelOpensStep ==
  ASSUME RInv, NEW h \in Listens, RChannelOpens(h)
  PROVE  RInv'
<1> SUFFICES ASSUME Calm' PROVE Single'
  BY DEF RInv
<1>1. Calm /\ Single
  BY DEF RInv, Calm, RChannelOpens
<1>2. OneListen'
  BY <1>1 DEF RChannelOpens, Single, OneListen
<1>3. OneWaits'
  BY <1>1 DEF RChannelOpens, Single, OneWaits, Silent, RUnrest
<1>4. Fresh'
  BY <1>1 DEF RChannelOpens, Single, Fresh, Silent
<1> QED BY <1>2, <1>3, <1>4 DEF Single

\* The connections are kept, or closed.
LEMMA RBuiltStep ==
  ASSUME RInv, NEW h \in Listens, RBuilt(h)
  PROVE  RInv'
<1> SUFFICES ASSUME Calm' PROVE Single'
  BY DEF RInv
<1>1. Calm /\ Single
  BY DEF RInv, Calm, RBuilt
<1>2. OneListen'
  BY <1>1 DEF RBuilt, Single, OneListen
<1>3. OneWaits'
  BY <1>1 DEF RBuilt, Single, OneWaits, Silent, RUnrest
<1>4. Fresh'
  BY <1>1 DEF RBuilt, Single, Fresh, Silent
<1> QED BY <1>2, <1>3, <1>4 DEF Single

\* A lost connection is closed before another is made.
LEMMA RConnectionLostStep ==
  ASSUME RInv, NEW h \in Listens, RConnectionLost(h)
  PROVE  RInv'
<1> SUFFICES ASSUME Calm' PROVE Single'
  BY DEF RInv
<1>1. Calm /\ Single
  BY DEF RInv, Calm, RConnectionLost, RAttemptReconnect, ROver, RShow, RClosePeers
<1>2. OneListen'
  BY <1>1 DEF RConnectionLost, RAttemptReconnect, RClosePeers, Calm, Single, OneListen
<1>3. OneWaits'
  <2>1. CASE rSleeping' # rSleeping
    <3>1. /\ rSleeping = 0 /\ rRejoining = 0 /\ rOpening = "no"
          /\ rSleeping' = 1 /\ rRejoining' = 0 /\ rOpening' = "no"
      BY <1>1, <2>1 DEF RConnectionLost, RAttemptReconnect, Single, OneWaits, Silent,
         RUnrest
    <3>2. rConfigs = {} /\ rBuilding = {}
      BY <2>1 DEF RConnectionLost, RAttemptReconnect, ROver, RShow, RClosePeers, Calm
    <3>3. Silent'
      BY <1>1, <2>1, <3>2 DEF RConnectionLost, RAttemptReconnect, RClosePeers, Single,
         OneListen, Silent
    <3> QED BY <2>1, <3>1, <3>3 DEF RConnectionLost, RAttemptReconnect, ROver, RShow,
       RClosePeers, OneWaits
  <2>2. CASE rSleeping' = rSleeping
    BY <1>1, <2>2 DEF RConnectionLost, Single, OneWaits, Silent, RUnrest
  <2> QED BY <2>1, <2>2
<1>4. Fresh'
  BY <1>1 DEF RConnectionLost, Single, Fresh, Silent
<1> QED BY <1>2, <1>3, <1>4 DEF Single

\* A report of the FileReceiver is shown, and changes nothing of this.
LEMMA SaysStep ==
  ASSUME RInv, NEW p \in {"receiving", "verifying", "done", "error"},
         NEW over \in BOOLEAN,
         ReceiverSays(p, over)
  PROVE  RInv'
<1> SUFFICES ASSUME Calm' PROVE Single'
  BY DEF RInv
<1>1. Calm /\ Single
  BY DEF RInv, Calm, ReceiverSays
<1> QED BY <1>1 DEF ReceiverSays, Single, OneListen, OneWaits, Fresh, Silent, RUnrest,
   RIsConnected

\* Nothing happens.
LEMMA StutterStep ==
  ASSUME RInv, UNCHANGED receiveVars
  PROVE  RInv'
BY DEF RInv, Calm, receiveVars, Single, OneListen, OneWaits, Fresh, Silent, RUnrest,
   RIsConnected

\* RInv is an invariant of the receiver's panel.
THEOREM ListensInvariance == ReceiveSpec => []RInv
<1>1. ReceiveInit => RInv
  BY DEF ReceiveInit, RInv, Calm, Single, OneListen, OneWaits, Fresh, Silent, RUnrest,
     RIsConnected
<1>2. RInv /\ [ReceiveNext]_receiveVars => RInv'
  <2> SUFFICES ASSUME RInv, [ReceiveNext]_receiveVars PROVE RInv'
    OBVIOUS
  <2>1. CASE OnProgress \/ OnVerifying \/ OnAllComplete \/ OnReceiveError
    BY <2>1, SaysStep DEF OnProgress, OnVerifying, OnAllComplete, OnReceiveError
  <2>2. CASE UNCHANGED receiveVars
    BY <2>2, StutterStep
  <2> QED BY <2>1, <2>2, StartReceiveStep, CancelReceiveStep, WatchdogStep,
     RoomFoundStep, RJoinedStep, StartReceiveFailsStep, ROnCloseStep, RGoesMuteStep,
     RBackoffEndsStep, RRejoinedStep, RRejoinFailsStep, OnConfigStep,
     ConfigTimeoutStep, RChannelOpensStep, RBuiltStep, RConnectionLostStep DEF
     ReceiveNext
<1> QED BY <1>1, <1>2, PTL DEF ReceiveSpec

-----------------------------------------------------------------------------
(* The panels of a session *)

HIDE DEF rFlagVars, rRoomVars, rWaitVars, rListenVars, rHistoryVars

\* A step of a session is one of the sender's panel, or leaves it alone.
LEMMA SendSteps == [Next]_vars => [SendNext]_sendVars
<1> SUFFICES ASSUME Next \/ UNCHANGED vars PROVE SendNext \/ UNCHANGED sendVars
  OBVIOUS
<1>1. ASSUME NEW s \in Starts,
             SenderCannotJoin(s) \/ SenderSocketCloses(s) \/ SenderSocketDies(s)
      PROVE  SendNext
  BY <1>1 DEF SenderCannotJoin, SenderSocketCloses, SenderSocketDies, SenderActs,
     SenderDoes, SendNext
<1>2. ASSUME NEW e \in Tries, SenderConnects(e) \/ SenderLoses(e) \/ LoopEnds(e)
      PROVE  SendNext
  BY <1>2 DEF SenderConnects, SenderLoses, LoopEnds, SenderActs, SenderDoes, SendNext
<1>3. CASE SenderUser \/ SenderGoesOn
  BY <1>3 DEF SenderUser, SenderGoesOn, SenderActs, SenderDoes, SendNext
<1>4. CASE ToSenderArrives
  <2>1. Code \in Starts
    BY SendPanelAssumption DEF Code, Starts
  <2> QED BY <1>4, <2>1 DEF ToSenderArrives, TakeAnswer, SenderDoes, SendNext
<1>5. ASSUME \/ ToReceiverArrives \/ RoomNotices \/ EndArrives
             \/ \E e \in Tries : LinkBreaks(e)
      PROVE  UNCHANGED sendVars
  BY <1>5 DEF ToReceiverArrives, TakeOffer, RoomNotices, EndArrives, LinkBreaks
<1>6. ASSUME \/ ReceiverUser \/ ReceiverGoesOn \/ ReceiverCannotJoin
             \/ \E h \in Listens : ReceiverConnects(h) \/ ReceiverLoses(h)
             \/ ReceiverSocketCloses \/ ReceiverSocketDies \/ ReceiverStalls
             \/ ReceiverGets
      PROVE  UNCHANGED sendVars
  BY <1>6 DEF ReceiverUser, ReceiverGoesOn, ReceiverCannotJoin, ReceiverConnects,
     ReceiverLoses, ReceiverSocketCloses, ReceiverSocketDies, ReceiverStalls,
     ReceiverGets, ReceiverActs
<1> QED BY <1>1, <1>2, <1>3, <1>4, <1>5, <1>6 DEF Next, vars

\* The same of the receiver's.
LEMMA ReceiveSteps == [Next]_vars => [ReceiveNext]_receiveVars
<1> SUFFICES ASSUME Next \/ UNCHANGED vars PROVE ReceiveNext \/ UNCHANGED receiveVars
  OBVIOUS
<1>1. ASSUME \/ \E s \in Starts :
                  SenderCannotJoin(s) \/ SenderSocketCloses(s) \/ SenderSocketDies(s)
             \/ \E e \in Tries : SenderConnects(e) \/ SenderLoses(e) \/ LoopEnds(e)
             \/ SenderUser \/ SenderGoesOn
      PROVE  UNCHANGED receiveVars
  BY <1>1 DEF SenderCannotJoin, SenderSocketCloses, SenderSocketDies, SenderConnects,
     SenderLoses, LoopEnds, SenderUser, SenderGoesOn, SenderActs, SenderDoes
<1>2. ASSUME \/ ToSenderArrives \/ RoomNotices \/ EndArrives
             \/ \E e \in Tries : LinkBreaks(e)
      PROVE  UNCHANGED receiveVars
  BY <1>2 DEF ToSenderArrives, TakeAnswer, SenderDoes, RoomNotices, EndArrives,
     LinkBreaks
<1>3. CASE ToReceiverArrives
  BY <1>3 DEF ToReceiverArrives, TakeOffer, ReceiveNext
<1>4. ASSUME NEW h \in Listens, ReceiverConnects(h) \/ ReceiverLoses(h)
      PROVE  ReceiveNext
  BY <1>4 DEF ReceiverConnects, ReceiverLoses, ReceiverActs, ReceiveNext
<1>5. CASE \/ ReceiverUser \/ ReceiverGoesOn \/ ReceiverCannotJoin
           \/ ReceiverSocketCloses \/ ReceiverSocketDies \/ ReceiverStalls
           \/ ReceiverGets
  BY <1>5 DEF ReceiverUser, ReceiverGoesOn, ReceiverCannotJoin, ReceiverSocketCloses,
     ReceiverSocketDies, ReceiverStalls, ReceiverGets, ReceiverActs, ReceiveNext
<1> QED BY <1>1, <1>2, <1>3, <1>4, <1>5 DEF Next, vars

\* The sender's panel of a session is SendPanel: meeting a receiver in a room
\* restricts when its events come, and nothing else.
THEOREM SessionHasSender == Spec => SendSpec
BY SendSteps, PTL DEF Spec, Init, SendSpec

\* In a session, too, one send loop at most works, for the files of its start, a
\* cancel leaves nothing open, and what is over stays so (page.tsx 8399-8779).
THEOREM SessionSender ==
  Spec => [](OneLoop /\ RightFiles /\ CancelIsClean) /\ IdleStays /\ DoneStays
BY SessionHasSender, PanelOneLoop, PanelRightFiles, PanelCancelIsClean,
   PanelIdleStays, PanelDoneStays, PTL

\* The receiver listens on one set of connections at most, or waits for the
\* CONFIG of one, whatever is lost and made again, as long as no reconnect, no
\* cancel and no watchdog found an establishAndListen() it does not stop
\* (page.tsx 9056-9411).
THEOREM SessionListens == Spec => []OneSet
<1>1. RInv => OneSet
  <2> SUFFICES ASSUME Calm, Single PROVE Cardinality(rConfigs \cup rLive) <= 1
    BY DEF RInv, Calm, OneSet
  <2>1. \E x : rConfigs \cup rLive \subseteq {x}
    BY DEF Single, OneListen
  <2>2. PICK x : rConfigs \cup rLive \subseteq {x}
    BY <2>1
  <2>3. CASE rConfigs \cup rLive = {}
    <3>1. Cardinality({}) = 0
      BY FS_EmptySet
    <3> QED BY <2>3, <3>1
  <2>4. CASE rConfigs \cup rLive = {x}
    <3>1. Cardinality({x}) = 1
      BY FS_Singleton
    <3> QED BY <2>4, <3>1
  <2> QED BY <2>2, <2>3, <2>4
<1>2. Spec => ReceiveSpec
  BY ReceiveSteps, PTL DEF Spec, Init, ReceiveSpec
<1> QED BY <1>1, <1>2, ListensInvariance, PTL
=============================================================================
