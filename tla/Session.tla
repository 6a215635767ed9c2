------------------------------- MODULE Session -------------------------------
(***************************************************************************)
(* A sender's and a receiver's panel that meet in a room: the messages the *)
(* room relays, the offers and answers they carry, and the connections     *)
(* that come of them.  The first start of the sender has the code that the *)
(* receiver enters; to the room of a later start nobody comes.             *)
(*                                                                         *)
(* The room is the one of TransferRoom: it tells the sender when the       *)
(* receiver's socket comes or goes.  What it tells the receiver about the  *)
(* sender, nobody listens to.                                              *)
(***************************************************************************)
EXTENDS SendPanel, ReceivePanel, SequencesExt

CONSTANTS
  MaxDrops,         \* sockets and connections that break, at most
  Faults            \* "socket": a closed socket; "mute": a dead one nobody
                    \* is told of; "link": a connection; "slow": the timers of a
                    \* handshake run out while it is going on

ASSUME SessionAssumption ==
  MaxDrops \in Nat /\ Faults \subseteq {"socket", "mute", "link", "slow"}

VARIABLES
  inRoom,           \* whose sockets the room holds
  toSender,         \* on its way to the sender's socket in that room
  toReceiver,       \* on its way to the receiver's socket
  heard,            \* per listen: the try whose offer its connections have taken
  answered,         \* per try: the listen whose answer it has taken
  cut,              \* the tries whose connection is broken
  sentAll,          \* the try whose channel took the end of the last file
  got,              \* it has reached the receiver
  drops,            \* what has broken so far
  missed            \* an offer or an answer found nobody who could take it

netVars == <<inRoom, toSender, toReceiver, heard, answered, cut, sentAll, got, drops, missed>>
vars == <<sendVars, receiveVars, netVars>>

Code == 1                       \* the start the receiver has the code of

Message(k, e, h) == [kind |-> k, try |-> e, listen |-> h]
PeerJoined == Message("joined", None, NoListen)
PeerLeft == Message("left", None, NoListen)
Config == Message("config", None, NoListen)
Offer(e) == Message("offer", e, NoListen)
Answer(e, h) == Message("answer", e, h)

SenderThere == client[Code] = "open"
ReceiverThere == rClient = "open"
Lost(q) == \E i \in DOMAIN q : q[i].kind \in {"offer", "answer"}

-----------------------------------------------------------------------------
(* The room.  A panel's step may join it, leave it, or speak to it. *)

\* What a step of the sender does to the room and to what is on its way; `inbox`
\* is what it has yet to hear.
SenderDoes(A, inbox) ==
  LET joins == ~SenderThere /\ client'[Code] = "open"
      stays == SenderThere /\ client'[Code] = "open"
      try == <<Code, tries'[Code]>>
      tried == tries'[Code] > tries[Code]
      offers == tried /\ try \notin opened'
  IN
  /\ A
  /\ inRoom' = IF joins THEN inRoom \cup {"sender"} ELSE inRoom
  /\ toSender' = IF stays THEN inbox
                 ELSE IF joins /\ "receiver" \in inRoom THEN <<PeerJoined>> ELSE <<>>
  /\ toReceiver' = IF tried /\ SenderThere /\ ReceiverThere
                   THEN toReceiver \o (IF offers THEN <<Config, Offer(try)>> ELSE <<Config>>)
                   ELSE toReceiver
  /\ missed' = \/ missed
               \/ (~stays /\ Lost(inbox))
               \/ (offers /\ ~(SenderThere /\ ReceiverThere))
  /\ UNCHANGED <<receiveVars, heard, answered, cut, got>>
SenderActs(A) == SenderDoes(A, toSender) /\ UNCHANGED sentAll

\* The same of the receiver.
ReceiverActs(A) ==
  LET joins == ~ReceiverThere /\ rClient' = "open"
      stays == ReceiverThere /\ rClient' = "open"
  IN
  /\ A
  /\ inRoom' = IF joins THEN inRoom \cup {"receiver"} ELSE inRoom
  /\ toReceiver' = IF stays THEN toReceiver ELSE <<>>
  /\ toSender' = IF joins /\ "sender" \in inRoom /\ SenderThere
                 THEN Append(toSender, PeerJoined) ELSE toSender
  /\ missed' = (missed \/ (~stays /\ Lost(toReceiver)))
  /\ UNCHANGED <<sendVars, heard, answered, cut, sentAll, got>>

\* webSocketClose()
RoomNotices ==
  \/ /\ "receiver" \in inRoom /\ ~ReceiverThere
     /\ inRoom' = inRoom \ {"receiver"}
     /\ toSender' = IF SenderThere THEN Append(toSender, PeerLeft) ELSE toSender
     /\ UNCHANGED <<sendVars, receiveVars, toReceiver, heard, answered, cut,
                    sentAll, got, drops, missed>>
  \/ /\ "sender" \in inRoom /\ ~SenderThere
     /\ inRoom' = inRoom \ {"sender"}
     /\ UNCHANGED <<sendVars, receiveVars, toSender, toReceiver, heard, answered,
                    cut, sentAll, got, drops, missed>>

Break(f) == f \in Faults /\ drops < MaxDrops /\ drops' = drops + 1
Whole == drops' = drops

-----------------------------------------------------------------------------
(* The connections *)

\* Both ends are there, and each has the other's description.
Talks(e, h) ==
  /\ e \in live \ cut /\ h \in rLive
  /\ answered[e] = h /\ heard[h] = e

\* A handshake is going on: its timers need not run out.
Underway == toSender # <<>> \/ toReceiver # <<>>
Slow == "slow" \in Faults
SenderWaitsOn(e) == Underway \/ \E h \in rLive : Talks(e, h)
ReceiverWaitsOn(h) == Underway \/ \E e \in live : Talks(e, h)

\* handleAnswer() of every connection that still listens, and has made its offer.
TakeAnswer(h) ==
  LET takers == {e \in live \ (deaf \cup opened) : StartOf(e) = Code /\ answered[e] = NoListen} IN
  /\ answered' = [e \in Tries |-> IF e \in takers THEN h ELSE answered[e]]
  /\ missed' = (missed \/ \A e \in takers : heard[h] # e)
  /\ UNCHANGED <<sendVars, receiveVars, inRoom, toReceiver, heard, cut, sentAll, got, drops>>

\* handleOffer() of every connection that listens and has no offer yet.
TakeOffer(e) ==
  LET takers == {h \in rLive \ rDeaf : heard[h] = None} IN
  /\ heard' = [h \in Listens |-> IF h \in takers THEN e ELSE heard[h]]
  /\ \E order \in SetToSeqs(takers) :
       toSender' = IF SenderThere THEN toSender \o [i \in DOMAIN order |-> Answer(e, order[i])]
                                  ELSE toSender
  /\ missed' = (missed \/ takers = {} \/ ~SenderThere)
  /\ UNCHANGED <<sendVars, receiveVars, inRoom, answered, cut, sentAll, got, drops>>

-----------------------------------------------------------------------------
(* The steps *)

\* A message of the room reaches the sender.
ToSenderArrives ==
  /\ toSender # <<>> /\ SenderThere
  /\ LET m == Head(toSender) IN
     \/ /\ m.kind = "joined"
        /\ SenderDoes(OnPeerJoined(Code), Tail(toSender))
        /\ UNCHANGED <<sentAll, drops>>
     \/ /\ m.kind = "left"
        /\ SenderDoes(OnPeerLeft(Code), Tail(toSender))
        /\ UNCHANGED <<sentAll, drops>>
     \/ /\ m.kind = "answer"
        /\ TakeAnswer(m.listen)
        /\ toSender' = Tail(toSender)

\* A message of the sender reaches the receiver.
ToReceiverArrives ==
  /\ toReceiver # <<>> /\ ReceiverThere
  /\ toReceiver' = Tail(toReceiver)
  /\ LET m == Head(toReceiver) IN
     \/ /\ m.kind = "config"
        /\ OnConfig
        /\ UNCHANGED <<sendVars, inRoom, toSender, heard, answered, cut, sentAll,
                       got, drops, missed>>
     \/ m.kind = "offer" /\ TakeOffer(m.try)

SenderUser == SenderActs(StartSend \/ Cancel) /\ Whole

\* What the sender waits for comes.
SenderGoesOn ==
  /\ SenderActs(\/ \E s \in Starts : RoomMade(s) \/ Joined(s) \/ BackoffEnds(s) \/ Rejoined(s)
                \/ \E e \in Tries : Measured(e))
  /\ Whole

\* A connect() that was cancelled fails, and any other may.
SenderCannotJoin(s) ==
  /\ SenderActs(StartFails(s) \/ RejoinFails(s))
  /\ IF client[s] # "connecting" \/ rejoining[s] > 1 THEN Whole ELSE Break("socket")

SenderConnects(e) ==
  /\ SenderActs(\/ \E h \in Listens : Talks(e, h) /\ (ChannelOpens(e) \/ Built(e))
                \/ (Slow \/ ~SenderWaitsOn(e)) /\ NoneBuilt(e))
  /\ Whole

\* The connection had the descriptions of both ends, and fails.
SenderLoses(e) ==
  /\ answered[e] # NoListen /\ ~Talks(e, answered[e])
  /\ SenderActs(ConnectionLost(e))
  /\ Whole

\* The heartbeat closes a socket that is mute.
SenderSocketCloses(s) ==
  /\ SenderActs(OnClose(s))
  /\ IF client[s] = "mute" THEN Whole ELSE Break("socket")
SenderSocketDies(s) == SenderActs(GoesMute(s)) /\ Break("mute")

\* A loop that completes has handed everything to a channel that was not closed;
\* what is in its buffers arrives, or does not.
LoopEnds(e) ==
  /\ \/ e \in live /\ SenderDoes(LoopCompletes(e), toSender)
        /\ sentAll' = IF cargo[e] = Code THEN e ELSE sentAll
     \/ SenderActs(LoopFails(e) \/ LoopFallsSilent(e))
  /\ Whole

ReceiverUser == ReceiverActs(StartReceive \/ CancelReceive) /\ Whole

ReceiverGoesOn == ReceiverActs(RoomFound \/ RJoined \/ RBackoffEnds \/ RRejoined) /\ Whole

ReceiverCannotJoin ==
  /\ ReceiverActs(StartReceiveFails \/ RRejoinFails)
  /\ IF rClient # "connecting" \/ rRejoining > 1 THEN Whole ELSE Break("socket")

ReceiverConnects(h) ==
  /\ ReceiverActs(\/ (Slow \/ ~Underway) /\ ConfigTimeout(h)
                  \/ (\E e \in Tries : Talks(e, h)) /\ RChannelOpens(h)
                  \/ (h \in rOpened \/ Slow \/ ~ReceiverWaitsOn(h)) /\ RBuilt(h))
  /\ Whole

\* Its connection had an offer, and fails: the other end is gone, or it has
\* another answer, or none that could still come.
ReceiverLoses(h) ==
  LET e == heard[h] IN
  /\ e # None
  /\ ~Talks(e, h)
  /\ ~(e \in live \ cut /\ answered[e] = NoListen /\ Underway)
  /\ ReceiverActs(RConnectionLost(h))
  /\ Whole

ReceiverSocketCloses ==
  /\ ReceiverActs(ROnClose)
  /\ IF rClient = "mute" THEN Whole ELSE Break("socket")
ReceiverSocketDies == ReceiverActs(RGoesMute) /\ Break("mute")

\* The watchdog is slower than the other timers of one attempt.
ReceiverStalls ==
  /\ Slow \/ (rSleeping = 0 /\ rConfigs \cup rBuilding = {} /\ ~Underway)
  /\ ReceiverActs(Watchdog)
  /\ Whole

\* What is sent comes through an open channel, and may fail to check; the last
\* file is checked, and kept, when the channel may be gone.
Receiving ==
  \E h \in rLive \cap rOpened :
    (\E e \in loops : Talks(e, h)) \/ (sentAll # None /\ Talks(sentAll, h))
ReceiverGets ==
  /\ ReceiverActs(\/ Receiving /\ (OnProgress \/ OnVerifying \/ OnReceiveError)
                  \/ got /\ (OnVerifying \/ OnReceiveError \/ OnAllComplete))
  /\ Whole
EndArrives ==
  /\ sentAll # None /\ ~got
  /\ \E h \in rOpened : Talks(sentAll, h)
  /\ got' = TRUE
  /\ UNCHANGED <<sendVars, receiveVars, inRoom, toSender, toReceiver, heard,
                 answered, cut, sentAll, drops, missed>>

\* A connection breaks, and each end will find out.
LinkBreaks(e) ==
  /\ \E h \in Listens : Talks(e, h)
  /\ cut' = cut \cup {e}
  /\ Break("link")
  /\ UNCHANGED <<sendVars, receiveVars, inRoom, toSender, toReceiver, heard,
                 answered, sentAll, got, missed>>

Init ==
  /\ SendInit /\ ReceiveInit
  /\ inRoom = {} /\ toSender = <<>> /\ toReceiver = <<>>
  /\ heard = [h \in Listens |-> None]
  /\ answered = [e \in Tries |-> NoListen]
  /\ cut = {} /\ sentAll = None /\ got = FALSE /\ drops = 0 /\ missed = FALSE

Next ==
  \/ ToSenderArrives \/ ToReceiverArrives \/ RoomNotices
  \/ SenderUser \/ SenderGoesOn
  \/ \E s \in Starts :
       SenderCannotJoin(s) \/ SenderSocketCloses(s) \/ SenderSocketDies(s)
  \/ \E e \in Tries :
       SenderConnects(e) \/ SenderLoses(e) \/ LoopEnds(e) \/ LinkBreaks(e)
  \/ ReceiverUser \/ ReceiverGoesOn \/ ReceiverCannotJoin
  \/ \E h \in Listens : ReceiverConnects(h) \/ ReceiverLoses(h)
  \/ ReceiverSocketCloses \/ ReceiverSocketDies \/ ReceiverStalls
  \/ ReceiverGets \/ EndArrives

\* The room and the socket deliver, a wait ends, a timer fires, a connection
\* whose other end is gone fails, and a mute socket is closed by its
\* heartbeat.  Nothing is assumed of the users, of the faults, or of a loop.
Fairness ==
  /\ WF_vars(ToSenderArrives) /\ WF_vars(ToReceiverArrives) /\ WF_vars(RoomNotices)
  /\ WF_vars(SenderGoesOn) /\ WF_vars(ReceiverGoesOn)
  /\ \A s \in Starts :
       /\ WF_vars(SenderCannotJoin(s) /\ Whole)
       /\ WF_vars(SenderSocketCloses(s) /\ Whole)
  /\ \A e \in Tries : WF_vars(SenderConnects(e)) /\ WF_vars(SenderLoses(e))
  /\ \A h \in Listens : WF_vars(ReceiverConnects(h)) /\ WF_vars(ReceiverLoses(h))
  /\ WF_vars(ReceiverCannotJoin /\ Whole)
  /\ WF_vars(ReceiverSocketCloses /\ Whole)
  /\ WF_vars(rPhase \in {"connecting", "reconnecting"} /\ ReceiverStalls)

Spec == Init /\ [][Next]_vars /\ Fairness

-----------------------------------------------------------------------------
(* Properties *)

\* One set of connections at most is listened on or waited for, whatever is
\* lost and made again, unless a reconnect or a cancel left one to itself.
OneSet == rTorn \/ rLate \/ Cardinality(rConfigs \cup rLive) <= 1

\* A sender that connects or reconnects does not do so for ever, unless an
\* offer or an answer found nobody: with one connection it has no timer; or it
\* reconnects after a loop that was aborted at its end: with no file left it
\* does not look at its connection.
SenderSettles ==
  phase \in {"connecting", "reconnecting"} ~>
    (phase \notin {"connecting", "reconnecting"} \/ missed \/ ~left)

\* Nor does a receiver, whatever it misses: its watchdog ends that.
ReceiverSettles ==
  rPhase \in {"connecting", "reconnecting"} ~>
    rPhase \notin {"connecting", "reconnecting"}
=============================================================================
