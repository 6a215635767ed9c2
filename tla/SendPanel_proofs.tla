-------------------------- MODULE SendPanel_proofs --------------------------
(***************************************************************************)
(* What SendPanel promises, for every number of starts and of reconnects,  *)
(* with one connection or several.                                         *)
(*                                                                         *)
(* A panel that is Straight (no cancel has left work behind, no two        *)
(* recoveries have met) has one try at most whose connections are not      *)
(* closed, every loop that was not aborted sends on that one, and whatever *)
(* could start another (an opening, a backoff, a connect()) is there only  *)
(* while it has none.  All properties follow from that.                    *)
(***************************************************************************)
EXTENDS SendPanel, FiniteSetTheorems, TLAPS

\* startSend() or attemptReconnect() of this start waits for something.
Unrest(s) == opening[s] # "no" \/ sleeping[s] > 0 \/ rejoining[s] > 0

\* How the sets of tries lie in each other, whatever happens.
Shape ==
  /\ building \subseteq live /\ peers \notin building /\ building \cap opened = {}
  /\ building # {} => several
  /\ loops \cup measuring \subseteq opened
  /\ \A e \in live \cup opened : e[2] <= tries[e[1]]

\* The one try whose connections are not closed is of the current start, and
\* known to the panel or being built.
OneTry ==
  /\ \A a, b \in live : a = b
  /\ \A e \in live : StartOf(e) = start
  /\ live \subseteq building \cup {peers}

\* A loop that was not aborted sends on it.
LoopsLive == loops \ stopped \subseteq live

\* There is none while the panel waits for one.
AtRest ==
  /\ phase \in {"idle", "waiting", "reconnecting"} => live = {}
  /\ \A s \in Starts : Unrest(s) => live = {}

\* Only the current start waits for anything or has a socket.
Owner ==
  /\ \A s \in Starts :
       /\ Unrest(s) => s = start /\ phase # "idle"
       /\ client[s] \in {"connecting", "open", "mute"} =>
            s = start /\ current = s /\ phase # "idle"
       /\ opening[s] # "no" =>
            client[s] \in {"none", "connecting"} /\ sleeping[s] = 0 /\ rejoining[s] = 0
       /\ s > start => client[s] = "none"
  /\ current <= start

\* A loop sends the files of the start it belongs to.
OwnCargo == \A e \in loops \cup measuring : cargo[e] = StartOf(e)

\* A panel that never sent has no loop.
IdleOver == phase = "idle" /\ ~terminal => loops = {} /\ measuring = {}

\* A panel that is done waits for nothing.
DoneOver ==
  phase = "done" =>
    /\ terminal /\ live \subseteq opened /\ building = {}
    /\ \A s \in Starts : ~Unrest(s)

Tidy == OneTry /\ LoopsLive /\ AtRest /\ Owner /\ OwnCargo /\ IdleOver /\ DoneOver

IInv == SendTypeOK /\ Shape /\ (Straight => Tidy)

-----------------------------------------------------------------------------
(* Tries and starts *)

\* What is used of the two sets of numbers.
LEMMA TryFacts ==
  /\ MaxTries \in Nat
  /\ None \notin Tries
  /\ \A e \in Tries : e[1] \in Starts /\ e[2] \in Nat /\ e[2] > 0 /\ e = <<e[1], e[2]>>
  /\ \A s \in Starts, n \in Nat : n < MaxTries => <<s, n + 1>> \in Tries
  /\ \A s \in Starts : s \in Nat /\ s > 0 /\ s <= MaxStarts
  /\ \A n \in Nat : n < MaxStarts => n + 1 \in Starts
  /\ \A n \in 0 .. MaxStarts : n = 0 \/ n \in Starts
<1>1. MaxTries \in Nat
  BY SendPanelAssumption DEF MaxTries
<1> QED BY <1>1, SendPanelAssumption DEF Tries, Starts, None

-----------------------------------------------------------------------------
(* One lemma for each step *)

\* A start takes over a panel that has nothing left.
LEMMA StartSendStep ==
  ASSUME IInv, StartSend
  PROVE  IInv'
<1>1. SendTypeOK'
  <2>1. (phase \in Phases /\ terminal \in BOOLEAN /\ establishing \in BOOLEAN)'
    BY TryFacts, SendPanelAssumption DEF IInv, SendTypeOK, Shape, Phases, Clients,
       StartSend, waitVars, tryVars, historyVars
  <2>2. (attempts \in 0 .. MaxAttempts)'
    BY TryFacts, SendPanelAssumption DEF IInv, SendTypeOK, Shape, Phases, Clients,
       StartSend, waitVars, tryVars, historyVars
  <2>3. (start \in 0 .. MaxStarts /\ left \in BOOLEAN /\ several \in BOOLEAN)'
    BY TryFacts, SendPanelAssumption DEF IInv, SendTypeOK, Shape, Phases, Clients,
       StartSend, waitVars, tryVars, historyVars
  <2>4. (opening \in [Starts -> {"no", "room", "join"}])'
    BY TryFacts, SendPanelAssumption DEF IInv, SendTypeOK, Shape, Phases, Clients,
       StartSend, waitVars, tryVars, historyVars
  <2>5. (client \in [Starts -> Clients] /\ current \in 0 .. MaxStarts)'
    BY TryFacts, SendPanelAssumption DEF IInv, SendTypeOK, Shape, Phases, Clients,
       StartSend, waitVars, tryVars, historyVars
  <2>6. (sleeping \in [Starts -> Nat] /\ rejoining \in [Starts -> Nat] /\ tries \in [Starts -> Nat])'
    BY TryFacts, SendPanelAssumption DEF IInv, SendTypeOK, Shape, Phases, Clients,
       StartSend, waitVars, tryVars, historyVars
  <2>7. (peers \in Tries \cup {None} /\ live \subseteq Tries /\ opened \subseteq Tries)'
    BY TryFacts, SendPanelAssumption DEF IInv, SendTypeOK, Shape, Phases, Clients,
       StartSend, waitVars, tryVars, historyVars
  <2>8. (building \subseteq live /\ deaf \subseteq Tries)'
    BY TryFacts, SendPanelAssumption DEF IInv, SendTypeOK, Shape, Phases, Clients,
       StartSend, waitVars, tryVars, historyVars
  <2>9. (measuring \subseteq Tries /\ stopped \subseteq loops /\ loops \subseteq Tries)'
    BY TryFacts, SendPanelAssumption DEF IInv, SendTypeOK, Shape, Phases, Clients,
       StartSend, waitVars, tryVars, historyVars
  <2>10. (aborted \in BOOLEAN /\ cargo \in [Tries -> 0 .. MaxStarts])'
    BY TryFacts, SendPanelAssumption DEF IInv, SendTypeOK, Shape, Phases, Clients,
       StartSend, waitVars, tryVars, historyVars
  <2>11. (late \in BOOLEAN /\ crossed \in BOOLEAN)'
    BY TryFacts, SendPanelAssumption DEF IInv, SendTypeOK, Shape, Phases, Clients,
       StartSend, waitVars, tryVars, historyVars
  <2> QED BY <2>1, <2>2, <2>3, <2>4, <2>5, <2>6, <2>7, <2>8, <2>9, <2>10, <2>11 DEF SendTypeOK
<1>2. Shape'
  BY TryFacts DEF IInv, SendTypeOK, Shape, StartSend, waitVars, tryVars, historyVars
<1>3. ASSUME Straight' PROVE Tidy'
  <2>1. Straight /\ Tidy
    BY <1>3 DEF IInv, Straight, StartSend, waitVars, tryVars, historyVars
  <2>2. OneTry'
    BY <1>1, <1>3, <2>1, TryFacts DEF IInv, SendTypeOK, Phases, Shape, Tidy,
       Straight, OneTry, LoopsLive, AtRest, Owner, Unrest, StartOf, StartSend,
       waitVars, tryVars, historyVars
  <2>3. LoopsLive'
    BY <1>1, <1>3, <2>1, TryFacts DEF IInv, SendTypeOK, Phases, Shape, Tidy,
       Straight, OneTry, LoopsLive, AtRest, Owner, Unrest, StartOf, StartSend,
       waitVars, tryVars, historyVars
  <2>4. AtRest'
    BY <1>1, <1>3, <2>1, TryFacts DEF IInv, SendTypeOK, Phases, Shape, Tidy,
       Straight, OneTry, LoopsLive, AtRest, Owner, Unrest, StartOf, StartSend,
       waitVars, tryVars, historyVars
  <2>5. Owner'
    BY <1>1, <1>3, <2>1, TryFacts DEF IInv, SendTypeOK, Phases, Shape, Tidy,
       Straight, OneTry, LoopsLive, AtRest, Owner, Unrest, StartOf, StartSend,
       waitVars, tryVars, historyVars
  <2>6. OwnCargo'
    BY <1>1, <1>3, <2>1, TryFacts DEF IInv, SendTypeOK, Phases, Shape, Tidy,
       Straight, OneTry, LoopsLive, AtRest, Owner, Unrest, StartOf, OwnCargo,
       StartSend, waitVars, tryVars, historyVars
  <2>7. IdleOver'
    BY <1>1, <1>3, <2>1, TryFacts DEF IInv, SendTypeOK, Phases, Shape, Tidy,
       Straight, OneTry, LoopsLive, AtRest, Owner, Unrest, StartOf, IdleOver,
       StartSend, waitVars, tryVars, historyVars
  <2>8. DoneOver'
    BY <1>1, <1>3, <2>1, TryFacts DEF IInv, SendTypeOK, Phases, Shape, Tidy,
       Straight, OneTry, LoopsLive, AtRest, Owner, Unrest, StartOf, DoneOver,
       StartSend, waitVars, tryVars, historyVars
  <2> QED BY <2>2, <2>3, <2>4, <2>5, <2>6, <2>7, <2>8 DEF Tidy
<1> QED BY <1>1, <1>2, <1>3 DEF IInv

\* cancel() closes what the panel knows; what it does not know makes it late.
LEMMA CancelStep ==
  ASSUME IInv, Cancel
  PROVE  IInv'
<1>1. SendTypeOK'
  <2>1. (phase \in Phases /\ terminal \in BOOLEAN /\ establishing \in BOOLEAN)'
    BY TryFacts, SendPanelAssumption DEF IInv, SendTypeOK, Shape, Phases, Clients,
       Cancel, CleanUp, ClosePeers, CloseClient, Outstanding, startVars, waitVars
  <2>2. (attempts \in 0 .. MaxAttempts)'
    BY TryFacts, SendPanelAssumption DEF IInv, SendTypeOK, Shape, Phases, Clients,
       Cancel, CleanUp, ClosePeers, CloseClient, Outstanding, startVars, waitVars
  <2>3. (start \in 0 .. MaxStarts /\ left \in BOOLEAN /\ several \in BOOLEAN)'
    BY TryFacts, SendPanelAssumption DEF IInv, SendTypeOK, Shape, Phases, Clients,
       Cancel, CleanUp, ClosePeers, CloseClient, Outstanding, startVars, waitVars
  <2>4. (opening \in [Starts -> {"no", "room", "join"}])'
    BY TryFacts, SendPanelAssumption DEF IInv, SendTypeOK, Shape, Phases, Clients,
       Cancel, CleanUp, ClosePeers, CloseClient, Outstanding, startVars, waitVars
  <2>5. (client \in [Starts -> Clients] /\ current \in 0 .. MaxStarts)'
    BY TryFacts, SendPanelAssumption DEF IInv, SendTypeOK, Shape, Phases, Clients,
       Cancel, CleanUp, ClosePeers, CloseClient, Outstanding, startVars, waitVars
  <2>6. (sleeping \in [Starts -> Nat] /\ rejoining \in [Starts -> Nat] /\ tries \in [Starts -> Nat])'
    BY TryFacts, SendPanelAssumption DEF IInv, SendTypeOK, Shape, Phases, Clients,
       Cancel, CleanUp, ClosePeers, CloseClient, Outstanding, startVars, waitVars
  <2>7. (peers \in Tries \cup {None} /\ live \subseteq Tries /\ opened \subseteq Tries)'
    BY TryFacts, SendPanelAssumption DEF IInv, SendTypeOK, Shape, Phases, Clients,
       Cancel, CleanUp, ClosePeers, CloseClient, Outstanding, startVars, waitVars
  <2>8. (building \subseteq live /\ deaf \subseteq Tries)'
    BY TryFacts, SendPanelAssumption DEF IInv, SendTypeOK, Shape, Phases, Clients,
       Cancel, CleanUp, ClosePeers, CloseClient, Outstanding, startVars, waitVars
  <2>9. (measuring \subseteq Tries /\ stopped \subseteq loops /\ loops \subseteq Tries)'
    BY TryFacts, SendPanelAssumption DEF IInv, SendTypeOK, Shape, Phases, Clients,
       Cancel, CleanUp, ClosePeers, CloseClient, Outstanding, startVars, waitVars
  <2>10. (aborted \in BOOLEAN /\ cargo \in [Tries -> 0 .. MaxStarts])'
    BY TryFacts, SendPanelAssumption DEF IInv, SendTypeOK, Shape, Phases, Clients,
       Cancel, CleanUp, ClosePeers, CloseClient, Outstanding, startVars, waitVars
  <2>11. (late \in BOOLEAN /\ crossed \in BOOLEAN)'
    BY TryFacts, SendPanelAssumption DEF IInv, SendTypeOK, Shape, Phases, Clients,
       Cancel, CleanUp, ClosePeers, CloseClient, Outstanding, startVars, waitVars
  <2> QED BY <2>1, <2>2, <2>3, <2>4, <2>5, <2>6, <2>7, <2>8, <2>9, <2>10, <2>11 DEF SendTypeOK
<1>2. Shape'
  BY TryFacts DEF IInv, SendTypeOK, Shape, Cancel, CleanUp, ClosePeers, CloseClient,
     Outstanding, startVars, waitVars
<1>3. ASSUME Straight' PROVE Tidy'
  <2>1. Straight /\ Tidy /\ ~Outstanding
    BY <1>3 DEF IInv, Straight, Cancel
  <2>2. building = {} /\ \A s \in Starts : ~Unrest(s)
    BY <2>1 DEF IInv, SendTypeOK, Outstanding, Unrest
  <2>3. live' = {}
    BY <2>1, <2>2 DEF Tidy, OneTry, Cancel, CleanUp, ClosePeers
  <2>4. /\ phase' = "idle" /\ terminal' /\ loops' = stopped' /\ start' = start
        /\ \A s \in Starts : ~Unrest(s)'
    BY <2>2 DEF Cancel, Unrest, startVars, waitVars
  <2>5. OneTry'
    BY <2>3 DEF OneTry
  <2>6. LoopsLive' /\ IdleOver' /\ DoneOver'
    BY <2>4 DEF LoopsLive, IdleOver, DoneOver
  <2>7. AtRest'
    BY <2>3 DEF AtRest
  <2>8. ASSUME NEW s \in Starts
        PROVE  /\ client'[s] \notin {"connecting", "open", "mute"}
               /\ s > start => client'[s] = "none"
    <3>1. CASE s = current
      <4>1. client'[s] = "closed"
        BY <3>1, TryFacts DEF IInv, SendTypeOK, Cancel, CleanUp, CloseClient
      <4> QED BY <2>1, <3>1, <4>1, TryFacts DEF Tidy, Owner, IInv, SendTypeOK
    <3>2. CASE s # current
      <4>1. client'[s] = client[s]
        BY <3>2 DEF IInv, SendTypeOK, Cancel, CleanUp, CloseClient
      <4> QED BY <2>1, <3>2, <4>1 DEF Tidy, Owner
    <3> QED BY <3>1, <3>2
  <2>9. current' <= start'
    BY <2>4 DEF IInv, SendTypeOK, Cancel, CleanUp, CloseClient
  <2>10. Owner'
    BY <2>4, <2>8, <2>9 DEF Owner, Unrest
  <2>11. OwnCargo'
    BY <2>1 DEF Tidy, OwnCargo, Cancel
  <2> QED BY <2>5, <2>6, <2>7, <2>10, <2>11 DEF Tidy
<1> QED BY <1>1, <1>2, <1>3 DEF IInv

\* The client of a start becomes the current one.
LEMMA RoomMadeStep ==
  ASSUME IInv, NEW s \in Starts, RoomMade(s)
  PROVE  IInv'
<1>1. SendTypeOK'
  BY TryFacts, SendPanelAssumption DEF IInv, SendTypeOK, Shape, Phases, Clients,
     RoomMade, flagVars, startVars, waitVars, tryVars, loopVars, historyVars
<1>2. Shape'
  BY TryFacts DEF IInv, SendTypeOK, Shape, RoomMade, flagVars, startVars, waitVars,
     tryVars, loopVars, historyVars
<1>3. ASSUME Straight' PROVE Tidy'
  <2>1. Straight /\ Tidy
    BY <1>3 DEF IInv, Straight, RoomMade, flagVars, startVars, waitVars, tryVars,
       loopVars, historyVars
  <2>2. OneTry'
    BY <1>1, <1>3, <2>1, TryFacts DEF IInv, SendTypeOK, Phases, Shape, Tidy,
       Straight, OneTry, LoopsLive, AtRest, Owner, Unrest, StartOf, RoomMade,
       flagVars, startVars, waitVars, tryVars, loopVars, historyVars
  <2>3. LoopsLive'
    BY <1>1, <1>3, <2>1, TryFacts DEF IInv, SendTypeOK, Phases, Shape, Tidy,
       Straight, OneTry, LoopsLive, AtRest, Owner, Unrest, StartOf, RoomMade,
       flagVars, startVars, waitVars, tryVars, loopVars, historyVars
  <2>4. AtRest'
    BY <1>1, <1>3, <2>1, TryFacts DEF IInv, SendTypeOK, Phases, Shape, Tidy,
       Straight, OneTry, LoopsLive, AtRest, Owner, Unrest, StartOf, RoomMade,
       flagVars, startVars, waitVars, tryVars, loopVars, historyVars
  <2>5. Owner'
    BY <1>1, <1>3, <2>1, TryFacts DEF IInv, SendTypeOK, Phases, Shape, Tidy,
       Straight, OneTry, LoopsLive, AtRest, Owner, Unrest, StartOf, RoomMade,
       flagVars, startVars, waitVars, tryVars, loopVars, historyVars
  <2>6. OwnCargo'
    BY <1>1, <1>3, <2>1, TryFacts DEF IInv, SendTypeOK, Phases, Shape, Tidy,
       Straight, OneTry, LoopsLive, AtRest, Owner, Unrest, StartOf, OwnCargo,
       RoomMade, flagVars, startVars, waitVars, tryVars, loopVars, historyVars
  <2>7. IdleOver'
    BY <1>1, <1>3, <2>1, TryFacts DEF IInv, SendTypeOK, Phases, Shape, Tidy,
       Straight, OneTry, LoopsLive, AtRest, Owner, Unrest, StartOf, IdleOver,
       RoomMade, flagVars, startVars, waitVars, tryVars, loopVars, historyVars
  <2>8. DoneOver'
    BY <1>1, <1>3, <2>1, TryFacts DEF IInv, SendTypeOK, Phases, Shape, Tidy,
       Straight, OneTry, LoopsLive, AtRest, Owner, Unrest, StartOf, DoneOver,
       RoomMade, flagVars, startVars, waitVars, tryVars, loopVars, historyVars
  <2> QED BY <2>2, <2>3, <2>4, <2>5, <2>6, <2>7, <2>8 DEF Tidy
<1> QED BY <1>1, <1>2, <1>3 DEF IInv

\* The socket of a start opens when nothing else of it waits.
LEMMA JoinedStep ==
  ASSUME IInv, NEW s \in Starts, Joined(s)
  PROVE  IInv'
<1>1. SendTypeOK'
  BY TryFacts, SendPanelAssumption DEF IInv, SendTypeOK, Shape, Phases, Clients,
     Joined, flagVars, startVars, waitVars, tryVars, loopVars, historyVars
<1>2. Shape'
  BY TryFacts DEF IInv, SendTypeOK, Shape, Joined, flagVars, startVars, waitVars,
     tryVars, loopVars, historyVars
<1>3. ASSUME Straight' PROVE Tidy'
  <2>1. Straight /\ Tidy
    BY <1>3 DEF IInv, Straight, Joined, flagVars, startVars, waitVars, tryVars,
       loopVars, historyVars
  <2>2. OneTry'
    BY <1>1, <1>3, <2>1, TryFacts DEF IInv, SendTypeOK, Phases, Shape, Tidy,
       Straight, OneTry, LoopsLive, AtRest, Owner, Unrest, StartOf, Joined,
       flagVars, startVars, waitVars, tryVars, loopVars, historyVars
  <2>3. LoopsLive'
    BY <1>1, <1>3, <2>1, TryFacts DEF IInv, SendTypeOK, Phases, Shape, Tidy,
       Straight, OneTry, LoopsLive, AtRest, Owner, Unrest, StartOf, Joined,
       flagVars, startVars, waitVars, tryVars, loopVars, historyVars
  <2>4. AtRest'
    BY <1>1, <1>3, <2>1, TryFacts DEF IInv, SendTypeOK, Phases, Shape, Tidy,
       Straight, OneTry, LoopsLive, AtRest, Owner, Unrest, StartOf, Joined,
       flagVars, startVars, waitVars, tryVars, loopVars, historyVars
  <2>5. Owner'
    BY <1>1, <1>3, <2>1, TryFacts DEF IInv, SendTypeOK, Phases, Shape, Tidy,
       Straight, OneTry, LoopsLive, AtRest, Owner, Unrest, StartOf, Joined,
       flagVars, startVars, waitVars, tryVars, loopVars, historyVars
  <2>6. OwnCargo'
    BY <1>1, <1>3, <2>1, TryFacts DEF IInv, SendTypeOK, Phases, Shape, Tidy,
       Straight, OneTry, LoopsLive, AtRest, Owner, Unrest, StartOf, OwnCargo,
       Joined, flagVars, startVars, waitVars, tryVars, loopVars, historyVars
  <2>7. IdleOver'
    BY <1>1, <1>3, <2>1, TryFacts DEF IInv, SendTypeOK, Phases, Shape, Tidy,
       Straight, OneTry, LoopsLive, AtRest, Owner, Unrest, StartOf, IdleOver,
       Joined, flagVars, startVars, waitVars, tryVars, loopVars, historyVars
  <2>8. DoneOver'
    BY <1>1, <1>3, <2>1, TryFacts DEF IInv, SendTypeOK, Phases, Shape, Tidy,
       Straight, OneTry, LoopsLive, AtRest, Owner, Unrest, StartOf, DoneOver,
       Joined, flagVars, startVars, waitVars, tryVars, loopVars, historyVars
  <2> QED BY <2>2, <2>3, <2>4, <2>5, <2>6, <2>7, <2>8 DEF Tidy
<1> QED BY <1>1, <1>2, <1>3 DEF IInv

\* A start that fails has no connection.
LEMMA StartFailsStep ==
  ASSUME IInv, NEW s \in Starts, StartFails(s)
  PROVE  IInv'
<1>1. SendTypeOK'
  BY TryFacts, SendPanelAssumption DEF IInv, SendTypeOK, Shape, Phases, Clients,
     StartFails, Over, startVars, waitVars, tryVars, loopVars, historyVars
<1>2. Shape'
  BY TryFacts DEF IInv, SendTypeOK, Shape, StartFails, Over, startVars, waitVars,
     tryVars, loopVars, historyVars
<1>3. ASSUME Straight' PROVE Tidy'
  <2>1. Straight /\ Tidy
    BY <1>3 DEF IInv, Straight, StartFails, Over, startVars, waitVars, tryVars,
       loopVars, historyVars
  <2>2. OneTry'
    BY <1>1, <1>3, <2>1, TryFacts DEF IInv, SendTypeOK, Phases, Shape, Tidy,
       Straight, OneTry, LoopsLive, AtRest, Owner, Unrest, StartOf, StartFails,
       Over, startVars, waitVars, tryVars, loopVars, historyVars
  <2>3. LoopsLive'
    BY <1>1, <1>3, <2>1, TryFacts DEF IInv, SendTypeOK, Phases, Shape, Tidy,
       Straight, OneTry, LoopsLive, AtRest, Owner, Unrest, StartOf, StartFails,
       Over, startVars, waitVars, tryVars, loopVars, historyVars
  <2>4. AtRest'
    BY <1>1, <1>3, <2>1, TryFacts DEF IInv, SendTypeOK, Phases, Shape, Tidy,
       Straight, OneTry, LoopsLive, AtRest, Owner, Unrest, StartOf, StartFails,
       Over, startVars, waitVars, tryVars, loopVars, historyVars
  <2>5. Owner'
    BY <1>1, <1>3, <2>1, TryFacts DEF IInv, SendTypeOK, Phases, Shape, Tidy,
       Straight, OneTry, LoopsLive, AtRest, Owner, Unrest, StartOf, StartFails,
       Over, startVars, waitVars, tryVars, loopVars, historyVars
  <2>6. OwnCargo'
    BY <1>1, <1>3, <2>1, TryFacts DEF IInv, SendTypeOK, Phases, Shape, Tidy,
       Straight, OneTry, LoopsLive, AtRest, Owner, Unrest, StartOf, OwnCargo,
       StartFails, Over, startVars, waitVars, tryVars, loopVars, historyVars
  <2>7. IdleOver'
    BY <1>1, <1>3, <2>1, TryFacts DEF IInv, SendTypeOK, Phases, Shape, Tidy,
       Straight, OneTry, LoopsLive, AtRest, Owner, Unrest, StartOf, IdleOver,
       StartFails, Over, startVars, waitVars, tryVars, loopVars, historyVars
  <2>8. DoneOver'
    BY <1>1, <1>3, <2>1, TryFacts DEF IInv, SendTypeOK, Phases, Shape, Tidy,
       Straight, OneTry, LoopsLive, AtRest, Owner, Unrest, StartOf, DoneOver,
       StartFails, Over, startVars, waitVars, tryVars, loopVars, historyVars
  <2> QED BY <2>2, <2>3, <2>4, <2>5, <2>6, <2>7, <2>8 DEF Tidy
<1> QED BY <1>1, <1>2, <1>3 DEF IInv

\* A try begins when there is no other, or the panel is no longer Straight.
LEMMA OnPeerJoinedStep ==
  ASSUME IInv, NEW s \in Starts, OnPeerJoined(s)
  PROVE  IInv'
<1>1. SendTypeOK'
  <2>1. (phase \in Phases /\ terminal \in BOOLEAN /\ establishing \in BOOLEAN)'
    BY TryFacts, SendPanelAssumption DEF IInv, SendTypeOK, Shape, Phases, Clients,
       OnPeerJoined, RunEstablish, MayEstablish, Establish, Try, EstablishThrows,
       Show, Over, flagVars, startVars, roomVars, waitVars, tryVars, loopVars
  <2>2. (attempts \in 0 .. MaxAttempts)'
    BY TryFacts, SendPanelAssumption DEF IInv, SendTypeOK, Shape, Phases, Clients,
       OnPeerJoined, RunEstablish, MayEstablish, Establish, Try, EstablishThrows,
       Show, Over, flagVars, startVars, roomVars, waitVars, tryVars, loopVars
  <2>3. (start \in 0 .. MaxStarts /\ left \in BOOLEAN /\ several \in BOOLEAN)'
    BY TryFacts, SendPanelAssumption DEF IInv, SendTypeOK, Shape, Phases, Clients,
       OnPeerJoined, RunEstablish, MayEstablish, Establish, Try, EstablishThrows,
       Show, Over, flagVars, startVars, roomVars, waitVars, tryVars, loopVars
  <2>4. (opening \in [Starts -> {"no", "room", "join"}])'
    BY TryFacts, SendPanelAssumption DEF IInv, SendTypeOK, Shape, Phases, Clients,
       OnPeerJoined, RunEstablish, MayEstablish, Establish, Try, EstablishThrows,
       Show, Over, flagVars, startVars, roomVars, waitVars, tryVars, loopVars
  <2>5. (client \in [Starts -> Clients] /\ current \in 0 .. MaxStarts)'
    BY TryFacts, SendPanelAssumption DEF IInv, SendTypeOK, Shape, Phases, Clients,
       OnPeerJoined, RunEstablish, MayEstablish, Establish, Try, EstablishThrows,
       Show, Over, flagVars, startVars, roomVars, waitVars, tryVars, loopVars
  <2>6. (sleeping \in [Starts -> Nat] /\ rejoining \in [Starts -> Nat] /\ tries \in [Starts -> Nat])'
    BY TryFacts, SendPanelAssumption DEF IInv, SendTypeOK, Shape, Phases, Clients,
       OnPeerJoined, RunEstablish, MayEstablish, Establish, Try, EstablishThrows,
       Show, Over, flagVars, startVars, roomVars, waitVars, tryVars, loopVars
  <2>7. (peers \in Tries \cup {None} /\ live \subseteq Tries /\ opened \subseteq Tries)'
    BY TryFacts, SendPanelAssumption DEF IInv, SendTypeOK, Shape, Phases, Clients,
       OnPeerJoined, RunEstablish, MayEstablish, Establish, Try, EstablishThrows,
       Show, Over, flagVars, startVars, roomVars, waitVars, tryVars, loopVars
  <2>8. (building \subseteq live /\ deaf \subseteq Tries)'
    BY TryFacts, SendPanelAssumption DEF IInv, SendTypeOK, Shape, Phases, Clients,
       OnPeerJoined, RunEstablish, MayEstablish, Establish, Try, EstablishThrows,
       Show, Over, flagVars, startVars, roomVars, waitVars, tryVars, loopVars
  <2>9. (measuring \subseteq Tries /\ stopped \subseteq loops /\ loops \subseteq Tries)'
    BY TryFacts, SendPanelAssumption DEF IInv, SendTypeOK, Shape, Phases, Clients,
       OnPeerJoined, RunEstablish, MayEstablish, Establish, Try, EstablishThrows,
       Show, Over, flagVars, startVars, roomVars, waitVars, tryVars, loopVars
  <2>10. (aborted \in BOOLEAN /\ cargo \in [Tries -> 0 .. MaxStarts])'
    BY TryFacts, SendPanelAssumption DEF IInv, SendTypeOK, Shape, Phases, Clients,
       OnPeerJoined, RunEstablish, MayEstablish, Establish, Try, EstablishThrows,
       Show, Over, flagVars, startVars, roomVars, waitVars, tryVars, loopVars
  <2>11. (late \in BOOLEAN /\ crossed \in BOOLEAN)'
    BY TryFacts, SendPanelAssumption DEF IInv, SendTypeOK, Shape, Phases, Clients,
       OnPeerJoined, RunEstablish, MayEstablish, Establish, Try, EstablishThrows,
       Show, Over, flagVars, startVars, roomVars, waitVars, tryVars, loopVars
  <2> QED BY <2>1, <2>2, <2>3, <2>4, <2>5, <2>6, <2>7, <2>8, <2>9, <2>10, <2>11 DEF SendTypeOK
<1>2. Shape'
  BY TryFacts DEF IInv, SendTypeOK, Shape, OnPeerJoined, RunEstablish, MayEstablish,
     Establish, Try, EstablishThrows, Show, Over, flagVars, startVars, roomVars,
     waitVars, tryVars, loopVars
<1>3. ASSUME Straight' PROVE Tidy'
  <2>1. Straight /\ Tidy
    BY <1>3 DEF IInv, Straight, OnPeerJoined, RunEstablish, MayEstablish, Establish,
       Try, EstablishThrows, Show, Over, flagVars, startVars, roomVars, waitVars,
       tryVars, loopVars
  <2>2. OneTry'
    BY <1>1, <1>3, <2>1, TryFacts DEF IInv, SendTypeOK, Phases, Shape, Tidy,
       Straight, OneTry, LoopsLive, AtRest, Owner, Unrest, StartOf, OnPeerJoined,
       RunEstablish, MayEstablish, Establish, Try, EstablishThrows, Show, Over,
       flagVars, startVars, roomVars, waitVars, tryVars, loopVars
  <2>3. LoopsLive'
    BY <1>1, <1>3, <2>1, TryFacts DEF IInv, SendTypeOK, Phases, Shape, Tidy,
       Straight, OneTry, LoopsLive, AtRest, Owner, Unrest, StartOf, OnPeerJoined,
       RunEstablish, MayEstablish, Establish, Try, EstablishThrows, Show, Over,
       flagVars, startVars, roomVars, waitVars, tryVars, loopVars
  <2>4. AtRest'
    BY <1>1, <1>3, <2>1, TryFacts DEF IInv, SendTypeOK, Phases, Shape, Tidy,
       Straight, OneTry, LoopsLive, AtRest, Owner, Unrest, StartOf, OnPeerJoined,
       RunEstablish, MayEstablish, Establish, Try, EstablishThrows, Show, Over,
       flagVars, startVars, roomVars, waitVars, tryVars, loopVars
  <2>5. Owner'
    BY <1>1, <1>3, <2>1, TryFacts DEF IInv, SendTypeOK, Phases, Shape, Tidy,
       Straight, OneTry, LoopsLive, AtRest, Owner, Unrest, StartOf, OnPeerJoined,
       RunEstablish, MayEstablish, Establish, Try, EstablishThrows, Show, Over,
       flagVars, startVars, roomVars, waitVars, tryVars, loopVars
  <2>6. OwnCargo'
    BY <1>1, <1>3, <2>1, TryFacts DEF IInv, SendTypeOK, Phases, Shape, Tidy,
       Straight, OneTry, LoopsLive, AtRest, Owner, Unrest, StartOf, OwnCargo,
       OnPeerJoined, RunEstablish, MayEstablish, Establish, Try, EstablishThrows,
       Show, Over, flagVars, startVars, roomVars, waitVars, tryVars, loopVars
  <2>7. IdleOver'
    BY <1>1, <1>3, <2>1, TryFacts DEF IInv, SendTypeOK, Phases, Shape, Tidy,
       Straight, OneTry, LoopsLive, AtRest, Owner, Unrest, StartOf, IdleOver,
       OnPeerJoined, RunEstablish, MayEstablish, Establish, Try, EstablishThrows,
       Show, Over, flagVars, startVars, roomVars, waitVars, tryVars, loopVars
  <2>8. DoneOver'
    BY <1>1, <1>3, <2>1, TryFacts DEF IInv, SendTypeOK, Phases, Shape, Tidy,
       Straight, OneTry, LoopsLive, AtRest, Owner, Unrest, StartOf, DoneOver,
       OnPeerJoined, RunEstablish, MayEstablish, Establish, Try, EstablishThrows,
       Show, Over, flagVars, startVars, roomVars, waitVars, tryVars, loopVars
  <2> QED BY <2>2, <2>3, <2>4, <2>5, <2>6, <2>7, <2>8 DEF Tidy
<1> QED BY <1>1, <1>2, <1>3 DEF IInv

\* PEER_LEFT only shows an error.
LEMMA OnPeerLeftStep ==
  ASSUME IInv, NEW s \in Starts, OnPeerLeft(s)
  PROVE  IInv'
<1>1. SendTypeOK'
  BY TryFacts, SendPanelAssumption DEF IInv, SendTypeOK, Shape, Phases, Clients,
     OnPeerLeft, Over, startVars, roomVars, waitVars, tryVars, loopVars, historyVars
<1>2. Shape'
  BY TryFacts DEF IInv, SendTypeOK, Shape, OnPeerLeft, Over, startVars, roomVars,
     waitVars, tryVars, loopVars, historyVars
<1>3. ASSUME Straight' PROVE Tidy'
  <2>1. Straight /\ Tidy
    BY <1>3 DEF IInv, Straight, OnPeerLeft, Over, startVars, roomVars, waitVars,
       tryVars, loopVars, historyVars
  <2>2. OneTry'
    BY <1>1, <1>3, <2>1, TryFacts DEF IInv, SendTypeOK, Phases, Shape, Tidy,
       Straight, OneTry, LoopsLive, AtRest, Owner, Unrest, StartOf, OnPeerLeft,
       Over, startVars, roomVars, waitVars, tryVars, loopVars, historyVars
  <2>3. LoopsLive'
    BY <1>1, <1>3, <2>1, TryFacts DEF IInv, SendTypeOK, Phases, Shape, Tidy,
       Straight, OneTry, LoopsLive, AtRest, Owner, Unrest, StartOf, OnPeerLeft,
       Over, startVars, roomVars, waitVars, tryVars, loopVars, historyVars
  <2>4. AtRest'
    BY <1>1, <1>3, <2>1, TryFacts DEF IInv, SendTypeOK, Phases, Shape, Tidy,
       Straight, OneTry, LoopsLive, AtRest, Owner, Unrest, StartOf, OnPeerLeft,
       Over, startVars, roomVars, waitVars, tryVars, loopVars, historyVars
  <2>5. Owner'
    BY <1>1, <1>3, <2>1, TryFacts DEF IInv, SendTypeOK, Phases, Shape, Tidy,
       Straight, OneTry, LoopsLive, AtRest, Owner, Unrest, StartOf, OnPeerLeft,
       Over, startVars, roomVars, waitVars, tryVars, loopVars, historyVars
  <2>6. OwnCargo'
    BY <1>1, <1>3, <2>1, TryFacts DEF IInv, SendTypeOK, Phases, Shape, Tidy,
       Straight, OneTry, LoopsLive, AtRest, Owner, Unrest, StartOf, OwnCargo,
       OnPeerLeft, Over, startVars, roomVars, waitVars, tryVars, loopVars,
       historyVars
  <2>7. IdleOver'
    BY <1>1, <1>3, <2>1, TryFacts DEF IInv, SendTypeOK, Phases, Shape, Tidy,
       Straight, OneTry, LoopsLive, AtRest, Owner, Unrest, StartOf, IdleOver,
       OnPeerLeft, Over, startVars, roomVars, waitVars, tryVars, loopVars,
       historyVars
  <2>8. DoneOver'
    BY <1>1, <1>3, <2>1, TryFacts DEF IInv, SendTypeOK, Phases, Shape, Tidy,
       Straight, OneTry, LoopsLive, AtRest, Owner, Unrest, StartOf, DoneOver,
       OnPeerLeft, Over, startVars, roomVars, waitVars, tryVars, loopVars,
       historyVars
  <2> QED BY <2>2, <2>3, <2>4, <2>5, <2>6, <2>7, <2>8 DEF Tidy
<1> QED BY <1>1, <1>2, <1>3 DEF IInv

\* A closed socket starts a backoff while there is no connection.
LEMMA OnCloseStep ==
  ASSUME IInv, NEW s \in Starts, OnClose(s)
  PROVE  IInv'
<1>1. SendTypeOK'
  <2>1. (phase \in Phases /\ terminal \in BOOLEAN /\ establishing \in BOOLEAN)'
    BY TryFacts, SendPanelAssumption DEF IInv, SendTypeOK, Shape, Phases, Clients,
       OnClose, AttemptReconnect, AbortLoops, Show, Over, IsConnected, flagVars,
       startVars, tryVars
  <2>2. (attempts \in 0 .. MaxAttempts)'
    BY TryFacts, SendPanelAssumption DEF IInv, SendTypeOK, Shape, Phases, Clients,
       OnClose, AttemptReconnect, AbortLoops, Show, Over, IsConnected, flagVars,
       startVars, tryVars
  <2>3. (start \in 0 .. MaxStarts /\ left \in BOOLEAN /\ several \in BOOLEAN)'
    BY TryFacts, SendPanelAssumption DEF IInv, SendTypeOK, Shape, Phases, Clients,
       OnClose, AttemptReconnect, AbortLoops, Show, Over, IsConnected, flagVars,
       startVars, tryVars
  <2>4. (opening \in [Starts -> {"no", "room", "join"}])'
    BY TryFacts, SendPanelAssumption DEF IInv, SendTypeOK, Shape, Phases, Clients,
       OnClose, AttemptReconnect, AbortLoops, Show, Over, IsConnected, flagVars,
       startVars, tryVars
  <2>5. (client \in [Starts -> Clients] /\ current \in 0 .. MaxStarts)'
    BY TryFacts, SendPanelAssumption DEF IInv, SendTypeOK, Shape, Phases, Clients,
       OnClose, AttemptReconnect, AbortLoops, Show, Over, IsConnected, flagVars,
       startVars, tryVars
  <2>6. (sleeping \in [Starts -> Nat] /\ rejoining \in [Starts -> Nat] /\ tries \in [Starts -> Nat])'
    BY TryFacts, SendPanelAssumption DEF IInv, SendTypeOK, Shape, Phases, Clients,
       OnClose, AttemptReconnect, AbortLoops, Show, Over, IsConnected, flagVars,
       startVars, tryVars
  <2>7. (peers \in Tries \cup {None} /\ live \subseteq Tries /\ opened \subseteq Tries)'
    BY TryFacts, SendPanelAssumption DEF IInv, SendTypeOK, Shape, Phases, Clients,
       OnClose, AttemptReconnect, AbortLoops, Show, Over, IsConnected, flagVars,
       startVars, tryVars
  <2>8. (building \subseteq live /\ deaf \subseteq Tries)'
    BY TryFacts, SendPanelAssumption DEF IInv, SendTypeOK, Shape, Phases, Clients,
       OnClose, AttemptReconnect, AbortLoops, Show, Over, IsConnected, flagVars,
       startVars, tryVars
  <2>9. (measuring \subseteq Tries /\ stopped \subseteq loops /\ loops \subseteq Tries)'
    BY TryFacts, SendPanelAssumption DEF IInv, SendTypeOK, Shape, Phases, Clients,
       OnClose, AttemptReconnect, AbortLoops, Show, Over, IsConnected, flagVars,
       startVars, tryVars
  <2>10. (aborted \in BOOLEAN /\ cargo \in [Tries -> 0 .. MaxStarts])'
    BY TryFacts, SendPanelAssumption DEF IInv, SendTypeOK, Shape, Phases, Clients,
       OnClose, AttemptReconnect, AbortLoops, Show, Over, IsConnected, flagVars,
       startVars, tryVars
  <2>11. (late \in BOOLEAN /\ crossed \in BOOLEAN)'
    BY TryFacts, SendPanelAssumption DEF IInv, SendTypeOK, Shape, Phases, Clients,
       OnClose, AttemptReconnect, AbortLoops, Show, Over, IsConnected, flagVars,
       startVars, tryVars
  <2> QED BY <2>1, <2>2, <2>3, <2>4, <2>5, <2>6, <2>7, <2>8, <2>9, <2>10, <2>11 DEF SendTypeOK
<1>2. Shape'
  BY TryFacts DEF IInv, SendTypeOK, Shape, OnClose, AttemptReconnect, AbortLoops,
     Show, Over, IsConnected, flagVars, startVars, tryVars
<1>3. ASSUME Straight' PROVE Tidy'
  <2>1. Straight /\ Tidy
    BY <1>3 DEF IInv, Straight, OnClose, AttemptReconnect, AbortLoops, Show, Over,
       IsConnected, flagVars, startVars, tryVars
  <2>2. OneTry'
    BY <1>1, <1>3, <2>1, TryFacts DEF IInv, SendTypeOK, Phases, Shape, Tidy,
       Straight, OneTry, LoopsLive, AtRest, Owner, Unrest, StartOf, OnClose,
       AttemptReconnect, AbortLoops, Show, Over, IsConnected, flagVars, startVars,
       tryVars
  <2>3. LoopsLive'
    BY <1>1, <1>3, <2>1, TryFacts DEF IInv, SendTypeOK, Phases, Shape, Tidy,
       Straight, OneTry, LoopsLive, AtRest, Owner, Unrest, StartOf, OnClose,
       AttemptReconnect, AbortLoops, Show, Over, IsConnected, flagVars, startVars,
       tryVars
  <2>4. AtRest'
    BY <1>1, <1>3, <2>1, TryFacts DEF IInv, SendTypeOK, Phases, Shape, Tidy,
       Straight, OneTry, LoopsLive, AtRest, Owner, Unrest, StartOf, OnClose,
       AttemptReconnect, AbortLoops, Show, Over, IsConnected, flagVars, startVars,
       tryVars
  <2>5. Owner'
    BY <1>1, <1>3, <2>1, TryFacts DEF IInv, SendTypeOK, Phases, Shape, Tidy,
       Straight, OneTry, LoopsLive, AtRest, Owner, Unrest, StartOf, OnClose,
       AttemptReconnect, AbortLoops, Show, Over, IsConnected, flagVars, startVars,
       tryVars
  <2>6. OwnCargo'
    BY <1>1, <1>3, <2>1, TryFacts DEF IInv, SendTypeOK, Phases, Shape, Tidy,
       Straight, OneTry, LoopsLive, AtRest, Owner, Unrest, StartOf, OwnCargo,
       OnClose, AttemptReconnect, AbortLoops, Show, Over, IsConnected, flagVars,
       startVars, tryVars
  <2>7. IdleOver'
    BY <1>1, <1>3, <2>1, TryFacts DEF IInv, SendTypeOK, Phases, Shape, Tidy,
       Straight, OneTry, LoopsLive, AtRest, Owner, Unrest, StartOf, IdleOver,
       OnClose, AttemptReconnect, AbortLoops, Show, Over, IsConnected, flagVars,
       startVars, tryVars
  <2>8. DoneOver'
    BY <1>1, <1>3, <2>1, TryFacts DEF IInv, SendTypeOK, Phases, Shape, Tidy,
       Straight, OneTry, LoopsLive, AtRest, Owner, Unrest, StartOf, DoneOver,
       OnClose, AttemptReconnect, AbortLoops, Show, Over, IsConnected, flagVars,
       startVars, tryVars
  <2> QED BY <2>2, <2>3, <2>4, <2>5, <2>6, <2>7, <2>8 DEF Tidy
<1> QED BY <1>1, <1>2, <1>3 DEF IInv

\* A mute socket is still the current one.
LEMMA GoesMuteStep ==
  ASSUME IInv, NEW s \in Starts, GoesMute(s)
  PROVE  IInv'
<1>1. SendTypeOK'
  BY TryFacts, SendPanelAssumption DEF IInv, SendTypeOK, Shape, Phases, Clients,
     GoesMute, flagVars, startVars, waitVars, tryVars, loopVars, historyVars
<1>2. Shape'
  BY TryFacts DEF IInv, SendTypeOK, Shape, GoesMute, flagVars, startVars, waitVars,
     tryVars, loopVars, historyVars
<1>3. ASSUME Straight' PROVE Tidy'
  <2>1. Straight /\ Tidy
    BY <1>3 DEF IInv, Straight, GoesMute, flagVars, startVars, waitVars, tryVars,
       loopVars, historyVars
  <2>2. OneTry'
    BY <1>1, <1>3, <2>1, TryFacts DEF IInv, SendTypeOK, Phases, Shape, Tidy,
       Straight, OneTry, LoopsLive, AtRest, Owner, Unrest, StartOf, GoesMute,
       flagVars, startVars, waitVars, tryVars, loopVars, historyVars
  <2>3. LoopsLive'
    BY <1>1, <1>3, <2>1, TryFacts DEF IInv, SendTypeOK, Phases, Shape, Tidy,
       Straight, OneTry, LoopsLive, AtRest, Owner, Unrest, StartOf, GoesMute,
       flagVars, startVars, waitVars, tryVars, loopVars, historyVars
  <2>4. AtRest'
    BY <1>1, <1>3, <2>1, TryFacts DEF IInv, SendTypeOK, Phases, Shape, Tidy,
       Straight, OneTry, LoopsLive, AtRest, Owner, Unrest, StartOf, GoesMute,
       flagVars, startVars, waitVars, tryVars, loopVars, historyVars
  <2>5. Owner'
    BY <1>1, <1>3, <2>1, TryFacts DEF IInv, SendTypeOK, Phases, Shape, Tidy,
       Straight, OneTry, LoopsLive, AtRest, Owner, Unrest, StartOf, GoesMute,
       flagVars, startVars, waitVars, tryVars, loopVars, historyVars
  <2>6. OwnCargo'
    BY <1>1, <1>3, <2>1, TryFacts DEF IInv, SendTypeOK, Phases, Shape, Tidy,
       Straight, OneTry, LoopsLive, AtRest, Owner, Unrest, StartOf, OwnCargo,
       GoesMute, flagVars, startVars, waitVars, tryVars, loopVars, historyVars
  <2>7. IdleOver'
    BY <1>1, <1>3, <2>1, TryFacts DEF IInv, SendTypeOK, Phases, Shape, Tidy,
       Straight, OneTry, LoopsLive, AtRest, Owner, Unrest, StartOf, IdleOver,
       GoesMute, flagVars, startVars, waitVars, tryVars, loopVars, historyVars
  <2>8. DoneOver'
    BY <1>1, <1>3, <2>1, TryFacts DEF IInv, SendTypeOK, Phases, Shape, Tidy,
       Straight, OneTry, LoopsLive, AtRest, Owner, Unrest, StartOf, DoneOver,
       GoesMute, flagVars, startVars, waitVars, tryVars, loopVars, historyVars
  <2> QED BY <2>2, <2>3, <2>4, <2>5, <2>6, <2>7, <2>8 DEF Tidy
<1> QED BY <1>1, <1>2, <1>3 DEF IInv

\* A backoff ends in a try, in a new socket, or in nothing.
LEMMA BackoffEndsStep ==
  ASSUME IInv, NEW s \in Starts, BackoffEnds(s)
  PROVE  IInv'
<1>1. SendTypeOK'
  <2>1. (phase \in Phases /\ terminal \in BOOLEAN /\ establishing \in BOOLEAN)'
    BY TryFacts, SendPanelAssumption DEF IInv, SendTypeOK, Shape, Phases, Clients,
       BackoffEnds, RunEstablish, MayEstablish, Establish, Try, EstablishThrows,
       Show, Over, IsConnected, StartOf, flagVars, startVars, tryVars, loopVars
  <2>2. (attempts \in 0 .. MaxAttempts)'
    BY TryFacts, SendPanelAssumption DEF IInv, SendTypeOK, Shape, Phases, Clients,
       BackoffEnds, RunEstablish, MayEstablish, Establish, Try, EstablishThrows,
       Show, Over, IsConnected, StartOf, flagVars, startVars, tryVars, loopVars
  <2>3. (start \in 0 .. MaxStarts /\ left \in BOOLEAN /\ several \in BOOLEAN)'
    BY TryFacts, SendPanelAssumption DEF IInv, SendTypeOK, Shape, Phases, Clients,
       BackoffEnds, RunEstablish, MayEstablish, Establish, Try, EstablishThrows,
       Show, Over, IsConnected, StartOf, flagVars, startVars, tryVars, loopVars
  <2>4. (opening \in [Starts -> {"no", "room", "join"}])'
    BY TryFacts, SendPanelAssumption DEF IInv, SendTypeOK, Shape, Phases, Clients,
       BackoffEnds, RunEstablish, MayEstablish, Establish, Try, EstablishThrows,
       Show, Over, IsConnected, StartOf, flagVars, startVars, tryVars, loopVars
  <2>5. (client \in [Starts -> Clients] /\ current \in 0 .. MaxStarts)'
    BY TryFacts, SendPanelAssumption DEF IInv, SendTypeOK, Shape, Phases, Clients,
       BackoffEnds, RunEstablish, MayEstablish, Establish, Try, EstablishThrows,
       Show, Over, IsConnected, StartOf, flagVars, startVars, tryVars, loopVars
  <2>6. (sleeping \in [Starts -> Nat] /\ rejoining \in [Starts -> Nat] /\ tries \in [Starts -> Nat])'
    BY TryFacts, SendPanelAssumption DEF IInv, SendTypeOK, Shape, Phases, Clients,
       BackoffEnds, RunEstablish, MayEstablish, Establish, Try, EstablishThrows,
       Show, Over, IsConnected, StartOf, flagVars, startVars, tryVars, loopVars
  <2>7. (peers \in Tries \cup {None} /\ live \subseteq Tries /\ opened \subseteq Tries)'
    BY TryFacts, SendPanelAssumption DEF IInv, SendTypeOK, Shape, Phases, Clients,
       BackoffEnds, RunEstablish, MayEstablish, Establish, Try, EstablishThrows,
       Show, Over, IsConnected, StartOf, flagVars, startVars, tryVars, loopVars
  <2>8. (building \subseteq live /\ deaf \subseteq Tries)'
    BY TryFacts, SendPanelAssumption DEF IInv, SendTypeOK, Shape, Phases, Clients,
       BackoffEnds, RunEstablish, MayEstablish, Establish, Try, EstablishThrows,
       Show, Over, IsConnected, StartOf, flagVars, startVars, tryVars, loopVars
  <2>9. (measuring \subseteq Tries /\ stopped \subseteq loops /\ loops \subseteq Tries)'
    BY TryFacts, SendPanelAssumption DEF IInv, SendTypeOK, Shape, Phases, Clients,
       BackoffEnds, RunEstablish, MayEstablish, Establish, Try, EstablishThrows,
       Show, Over, IsConnected, StartOf, flagVars, startVars, tryVars, loopVars
  <2>10. (aborted \in BOOLEAN /\ cargo \in [Tries -> 0 .. MaxStarts])'
    BY TryFacts, SendPanelAssumption DEF IInv, SendTypeOK, Shape, Phases, Clients,
       BackoffEnds, RunEstablish, MayEstablish, Establish, Try, EstablishThrows,
       Show, Over, IsConnected, StartOf, flagVars, startVars, tryVars, loopVars
  <2>11. (late \in BOOLEAN /\ crossed \in BOOLEAN)'
    BY TryFacts, SendPanelAssumption DEF IInv, SendTypeOK, Shape, Phases, Clients,
       BackoffEnds, RunEstablish, MayEstablish, Establish, Try, EstablishThrows,
       Show, Over, IsConnected, StartOf, flagVars, startVars, tryVars, loopVars
  <2> QED BY <2>1, <2>2, <2>3, <2>4, <2>5, <2>6, <2>7, <2>8, <2>9, <2>10, <2>11 DEF SendTypeOK
<1>2. Shape'
  BY TryFacts DEF IInv, SendTypeOK, Shape, BackoffEnds, RunEstablish, MayEstablish,
     Establish, Try, EstablishThrows, Show, Over, IsConnected, StartOf, flagVars,
     startVars, tryVars, loopVars
<1>3. ASSUME Straight' PROVE Tidy'
  <2>1. Straight /\ Tidy
    BY <1>3 DEF IInv, Straight, BackoffEnds, RunEstablish, MayEstablish, Establish,
       Try, EstablishThrows, Show, Over, IsConnected, StartOf, flagVars, startVars,
       tryVars, loopVars
  <2>2. OneTry'
    BY <1>1, <1>3, <2>1, TryFacts DEF IInv, SendTypeOK, Phases, Shape, Tidy,
       Straight, OneTry, LoopsLive, AtRest, Owner, Unrest, StartOf, BackoffEnds,
       RunEstablish, MayEstablish, Establish, Try, EstablishThrows, Show, Over,
       IsConnected, flagVars, startVars, tryVars, loopVars
  <2>3. LoopsLive'
    BY <1>1, <1>3, <2>1, TryFacts DEF IInv, SendTypeOK, Phases, Shape, Tidy,
       Straight, OneTry, LoopsLive, AtRest, Owner, Unrest, StartOf, BackoffEnds,
       RunEstablish, MayEstablish, Establish, Try, EstablishThrows, Show, Over,
       IsConnected, flagVars, startVars, tryVars, loopVars
  <2>4. AtRest'
    BY <1>1, <1>3, <2>1, TryFacts DEF IInv, SendTypeOK, Phases, Shape, Tidy,
       Straight, OneTry, LoopsLive, AtRest, Owner, Unrest, StartOf, BackoffEnds,
       RunEstablish, MayEstablish, Establish, Try, EstablishThrows, Show, Over,
       IsConnected, flagVars, startVars, tryVars, loopVars
  <2>5. Owner'
    BY <1>1, <1>3, <2>1, TryFacts DEF IInv, SendTypeOK, Phases, Shape, Tidy,
       Straight, OneTry, LoopsLive, AtRest, Owner, Unrest, StartOf, BackoffEnds,
       RunEstablish, MayEstablish, Establish, Try, EstablishThrows, Show, Over,
       IsConnected, flagVars, startVars, tryVars, loopVars
  <2>6. OwnCargo'
    BY <1>1, <1>3, <2>1, TryFacts DEF IInv, SendTypeOK, Phases, Shape, Tidy,
       Straight, OneTry, LoopsLive, AtRest, Owner, Unrest, StartOf, OwnCargo,
       BackoffEnds, RunEstablish, MayEstablish, Establish, Try, EstablishThrows,
       Show, Over, IsConnected, flagVars, startVars, tryVars, loopVars
  <2>7. IdleOver'
    BY <1>1, <1>3, <2>1, TryFacts DEF IInv, SendTypeOK, Phases, Shape, Tidy,
       Straight, OneTry, LoopsLive, AtRest, Owner, Unrest, StartOf, IdleOver,
       BackoffEnds, RunEstablish, MayEstablish, Establish, Try, EstablishThrows,
       Show, Over, IsConnected, flagVars, startVars, tryVars, loopVars
  <2>8. DoneOver'
    BY <1>1, <1>3, <2>1, TryFacts DEF IInv, SendTypeOK, Phases, Shape, Tidy,
       Straight, OneTry, LoopsLive, AtRest, Owner, Unrest, StartOf, DoneOver,
       BackoffEnds, RunEstablish, MayEstablish, Establish, Try, EstablishThrows,
       Show, Over, IsConnected, flagVars, startVars, tryVars, loopVars
  <2> QED BY <2>2, <2>3, <2>4, <2>5, <2>6, <2>7, <2>8 DEF Tidy
<1> QED BY <1>1, <1>2, <1>3 DEF IInv

\* A panel that waits again has no connection.
LEMMA RejoinedStep ==
  ASSUME IInv, NEW s \in Starts, Rejoined(s)
  PROVE  IInv'
<1>1. SendTypeOK'
  BY TryFacts, SendPanelAssumption DEF IInv, SendTypeOK, Shape, Phases, Clients,
     Rejoined, Show, startVars, tryVars, loopVars, historyVars
<1>2. Shape'
  BY TryFacts DEF IInv, SendTypeOK, Shape, Rejoined, Show, startVars, tryVars,
     loopVars, historyVars
<1>3. ASSUME Straight' PROVE Tidy'
  <2>1. Straight /\ Tidy
    BY <1>3 DEF IInv, Straight, Rejoined, Show, startVars, tryVars, loopVars,
       historyVars
  <2>2. OneTry'
    BY <1>1, <1>3, <2>1, TryFacts DEF IInv, SendTypeOK, Phases, Shape, Tidy,
       Straight, OneTry, LoopsLive, AtRest, Owner, Unrest, StartOf, Rejoined, Show,
       startVars, tryVars, loopVars, historyVars
  <2>3. LoopsLive'
    BY <1>1, <1>3, <2>1, TryFacts DEF IInv, SendTypeOK, Phases, Shape, Tidy,
       Straight, OneTry, LoopsLive, AtRest, Owner, Unrest, StartOf, Rejoined, Show,
       startVars, tryVars, loopVars, historyVars
  <2>4. AtRest'
    BY <1>1, <1>3, <2>1, TryFacts DEF IInv, SendTypeOK, Phases, Shape, Tidy,
       Straight, OneTry, LoopsLive, AtRest, Owner, Unrest, StartOf, Rejoined, Show,
       startVars, tryVars, loopVars, historyVars
  <2>5. Owner'
    BY <1>1, <1>3, <2>1, TryFacts DEF IInv, SendTypeOK, Phases, Shape, Tidy,
       Straight, OneTry, LoopsLive, AtRest, Owner, Unrest, StartOf, Rejoined, Show,
       startVars, tryVars, loopVars, historyVars
  <2>6. OwnCargo'
    BY <1>1, <1>3, <2>1, TryFacts DEF IInv, SendTypeOK, Phases, Shape, Tidy,
       Straight, OneTry, LoopsLive, AtRest, Owner, Unrest, StartOf, OwnCargo,
       Rejoined, Show, startVars, tryVars, loopVars, historyVars
  <2>7. IdleOver'
    BY <1>1, <1>3, <2>1, TryFacts DEF IInv, SendTypeOK, Phases, Shape, Tidy,
       Straight, OneTry, LoopsLive, AtRest, Owner, Unrest, StartOf, IdleOver,
       Rejoined, Show, startVars, tryVars, loopVars, historyVars
  <2>8. DoneOver'
    BY <1>1, <1>3, <2>1, TryFacts DEF IInv, SendTypeOK, Phases, Shape, Tidy,
       Straight, OneTry, LoopsLive, AtRest, Owner, Unrest, StartOf, DoneOver,
       Rejoined, Show, startVars, tryVars, loopVars, historyVars
  <2> QED BY <2>2, <2>3, <2>4, <2>5, <2>6, <2>7, <2>8 DEF Tidy
<1> QED BY <1>1, <1>2, <1>3 DEF IInv

\* A connect() that fails ends the recovery.
LEMMA RejoinFailsStep ==
  ASSUME IInv, NEW s \in Starts, RejoinFails(s)
  PROVE  IInv'
<1>1. SendTypeOK'
  BY TryFacts, SendPanelAssumption DEF IInv, SendTypeOK, Shape, Phases, Clients,
     RejoinFails, Over, startVars, tryVars, loopVars, historyVars
<1>2. Shape'
  BY TryFacts DEF IInv, SendTypeOK, Shape, RejoinFails, Over, startVars, tryVars,
     loopVars, historyVars
<1>3. ASSUME Straight' PROVE Tidy'
  <2>1. Straight /\ Tidy
    BY <1>3 DEF IInv, Straight, RejoinFails, Over, startVars, tryVars, loopVars,
       historyVars
  <2>2. OneTry'
    BY <1>1, <1>3, <2>1, TryFacts DEF IInv, SendTypeOK, Phases, Shape, Tidy,
       Straight, OneTry, LoopsLive, AtRest, Owner, Unrest, StartOf, RejoinFails,
       Over, startVars, tryVars, loopVars, historyVars
  <2>3. LoopsLive'
    BY <1>1, <1>3, <2>1, TryFacts DEF IInv, SendTypeOK, Phases, Shape, Tidy,
       Straight, OneTry, LoopsLive, AtRest, Owner, Unrest, StartOf, RejoinFails,
       Over, startVars, tryVars, loopVars, historyVars
  <2>4. AtRest'
    BY <1>1, <1>3, <2>1, TryFacts DEF IInv, SendTypeOK, Phases, Shape, Tidy,
       Straight, OneTry, LoopsLive, AtRest, Owner, Unrest, StartOf, RejoinFails,
       Over, startVars, tryVars, loopVars, historyVars
  <2>5. Owner'
    BY <1>1, <1>3, <2>1, TryFacts DEF IInv, SendTypeOK, Phases, Shape, Tidy,
       Straight, OneTry, LoopsLive, AtRest, Owner, Unrest, StartOf, RejoinFails,
       Over, startVars, tryVars, loopVars, historyVars
  <2>6. OwnCargo'
    BY <1>1, <1>3, <2>1, TryFacts DEF IInv, SendTypeOK, Phases, Shape, Tidy,
       Straight, OneTry, LoopsLive, AtRest, Owner, Unrest, StartOf, OwnCargo,
       RejoinFails, Over, startVars, tryVars, loopVars, historyVars
  <2>7. IdleOver'
    BY <1>1, <1>3, <2>1, TryFacts DEF IInv, SendTypeOK, Phases, Shape, Tidy,
       Straight, OneTry, LoopsLive, AtRest, Owner, Unrest, StartOf, IdleOver,
       RejoinFails, Over, startVars, tryVars, loopVars, historyVars
  <2>8. DoneOver'
    BY <1>1, <1>3, <2>1, TryFacts DEF IInv, SendTypeOK, Phases, Shape, Tidy,
       Straight, OneTry, LoopsLive, AtRest, Owner, Unrest, StartOf, DoneOver,
       RejoinFails, Over, startVars, tryVars, loopVars, historyVars
  <2> QED BY <2>2, <2>3, <2>4, <2>5, <2>6, <2>7, <2>8 DEF Tidy
<1> QED BY <1>1, <1>2, <1>3 DEF IInv

\* The channel of the one try opens: its files are those of the current start.
LEMMA ChannelOpensStep ==
  ASSUME IInv, NEW e \in Tries, ChannelOpens(e)
  PROVE  IInv'
<1>1. SendTypeOK'
  BY TryFacts, SendPanelAssumption DEF IInv, SendTypeOK, Shape, Phases, Clients,
     ChannelOpens, RunTransfer, Show, startVars, roomVars, waitVars, historyVars
<1>2. Shape'
  BY TryFacts DEF IInv, SendTypeOK, Shape, ChannelOpens, RunTransfer, Show,
     startVars, roomVars, waitVars, historyVars
<1>3. ASSUME Straight' PROVE Tidy'
  <2>1. Straight /\ Tidy
    BY <1>3 DEF IInv, Straight, ChannelOpens, RunTransfer, Show, startVars,
       roomVars, waitVars, historyVars
  <2>2. OneTry'
    BY <1>1, <1>3, <2>1, TryFacts DEF IInv, SendTypeOK, Phases, Shape, Tidy,
       Straight, OneTry, LoopsLive, AtRest, Owner, Unrest, StartOf, ChannelOpens,
       RunTransfer, Show, startVars, roomVars, waitVars, historyVars
  <2>3. LoopsLive'
    BY <1>1, <1>3, <2>1, TryFacts DEF IInv, SendTypeOK, Phases, Shape, Tidy,
       Straight, OneTry, LoopsLive, AtRest, Owner, Unrest, StartOf, ChannelOpens,
       RunTransfer, Show, startVars, roomVars, waitVars, historyVars
  <2>4. AtRest'
    BY <1>1, <1>3, <2>1, TryFacts DEF IInv, SendTypeOK, Phases, Shape, Tidy,
       Straight, OneTry, LoopsLive, AtRest, Owner, Unrest, StartOf, ChannelOpens,
       RunTransfer, Show, startVars, roomVars, waitVars, historyVars
  <2>5. Owner'
    BY <1>1, <1>3, <2>1, TryFacts DEF IInv, SendTypeOK, Phases, Shape, Tidy,
       Straight, OneTry, LoopsLive, AtRest, Owner, Unrest, StartOf, ChannelOpens,
       RunTransfer, Show, startVars, roomVars, waitVars, historyVars
  <2>6. OwnCargo'
    BY <1>1, <1>3, <2>1, TryFacts DEF IInv, SendTypeOK, Phases, Shape, Tidy,
       Straight, OneTry, LoopsLive, AtRest, Owner, Unrest, StartOf, OwnCargo,
       ChannelOpens, RunTransfer, Show, startVars, roomVars, waitVars, historyVars
  <2>7. IdleOver'
    BY <1>1, <1>3, <2>1, TryFacts DEF IInv, SendTypeOK, Phases, Shape, Tidy,
       Straight, OneTry, LoopsLive, AtRest, Owner, Unrest, StartOf, IdleOver,
       ChannelOpens, RunTransfer, Show, startVars, roomVars, waitVars, historyVars
  <2>8. DoneOver'
    BY <1>1, <1>3, <2>1, TryFacts DEF IInv, SendTypeOK, Phases, Shape, Tidy,
       Straight, OneTry, LoopsLive, AtRest, Owner, Unrest, StartOf, DoneOver,
       ChannelOpens, RunTransfer, Show, startVars, roomVars, waitVars, historyVars
  <2> QED BY <2>2, <2>3, <2>4, <2>5, <2>6, <2>7, <2>8 DEF Tidy
<1> QED BY <1>1, <1>2, <1>3 DEF IInv

\* So do the channels of several connections.
LEMMA BuiltStep ==
  ASSUME IInv, NEW e \in Tries, Built(e)
  PROVE  IInv'
<1>1. SendTypeOK'
  BY TryFacts, SendPanelAssumption DEF IInv, SendTypeOK, Shape, Phases, Clients,
     Built, RunTransfer, Show, startVars, roomVars, waitVars, historyVars
<1>2. Shape'
  BY TryFacts DEF IInv, SendTypeOK, Shape, Built, RunTransfer, Show, startVars,
     roomVars, waitVars, historyVars
<1>3. ASSUME Straight' PROVE Tidy'
  <2>1. Straight /\ Tidy
    BY <1>3 DEF IInv, Straight, Built, RunTransfer, Show, startVars, roomVars,
       waitVars, historyVars
  <2>2. OneTry'
    BY <1>1, <1>3, <2>1, TryFacts DEF IInv, SendTypeOK, Phases, Shape, Tidy,
       Straight, OneTry, LoopsLive, AtRest, Owner, Unrest, StartOf, Built,
       RunTransfer, Show, startVars, roomVars, waitVars, historyVars
  <2>3. LoopsLive'
    BY <1>1, <1>3, <2>1, TryFacts DEF IInv, SendTypeOK, Phases, Shape, Tidy,
       Straight, OneTry, LoopsLive, AtRest, Owner, Unrest, StartOf, Built,
       RunTransfer, Show, startVars, roomVars, waitVars, historyVars
  <2>4. AtRest'
    BY <1>1, <1>3, <2>1, TryFacts DEF IInv, SendTypeOK, Phases, Shape, Tidy,
       Straight, OneTry, LoopsLive, AtRest, Owner, Unrest, StartOf, Built,
       RunTransfer, Show, startVars, roomVars, waitVars, historyVars
  <2>5. Owner'
    BY <1>1, <1>3, <2>1, TryFacts DEF IInv, SendTypeOK, Phases, Shape, Tidy,
       Straight, OneTry, LoopsLive, AtRest, Owner, Unrest, StartOf, Built,
       RunTransfer, Show, startVars, roomVars, waitVars, historyVars
  <2>6. OwnCargo'
    BY <1>1, <1>3, <2>1, TryFacts DEF IInv, SendTypeOK, Phases, Shape, Tidy,
       Straight, OneTry, LoopsLive, AtRest, Owner, Unrest, StartOf, OwnCargo, Built,
       RunTransfer, Show, startVars, roomVars, waitVars, historyVars
  <2>7. IdleOver'
    BY <1>1, <1>3, <2>1, TryFacts DEF IInv, SendTypeOK, Phases, Shape, Tidy,
       Straight, OneTry, LoopsLive, AtRest, Owner, Unrest, StartOf, IdleOver, Built,
       RunTransfer, Show, startVars, roomVars, waitVars, historyVars
  <2>8. DoneOver'
    BY <1>1, <1>3, <2>1, TryFacts DEF IInv, SendTypeOK, Phases, Shape, Tidy,
       Straight, OneTry, LoopsLive, AtRest, Owner, Unrest, StartOf, DoneOver, Built,
       RunTransfer, Show, startVars, roomVars, waitVars, historyVars
  <2> QED BY <2>2, <2>3, <2>4, <2>5, <2>6, <2>7, <2>8 DEF Tidy
<1> QED BY <1>1, <1>2, <1>3 DEF IInv

\* Connections that did not open have no loop.
LEMMA NoneBuiltStep ==
  ASSUME IInv, NEW e \in Tries, NoneBuilt(e)
  PROVE  IInv'
<1>1. SendTypeOK'
  BY TryFacts, SendPanelAssumption DEF IInv, SendTypeOK, Shape, Phases, Clients,
     NoneBuilt, Over, startVars, roomVars, waitVars, loopVars, historyVars
<1>2. Shape'
  BY TryFacts DEF IInv, SendTypeOK, Shape, NoneBuilt, Over, startVars, roomVars,
     waitVars, loopVars, historyVars
<1>3. ASSUME Straight' PROVE Tidy'
  <2>1. Straight /\ Tidy
    BY <1>3 DEF IInv, Straight, NoneBuilt, Over, startVars, roomVars, waitVars,
       loopVars, historyVars
  <2>2. OneTry'
    BY <1>1, <1>3, <2>1, TryFacts DEF IInv, SendTypeOK, Phases, Shape, Tidy,
       Straight, OneTry, LoopsLive, AtRest, Owner, Unrest, StartOf, NoneBuilt, Over,
       startVars, roomVars, waitVars, loopVars, historyVars
  <2>3. LoopsLive'
    BY <1>1, <1>3, <2>1, TryFacts DEF IInv, SendTypeOK, Phases, Shape, Tidy,
       Straight, OneTry, LoopsLive, AtRest, Owner, Unrest, StartOf, NoneBuilt, Over,
       startVars, roomVars, waitVars, loopVars, historyVars
  <2>4. AtRest'
    BY <1>1, <1>3, <2>1, TryFacts DEF IInv, SendTypeOK, Phases, Shape, Tidy,
       Straight, OneTry, LoopsLive, AtRest, Owner, Unrest, StartOf, NoneBuilt, Over,
       startVars, roomVars, waitVars, loopVars, historyVars
  <2>5. Owner'
    BY <1>1, <1>3, <2>1, TryFacts DEF IInv, SendTypeOK, Phases, Shape, Tidy,
       Straight, OneTry, LoopsLive, AtRest, Owner, Unrest, StartOf, NoneBuilt, Over,
       startVars, roomVars, waitVars, loopVars, historyVars
  <2>6. OwnCargo'
    BY <1>1, <1>3, <2>1, TryFacts DEF IInv, SendTypeOK, Phases, Shape, Tidy,
       Straight, OneTry, LoopsLive, AtRest, Owner, Unrest, StartOf, OwnCargo,
       NoneBuilt, Over, startVars, roomVars, waitVars, loopVars, historyVars
  <2>7. IdleOver'
    BY <1>1, <1>3, <2>1, TryFacts DEF IInv, SendTypeOK, Phases, Shape, Tidy,
       Straight, OneTry, LoopsLive, AtRest, Owner, Unrest, StartOf, IdleOver,
       NoneBuilt, Over, startVars, roomVars, waitVars, loopVars, historyVars
  <2>8. DoneOver'
    BY <1>1, <1>3, <2>1, TryFacts DEF IInv, SendTypeOK, Phases, Shape, Tidy,
       Straight, OneTry, LoopsLive, AtRest, Owner, Unrest, StartOf, DoneOver,
       NoneBuilt, Over, startVars, roomVars, waitVars, loopVars, historyVars
  <2> QED BY <2>2, <2>3, <2>4, <2>5, <2>6, <2>7, <2>8 DEF Tidy
<1> QED BY <1>1, <1>2, <1>3 DEF IInv

\* A lost connection is closed, and its loop aborted, before the next.
LEMMA ConnectionLostStep ==
  ASSUME IInv, NEW e \in Tries, ConnectionLost(e)
  PROVE  IInv'
<1>1. SendTypeOK'
  <2>1. (phase \in Phases /\ terminal \in BOOLEAN /\ establishing \in BOOLEAN)'
    BY TryFacts, SendPanelAssumption DEF IInv, SendTypeOK, Shape, Phases, Clients,
       ConnectionLost, AttemptReconnect, AbortLoops, Show, Over, ToResume, StartOf,
       flagVars, startVars, roomVars, tryVars
  <2>2. (attempts \in 0 .. MaxAttempts)'
    BY TryFacts, SendPanelAssumption DEF IInv, SendTypeOK, Shape, Phases, Clients,
       ConnectionLost, AttemptReconnect, AbortLoops, Show, Over, ToResume, StartOf,
       flagVars, startVars, roomVars, tryVars
  <2>3. (start \in 0 .. MaxStarts /\ left \in BOOLEAN /\ several \in BOOLEAN)'
    BY TryFacts, SendPanelAssumption DEF IInv, SendTypeOK, Shape, Phases, Clients,
       ConnectionLost, AttemptReconnect, AbortLoops, Show, Over, ToResume, StartOf,
       flagVars, startVars, roomVars, tryVars
  <2>4. (opening \in [Starts -> {"no", "room", "join"}])'
    BY TryFacts, SendPanelAssumption DEF IInv, SendTypeOK, Shape, Phases, Clients,
       ConnectionLost, AttemptReconnect, AbortLoops, Show, Over, ToResume, StartOf,
       flagVars, startVars, roomVars, tryVars
  <2>5. (client \in [Starts -> Clients] /\ current \in 0 .. MaxStarts)'
    BY TryFacts, SendPanelAssumption DEF IInv, SendTypeOK, Shape, Phases, Clients,
       ConnectionLost, AttemptReconnect, AbortLoops, Show, Over, ToResume, StartOf,
       flagVars, startVars, roomVars, tryVars
  <2>6. (sleeping \in [Starts -> Nat] /\ rejoining \in [Starts -> Nat] /\ tries \in [Starts -> Nat])'
    BY TryFacts, SendPanelAssumption DEF IInv, SendTypeOK, Shape, Phases, Clients,
       ConnectionLost, AttemptReconnect, AbortLoops, Show, Over, ToResume, StartOf,
       flagVars, startVars, roomVars, tryVars
  <2>7. (peers \in Tries \cup {None} /\ live \subseteq Tries /\ opened \subseteq Tries)'
    BY TryFacts, SendPanelAssumption DEF IInv, SendTypeOK, Shape, Phases, Clients,
       ConnectionLost, AttemptReconnect, AbortLoops, Show, Over, ToResume, StartOf,
       flagVars, startVars, roomVars, tryVars
  <2>8. (building \subseteq live /\ deaf \subseteq Tries)'
    BY TryFacts, SendPanelAssumption DEF IInv, SendTypeOK, Shape, Phases, Clients,
       ConnectionLost, AttemptReconnect, AbortLoops, Show, Over, ToResume, StartOf,
       flagVars, startVars, roomVars, tryVars
  <2>9. (measuring \subseteq Tries /\ stopped \subseteq loops /\ loops \subseteq Tries)'
    BY TryFacts, SendPanelAssumption DEF IInv, SendTypeOK, Shape, Phases, Clients,
       ConnectionLost, AttemptReconnect, AbortLoops, Show, Over, ToResume, StartOf,
       flagVars, startVars, roomVars, tryVars
  <2>10. (aborted \in BOOLEAN /\ cargo \in [Tries -> 0 .. MaxStarts])'
    BY TryFacts, SendPanelAssumption DEF IInv, SendTypeOK, Shape, Phases, Clients,
       ConnectionLost, AttemptReconnect, AbortLoops, Show, Over, ToResume, StartOf,
       flagVars, startVars, roomVars, tryVars
  <2>11. (late \in BOOLEAN /\ crossed \in BOOLEAN)'
    BY TryFacts, SendPanelAssumption DEF IInv, SendTypeOK, Shape, Phases, Clients,
       ConnectionLost, AttemptReconnect, AbortLoops, Show, Over, ToResume, StartOf,
       flagVars, startVars, roomVars, tryVars
  <2> QED BY <2>1, <2>2, <2>3, <2>4, <2>5, <2>6, <2>7, <2>8, <2>9, <2>10, <2>11 DEF SendTypeOK
<1>2. Shape'
  BY TryFacts DEF IInv, SendTypeOK, Shape, ConnectionLost, AttemptReconnect,
     AbortLoops, Show, Over, ToResume, StartOf, flagVars, startVars, roomVars,
     tryVars
<1>3. ASSUME Straight' PROVE Tidy'
  <2>1. Straight /\ Tidy
    BY <1>3 DEF IInv, Straight, ConnectionLost, AttemptReconnect, AbortLoops, Show,
       Over, ToResume, StartOf, flagVars, startVars, roomVars, tryVars
  <2>2. OneTry'
    BY <1>1, <1>3, <2>1, TryFacts DEF IInv, SendTypeOK, Phases, Shape, Tidy,
       Straight, OneTry, LoopsLive, AtRest, Owner, Unrest, StartOf, ConnectionLost,
       AttemptReconnect, AbortLoops, Show, Over, ToResume, flagVars, startVars,
       roomVars, tryVars
  <2>3. LoopsLive'
    BY <1>1, <1>3, <2>1, TryFacts DEF IInv, SendTypeOK, Phases, Shape, Tidy,
       Straight, OneTry, LoopsLive, AtRest, Owner, Unrest, StartOf, ConnectionLost,
       AttemptReconnect, AbortLoops, Show, Over, ToResume, flagVars, startVars,
       roomVars, tryVars
  <2>4. AtRest'
    BY <1>1, <1>3, <2>1, TryFacts DEF IInv, SendTypeOK, Phases, Shape, Tidy,
       Straight, OneTry, LoopsLive, AtRest, Owner, Unrest, StartOf, ConnectionLost,
       AttemptReconnect, AbortLoops, Show, Over, ToResume, flagVars, startVars,
       roomVars, tryVars
  <2>5. Owner'
    BY <1>1, <1>3, <2>1, TryFacts DEF IInv, SendTypeOK, Phases, Shape, Tidy,
       Straight, OneTry, LoopsLive, AtRest, Owner, Unrest, StartOf, ConnectionLost,
       AttemptReconnect, AbortLoops, Show, Over, ToResume, flagVars, startVars,
       roomVars, tryVars
  <2>6. OwnCargo'
    BY <1>1, <1>3, <2>1, TryFacts DEF IInv, SendTypeOK, Phases, Shape, Tidy,
       Straight, OneTry, LoopsLive, AtRest, Owner, Unrest, StartOf, OwnCargo,
       ConnectionLost, AttemptReconnect, AbortLoops, Show, Over, ToResume, flagVars,
       startVars, roomVars, tryVars
  <2>7. IdleOver'
    BY <1>1, <1>3, <2>1, TryFacts DEF IInv, SendTypeOK, Phases, Shape, Tidy,
       Straight, OneTry, LoopsLive, AtRest, Owner, Unrest, StartOf, IdleOver,
       ConnectionLost, AttemptReconnect, AbortLoops, Show, Over, ToResume, flagVars,
       startVars, roomVars, tryVars
  <2>8. DoneOver'
    BY <1>1, <1>3, <2>1, TryFacts DEF IInv, SendTypeOK, Phases, Shape, Tidy,
       Straight, OneTry, LoopsLive, AtRest, Owner, Unrest, StartOf, DoneOver,
       ConnectionLost, AttemptReconnect, AbortLoops, Show, Over, ToResume, flagVars,
       startVars, roomVars, tryVars
  <2> QED BY <2>2, <2>3, <2>4, <2>5, <2>6, <2>7, <2>8 DEF Tidy
<1> QED BY <1>1, <1>2, <1>3 DEF IInv

\* A loop starts on a connection that is not closed only.
LEMMA MeasuredStep ==
  ASSUME IInv, NEW e \in Tries, Measured(e)
  PROVE  IInv'
<1>1. SendTypeOK'
  <2>1. (phase \in Phases /\ terminal \in BOOLEAN /\ establishing \in BOOLEAN)'
    BY TryFacts, SendPanelAssumption DEF IInv, SendTypeOK, Shape, Phases, Clients,
       Measured, Report, Over, Stays, startVars, roomVars, waitVars, tryVars,
       historyVars
  <2>2. (attempts \in 0 .. MaxAttempts)'
    BY TryFacts, SendPanelAssumption DEF IInv, SendTypeOK, Shape, Phases, Clients,
       Measured, Report, Over, Stays, startVars, roomVars, waitVars, tryVars,
       historyVars
  <2>3. (start \in 0 .. MaxStarts /\ left \in BOOLEAN /\ several \in BOOLEAN)'
    BY TryFacts, SendPanelAssumption DEF IInv, SendTypeOK, Shape, Phases, Clients,
       Measured, Report, Over, Stays, startVars, roomVars, waitVars, tryVars,
       historyVars
  <2>4. (opening \in [Starts -> {"no", "room", "join"}])'
    BY TryFacts, SendPanelAssumption DEF IInv, SendTypeOK, Shape, Phases, Clients,
       Measured, Report, Over, Stays, startVars, roomVars, waitVars, tryVars,
       historyVars
  <2>5. (client \in [Starts -> Clients] /\ current \in 0 .. MaxStarts)'
    BY TryFacts, SendPanelAssumption DEF IInv, SendTypeOK, Shape, Phases, Clients,
       Measured, Report, Over, Stays, startVars, roomVars, waitVars, tryVars,
       historyVars
  <2>6. (sleeping \in [Starts -> Nat] /\ rejoining \in [Starts -> Nat] /\ tries \in [Starts -> Nat])'
    BY TryFacts, SendPanelAssumption DEF IInv, SendTypeOK, Shape, Phases, Clients,
       Measured, Report, Over, Stays, startVars, roomVars, waitVars, tryVars,
       historyVars
  <2>7. (peers \in Tries \cup {None} /\ live \subseteq Tries /\ opened \subseteq Tries)'
    BY TryFacts, SendPanelAssumption DEF IInv, SendTypeOK, Shape, Phases, Clients,
       Measured, Report, Over, Stays, startVars, roomVars, waitVars, tryVars,
       historyVars
  <2>8. (building \subseteq live /\ deaf \subseteq Tries)'
    BY TryFacts, SendPanelAssumption DEF IInv, SendTypeOK, Shape, Phases, Clients,
       Measured, Report, Over, Stays, startVars, roomVars, waitVars, tryVars,
       historyVars
  <2>9. (measuring \subseteq Tries /\ stopped \subseteq loops /\ loops \subseteq Tries)'
    BY TryFacts, SendPanelAssumption DEF IInv, SendTypeOK, Shape, Phases, Clients,
       Measured, Report, Over, Stays, startVars, roomVars, waitVars, tryVars,
       historyVars
  <2>10. (aborted \in BOOLEAN /\ cargo \in [Tries -> 0 .. MaxStarts])'
    BY TryFacts, SendPanelAssumption DEF IInv, SendTypeOK, Shape, Phases, Clients,
       Measured, Report, Over, Stays, startVars, roomVars, waitVars, tryVars,
       historyVars
  <2>11. (late \in BOOLEAN /\ crossed \in BOOLEAN)'
    BY TryFacts, SendPanelAssumption DEF IInv, SendTypeOK, Shape, Phases, Clients,
       Measured, Report, Over, Stays, startVars, roomVars, waitVars, tryVars,
       historyVars
  <2> QED BY <2>1, <2>2, <2>3, <2>4, <2>5, <2>6, <2>7, <2>8, <2>9, <2>10, <2>11 DEF SendTypeOK
<1>2. Shape'
  BY TryFacts DEF IInv, SendTypeOK, Shape, Measured, Report, Over, Stays, startVars,
     roomVars, waitVars, tryVars, historyVars
<1>3. ASSUME Straight' PROVE Tidy'
  <2>1. Straight /\ Tidy
    BY <1>3 DEF IInv, Straight, Measured, Report, Over, Stays, startVars, roomVars,
       waitVars, tryVars, historyVars
  <2>2. OneTry'
    BY <1>1, <1>3, <2>1, TryFacts DEF IInv, SendTypeOK, Phases, Shape, Tidy,
       Straight, OneTry, LoopsLive, AtRest, Owner, Unrest, StartOf, Measured,
       Report, Over, Stays, startVars, roomVars, waitVars, tryVars, historyVars
  <2>3. LoopsLive'
    BY <1>1, <1>3, <2>1, TryFacts DEF IInv, SendTypeOK, Phases, Shape, Tidy,
       Straight, OneTry, LoopsLive, AtRest, Owner, Unrest, StartOf, Measured,
       Report, Over, Stays, startVars, roomVars, waitVars, tryVars, historyVars
  <2>4. AtRest'
    BY <1>1, <1>3, <2>1, TryFacts DEF IInv, SendTypeOK, Phases, Shape, Tidy,
       Straight, OneTry, LoopsLive, AtRest, Owner, Unrest, StartOf, Measured,
       Report, Over, Stays, startVars, roomVars, waitVars, tryVars, historyVars
  <2>5. Owner'
    BY <1>1, <1>3, <2>1, TryFacts DEF IInv, SendTypeOK, Phases, Shape, Tidy,
       Straight, OneTry, LoopsLive, AtRest, Owner, Unrest, StartOf, Measured,
       Report, Over, Stays, startVars, roomVars, waitVars, tryVars, historyVars
  <2>6. OwnCargo'
    BY <1>1, <1>3, <2>1, TryFacts DEF IInv, SendTypeOK, Phases, Shape, Tidy,
       Straight, OneTry, LoopsLive, AtRest, Owner, Unrest, StartOf, OwnCargo,
       Measured, Report, Over, Stays, startVars, roomVars, waitVars, tryVars,
       historyVars
  <2>7. IdleOver'
    BY <1>1, <1>3, <2>1, TryFacts DEF IInv, SendTypeOK, Phases, Shape, Tidy,
       Straight, OneTry, LoopsLive, AtRest, Owner, Unrest, StartOf, IdleOver,
       Measured, Report, Over, Stays, startVars, roomVars, waitVars, tryVars,
       historyVars
  <2>8. DoneOver'
    BY <1>1, <1>3, <2>1, TryFacts DEF IInv, SendTypeOK, Phases, Shape, Tidy,
       Straight, OneTry, LoopsLive, AtRest, Owner, Unrest, StartOf, DoneOver,
       Measured, Report, Over, Stays, startVars, roomVars, waitVars, tryVars,
       historyVars
  <2> QED BY <2>2, <2>3, <2>4, <2>5, <2>6, <2>7, <2>8 DEF Tidy
<1> QED BY <1>1, <1>2, <1>3 DEF IInv

\* A loop that completes leaves the panel done, with nothing that waits.
LEMMA LoopCompletesStep ==
  ASSUME IInv, NEW e \in Tries, LoopCompletes(e)
  PROVE  IInv'
<1>1. SendTypeOK'
  <2>1. phase' \in Phases /\ terminal' \in BOOLEAN /\ left' \in BOOLEAN
    BY DEF IInv, SendTypeOK, Phases, LoopCompletes, Report, Over, Stays
  <2>2. /\ loops' \subseteq loops /\ stopped' \subseteq loops'
        /\ UNCHANGED <<establishing, attempts, startVars, roomVars, waitVars, tryVars,
                       measuring, aborted, cargo, historyVars>>
    BY DEF IInv, SendTypeOK, LoopCompletes, Ends
  <2> QED
    BY <2>1, <2>2
    DEF IInv, SendTypeOK, startVars, roomVars, waitVars, tryVars, historyVars
<1>2. Shape'
  BY TryFacts DEF IInv, SendTypeOK, Shape, LoopCompletes, Report, Over, Stays, Ends,
     startVars, roomVars, waitVars, tryVars, historyVars
<1>3. ASSUME Straight' PROVE Tidy'
  <2>1. Straight /\ Tidy
    BY <1>3 DEF IInv, Straight, LoopCompletes, Report, Over, Stays, Ends, startVars,
       roomVars, waitVars, tryVars, historyVars
  <2>2. OneTry'
    BY <1>1, <1>3, <2>1, TryFacts DEF IInv, SendTypeOK, Phases, Shape, Tidy,
       Straight, OneTry, LoopsLive, AtRest, Owner, Unrest, StartOf, LoopCompletes,
       Report, Over, Stays, Ends, startVars, roomVars, waitVars, tryVars,
       historyVars
  <2>3. LoopsLive'
    BY <1>1, <1>3, <2>1, TryFacts DEF IInv, SendTypeOK, Phases, Shape, Tidy,
       Straight, OneTry, LoopsLive, AtRest, Owner, Unrest, StartOf, LoopCompletes,
       Report, Over, Stays, Ends, startVars, roomVars, waitVars, tryVars,
       historyVars
  <2>4. AtRest'
    BY <1>1, <1>3, <2>1, TryFacts DEF IInv, SendTypeOK, Phases, Shape, Tidy,
       Straight, OneTry, LoopsLive, AtRest, Owner, Unrest, StartOf, LoopCompletes,
       Report, Over, Stays, Ends, startVars, roomVars, waitVars, tryVars,
       historyVars
  <2>5. Owner'
    BY <1>1, <1>3, <2>1, TryFacts DEF IInv, SendTypeOK, Phases, Shape, Tidy,
       Straight, OneTry, LoopsLive, AtRest, Owner, Unrest, StartOf, LoopCompletes,
       Report, Over, Stays, Ends, startVars, roomVars, waitVars, tryVars,
       historyVars
  <2>6. OwnCargo'
    BY <1>1, <1>3, <2>1, TryFacts DEF IInv, SendTypeOK, Phases, Shape, Tidy,
       Straight, OneTry, LoopsLive, AtRest, Owner, Unrest, StartOf, OwnCargo,
       LoopCompletes, Report, Over, Stays, Ends, startVars, roomVars, waitVars,
       tryVars, historyVars
  <2>7. IdleOver'
    BY <1>1, <1>3, <2>1, TryFacts DEF IInv, SendTypeOK, Phases, Shape, Tidy,
       Straight, OneTry, LoopsLive, AtRest, Owner, Unrest, StartOf, IdleOver,
       LoopCompletes, Report, Over, Stays, Ends, startVars, roomVars, waitVars,
       tryVars, historyVars
  <2>8. DoneOver'
    BY <1>1, <1>3, <2>1, TryFacts DEF IInv, SendTypeOK, Phases, Shape, Tidy,
       Straight, OneTry, LoopsLive, AtRest, Owner, Unrest, StartOf, DoneOver,
       LoopCompletes, Report, Over, Stays, Ends, startVars, roomVars, waitVars,
       tryVars, historyVars
  <2> QED BY <2>2, <2>3, <2>4, <2>5, <2>6, <2>7, <2>8 DEF Tidy
<1> QED BY <1>1, <1>2, <1>3 DEF IInv

\* A loop that fails is none any more.
LEMMA LoopFailsStep ==
  ASSUME IInv, NEW e \in Tries, LoopFails(e)
  PROVE  IInv'
<1>1. SendTypeOK'
  <2>1. phase' \in Phases /\ terminal' \in BOOLEAN
    BY DEF IInv, SendTypeOK, Phases, LoopFails, Report, Over, Stays
  <2>2. /\ loops' \subseteq loops /\ stopped' \subseteq loops'
        /\ UNCHANGED <<left, establishing, attempts, startVars, roomVars, waitVars,
                       tryVars, measuring, aborted, cargo, historyVars>>
    BY DEF IInv, SendTypeOK, LoopFails, Ends
  <2> QED
    BY <2>1, <2>2
    DEF IInv, SendTypeOK, startVars, roomVars, waitVars, tryVars, historyVars
<1>2. Shape'
  BY TryFacts DEF IInv, SendTypeOK, Shape, LoopFails, Report, Over, Stays, Ends,
     startVars, roomVars, waitVars, tryVars, historyVars
<1>3. ASSUME Straight' PROVE Tidy'
  <2>1. Straight /\ Tidy
    BY <1>3 DEF IInv, Straight, LoopFails, Report, Over, Stays, Ends, startVars,
       roomVars, waitVars, tryVars, historyVars
  <2>2. OneTry'
    BY <1>1, <1>3, <2>1, TryFacts DEF IInv, SendTypeOK, Phases, Shape, Tidy,
       Straight, OneTry, LoopsLive, AtRest, Owner, Unrest, StartOf, LoopFails,
       Report, Over, Stays, Ends, startVars, roomVars, waitVars, tryVars,
       historyVars
  <2>3. LoopsLive'
    BY <1>1, <1>3, <2>1, TryFacts DEF IInv, SendTypeOK, Phases, Shape, Tidy,
       Straight, OneTry, LoopsLive, AtRest, Owner, Unrest, StartOf, LoopFails,
       Report, Over, Stays, Ends, startVars, roomVars, waitVars, tryVars,
       historyVars
  <2>4. AtRest'
    BY <1>1, <1>3, <2>1, TryFacts DEF IInv, SendTypeOK, Phases, Shape, Tidy,
       Straight, OneTry, LoopsLive, AtRest, Owner, Unrest, StartOf, LoopFails,
       Report, Over, Stays, Ends, startVars, roomVars, waitVars, tryVars,
       historyVars
  <2>5. Owner'
    BY <1>1, <1>3, <2>1, TryFacts DEF IInv, SendTypeOK, Phases, Shape, Tidy,
       Straight, OneTry, LoopsLive, AtRest, Owner, Unrest, StartOf, LoopFails,
       Report, Over, Stays, Ends, startVars, roomVars, waitVars, tryVars,
       historyVars
  <2>6. OwnCargo'
    BY <1>1, <1>3, <2>1, TryFacts DEF IInv, SendTypeOK, Phases, Shape, Tidy,
       Straight, OneTry, LoopsLive, AtRest, Owner, Unrest, StartOf, OwnCargo,
       LoopFails, Report, Over, Stays, Ends, startVars, roomVars, waitVars, tryVars,
       historyVars
  <2>7. IdleOver'
    BY <1>1, <1>3, <2>1, TryFacts DEF IInv, SendTypeOK, Phases, Shape, Tidy,
       Straight, OneTry, LoopsLive, AtRest, Owner, Unrest, StartOf, IdleOver,
       LoopFails, Report, Over, Stays, Ends, startVars, roomVars, waitVars, tryVars,
       historyVars
  <2>8. DoneOver'
    BY <1>1, <1>3, <2>1, TryFacts DEF IInv, SendTypeOK, Phases, Shape, Tidy,
       Straight, OneTry, LoopsLive, AtRest, Owner, Unrest, StartOf, DoneOver,
       LoopFails, Report, Over, Stays, Ends, startVars, roomVars, waitVars, tryVars,
       historyVars
  <2> QED BY <2>2, <2>3, <2>4, <2>5, <2>6, <2>7, <2>8 DEF Tidy
<1> QED BY <1>1, <1>2, <1>3 DEF IInv

\* Nor is one that falls silent.
LEMMA LoopFallsSilentStep ==
  ASSUME IInv, NEW e \in Tries, LoopFallsSilent(e)
  PROVE  IInv'
<1>1. SendTypeOK'
  BY TryFacts, SendPanelAssumption DEF IInv, SendTypeOK, Shape, Phases, Clients,
     LoopFallsSilent, Stays, Ends, startVars, roomVars, waitVars, tryVars,
     historyVars
<1>2. Shape'
  BY TryFacts DEF IInv, SendTypeOK, Shape, LoopFallsSilent, Stays, Ends, startVars,
     roomVars, waitVars, tryVars, historyVars
<1>3. ASSUME Straight' PROVE Tidy'
  <2>1. Straight /\ Tidy
    BY <1>3 DEF IInv, Straight, LoopFallsSilent, Stays, Ends, startVars, roomVars,
       waitVars, tryVars, historyVars
  <2>2. OneTry'
    BY <1>1, <1>3, <2>1, TryFacts DEF IInv, SendTypeOK, Phases, Shape, Tidy,
       Straight, OneTry, LoopsLive, AtRest, Owner, Unrest, StartOf, LoopFallsSilent,
       Stays, Ends, startVars, roomVars, waitVars, tryVars, historyVars
  <2>3. LoopsLive'
    BY <1>1, <1>3, <2>1, TryFacts DEF IInv, SendTypeOK, Phases, Shape, Tidy,
       Straight, OneTry, LoopsLive, AtRest, Owner, Unrest, StartOf, LoopFallsSilent,
       Stays, Ends, startVars, roomVars, waitVars, tryVars, historyVars
  <2>4. AtRest'
    BY <1>1, <1>3, <2>1, TryFacts DEF IInv, SendTypeOK, Phases, Shape, Tidy,
       Straight, OneTry, LoopsLive, AtRest, Owner, Unrest, StartOf, LoopFallsSilent,
       Stays, Ends, startVars, roomVars, waitVars, tryVars, historyVars
  <2>5. Owner'
    BY <1>1, <1>3, <2>1, TryFacts DEF IInv, SendTypeOK, Phases, Shape, Tidy,
       Straight, OneTry, LoopsLive, AtRest, Owner, Unrest, StartOf, LoopFallsSilent,
       Stays, Ends, startVars, roomVars, waitVars, tryVars, historyVars
  <2>6. OwnCargo'
    BY <1>1, <1>3, <2>1, TryFacts DEF IInv, SendTypeOK, Phases, Shape, Tidy,
       Straight, OneTry, LoopsLive, AtRest, Owner, Unrest, StartOf, OwnCargo,
       LoopFallsSilent, Stays, Ends, startVars, roomVars, waitVars, tryVars,
       historyVars
  <2>7. IdleOver'
    BY <1>1, <1>3, <2>1, TryFacts DEF IInv, SendTypeOK, Phases, Shape, Tidy,
       Straight, OneTry, LoopsLive, AtRest, Owner, Unrest, StartOf, IdleOver,
       LoopFallsSilent, Stays, Ends, startVars, roomVars, waitVars, tryVars,
       historyVars
  <2>8. DoneOver'
    BY <1>1, <1>3, <2>1, TryFacts DEF IInv, SendTypeOK, Phases, Shape, Tidy,
       Straight, OneTry, LoopsLive, AtRest, Owner, Unrest, StartOf, DoneOver,
       LoopFallsSilent, Stays, Ends, startVars, roomVars, waitVars, tryVars,
       historyVars
  <2> QED BY <2>2, <2>3, <2>4, <2>5, <2>6, <2>7, <2>8 DEF Tidy
<1> QED BY <1>1, <1>2, <1>3 DEF IInv

-----------------------------------------------------------------------------
(* The invariant *)

\* Before anything has happened.
LEMMA InitIInv ==
  ASSUME SendInit
  PROVE  IInv
<1>1. SendTypeOK
  <2>1. /\ MaxStarts \in Nat /\ MaxAttempts \in Nat /\ Modes \subseteq BOOLEAN
        /\ 0 \in 0 .. MaxStarts /\ 0 \in 0 .. MaxAttempts
    BY SendPanelAssumption
  <2>2. several \in BOOLEAN
    BY <2>1 DEF SendInit
  <2>3. cargo \in [Tries -> 0 .. MaxStarts]
    BY <2>1 DEF SendInit
  <2> QED BY <2>1, <2>2, <2>3 DEF SendInit, SendTypeOK, Phases, Clients
<1>2. Shape
  BY TryFacts DEF SendInit, Shape
<1>3. Tidy
  BY TryFacts DEF SendInit, Tidy, OneTry, LoopsLive, AtRest, Owner, Unrest,
     OwnCargo, IdleOver, DoneOver
<1> QED BY <1>1, <1>2, <1>3 DEF IInv

\* Nothing has happened.
LEMMA StutterIInv ==
  ASSUME IInv, UNCHANGED sendVars
  PROVE  IInv'
BY DEF IInv, SendTypeOK, Shape, Tidy, Straight, OneTry, LoopsLive, AtRest, Owner,
   Unrest, OwnCargo, IdleOver, DoneOver, sendVars, flagVars, startVars, roomVars,
   waitVars, tryVars, loopVars, historyVars

\* IInv is an invariant of the sender's panel.
THEOREM PanelInvariance == SendSpec => []IInv
<1>1. IInv /\ [SendNext]_sendVars => IInv'
  <2> SUFFICES ASSUME IInv, [SendNext]_sendVars PROVE IInv'
    OBVIOUS
  <2>1. CASE StartSend BY <2>1, StartSendStep
  <2>2. CASE Cancel BY <2>2, CancelStep
  <2>3. ASSUME NEW s \in Starts,
               \/ RoomMade(s) \/ Joined(s) \/ StartFails(s)
               \/ OnPeerJoined(s) \/ OnPeerLeft(s) \/ OnClose(s) \/ GoesMute(s)
               \/ BackoffEnds(s) \/ Rejoined(s) \/ RejoinFails(s)
        PROVE  IInv'
    BY <2>3, RoomMadeStep, JoinedStep, StartFailsStep, OnPeerJoinedStep,
       OnPeerLeftStep, OnCloseStep, GoesMuteStep, BackoffEndsStep, RejoinedStep,
       RejoinFailsStep
  <2>4. ASSUME NEW e \in Tries,
               \/ ChannelOpens(e) \/ Built(e) \/ NoneBuilt(e) \/ ConnectionLost(e)
               \/ Measured(e) \/ LoopCompletes(e) \/ LoopFails(e) \/ LoopFallsSilent(e)
        PROVE  IInv'
    BY <2>4, ChannelOpensStep, BuiltStep, NoneBuiltStep, ConnectionLostStep,
       MeasuredStep, LoopCompletesStep, LoopFailsStep, LoopFallsSilentStep
  <2>5. CASE UNCHANGED sendVars BY <2>5, StutterIInv
  <2> QED BY <2>1, <2>2, <2>3, <2>4, <2>5 DEF SendNext
<1> QED BY InitIInv, <1>1, PTL DEF SendSpec

-----------------------------------------------------------------------------
(* What follows *)

\* However often the connection is lost and made again, one send loop at most
\* works for the panel (runTransfer(), attemptReconnect(), cancel()).
THEOREM PanelOneLoop == SendSpec => []OneLoop
<1>1. IInv => OneLoop
  <2> SUFFICES ASSUME IInv, Straight
               PROVE  Cardinality(loops \ stopped) <= 1
    BY DEF OneLoop, Straight
  <2>1. \A a, b \in loops \ stopped : a = b
    BY DEF IInv, Tidy, OneTry, LoopsLive
  <2>2. CASE loops \ stopped = {}
    BY <2>2, FS_EmptySet
  <2>3. CASE loops \ stopped # {}
    <3>1. PICK e \in loops \ stopped : TRUE BY <2>3
    <3>2. loops \ stopped = {e} BY <2>1, <3>1
    <3> QED BY <3>2, FS_Singleton
  <2> QED BY <2>2, <2>3
<1> QED BY <1>1, PanelInvariance, PTL

\* What goes into a room's connections are the files chosen with its code
\* (resumeRef, which every start shares).
THEOREM PanelRightFiles == SendSpec => []RightFiles
<1>1. IInv => RightFiles
  BY DEF IInv, Straight, Tidy, OwnCargo, RightFiles
<1> QED BY <1>1, PanelInvariance, PTL

\* A panel that was cancelled has no socket, no connection and no loop that
\* was not told to stop (cancel(), cleanup()).
THEOREM PanelCancelIsClean == SendSpec => []CancelIsClean
<1>1. IInv => CancelIsClean
  <2> SUFFICES ASSUME IInv, phase = "idle", Straight
               PROVE  /\ live = {} /\ loops = stopped
                      /\ \A s \in Starts : client[s] \in {"none", "lost", "closed"}
    BY DEF CancelIsClean, Straight
  <2>1. live = {} /\ loops \ stopped \subseteq live
    BY DEF IInv, Tidy, AtRest, LoopsLive
  <2>2. loops = stopped
    BY <2>1 DEF IInv, SendTypeOK
  <2>3. ASSUME NEW s \in Starts PROVE client[s] \in {"none", "lost", "closed"}
    BY DEF IInv, Tidy, Owner, SendTypeOK, Clients
  <2> QED BY <2>1, <2>2, <2>3
<1> QED BY <1>1, PanelInvariance, PTL

\* What can happen to a panel that has no socket, no connection and nothing
\* that it waits for: a start, or the end of a loop.
LEMMA QuietPanel ==
  ASSUME IInv, SendNext, live = {},
         \A s \in Starts : ~Unrest(s) /\ client[s] \notin {"connecting", "open", "mute"}
  PROVE  \/ StartSend \/ Cancel
         \/ \E e \in Tries : \/ Measured(e) \/ LoopCompletes(e) \/ LoopFails(e)
                             \/ LoopFallsSilent(e)
<1>1. building = {}
  BY DEF IInv, Shape
<1>2. ASSUME NEW s \in Starts
      PROVE  ~ \/ RoomMade(s) \/ Joined(s) \/ StartFails(s)
               \/ OnPeerJoined(s) \/ OnPeerLeft(s) \/ OnClose(s) \/ GoesMute(s)
               \/ BackoffEnds(s) \/ Rejoined(s) \/ RejoinFails(s)
  BY DEF Unrest, RoomMade, Joined, StartFails, OnPeerJoined, OnPeerLeft, OnClose,
     IsConnected, GoesMute, BackoffEnds, Rejoined, RejoinFails
<1>3. ASSUME NEW e \in Tries
      PROVE  ~ (ChannelOpens(e) \/ Built(e) \/ NoneBuilt(e) \/ ConnectionLost(e))
  BY <1>1 DEF ChannelOpens, Built, NoneBuilt, ConnectionLost
<1> QED BY <1>2, <1>3 DEF SendNext

\* A panel that was cancelled stays as it is until the user sends again.
THEOREM PanelIdleStays == SendSpec => IdleStays
<1>1. IInv /\ [SendNext]_sendVars =>
        [phase = "idle" /\ ~late /\ ~crossed =>
           phase' = "idle" \/ start' # start]_sendVars
  <2> SUFFICES ASSUME IInv, SendNext, phase = "idle", Straight
               PROVE  phase' = "idle" \/ start' # start
    BY DEF Straight
  <2>1. /\ live = {}
        /\ \A s \in Starts :
             ~Unrest(s) /\ client[s] \notin {"connecting", "open", "mute"}
    BY DEF IInv, Tidy, AtRest, Owner
  <2>2. terminal \/ (loops = {} /\ measuring = {})
    BY DEF IInv, Tidy, IdleOver
  <2>3. CASE StartSend
    BY <2>3 DEF StartSend, IInv, SendTypeOK
  <2>4. CASE Cancel
    BY <2>4 DEF Cancel
  <2>5. ASSUME NEW e \in Tries,
               Measured(e) \/ LoopCompletes(e) \/ LoopFails(e) \/ LoopFallsSilent(e)
        PROVE  phase' = "idle"
    BY <2>2, <2>5 DEF Measured, LoopCompletes, LoopFails, LoopFallsSilent, Report,
       Stays, IInv, SendTypeOK
  <2> QED BY <2>1, <2>3, <2>4, <2>5, QuietPanel
<1> QED BY <1>1, PanelInvariance, PTL DEF SendSpec, IdleStays

\* A transfer that is done is not undone by whatever the end of its
\* connections and of its socket sets off.
THEOREM PanelDoneStays == SendSpec => DoneStays
<1>1. IInv /\ [SendNext]_sendVars =>
        [phase = "done" /\ ~late /\ ~crossed =>
           phase' \in {"done", "idle"} \/ \E s \in Starts : OnPeerLeft(s)]_sendVars
  <2> SUFFICES ASSUME IInv, SendNext, phase = "done", Straight,
                      ~ \E s \in Starts : OnPeerLeft(s)
               PROVE  phase' \in {"done", "idle"}
    BY DEF Straight
  <2>1. /\ terminal /\ live \subseteq opened /\ building = {}
        /\ \A s \in Starts : ~Unrest(s)
    BY DEF IInv, Tidy, DoneOver
  <2>2. CASE StartSend \/ Cancel
    BY <2>2 DEF StartSend, Cancel
  <2>3. ASSUME NEW s \in Starts,
               \/ RoomMade(s) \/ Joined(s) \/ StartFails(s)
               \/ BackoffEnds(s) \/ Rejoined(s) \/ RejoinFails(s)
        PROVE  FALSE
    BY <2>1, <2>3 DEF Unrest, RoomMade, Joined, StartFails, BackoffEnds, Rejoined,
       RejoinFails
  <2>4. ASSUME NEW s \in Starts, OnPeerJoined(s) \/ OnClose(s) \/ GoesMute(s)
        PROVE  phase' = "done"
    BY <2>1, <2>4 DEF OnPeerJoined, RunEstablish, MayEstablish, OnClose, GoesMute,
       flagVars
  <2>5. ASSUME NEW e \in Tries, ChannelOpens(e) \/ Built(e) \/ NoneBuilt(e)
        PROVE  FALSE
    BY <2>1, <2>5 DEF ChannelOpens, Built, NoneBuilt
  <2>6. ASSUME NEW e \in Tries, ConnectionLost(e)
        PROVE  phase' = "done"
    BY <2>1, <2>6 DEF ConnectionLost, ToResume, flagVars
  <2>7. ASSUME NEW e \in Tries,
               Measured(e) \/ LoopCompletes(e) \/ LoopFails(e) \/ LoopFallsSilent(e)
        PROVE  phase' = "done"
    BY <2>1, <2>7 DEF Measured, LoopCompletes, LoopFails, LoopFallsSilent, Report,
       Stays
  <2> QED BY <2>2, <2>3, <2>4, <2>5, <2>6, <2>7 DEF SendNext
<1> QED BY <1>1, PanelInvariance, PTL DEF SendSpec, DoneStays
=============================================================================
