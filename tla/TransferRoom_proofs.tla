------------------------ MODULE TransferRoom_proofs ------------------------
(***************************************************************************)
(* For any number of connections of each role, with and without the faults *)
(* of TransferRoom: the conjunction IInv is an invariant of the room.      *)
(***************************************************************************)
EXTENDS TransferRoom, TLAPS

\* Two roles, each the other of the other.
LEMMA OtherRole ==
  \A r \in Roles :
    /\ Other(r) \in Roles /\ Other(r) # r
    /\ \A q \in Roles : q # r => q = Other(r)
BY DEF Roles, Other

\* A socket has a role, and None is not a socket.
LEMMA SocketRole == None \notin Sockets /\ \A s \in Sockets : Role(s) \in Roles
BY DEF Sockets, Roles, Role, None

\* What Told() returns: at most one connection, and an open one, hears.
LEMMA ToldOne ==
  ASSUME told \in [Sockets -> {"nothing", "joined", "left"}],
         NEW t, NEW what \in {"joined", "left"}
  PROVE  /\ Told(t, what) \in [Sockets -> {"nothing", "joined", "left"}]
         /\ \A s \in Sockets :
              Told(t, what)[s] = IF s = t /\ wire[s] = "open" THEN what ELSE told[s]
BY DEF Told

\* ClosedBy() takes those it closes out of Present, and no others.
LEMMA ClosedByTakesOut ==
  ASSUME wire \in [Sockets -> WireStates], NEW set
  PROVE  /\ ClosedBy(set) \in [Sockets -> WireStates]
         /\ \A s \in Sockets :
              ClosedBy(set)[s] = IF s \in set /\ s \in Present THEN "closing" ELSE wire[s]
BY DEF ClosedBy, Present, WireStates

\* The invariant in the form the steps use: all of it that is claimed as long
\* as the room listened to no connection it had closed.
Calm ==
  /\ OneEach /\ RegisteredPresent
  /\ Reachable /\ PresenceTold /\ IntroducedFirst /\ EndsForAll

LEMMA DisturbedCalm ==
  (disturbed => Calm) /\ (disturbed' => Calm')
BY DEF Calm, OneEach, RegisteredPresent, Reachable, PresenceTold, IntroducedFirst, EndsForAll

-----------------------------------------------------------------------------

LEMMA InitInv == Init => IInv
<1> SUFFICES ASSUME Init PROVE IInv  OBVIOUS
<1>1. TypeOK
  BY DEF Init, TypeOK, WireStates
<1>2. Present = {}
  BY DEF Init, Present
<1>3. OneEach /\ RegisteredPresent /\ Forgotten /\ Reachable /\ EndsForAll
  BY <1>2 DEF Init, OneEach, RegisteredPresent, Forgotten, Reachable, EndsForAll
<1>4. PresenceTold /\ IntroducedFirst /\ Untold
  BY DEF Init, PresenceTold, IntroducedFirst, Untold
<1> QED  BY <1>1, <1>3, <1>4 DEF IInv

LEMMA UpgradeStep ==
  ASSUME IInv, NEW s \in Sockets, Upgrade(s)
  PROVE  IInv'
<1> DEFINE r == Role(s)
           old == sockets[r]
           peer == sockets[Other(r)]
<1>1. r \in Roles /\ Other(r) \in Roles /\ Other(r) # r
  BY OtherRole, SocketRole
<1>2. /\ wire' \in [Sockets -> WireStates]
      /\ wire'[s] = "open"
      /\ \A t \in Sockets \ {s} :
           wire'[t] = IF t = old /\ t \in Present THEN "closing" ELSE wire[t]
  BY ClosedByTakesOut DEF IInv, TypeOK, Upgrade, WireStates
<1>3. /\ told' \in [Sockets -> {"nothing", "joined", "left"}]
      /\ peer = None => told' = told
      /\ peer # None => /\ told'[s] = "joined"
                        /\ \A t \in Sockets \ {s} : told'[t] =
                             IF t = peer /\ wire[t] = "open" THEN "joined" ELSE told[t]
  BY ToldOne DEF IInv, TypeOK, Upgrade
<1>4. /\ sockets' \in [Roles -> Sockets \cup {None}]
      /\ sockets'[r] = s
      /\ \A q \in Roles \ {r} : sockets'[q] = sockets[q]
  BY <1>1 DEF IInv, TypeOK, Upgrade
<1>5. TypeOK' /\ Forgotten'
  BY <1>2, <1>3, <1>4 DEF IInv, TypeOK, Upgrade, Forgotten
<1>8. Untold'
  BY <1>2, <1>3 DEF IInv, Untold
<1>6. CASE disturbed
  <2>1. disturbed'
    BY <1>6 DEF Upgrade
  <2> QED  BY <1>5, <1>8, <2>1, DisturbedCalm DEF IInv, Calm
<1>7. CASE ~disturbed
  <2>1. awake /\ room /\ ~disturbed' /\ awake' /\ room'
    BY <1>7 DEF Upgrade
  <2>2. \A t \in Present : sockets[Role(t)] = t
    BY <2>1, <1>7 DEF IInv, Reachable
  <2>3. \A q \in Roles : sockets[q] # None => sockets[q] \in Present /\ Role(sockets[q]) = q
    BY <1>7 DEF IInv, RegisteredPresent
  <2>4. s \notin Present
    BY DEF Upgrade, Present
  <2>5. Present' = {s} \cup {t \in Present : Role(t) # r}
    <3>1. \A t \in Sockets \ {s} : t \in Present' <=> t \in Present /\ t # old
      BY <1>2 DEF Present
    <3>2. \A t \in Present : t # old <=> Role(t) # r
      BY <2>2, <2>3, <1>1, SocketRole DEF Present
    <3>3. s \in Present' /\ Present' \subseteq Sockets /\ Present \subseteq Sockets
      BY <1>2 DEF Present
    <3> QED  BY <2>4, <3>1, <3>2, <3>3
  <2>6. Reachable'
    BY <2>2, <2>5, <1>4, SocketRole DEF Reachable, Present
  <2>7. RegisteredPresent'
    BY <2>3, <2>5, <1>4 DEF RegisteredPresent
  <2>8. OneEach'
    BY <2>2, <2>5 DEF OneEach
  <2>9. PresenceTold'
    <3>1. \A t \in Sockets : wire[t] = "open" =>
            (told[t] = "joined" <=> \E u \in Present : Role(u) # Role(t))
      BY <1>7 DEF IInv, PresenceTold
    <3>2. (\E u \in Present : Role(u) # r) <=> peer # None
      BY <2>2, <2>3, <1>1, OtherRole, SocketRole DEF Present
    <3>3. told'[s] = "joined" <=> peer # None
      BY <1>3 DEF Upgrade, IInv, Untold
    <3>4. wire[s] # "open"
      BY DEF Upgrade
    <3>5. ASSUME NEW t \in Sockets \ {s}, wire'[t] = "open"
          PROVE  told'[t] = "joined" <=> \E u \in Present' : Role(u) # Role(t)
      <4>1. wire[t] = "open" /\ t \in Present /\ Role(t) # r
        BY <1>2, <2>5, <3>5 DEF Present
      <4>2. Role(t) = Other(r) /\ t = peer
        BY <4>1, <1>1, <2>2, OtherRole, SocketRole
      <4> QED  BY <4>1, <4>2, <1>3, <2>5, SocketRole
    <3>6. (\E u \in Present' : Role(u) # Role(s)) <=> peer # None
      BY <2>5, <3>2
    <3> QED  BY <3>3, <3>5, <3>6, <2>1 DEF PresenceTold
  <2>10. IntroducedFirst'
    BY <1>3, <1>7 DEF IInv, IntroducedFirst, Upgrade, TypeOK
  <2>11. EndsForAll'
    BY <2>1 DEF EndsForAll
  <2> QED  BY <1>5, <2>6, <2>7, <2>8, <2>9, <2>10, <2>11, <1>8 DEF IInv
<1> QED  BY <1>6, <1>7

\* A step that keeps what is present, registered and told keeps the invariant.
LEMMA KeptStep ==
  ASSUME IInv, TypeOK', Untold',
         UNCHANGED <<room, awake, sockets, told, relayed, disturbed>>,
         Present' = Present,
         \A s \in Sockets : wire'[s] = "open" => wire[s] = "open"
  PROVE  IInv'
<1>1. Forgotten'
  BY DEF IInv, Forgotten
<1>2. OneEach' /\ RegisteredPresent' /\ Reachable' /\ EndsForAll'
  BY DEF IInv, OneEach, RegisteredPresent, Reachable, EndsForAll
<1>3. PresenceTold' /\ IntroducedFirst'
  BY DEF IInv, PresenceTold, IntroducedFirst
<1> QED  BY <1>1, <1>2, <1>3 DEF IInv

LEMMA UpgradeRefusedStep ==
  ASSUME IInv, NEW s \in Sockets, UpgradeRefused(s)
  PROVE  IInv'
<1>1. wire' = [wire EXCEPT ![s] = "closed"] /\ wire[s] = "new"
  BY DEF UpgradeRefused
<1>2. TypeOK' /\ Untold'
  BY <1>1 DEF IInv, TypeOK, Untold, UpgradeRefused, WireStates, objectVars, clientVars
<1>3. Present' = Present /\ \A t \in Sockets : wire'[t] = "open" => wire[t] = "open"
  BY <1>1 DEF IInv, TypeOK, Present
<1> QED  BY <1>2, <1>3, KeptStep DEF UpgradeRefused, objectVars, clientVars

LEMMA LeaveStep ==
  ASSUME IInv, NEW s \in Sockets, Leave(s)
  PROVE  IInv'
<1>1. /\ wire[s] = "open"
      /\ \E state \in {"leaving", "dead"} : wire' = [wire EXCEPT ![s] = state]
  BY DEF Leave
<1>2. TypeOK' /\ Untold'
  BY <1>1 DEF IInv, TypeOK, Untold, Leave, WireStates, objectVars, clientVars
<1>3. Present' = Present /\ \A t \in Sockets : wire'[t] = "open" => wire[t] = "open"
  BY <1>1 DEF IInv, TypeOK, Present
<1> QED  BY <1>2, <1>3, KeptStep DEF Leave, objectVars, clientVars

LEMMA CloseAnsweredStep ==
  ASSUME IInv, NEW s \in Sockets, CloseAnswered(s)
  PROVE  IInv'
<1>1. wire' = [wire EXCEPT ![s] = "closed"] /\ wire[s] = "closing"
  BY DEF CloseAnswered
<1>2. TypeOK' /\ Untold'
  BY <1>1 DEF IInv, TypeOK, Untold, CloseAnswered, WireStates, objectVars, clientVars
<1>3. Present' = Present /\ \A t \in Sockets : wire'[t] = "open" => wire[t] = "open"
  BY <1>1 DEF IInv, TypeOK, Present
<1> QED  BY <1>2, <1>3, KeptStep DEF CloseAnswered, objectVars, clientVars

LEMMA ExpireStep ==
  ASSUME IInv, Expire
  PROVE  IInv'
<1>1. TypeOK' /\ Untold' /\ Present' = Present
  BY DEF IInv, TypeOK, Untold, Expire, Present, objectVars, clientVars
<1> QED  BY <1>1, KeptStep DEF Expire, objectVars, clientVars

LEMMA WebSocketMessageStep ==
  ASSUME IInv, NEW s \in Sockets, WebSocketMessage(s)
  PROVE  IInv'
<1> DEFINE target == sockets[Other(Role(s))]
<1>1. /\ UNCHANGED <<room, expired, awake, sockets, wire, told>>
      /\ relayed' = relayed \cup {t \in {target} \cap Sockets : wire[t] = "open"}
  BY DEF WebSocketMessage, objectVars
<1>2. disturbed' = (disturbed \/ wire[s] = "closing")
  BY DEF WebSocketMessage
<1>3. TypeOK' /\ Untold' /\ Forgotten'
  BY <1>1, <1>2 DEF IInv, TypeOK, Untold, Forgotten
<1>4. CASE disturbed'
  BY <1>3, <1>4, DisturbedCalm DEF IInv, Calm
<1>5. CASE ~disturbed'
  <2>1. ~disturbed /\ awake /\ s \in Present
    BY <1>2, <1>5 DEF WebSocketMessage, Heard, Present
  <2>2. OneEach' /\ RegisteredPresent' /\ Reachable' /\ EndsForAll' /\ PresenceTold'
    BY <2>1, <1>1 DEF IInv, OneEach, RegisteredPresent, Reachable, EndsForAll,
                      PresenceTold, Present
  <2>3. ASSUME NEW t \in relayed' PROVE told'[t] # "nothing"
    <3>1. CASE t \in relayed
      BY <3>1, <2>1, <1>1 DEF IInv, IntroducedFirst
    <3>2. CASE t \notin relayed
      <4>1. t = target /\ t \in Sockets /\ wire[t] = "open"
        BY <3>2, <1>1
      <4>2. Role(t) # Role(s)
        BY <4>1, <2>1, OtherRole, SocketRole DEF IInv, RegisteredPresent
      <4> QED  BY <4>1, <4>2, <2>1, <1>1 DEF IInv, PresenceTold
    <3> QED  BY <3>1, <3>2
  <2> QED  BY <1>3, <2>2, <2>3 DEF IInv, IntroducedFirst
<1> QED  BY <1>4, <1>5

LEMMA WebSocketCloseStep ==
  ASSUME IInv, NEW s \in Sockets, WebSocketClose(s)
  PROVE  IInv'
<1> DEFINE r == Role(s)
           peer == sockets[Other(r)]
<1>1. r \in Roles /\ Other(r) \in Roles /\ Other(r) # r
  BY OtherRole, SocketRole
<1>2. /\ UNCHANGED <<room, expired, awake, relayed>>
      /\ awake
      /\ wire' = [wire EXCEPT ![s] = "closed"]
      /\ sockets' = [sockets EXCEPT ![r] = None]
  BY DEF WebSocketClose
<1>3. /\ told' \in [Sockets -> {"nothing", "joined", "left"}]
      /\ ~room => told' = told
      /\ room => \A t \in Sockets : told'[t] =
                   IF t = peer /\ wire[t] = "open" THEN "left" ELSE told[t]
  BY ToldOne DEF IInv, TypeOK, WebSocketClose
<1>4. disturbed' = (disturbed \/ wire[s] = "closing")
  BY DEF WebSocketClose
<1>5. TypeOK' /\ Untold' /\ Forgotten'
  BY <1>2, <1>3, <1>4 DEF IInv, TypeOK, Untold, Forgotten, WireStates
<1>6. CASE disturbed'
  BY <1>5, <1>6, DisturbedCalm DEF IInv, Calm
<1>7. CASE ~disturbed'
  <2>1. ~disturbed /\ wire[s] = "leaving" /\ s \in Present
    BY <1>4, <1>7 DEF WebSocketClose, Heard, Present
  <2>2. \A t \in Present : sockets[Role(t)] = t
    BY <2>1, <1>2 DEF IInv, Reachable
  <2>3. \A q \in Roles : sockets[q] # None => sockets[q] \in Present /\ Role(sockets[q]) = q
    BY <2>1 DEF IInv, RegisteredPresent
  <2>4. Present' = Present \ {s}
    BY <1>2 DEF IInv, TypeOK, Present
  <2>5. \A t \in Present' : Role(t) # r
    BY <2>1, <2>2, <2>4
  <2>6. /\ sockets'[r] = None
        /\ \A q \in Roles \ {r} : sockets'[q] = sockets[q]
    BY <1>1, <1>2 DEF IInv, TypeOK
  <2>7. Reachable'
    BY <2>2, <2>4, <2>5, <2>6, SocketRole DEF Reachable, Present
  <2>8. RegisteredPresent'
    BY <2>1, <2>3, <2>4, <2>6 DEF RegisteredPresent
  <2>9. OneEach'
    BY <2>2, <2>4 DEF OneEach
  <2>10. EndsForAll'
    BY <2>1, <2>4, <1>2 DEF IInv, EndsForAll
  <2>11. room
    BY <2>1 DEF IInv, EndsForAll
  <2>12. PresenceTold'
    <3>1. ASSUME NEW t \in Sockets, wire'[t] = "open"
          PROVE  told'[t] # "joined" /\ \A u \in Present' : Role(u) = Role(t)
      <4>1. wire[t] = "open" /\ t # s /\ t \in Present'
        BY <3>1, <1>2, <2>4 DEF IInv, TypeOK, Present
      <4>2. Role(t) = Other(r) /\ t = peer
        BY <4>1, <2>2, <2>4, <2>5, <1>1, OtherRole, SocketRole
      <4>3. \A u \in Present' : Role(u) = Other(r)
        BY <2>5, <1>1, OtherRole, SocketRole DEF Present
      <4> QED  BY <4>1, <4>2, <4>3, <1>3, <2>11
    <3> QED  BY <3>1 DEF PresenceTold
  <2>13. IntroducedFirst'
    BY <1>2, <1>3, <2>1 DEF IInv, TypeOK, IntroducedFirst
  <2> QED
    BY <1>5, <2>7, <2>8, <2>9, <2>10, <2>12, <2>13 DEF IInv
<1> QED  BY <1>6, <1>7

LEMMA AlarmStep ==
  ASSUME IInv, Alarm
  PROVE  IInv'
<1> DEFINE closed == {sockets[r] : r \in Roles}
<1>1. /\ UNCHANGED <<expired, awake, told, relayed, disturbed>>
      /\ awake /\ ~room'
      /\ sockets' = [r \in Roles |-> None]
  BY DEF Alarm, clientVars
<1>2. /\ wire' \in [Sockets -> WireStates]
      /\ \A s \in Sockets :
           wire'[s] = IF s \in closed /\ s \in Present THEN "closing" ELSE wire[s]
  BY ClosedByTakesOut DEF IInv, TypeOK, Alarm
<1>3. TypeOK' /\ Untold' /\ Forgotten'
  <2>1. TypeOK'
    BY <1>1, <1>2 DEF IInv, TypeOK, Alarm
  <2>2. Untold'
    BY <1>1, <1>2 DEF IInv, Untold
  <2> QED  BY <2>1, <2>2, <1>1 DEF Forgotten
<1>4. CASE disturbed'
  BY <1>3, <1>4, DisturbedCalm DEF IInv, Calm
<1>5. CASE ~disturbed'
  <2>1. \A s \in Present : s \in closed
    BY <1>1, <1>5, SocketRole DEF IInv, Reachable, Present
  <2>2. Present' = {}
    BY <1>2, <2>1 DEF Present
  <2>3. OneEach' /\ RegisteredPresent' /\ Reachable' /\ EndsForAll'
    BY <2>2, <1>1 DEF OneEach, RegisteredPresent, Reachable, EndsForAll
  <2>4. PresenceTold' /\ IntroducedFirst'
    BY <2>2, <1>1, <1>5 DEF IInv, PresenceTold, IntroducedFirst, Present
  <2> QED  BY <1>3, <2>3, <2>4 DEF IInv
<1> QED  BY <1>4, <1>5

LEMMA EvictStep ==
  ASSUME IInv, Evict
  PROVE  IInv'
<1>1. /\ UNCHANGED <<room, expired, wire, told, relayed, disturbed>>
      /\ ~awake' /\ awake' \in BOOLEAN
      /\ sockets' = [r \in Roles |-> None]
  BY DEF Evict, clientVars
<1>2. TypeOK' /\ Untold' /\ Forgotten' /\ Present' = Present
  BY <1>1 DEF IInv, TypeOK, Untold, Forgotten, Present
<1>3. OneEach' /\ RegisteredPresent' /\ Reachable' /\ EndsForAll'
  BY <1>1, <1>2 DEF IInv, OneEach, RegisteredPresent, Reachable, EndsForAll
<1>4. PresenceTold' /\ IntroducedFirst'
  BY <1>1, <1>2 DEF IInv, PresenceTold, IntroducedFirst
<1> QED  BY <1>2, <1>3, <1>4 DEF IInv

LEMMA WakeStep ==
  ASSUME IInv, Wake
  PROVE  IInv'
<1>1. UNCHANGED <<room, expired, wire, told, relayed>> /\ awake' = TRUE
  BY DEF Wake, clientVars
<1>2. /\ sockets' \in [Roles -> Sockets \cup {None}]
      /\ \A r \in Roles :
           IF Listed(r) = {} THEN sockets'[r] = None ELSE sockets'[r] \in Listed(r)
  BY DEF Wake
<1>3. disturbed' = (disturbed \/ \E r \in Roles : sockets'[r] \in Closing)
  BY DEF Wake
<1>4. TypeOK' /\ Untold' /\ Forgotten' /\ Present' = Present
  BY <1>1, <1>2, <1>3 DEF IInv, TypeOK, Untold, Forgotten, Present
<1>5. CASE disturbed'
  BY <1>4, <1>5, DisturbedCalm DEF IInv, Calm
<1>6. CASE ~disturbed'
  <2>1. ~disturbed /\ \A r \in Roles : sockets'[r] \notin Closing
    BY <1>3, <1>6
  <2>2. \A r \in Roles : sockets'[r] # None => sockets'[r] \in Present /\ Role(sockets'[r]) = r
    BY <1>2, <2>1 DEF Listed
  <2>3. ASSUME NEW s \in Present PROVE sockets'[Role(s)] = s
    <3>1. s \in Sockets /\ Role(s) \in Roles /\ s \in Listed(Role(s))
      BY SocketRole DEF Present, Listed
    <3>2. sockets'[Role(s)] \in Listed(Role(s)) /\ sockets'[Role(s)] # None
      BY <3>1, <1>2, SocketRole DEF Listed, Present, Closing
    <3> QED  BY <3>1, <3>2, <2>1, <2>2 DEF IInv, OneEach
  <2>4. OneEach' /\ RegisteredPresent' /\ Reachable' /\ EndsForAll'
    BY <1>1, <1>4, <2>1, <2>2, <2>3
    DEF IInv, OneEach, RegisteredPresent, Reachable, EndsForAll
  <2>5. PresenceTold' /\ IntroducedFirst'
    BY <1>1, <1>4, <2>1 DEF IInv, PresenceTold, IntroducedFirst
  <2> QED  BY <1>4, <2>4, <2>5 DEF IInv
<1> QED  BY <1>5, <1>6

LEMMA NextStep == IInv /\ [Next]_vars => IInv'
<1> SUFFICES ASSUME IInv, [Next]_vars PROVE IInv'  OBVIOUS
<1>1. ASSUME NEW s \in Sockets,
             \/ Upgrade(s) \/ UpgradeRefused(s)
             \/ WebSocketMessage(s) \/ WebSocketClose(s)
             \/ Leave(s) \/ CloseAnswered(s)
      PROVE  IInv'
  BY <1>1, UpgradeStep, UpgradeRefusedStep, WebSocketMessageStep,
     WebSocketCloseStep, LeaveStep, CloseAnsweredStep
<1>2. CASE Alarm \/ Evict \/ Wake \/ Expire
  BY <1>2, AlarmStep, EvictStep, WakeStep, ExpireStep
<1>3. CASE UNCHANGED vars
  <2>1. TypeOK' /\ Untold' /\ Present' = Present
    BY <1>3 DEF vars, IInv, TypeOK, Untold, Present
  <2> QED  BY <1>3, <2>1, KeptStep DEF vars
<1> QED  BY <1>1, <1>2, <1>3 DEF Next

-----------------------------------------------------------------------------

\* IInv is an invariant of the room, for any number of connections.
THEOREM RoomInvariance == Spec => []IInv
<1>1. Init => IInv
  BY InitInv
<1>2. IInv /\ [Next]_vars => IInv'
  BY NextStep
<1> QED  BY <1>1, <1>2, PTL DEF Spec

\* Whoever is there can be reached, however often a role replaced its
\* connection and the object was evicted (room.ts:33-52, 113-129).
THEOREM RoomReachable == Spec => []Reachable
<1>1. IInv => Reachable
  BY DEF IInv
<1> QED  BY <1>1, RoomInvariance, PTL

\* Each client was told the truth about its peer last (room.ts:131-135, 175-185).
THEOREM RoomPresence == Spec => []PresenceTold
<1>1. IInv => PresenceTold
  BY DEF IInv
<1> QED  BY <1>1, RoomInvariance, PTL

\* No message before an introduction (room.ts:161-172).
THEOREM RoomIntroduces == Spec => []IntroducedFirst
<1>1. IInv => IntroducedFirst
  BY DEF IInv
<1> QED  BY <1>1, RoomInvariance, PTL

\* The alarm leaves no connection open (room.ts:187-199).
THEOREM RoomEnds == Spec => []EndsForAll
<1>1. IInv => EndsForAll
  BY DEF IInv
<1> QED  BY <1>1, RoomInvariance, PTL
=============================================================================
