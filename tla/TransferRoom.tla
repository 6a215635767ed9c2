---------------------------- MODULE TransferRoom ----------------------------
(***************************************************************************)
(* The room in which a sender and a receiver find each other: the          *)
(* TransferRoom Durable Object (signaling/src/room.ts) and the WebSockets  *)
(* it accepted.  The runtime keeps the sockets while the object is evicted *)
(* from memory, and the constructor takes them back from it.               *)
(*                                                                         *)
(* A handler awaits nothing but the object's own storage, and no event is  *)
(* delivered meanwhile: every handler is one step.                         *)
(***************************************************************************)
EXTENDS Integers

CONSTANTS
  MaxSockets,     \* connections a role makes, at most
  Faults          \* "silent": a connection dies and nobody is told; "linger": a
                  \* socket the room closed is still listed and still speaks

ASSUME RoomAssumption ==
  /\ MaxSockets \in Nat \ {0}
  /\ Faults \subseteq {"silent", "linger"}

Roles == {"sender", "receiver"}
Other(r) == IF r = "sender" THEN "receiver" ELSE "sender"

Sockets == Roles \X (1 .. MaxSockets)     \* the nth connection of a role
Role(s) == s[1]                           \* roleOf(): the tag of the socket
None == <<"none", 0>>

VARIABLES
  room,           \* "room" is in the object's storage
  expired,        \* Date.now() > room.expiresAt
  awake,          \* the object is in memory
  sockets,        \* this.sockets
  wire,           \* per connection, how it is
  told,           \* per connection, the last that was heard of the peer
  relayed,        \* the connections that got a message of the peer
  disturbed       \* the room listened to a connection that it had closed

objectVars == <<room, awake, sockets>>
clientVars == <<told, relayed>>
vars == <<room, expired, awake, sockets, wire, told, relayed, disturbed>>

\* "leaving": the client closed it, the object has yet to hear of it;
\* "closing": the room closed it, the client has yet to answer.
WireStates == {"new", "open", "leaving", "dead", "closing", "closed"}
Present == {s \in Sockets : wire[s] \in {"open", "leaving", "dead"}}
Closing == {s \in Sockets : wire[s] = "closing"}

-----------------------------------------------------------------------------

\* send(): nothing arrives on a connection that is not open.
Told(t, what) ==
  IF t \in Sockets /\ wire[t] = "open" THEN [told EXCEPT ![t] = what] ELSE told

\* The room closes these: a socket whose client is gone is closed as well.
ClosedBy(set) ==
  [s \in Sockets |-> IF s \in set \cap Present THEN "closing" ELSE wire[s]]

\* Mutant of Upgrade: only the one who was there already is told.
TellsOnlyOther(s) ==
  /\ awake /\ room /\ ~expired
  /\ wire[s] = "new"
  /\ wire' = [ClosedBy({sockets[Role(s)]}) EXCEPT ![s] = "open"]
  /\ sockets' = [sockets EXCEPT ![Role(s)] = s]
  /\ told' = Told(sockets[Other(Role(s))], "joined")
  /\ UNCHANGED <<room, expired, awake, relayed, disturbed>>

\* handleWebSocketUpgrade()
Upgrade(s) ==
  /\ awake /\ room /\ ~expired
  /\ wire[s] = "new"
  /\ \A n \in 1 .. s[2] - 1 : wire[<<Role(s), n>>] # "new"
  /\ wire' = [ClosedBy({sockets[Role(s)]}) EXCEPT ![s] = "open"]
  /\ sockets' = [sockets EXCEPT ![Role(s)] = s]
  /\ told' = IF sockets[Other(Role(s))] = None THEN told
             ELSE [Told(sockets[Other(Role(s))], "joined") EXCEPT ![s] = "joined"]
  /\ UNCHANGED <<room, expired, awake, relayed, disturbed>>

\* The answer 404 or 410: no connection.
UpgradeRefused(s) ==
  /\ awake /\ (~room \/ expired)
  /\ wire[s] = "new"
  /\ wire' = [wire EXCEPT ![s] = "closed"]
  /\ UNCHANGED <<objectVars, expired, clientVars, disturbed>>

\* Connections whose events come: also those the room closed, if they linger.
Heard == {"open", "leaving"} \cup (IF "linger" \in Faults THEN {"closing"} ELSE {})

\* webSocketMessage() of a CONFIG, OFFER, ANSWER or ICE_CANDIDATE; those a
\* client sent before it was closed are delivered.  (PING is answered, and
\* changes nothing.)
WebSocketMessage(s) ==
  /\ awake
  /\ wire[s] \in Heard
  /\ LET target == sockets[Other(Role(s))] IN
       relayed' = relayed \cup {t \in {target} \cap Sockets : wire[t] = "open"}
  /\ disturbed' = (disturbed \/ wire[s] = "closing")
  /\ UNCHANGED <<objectVars, expired, wire, told>>

\* Mutant of WebSocketClose: nobody hears of it.
ClosesQuietly(s) ==
  /\ awake
  /\ wire[s] \in Heard \ {"open"}
  /\ wire' = [wire EXCEPT ![s] = "closed"]
  /\ sockets' = [sockets EXCEPT ![Role(s)] = None]
  /\ disturbed' = (disturbed \/ wire[s] = "closing")
  /\ UNCHANGED <<room, expired, awake, told, relayed>>

\* webSocketClose()
WebSocketClose(s) ==
  /\ awake
  /\ wire[s] \in Heard \ {"open"}
  /\ wire' = [wire EXCEPT ![s] = "closed"]
  /\ sockets' = [sockets EXCEPT ![Role(s)] = None]
  /\ told' = IF room THEN Told(sockets[Other(Role(s))], "left") ELSE told
  /\ disturbed' = (disturbed \/ wire[s] = "closing")
  /\ UNCHANGED <<room, expired, awake, relayed>>

\* Mutant of Alarm: what the object was told to forget is only forgotten.
ForgetsWithoutClosing ==
  /\ awake /\ room /\ expired
  /\ room' = FALSE /\ sockets' = [r \in Roles |-> None]
  /\ UNCHANGED <<expired, awake, wire, clientVars, disturbed>>

\* alarm()
Alarm ==
  /\ awake /\ room /\ expired
  /\ wire' = ClosedBy({sockets[r] : r \in Roles})
  /\ sockets' = [r \in Roles |-> None]
  /\ room' = FALSE
  /\ UNCHANGED <<expired, awake, clientVars, disturbed>>

\* Eviction: the field is gone.
Evict ==
  /\ awake
  /\ awake' = FALSE
  /\ sockets' = [r \in Roles |-> None]
  /\ UNCHANGED <<room, expired, wire, clientVars, disturbed>>

\* Mutant of Wake: the constructor before it restored anything.
WakesEmpty ==
  /\ ~awake
  /\ awake' = TRUE
  /\ UNCHANGED <<room, expired, sockets, wire, clientVars, disturbed>>

\* The constructor: of each role the last of getWebSockets(), whose order is
\* not known, and which may list sockets that were closed.
Listed(r) ==
  {s \in Present \cup (IF "linger" \in Faults THEN Closing ELSE {}) : Role(s) = r}
Wake ==
  /\ ~awake
  /\ awake' = TRUE
  /\ sockets' \in {f \in [Roles -> Sockets \cup {None}] :
        \A r \in Roles : IF Listed(r) = {} THEN f[r] = None ELSE f[r] \in Listed(r)}
  /\ disturbed' = (disturbed \/ \E r \in Roles : sockets'[r] \in Closing)
  /\ UNCHANGED <<room, expired, wire, clientVars>>

-----------------------------------------------------------------------------
(* The clients, the network and the clock *)

\* A client closes its connection, or it breaks.
Leave(s) ==
  /\ wire[s] = "open"
  /\ \/ wire' = [wire EXCEPT ![s] = "leaving"]
     \/ "silent" \in Faults /\ wire' = [wire EXCEPT ![s] = "dead"]
  /\ UNCHANGED <<objectVars, expired, clientVars, disturbed>>

\* The client answers a close, and the object does not hear of it.
CloseAnswered(s) ==
  /\ wire[s] = "closing"
  /\ wire' = [wire EXCEPT ![s] = "closed"]
  /\ UNCHANGED <<objectVars, expired, clientVars, disturbed>>

Expire ==
  /\ ~expired
  /\ expired' = TRUE
  /\ UNCHANGED <<objectVars, wire, clientVars, disturbed>>

-----------------------------------------------------------------------------

Init ==
  /\ room = TRUE                \* handleInit() made it
  /\ expired = FALSE
  /\ awake = TRUE
  /\ sockets = [r \in Roles |-> None]
  /\ wire = [s \in Sockets |-> "new"]
  /\ told = [s \in Sockets |-> "nothing"]
  /\ relayed = {}
  /\ disturbed = FALSE

Next ==
  \/ \E s \in Sockets :
       \/ Upgrade(s) \/ UpgradeRefused(s)
       \/ WebSocketMessage(s) \/ WebSocketClose(s)
       \/ Leave(s) \/ CloseAnswered(s)
  \/ Alarm \/ Evict \/ Wake \/ Expire

Spec == Init /\ [][Next]_vars

-----------------------------------------------------------------------------
(* Properties *)

TypeOK ==
  /\ room \in BOOLEAN /\ expired \in BOOLEAN /\ awake \in BOOLEAN
  /\ sockets \in [Roles -> Sockets \cup {None}]
  /\ wire \in [Sockets -> WireStates]
  /\ told \in [Sockets -> {"nothing", "joined", "left"}]
  /\ relayed \subseteq Sockets
  /\ disturbed \in BOOLEAN

\* Whoever is there can be reached: unless the room listened to a connection
\* it had closed, the socket it has of a role is the one that is up,
\* whatever was replaced, broken or evicted in between.
Reachable ==
  awake /\ ~disturbed => \A s \in Present : sockets[Role(s)] = s

\* Each side knows: the last a connected client was told is "joined" exactly
\* while the room holds a connection of its peer.
PresenceTold ==
  ~disturbed =>
    \A s \in Sockets : wire[s] = "open" =>
      (told[s] = "joined" <=> \E t \in Present : Role(t) # Role(s))

\* Nobody gets a message of a peer that was not announced.
IntroducedFirst ==
  ~disturbed => \A s \in relayed : told[s] # "nothing"

\* The room's end is the end of every connection.
EndsForAll == ~disturbed /\ ~room => Present = {}

\* The inductive invariant: with the above, a role has one connection at most
\* that is not over, what is registered is such a one, nothing is told before
\* there is a connection, and an object that was evicted knows of none.
OneEach ==
  ~disturbed => \A s, t \in Present : Role(s) = Role(t) => s = t
RegisteredPresent ==
  ~disturbed => \A r \in Roles :
    sockets[r] # None => sockets[r] \in Present /\ Role(sockets[r]) = r
Untold == \A s \in Sockets : wire[s] = "new" => told[s] = "nothing"
Forgotten == ~awake => \A r \in Roles : sockets[r] = None

IInv ==
  /\ TypeOK
  /\ OneEach /\ RegisteredPresent /\ Untold /\ Forgotten
  /\ Reachable /\ PresenceTold /\ IntroducedFirst /\ EndsForAll
=============================================================================
