------------------------- MODULE HashWorker_proofs -------------------------
(***************************************************************************)
(* Proofs about HashWorker.  For every number of streams, files and pieces *)
(* and all faults: a digest is that of exactly the bytes its job was fed   *)
(* before it was asked for, and the worker keeps no hash state that nobody *)
(* can ask for any more.                                                   *)
(***************************************************************************)
EXTENDS HashWorker, SequenceTheorems, TLAPS

-----------------------------------------------------------------------------
(* The inductive invariant. *)

Places == {"new", "open", "inline", "asked", "resolved", "rejected"}
Digests == {Data(j, n) : j \in Jobs, n \in Nat}

JobRec == [at : Places, id : Nat, fed : Nat, due : Nat, digest : Digests]
ToWorker ==
  [type : {"file", "open", "update", "digest", "abort"}, id : Nat, job : Jobs, piece : Nat]
FromWorker == [type : {"resolved", "rejected"}, id : Nat, digest : Digests]

TypeOK ==
  /\ nextId \in Nat
  /\ job \in [Jobs -> JobRec]
  /\ inbox \in Seq(ToWorker)
  /\ outbox \in Seq(FromWorker)

\* The digest of job j was asked for: what is to go into it is settled.
Asked(j) == job[j].at \notin {"new", "open"}

\* Jobs have ids of their own, and a promise that waits is that of a question.
Ids ==
  /\ \A j \in Jobs :
       /\ job[j].id <= nextId
       /\ job[j].at = "new" => job[j].id = None /\ job[j].fed = 0 /\ j \notin aborted
       /\ job[j].at = "open" => job[j].id # None
       /\ job[j].at = "inline" => job[j].id = None
  /\ \A i, j \in Jobs : job[i].id = job[j].id /\ job[i].id # None => i = j
  /\ \A i \in DOMAIN pending :
       pending[i] \in Jobs /\ job[pending[i]].id = i /\ i # None /\ Asked(pending[i])

\* Nothing is left of a worker that ended.
Dead == ~alive => inbox = <<>> /\ streams = <<>> /\ reads = <<>>

\* Message k is about job j, and of one of these types.
Says(k, j, types) == inbox[k].job = j /\ inbox[k].type \in types

InStream(s) == job[s].id \in DOMAIN streams

\* What message k says of the job it is about.  The first one opens a stream.
Opens(k, j) ==
  /\ ~InStream(j)
  /\ \A l \in DOMAIN inbox : Says(l, j, {"open"}) => l = k
  /\ \A l \in DOMAIN inbox : inbox[l].job = j => k <= l

About(k, j) ==
  /\ inbox[k].id = job[j].id /\ job[j].id # None
  /\ inbox[k].type = "file" <=> j \in Files
  /\ inbox[k].type = "file" => Asked(j) /\ job[j].due = Pieces
  /\ inbox[k].type = "digest" => Asked(j) /\ inbox[k].piece = job[j].due + 1
  /\ inbox[k].type = "open" => Opens(k, j)

Posted == \A k \in DOMAIN inbox : \A j \in Jobs : inbox[k].job = j => About(k, j)

\* A hash state is that of a stream, and has the first pieces of it.
Owned ==
  \A i \in DOMAIN streams :
    \E s \in Streams : job[s].id = i /\ i # None /\ \E n \in Nat : streams[i] = Data(s, n)

\* A file that is being read is one whose digest is waited for.
Reading ==
  \A i \in DOMAIN reads :
    \E f \in Files :
      /\ job[f].id = i /\ i # None /\ Asked(f) /\ job[f].due = Pieces
      /\ \E n \in 0 .. Pieces : reads[i] = Data(f, n)

\* The worker has a stream, or will.
Tracked(s) == InStream(s) \/ \E k \in DOMAIN inbox : Says(k, s, {"open"})

\* How many pieces of it went into the hash state, and which is to come next once
\* message k is taken.
Consumed(s) == IF InStream(s) THEN Len(streams[job[s].id]) ELSE 0
After(k) == IF inbox[k].type = "update" THEN inbox[k].piece + 1 ELSE inbox[k].piece

\* The pieces of a stream that are not in its hash state are on their way, each once,
\* in order, and before any question that was asked after them.
InOrder ==
  \A s \in Streams : Tracked(s) =>
    /\ Consumed(s) <= job[s].fed
    /\ \A k \in DOMAIN inbox : inbox[k].job = s =>
         Consumed(s) < inbox[k].piece /\ After(k) <= job[s].fed + 1
    /\ \A k, l \in DOMAIN inbox :
         k < l /\ inbox[k].job = s /\ inbox[l].job = s => After(k) <= inbox[l].piece
    /\ \A p \in Consumed(s) + 1 .. job[s].fed :
         \E k \in DOMAIN inbox : Says(k, s, {"update"}) /\ inbox[k].piece = p

\* A stream the worker has, or will, can still be asked for, or is about to go.
Wanted ==
  \A s \in Streams : Tracked(s) =>
    \/ job[s].at = "open" /\ s \notin aborted
    \/ \E k \in DOMAIN inbox : Says(k, s, {"digest", "abort"})

\* An answer is the digest that was asked for.
Answered ==
  \A k \in DOMAIN outbox : outbox[k].type = "resolved" =>
    \E j \in Jobs : /\ job[j].id = outbox[k].id /\ outbox[k].id # None
                     /\ Asked(j) /\ outbox[k].digest = Data(j, job[j].due)

\* What the worker was sent and has, and the whole.
AtWorker == Dead /\ Posted /\ Owned /\ Reading /\ InOrder /\ Wanted
IInv == TypeOK /\ Ids /\ AtWorker /\ Answered /\ AnswersMatch

-----------------------------------------------------------------------------
\* The first n pieces of a job, and one more.
LEMMA DataFacts ==
  ASSUME NEW j, NEW n \in Nat
  PROVE  /\ Len(Data(j, n)) = n /\ DOMAIN Data(j, n) = 1 .. n
         /\ Append(Data(j, n), <<j, n + 1>>) = Data(j, n + 1)
         /\ Data(j, 0) = <<>>
<1> DEFINE d == Data(j, n)
           e == <<j, n + 1>>
           S == {<<j, k>> : k \in Nat}
<1>1. d \in Seq(S) /\ Len(d) = n /\ \A k \in 1 .. n : d[k] = <<j, k>>
  BY DEF Data
<1>2. e \in S
  OBVIOUS
<1>3. Data(j, n + 1) \in Seq(S) /\ Len(Data(j, n + 1)) = n + 1
      /\ \A k \in 1 .. n + 1 : Data(j, n + 1)[k] = <<j, k>>
  BY DEF Data
<1>4. Data(j, 0) = <<>>
  BY DEF Data
<1> HIDE DEF d, S
<1>5. /\ Append(d, e) \in Seq(S) /\ Len(Append(d, e)) = n + 1
      /\ \A k \in 1 .. n : Append(d, e)[k] = d[k]
      /\ Append(d, e)[n + 1] = e
  BY <1>1, <1>2, AppendProperties
<1> DEFINE x == Append(d, e)
           y == Data(j, n + 1)
<1>6. x = y
  <2>1. ASSUME NEW k \in 1 .. n + 1
        PROVE  x[k] = y[k]
    <3>1. CASE k \in 1 .. n
      <4>1. x[k] = d[k] /\ d[k] = <<j, k>>
        BY <1>1, <1>5, <3>1
      <4>2. y[k] = <<j, k>>
        BY <1>3
      <4> QED BY <4>1, <4>2
    <3>2. CASE ~(k \in 1 .. n)
      <4>1. k = n + 1
        BY <3>2
      <4>2. x[n + 1] = e
        BY <1>5
      <4>3. y[n + 1] = <<j, n + 1>>
        BY <1>3
      <4> QED BY <4>1, <4>2, <4>3
    <3> QED BY <3>1, <3>2
  <2> HIDE DEF x, y
  <2>2. x \in Seq(S) /\ y \in Seq(S) /\ Len(x) = n + 1 /\ Len(y) = n + 1
    BY <1>3, <1>5 DEF x, y
  <2> QED BY <2>1, <2>2, SeqEqual
<1>7. DOMAIN d = 1 .. n
  BY DEF d, Data
<1> QED BY <1>1, <1>4, <1>6, <1>7 DEF d

\* A queue with one more message, and one without its first.
LEMMA QueueFacts ==
  ASSUME NEW S, NEW q \in Seq(S)
  PROVE  /\ Len(q) \in Nat /\ DOMAIN q = 1 .. Len(q) /\ \A k \in 1 .. Len(q) : q[k] \in S
         /\ \A m \in S :
              /\ Append(q, m) \in Seq(S) /\ DOMAIN Append(q, m) = 1 .. Len(q) + 1
              /\ Append(q, m)[Len(q) + 1] = m
              /\ \A k \in 1 .. Len(q) : Append(q, m)[k] = q[k]
         /\ q # <<>> =>
              /\ Head(q) = q[1] /\ Len(q) >= 1 /\ 1 \in 1 .. Len(q)
              /\ Tail(q) \in Seq(S) /\ DOMAIN Tail(q) = 1 .. Len(q) - 1
              /\ \A k \in 1 .. Len(q) - 1 : Tail(q)[k] = q[k + 1]
OBVIOUS

\* A worker that has nothing and is sent nothing.
LEMMA EmptyWorker ==
  ASSUME inbox' = <<>>, streams' = <<>>, reads' = <<>>
  PROVE  AtWorker'
<1>1. DOMAIN <<>> = {}
  OBVIOUS
<1> QED BY <1>1 DEF AtWorker, Dead, Posted, Owned, Reading, InOrder, Wanted, Tracked, InStream

-----------------------------------------------------------------------------
(* What the page does to what the worker was sent and has. *)

\* A message about a stream that the worker was told of is posted.
LEMMA PostWorker ==
  ASSUME TypeOK, AtWorker, TypeOK', NEW s \in Streams,
         NEW type \in {"update", "digest", "abort"}, job[s].id # None,
         Post(type, s, job[s].id), UNCHANGED <<alive, streams, reads>>,
         \A j \in Jobs : j # s => job'[j] = job[j],
         job'[s].id = job[s].id,
         job'[s].fed = IF type = "update" THEN job[s].fed + 1 ELSE job[s].fed,
         Asked(s) => Asked(s)' /\ job'[s].due = job[s].due,
         type = "digest" => Asked(s)' /\ job'[s].due = job[s].fed,
         aborted' \subseteq aborted \cup {s}, type # "abort" => aborted' = aborted,
         job[s].at = "open" => job'[s].at = "open" \/ type = "digest"
  PROVE  AtWorker'
<1>1. CASE ~alive
  BY <1>1, EmptyWorker DEF AtWorker, Dead, Post
<1>2. CASE alive
  <2> DEFINE m == [type |-> type, id |-> job[s].id, job |-> s, piece |-> job[s].fed + 1]
  <2>1. PICK n \in Nat : n = Len(inbox)
    BY QueueFacts DEF TypeOK
  <2>2. inbox' = Append(inbox, m)
    BY <1>2 DEF Post
  <2>3. /\ n \in Nat /\ DOMAIN inbox = 1 .. n /\ DOMAIN inbox' = 1 .. n + 1
        /\ inbox'[n + 1] = m /\ \A k \in 1 .. n : inbox'[k] = inbox[k]
    <3>1. inbox \in Seq(ToWorker) /\ m \in ToWorker
      BY DEF TypeOK, Jobs, JobRec, ToWorker
    <3> HIDE DEF m
    <3> QED BY <2>1, <2>2, <3>1, QueueFacts
  <2>4. \A k \in 1 .. n :
           inbox[k].job \in Jobs /\ inbox[k].piece \in Nat /\ inbox[k].id \in Nat
    <3>1. \A k \in 1 .. n : inbox[k] \in ToWorker
      BY <2>1, QueueFacts DEF TypeOK
    <3> QED BY <3>1 DEF ToWorker
  <2>5. m.type = type /\ m.job = s /\ m.id = job[s].id /\ m.piece = job[s].fed + 1
    OBVIOUS
  <2> HIDE DEF m
  <2>6. /\ s \in Jobs /\ s \notin Files
        /\ \A j \in Jobs : job'[j].id = job[j].id /\ job[j].fed \in Nat
    BY HashAssumption DEF Jobs, TypeOK, JobRec
  <2>7. \A j \in Jobs : InStream(j)' = InStream(j) /\ Consumed(j)' = Consumed(j)
    BY <2>6 DEF InStream, Consumed
  <2>8. /\ \A j \in Jobs : Asked(j) => Asked(j)' /\ job'[j].due = job[j].due
        /\ \A f \in Files : f \in Jobs /\ f # s
        /\ \A j \in Streams : j \in Jobs
    BY <2>6 DEF Asked, Jobs
  <2>9. \A k \in 1 .. n + 1 : k \in 1 .. n \/ k = n + 1
    BY <2>3
  <2>10. /\ \A k \in 1 .. n : \A j, S : Says(k, j, S)' <=> Says(k, j, S)
         /\ \A j, S : Says(n + 1, j, S)' <=> s = j /\ type \in S
    BY <2>3, <2>5 DEF Says
  <2>11. Posted'
    <3> SUFFICES ASSUME NEW k \in 1 .. n + 1, NEW j \in Jobs, inbox'[k].job = j
                 PROVE  About(k, j)'
      BY <2>3 DEF Posted
    <3>1. CASE k = n + 1
      BY <2>3, <2>5, <2>6, <3>1 DEF About
    <3>2. CASE k \in 1 .. n
      <4>1. inbox'[k] = inbox[k] /\ About(k, j)
        BY <2>3, <3>2 DEF AtWorker, Posted
      <4>2. Opens(k, j) => Opens(k, j)'
        <5>1. k <= n + 1
          BY <2>3, <3>2
        <5> QED BY <2>3, <2>7, <2>9, <2>10, <5>1 DEF Opens
      <4> QED BY <2>6, <2>8, <4>1, <4>2 DEF About
    <3> QED BY <2>9, <3>1, <3>2
  <2>12. Owned'
    BY <2>6, <2>8 DEF AtWorker, Owned
  <2>13. Reading'
    BY <2>6, <2>8 DEF AtWorker, Reading
  <2>14. \A t \in Streams : Tracked(t)' => Tracked(t)
    BY <2>3, <2>5, <2>7, <2>8, <2>9 DEF Tracked, Says
  <2>15. /\ \A k \in 1 .. n : After(k)' = After(k)
         /\ After(n + 1)' = IF type = "update" THEN job[s].fed + 2 ELSE job[s].fed + 1
    BY <2>3, <2>5, <2>6 DEF After
  <2>16. InOrder'
    <3> SUFFICES ASSUME NEW t \in Streams, Tracked(t)
                 PROVE  /\ Consumed(t) <= job'[t].fed
                        /\ \A k \in 1 .. n + 1 : inbox'[k].job = t =>
                             Consumed(t) < inbox'[k].piece /\ After(k)' <= job'[t].fed + 1
                        /\ \A k, l \in 1 .. n + 1 :
                             k < l /\ inbox'[k].job = t /\ inbox'[l].job = t =>
                               After(k)' <= inbox'[l].piece
                        /\ \A p \in Consumed(t) + 1 .. job'[t].fed :
                             \E k \in 1 .. n + 1 : Says(k, t, {"update"})' /\ inbox'[k].piece = p
      BY <2>3, <2>7, <2>8, <2>14 DEF InOrder
    <3>1. /\ Consumed(t) <= job[t].fed
          /\ \A k \in 1 .. n : inbox[k].job = t =>
               Consumed(t) < inbox[k].piece /\ After(k) <= job[t].fed + 1
          /\ \A k, l \in 1 .. n :
               k < l /\ inbox[k].job = t /\ inbox[l].job = t => After(k) <= inbox[l].piece
          /\ \A p \in Consumed(t) + 1 .. job[t].fed :
               \E k \in 1 .. n : Says(k, t, {"update"}) /\ inbox[k].piece = p
      BY <2>3 DEF AtWorker, InOrder
    <3>2. Consumed(t) \in Nat /\ job[t].fed \in Nat /\ t \in Jobs
      <4>1. InStream(t) => Len(streams[job[t].id]) \in Nat
        <5> SUFFICES ASSUME InStream(t) PROVE Len(streams[job[t].id]) \in Nat
          OBVIOUS
        <5>1. \E u \in Streams : \E i \in Nat : streams[job[t].id] = Data(u, i)
          BY DEF AtWorker, Owned, InStream
        <5> QED BY <5>1, DataFacts
      <4> QED BY <2>6, <2>8, <4>1 DEF Consumed
    <3>3. \A k \in 1 .. n : After(k) \in Nat /\ inbox[k].piece \in Nat
      BY <2>4 DEF After
    <3>4. \A k \in 1 .. n : Says(k, t, {"update"}) => Says(k, t, {"update"})'
      BY <2>3 DEF Says
    <3>5. CASE t # s
      <4>1. job'[t] = job[t]
        BY <2>8, <3>5
      <4>2. \A k \in 1 .. n + 1 : inbox'[k].job = t => k \in 1 .. n
        BY <2>3, <2>5, <2>9, <3>5
      <4> QED BY <2>3, <2>15, <3>1, <3>4, <4>1, <4>2
    <3>6. CASE t = s
      <4>1. Consumed(t) <= job'[t].fed /\ job[t].fed <= job'[t].fed /\ job'[t].fed \in Nat
        BY <3>1, <3>2, <3>6
      <4>2. ASSUME NEW k \in 1 .. n + 1, inbox'[k].job = t
            PROVE  Consumed(t) < inbox'[k].piece /\ After(k)' <= job'[t].fed + 1
        <5>1. CASE k \in 1 .. n
          BY <2>3, <2>15, <3>1, <3>2, <3>3, <4>1, <4>2, <5>1
        <5>2. CASE k = n + 1
          <6>1. inbox'[k].piece = job[s].fed + 1
            BY <2>3, <2>5, <5>2
          <6>2. After(k)' <= job'[s].fed + 1
            BY <2>6, <2>15, <5>2
          <6> QED BY <3>1, <3>2, <3>6, <6>1, <6>2
        <5> QED BY <2>9, <5>1, <5>2
      <4>3. ASSUME NEW k \in 1 .. n + 1, NEW l \in 1 .. n + 1, k < l,
                   inbox'[k].job = t, inbox'[l].job = t
            PROVE  After(k)' <= inbox'[l].piece
        <5>1. k \in 1 .. n
          BY <2>3, <4>3
        <5>2. CASE l \in 1 .. n
          BY <2>3, <2>15, <3>1, <4>3, <5>1, <5>2
        <5>3. CASE l = n + 1
          BY <2>3, <2>5, <2>15, <3>1, <3>6, <4>3, <5>1, <5>3
        <5> QED BY <2>9, <5>2, <5>3
      <4>4. ASSUME NEW p \in Consumed(t) + 1 .. job'[t].fed
            PROVE  \E k \in 1 .. n + 1 : Says(k, t, {"update"})' /\ inbox'[k].piece = p
        <5>1. CASE p <= job[t].fed
          <6>1. p \in Consumed(t) + 1 .. job[t].fed
            BY <3>2, <4>1, <5>1
          <6>2. PICK k \in 1 .. n : Says(k, t, {"update"}) /\ inbox[k].piece = p
            BY <3>1, <6>1
          <6>3. k \in 1 .. n + 1 /\ inbox'[k].piece = p
            BY <2>3, <6>2
          <6> QED BY <3>4, <6>2, <6>3
        <5>2. CASE ~(p <= job[t].fed)
          <6>1. type = "update" /\ p = job[s].fed + 1
            BY <3>2, <3>6, <4>1, <5>2
          <6>2. Says(n + 1, t, {"update"})' /\ inbox'[n + 1].piece = p /\ n + 1 \in 1 .. n + 1
            BY <2>3, <2>5, <3>6, <6>1 DEF Says
          <6> QED BY <6>2
        <5> QED BY <5>1, <5>2
      <4> QED BY <4>1, <4>2, <4>3, <4>4
    <3> QED BY <3>5, <3>6
  <2>17. Wanted'
    <3> SUFFICES ASSUME NEW t \in Streams, Tracked(t)
                 PROVE  \/ job'[t].at = "open" /\ t \notin aborted'
                        \/ \E k \in 1 .. n + 1 : Says(k, t, {"digest", "abort"})'
      BY <2>3, <2>14 DEF Wanted
    <3>1. \/ job[t].at = "open" /\ t \notin aborted
          \/ \E k \in 1 .. n : Says(k, t, {"digest", "abort"})
      BY <2>3 DEF AtWorker, Wanted
    <3>2. \A k \in 1 .. n : Says(k, t, {"digest", "abort"}) =>
            k \in 1 .. n + 1 /\ Says(k, t, {"digest", "abort"})'
      BY <2>3 DEF Says
    <3>3. type \in {"digest", "abort"} => Says(n + 1, s, {"digest", "abort"})'
      BY <2>3, <2>5 DEF Says
    <3>4. n + 1 \in 1 .. n + 1
      BY <2>3
    <3>5. CASE t # s
      BY <2>8, <3>1, <3>2, <3>5
    <3>6. CASE t = s
      BY <3>1, <3>2, <3>3, <3>4, <3>6
    <3> QED BY <3>5, <3>6
  <2> QED BY <1>2, <2>11, <2>12, <2>13, <2>16, <2>17 DEF AtWorker, Dead
<1> QED BY <1>1, <1>2

\* A job that the worker is told of for the first time.
LEMMA NewWorker ==
  ASSUME TypeOK, Ids, AtWorker, TypeOK', NEW s \in Jobs, job[s].at = "new",
         NEW type, type = IF s \in Files THEN "file" ELSE "open",
         nextId' = nextId + 1, Post(type, s, nextId'), alive => alive',
         UNCHANGED <<aborted, streams, reads>>,
         \A j \in Jobs : j # s => job'[j] = job[j],
         job'[s].id = nextId', job'[s].fed = job[s].fed,
         type = "file" => Asked(s)' /\ job'[s].due = Pieces,
         type = "open" => job'[s].at = "open"
  PROVE  AtWorker'
<1>1. CASE ~alive'
  BY <1>1, EmptyWorker DEF AtWorker, Dead, Post
<1>2. CASE alive'
  <2> DEFINE m == [type |-> type, id |-> nextId + 1, job |-> s, piece |-> 1]
  <2>1. PICK n \in Nat : n = Len(inbox)
    BY QueueFacts DEF TypeOK
  <2>2. inbox' = Append(inbox, m)
    BY <1>2 DEF Post, Ids
  <2>3. /\ n \in Nat /\ DOMAIN inbox = 1 .. n /\ DOMAIN inbox' = 1 .. n + 1
        /\ inbox'[n + 1] = m /\ \A k \in 1 .. n : inbox'[k] = inbox[k]
    <3>1. inbox \in Seq(ToWorker) /\ m \in ToWorker
      BY DEF TypeOK, Jobs, ToWorker
    <3> HIDE DEF m
    <3> QED BY <2>1, <2>2, <3>1, QueueFacts
  <2>4. \A k \in 1 .. n :
           inbox[k].job \in Jobs /\ inbox[k].piece \in Nat /\ inbox[k].id \in Nat
    <3>1. \A k \in 1 .. n : inbox[k] \in ToWorker
      BY <2>1, QueueFacts DEF TypeOK
    <3> QED BY <3>1 DEF ToWorker
  <2>5. m.type = type /\ m.job = s /\ m.id = job'[s].id /\ m.piece = 1
    OBVIOUS
  <2> HIDE DEF m
  <2>6. /\ \A j \in Jobs : j \in Files <=> j \notin Streams
        /\ \A j \in Files : j \in Jobs
        /\ \A j \in Streams : j \in Jobs
        /\ job[s].id = 0 /\ job[s].fed = 0 /\ s \notin aborted /\ nextId \in Nat /\ None = 0
        /\ \A j \in Jobs : j # s => job[j].id <= nextId
    BY HashAssumption DEF Jobs, TypeOK, Ids, None
  <2>7. \A k \in 1 .. n : inbox[k].job # s
    BY <2>3, <2>6, <2>4 DEF AtWorker, Posted, About
  <2>8. \A j \in Jobs : j # s =>
          /\ InStream(j)' = InStream(j) /\ Consumed(j)' = Consumed(j) /\ Asked(j)' = Asked(j)
    BY DEF InStream, Consumed, Asked
  <2>9. \A k \in 1 .. n + 1 : k \in 1 .. n \/ k = n + 1
    BY <2>3
  <2>10. ~InStream(s)' /\ Consumed(s)' = 0
    <3>1. nextId + 1 \notin DOMAIN streams
      <4> SUFFICES ASSUME nextId + 1 \in DOMAIN streams PROVE FALSE
        OBVIOUS
      <4>1. PICK t \in Streams : job[t].id = nextId + 1
        BY DEF AtWorker, Owned
      <4>2. t = s \/ t # s
        OBVIOUS
      <4> QED BY <2>6, <4>1, <4>2
    <3> QED BY <3>1 DEF InStream, Consumed
  <2>11. /\ \A k \in 1 .. n : \A j, S : Says(k, j, S)' <=> Says(k, j, S)
        /\ \A j, S : Says(n + 1, j, S)' <=> s = j /\ type \in S
    BY <2>3, <2>5 DEF Says
  <2>12. Posted'
    <3> SUFFICES ASSUME NEW k \in 1 .. n + 1, NEW j \in Jobs, inbox'[k].job = j
                 PROVE  About(k, j)'
      BY <2>3 DEF Posted
    <3>1. CASE k = n + 1
      <4>1. j = s /\ inbox'[k] = m
        BY <2>3, <2>5, <3>1
      <4>2. \A l \in 1 .. n + 1 : inbox'[l].job = s => l = n + 1
        BY <2>3, <2>7, <2>9
      <4>3. Opens(k, s)'
        BY <2>3, <2>10, <3>1, <4>2 DEF Opens, Says
      <4> QED BY <2>5, <2>6, <4>1, <4>3 DEF About
    <3>2. CASE k \in 1 .. n
      <4>1. inbox'[k] = inbox[k] /\ About(k, j) /\ j # s
        BY <2>3, <2>7, <3>2 DEF AtWorker, Posted
      <4>2. Opens(k, j) => Opens(k, j)'
        <5>1. k <= n + 1
          BY <2>3, <3>2
        <5> QED BY <2>3, <2>8, <2>9, <2>11, <4>1, <5>1 DEF Opens
      <4> QED BY <2>6, <2>8, <4>1, <4>2 DEF About
    <3> QED BY <2>9, <3>1, <3>2
  <2>13. Owned'
    BY <2>6 DEF AtWorker, Owned
  <2>14. Reading'
    BY <2>6, <2>8 DEF AtWorker, Reading
  <2>15. \A t \in Streams : t # s /\ Tracked(t)' => Tracked(t)
    BY <2>3, <2>6, <2>8, <2>9, <2>11 DEF Tracked
  <2>16. /\ \A k \in 1 .. n : After(k)' = After(k)
         /\ After(n + 1)' = 1
    BY <2>3, <2>5 DEF After
  <2>17. InOrder'
    <3> SUFFICES ASSUME NEW t \in Streams, Tracked(t)'
                 PROVE  /\ Consumed(t)' <= job'[t].fed
                        /\ \A k \in 1 .. n + 1 : inbox'[k].job = t =>
                             Consumed(t)' < inbox'[k].piece /\ After(k)' <= job'[t].fed + 1
                        /\ \A k, l \in 1 .. n + 1 :
                             k < l /\ inbox'[k].job = t /\ inbox'[l].job = t =>
                               After(k)' <= inbox'[l].piece
                        /\ \A p \in Consumed(t)' + 1 .. job'[t].fed :
                             \E k \in 1 .. n + 1 : Says(k, t, {"update"})' /\ inbox'[k].piece = p
      BY <2>3 DEF InOrder
    <3>1. CASE t # s
      <4>1. Tracked(t) /\ Consumed(t)' = Consumed(t) /\ job'[t] = job[t]
        BY <2>6, <2>8, <2>15, <3>1
      <4>2. /\ Consumed(t) <= job[t].fed
            /\ \A k \in 1 .. n : inbox[k].job = t =>
                 Consumed(t) < inbox[k].piece /\ After(k) <= job[t].fed + 1
            /\ \A k, l \in 1 .. n :
                 k < l /\ inbox[k].job = t /\ inbox[l].job = t => After(k) <= inbox[l].piece
            /\ \A p \in Consumed(t) + 1 .. job[t].fed :
                 \E k \in 1 .. n : Says(k, t, {"update"}) /\ inbox[k].piece = p
        BY <2>3, <4>1 DEF AtWorker, InOrder
      <4>3. \A k \in 1 .. n + 1 : inbox'[k].job = t => k \in 1 .. n
        BY <2>3, <2>5, <2>9, <3>1
      <4>4. \A k \in 1 .. n : k \in 1 .. n + 1
        BY <2>3
      <4> QED BY <2>3, <2>11, <2>16, <4>1, <4>2, <4>3, <4>4
    <3>2. CASE t = s
      <4>1. job'[t].fed = 0 /\ Consumed(t)' = 0
        BY <2>6, <2>10, <3>2
      <4>2. \A k \in 1 .. n + 1 : inbox'[k].job = t => k = n + 1
        BY <2>3, <2>7, <2>9, <3>2
      <4>3. inbox'[n + 1].piece = 1
        BY <2>3, <2>5
      <4> QED BY <2>3, <2>16, <4>1, <4>2, <4>3
    <3> QED BY <3>1, <3>2
  <2>18. Wanted'
    <3> SUFFICES ASSUME NEW t \in Streams, Tracked(t)'
                 PROVE  \/ job'[t].at = "open" /\ t \notin aborted
                        \/ \E k \in 1 .. n + 1 : Says(k, t, {"digest", "abort"})'
      BY <2>3 DEF Wanted
    <3>1. CASE t = s
      BY <2>6, <3>1
    <3>2. CASE t # s
      <4>1. \/ job[t].at = "open" /\ t \notin aborted
            \/ \E k \in 1 .. n : Says(k, t, {"digest", "abort"})
        BY <2>3, <2>15, <3>2 DEF AtWorker, Wanted
      <4>2. \A k \in 1 .. n : k \in 1 .. n + 1
        BY <2>3
      <4> QED BY <2>6, <2>11, <3>2, <4>1, <4>2
    <3> QED BY <3>1, <3>2
  <2> QED BY <1>2, <2>12, <2>13, <2>14, <2>17, <2>18 DEF AtWorker, Dead
<1> QED BY <1>1, <1>2

\* A step of the page that posts nothing, and is not about a job at the worker.
LEMMA QuietWorker ==
  ASSUME TypeOK, AtWorker, alive => alive', UNCHANGED <<inbox, streams, reads, aborted>>,
         \A j \in Jobs :
           /\ job'[j].id = job[j].id
           /\ job[j].id # None =>
                /\ job'[j].fed = job[j].fed
                /\ Asked(j) => Asked(j)' /\ job'[j].due = job[j].due
                /\ job[j].at = "open" /\ j \notin aborted => job'[j].at = "open"
  PROVE  AtWorker'
<1>1. /\ \A j \in Jobs : InStream(j)' = InStream(j) /\ Consumed(j)' = Consumed(j)
      /\ \A k, j, S : Says(k, j, S)' <=> Says(k, j, S)
      /\ \A k : After(k)' = After(k)
  BY DEF InStream, Consumed, Says, After
<1>2. /\ \A j \in Streams : j \in Jobs
      /\ \A j \in Files : j \in Jobs
  BY DEF Jobs
<1>3. \A t \in Streams : Tracked(t)' <=> Tracked(t)
  BY <1>1, <1>2 DEF Tracked
<1>4. \A t \in Streams : Tracked(t) => job[t].id # None
  <2> SUFFICES ASSUME NEW t \in Streams, Tracked(t) PROVE job[t].id # None
    OBVIOUS
  <2>1. CASE InStream(t)
    BY <2>1 DEF InStream, AtWorker, Owned
  <2>2. ASSUME NEW k \in DOMAIN inbox, Says(k, t, {"open"})
        PROVE  job[t].id # None
    BY <1>2, <2>2 DEF AtWorker, Posted, About, Says
  <2> QED BY <2>1, <2>2 DEF Tracked
<1>5. Posted'
  <2> SUFFICES ASSUME NEW k \in DOMAIN inbox, NEW j \in Jobs, inbox[k].job = j
               PROVE  About(k, j)'
    BY DEF Posted
  <2>1. About(k, j)
    BY DEF AtWorker, Posted
  <2>2. Opens(k, j) => Opens(k, j)'
    BY <1>1 DEF Opens
  <2> QED BY <2>1, <2>2 DEF About
<1>6. Owned'
  BY <1>2 DEF AtWorker, Owned
<1>7. Reading'
  BY <1>2 DEF AtWorker, Reading
<1>8. InOrder'
  <2> SUFFICES ASSUME NEW t \in Streams, Tracked(t)
               PROVE  /\ Consumed(t) <= job[t].fed
                      /\ \A k \in DOMAIN inbox : inbox[k].job = t =>
                           Consumed(t) < inbox[k].piece /\ After(k) <= job[t].fed + 1
                      /\ \A k, l \in DOMAIN inbox :
                           k < l /\ inbox[k].job = t /\ inbox[l].job = t =>
                             After(k) <= inbox[l].piece
                      /\ \A p \in Consumed(t) + 1 .. job[t].fed :
                           \E k \in DOMAIN inbox : Says(k, t, {"update"}) /\ inbox[k].piece = p
    <3>1. \A t \in Streams : Tracked(t)' =>
            Tracked(t) /\ Consumed(t)' = Consumed(t) /\ job'[t].fed = job[t].fed
      BY <1>1, <1>2, <1>3, <1>4
    <3> QED BY <1>1, <3>1 DEF InOrder
  <2> QED BY DEF AtWorker, InOrder
<1>9. Wanted'
  BY <1>1, <1>2, <1>3, <1>4 DEF AtWorker, Wanted
<1> QED BY <1>5, <1>6, <1>7, <1>8, <1>9 DEF AtWorker, Dead

-----------------------------------------------------------------------------
(* What the worker does. *)

\* The worker says nothing, or gives the digest of a job that was asked for.
AnswersRightly ==
  \/ outbox' = outbox
  \/ \E r \in FromWorker :
       /\ outbox' = Append(outbox, r)
       /\ r.type = "resolved" => \E j \in Jobs :
            job[j].id = r.id /\ r.id # None /\ Asked(j) /\ r.digest = Data(j, job[j].due)

\* A file is read on, or is done.
LEMMA ReadWorker ==
  ASSUME TypeOK, Ids, AtWorker, NEW i \in DOMAIN reads, ReadGoesOn(i)
  PROVE  AtWorker' /\ AnswersRightly
<1>1. PICK f \in Files :
        /\ job[f].id = i /\ i # None /\ Asked(f) /\ job[f].due = Pieces
        /\ \E n \in 0 .. Pieces : reads[i] = Data(f, n)
  BY DEF AtWorker, Reading
<1>2. PICK n \in 0 .. Pieces : reads[i] = Data(f, n)
  BY <1>1
<1>3. n \in Nat /\ Pieces \in Nat /\ f \in Jobs /\ i \in Nat
  BY <1>1, HashAssumption DEF Jobs, TypeOK, JobRec
<1>4. f = (CHOOSE g \in Files : job[g].id = i)
  <2>1. \A g \in Files : job[g].id = i => g = f
    BY <1>1 DEF Ids, Jobs
  <2> QED BY <1>1, <2>1
<1>5. /\ Len(reads[i]) = n /\ Append(reads[i], <<f, n + 1>>) = Data(f, n + 1)
  BY <1>2, <1>3, DataFacts
<1>6. UNCHANGED <<job, aborted, alive, streams, inbox>> /\ alive
  BY DEF ReadGoesOn, pageVars
<1>7. \/ /\ n < Pieces
         /\ reads' = [reads EXCEPT ![i] = Append(@, <<f, n + 1>>)]
         /\ UNCHANGED outbox
      \/ /\ n = Pieces
         /\ reads' = Without(reads, i)
         /\ Answer("resolved", i, reads[i])
      \/ /\ reads' = Without(reads, i)
         /\ Answer("rejected", i, <<>>)
  BY <1>4, <1>5 DEF ReadGoesOn
<1>8. Reading'
  <2> SUFFICES ASSUME NEW x \in DOMAIN reads'
               PROVE  \E g \in Files :
                        /\ job[g].id = x /\ x # None /\ Asked(g) /\ job[g].due = Pieces
                        /\ \E k \in 0 .. Pieces : reads'[x] = Data(g, k)
    BY <1>6 DEF Reading, Asked
  <2>1. x \in DOMAIN reads /\ (x # i => reads'[x] = reads[x])
    BY <1>7 DEF Without, Restrict
  <2>2. CASE x # i
    BY <2>1, <2>2 DEF AtWorker, Reading
  <2>3. CASE x = i
    <3>1. n < Pieces /\ reads'[i] = Data(f, n + 1)
      BY <1>5, <1>7, <2>3 DEF Without, Restrict
    <3>2. n + 1 \in 0 .. Pieces
      BY <1>3, <3>1
    <3> QED BY <1>1, <2>3, <3>1, <3>2
  <2> QED BY <2>2, <2>3
<1>9. AtWorker'
  <2>1. /\ Posted' = Posted /\ Owned' = Owned /\ InOrder' = InOrder /\ Wanted' = Wanted
    BY <1>6 DEF Posted, About, Opens, Owned, InOrder, Wanted, Tracked, InStream, Consumed,
                After, Says, Asked
  <2> QED BY <1>6, <1>8, <2>1 DEF AtWorker, Dead
<1>10. Data(f, n) \in Digests /\ <<>> \in Digests
  <2>1. Data(f, 0) = <<>>
    BY DataFacts
  <2> QED BY <1>3, <2>1 DEF Digests
<1>11. CASE outbox' = outbox
  BY <1>9, <1>11 DEF AnswersRightly
<1>12. CASE n = Pieces /\ Answer("resolved", i, reads[i])
  <2> DEFINE r == [type |-> "resolved", id |-> i, digest |-> Data(f, n)]
  <2>1. outbox' = Append(outbox, r) /\ r.id = i /\ r.digest = Data(f, job[f].due)
    BY <1>1, <1>2, <1>12 DEF Answer
  <2>2. r \in FromWorker
    BY <1>3, <1>10 DEF FromWorker
  <2> HIDE DEF r
  <2> QED BY <1>1, <1>3, <1>9, <2>1, <2>2 DEF AnswersRightly
<1>13. CASE Answer("rejected", i, <<>>)
  <2> DEFINE r == [type |-> "rejected", id |-> i, digest |-> <<>>]
  <2>1. outbox' = Append(outbox, r) /\ r.id = i /\ r.type # "resolved"
    BY <1>13 DEF Answer
  <2>2. r \in FromWorker
    BY <1>3, <1>10 DEF FromWorker
  <2> HIDE DEF r
  <2> QED BY <1>9, <2>1, <2>2 DEF AnswersRightly
<1> QED BY <1>7, <1>11, <1>12, <1>13

\* What the worker finds in front: the next piece of a stream, or the question that
\* came after the last.
LEMMA FrontFacts ==
  ASSUME TypeOK, Ids, AtWorker, inbox # <<>>, NEW s \in Streams, inbox[1].job = s
  PROVE  /\ 1 \in DOMAIN inbox /\ About(1, s) /\ s \in Jobs /\ Consumed(s) \in Nat
         /\ inbox[1].type # "open" => (Tracked(s) <=> InStream(s))
         /\ InStream(s) => streams[job[s].id] = Data(s, Consumed(s))
         /\ inbox[1].type = "update" /\ Tracked(s) => inbox[1].piece = Consumed(s) + 1
         /\ inbox[1].type = "digest" /\ Tracked(s) => Consumed(s) = job[s].due
<1>1. inbox \in Seq(ToWorker)
  BY DEF TypeOK
<1>2. PICK n \in Nat : /\ DOMAIN inbox = 1 .. n /\ 1 \in DOMAIN inbox
                       /\ \A k \in 1 .. n : inbox[k] \in ToWorker
  BY <1>1, QueueFacts
<1>3. s \in Jobs /\ job[s].fed \in Nat /\ job[s].due \in Nat /\ inbox[1].piece \in Nat
  BY <1>2 DEF Jobs, TypeOK, JobRec, ToWorker
<1>4. \A k \in 1 .. n : inbox[k].piece \in Nat /\ inbox[k].job \in Jobs
  BY <1>2 DEF ToWorker
<1>5. About(1, s)
  BY <1>2, <1>3 DEF AtWorker, Posted
<1>6. inbox[1].type # "open" => (Tracked(s) <=> InStream(s))
  <2> SUFFICES ASSUME inbox[1].type # "open", NEW k \in 1 .. n, Says(k, s, {"open"})
               PROVE  FALSE
    BY <1>2 DEF Tracked
  <2>1. About(k, s) /\ inbox[k].type = "open"
    BY <1>2, <1>3 DEF AtWorker, Posted, Says
  <2>2. k <= 1
    BY <1>2, <2>1 DEF About, Opens
  <2> QED BY <2>1, <2>2
<1>7. InStream(s) => streams[job[s].id] = Data(s, Consumed(s)) /\ Consumed(s) \in Nat
  <2> SUFFICES ASSUME InStream(s)
               PROVE  streams[job[s].id] = Data(s, Consumed(s)) /\ Consumed(s) \in Nat
    OBVIOUS
  <2>1. PICK t \in Streams : /\ job[t].id = job[s].id /\ job[s].id # None
                             /\ \E c \in Nat : streams[job[s].id] = Data(t, c)
    BY DEF InStream, AtWorker, Owned
  <2>2. t = s
    BY <2>1 DEF Ids, Jobs
  <2>3. PICK c \in Nat : streams[job[s].id] = Data(s, c)
    BY <2>1, <2>2
  <2> QED BY <2>3, DataFacts DEF Consumed
<1>8. Consumed(s) \in Nat
  BY <1>7 DEF Consumed
<1>9. ASSUME Tracked(s)
      PROVE  /\ Consumed(s) < inbox[1].piece /\ After(1) <= job[s].fed + 1
             /\ \A k \in 1 .. n : 1 < k /\ inbox[k].job = s => After(1) <= inbox[k].piece
             /\ \A p \in Consumed(s) + 1 .. job[s].fed :
                  \E k \in 1 .. n : Says(k, s, {"update"}) /\ inbox[k].piece = p
  BY <1>2, <1>9 DEF AtWorker, InOrder
<1> DEFINE p == Consumed(s) + 1
<1>10. ASSUME Tracked(s), p <= job[s].fed
       PROVE  \/ inbox[1].type = "update" /\ inbox[1].piece = p
              \/ After(1) <= p
  <2>1. p \in Consumed(s) + 1 .. job[s].fed
    BY <1>3, <1>8, <1>10
  <2>2. PICK k \in 1 .. n : Says(k, s, {"update"}) /\ inbox[k].piece = p
    BY <1>9, <1>10, <2>1
  <2>3. k = 1 \/ 1 < k
    OBVIOUS
  <2> QED BY <1>9, <1>10, <2>2, <2>3 DEF Says
<1>11. inbox[1].type = "update" /\ Tracked(s) => inbox[1].piece = Consumed(s) + 1
  <2> SUFFICES ASSUME inbox[1].type = "update", Tracked(s)
               PROVE  inbox[1].piece = Consumed(s) + 1
    OBVIOUS
  <2>1. After(1) = inbox[1].piece + 1
    BY DEF After
  <2> QED BY <1>3, <1>8, <1>9, <1>10, <2>1
<1>12. inbox[1].type = "digest" /\ Tracked(s) => Consumed(s) = job[s].due
  <2> SUFFICES ASSUME inbox[1].type = "digest", Tracked(s)
               PROVE  Consumed(s) = job[s].due
    OBVIOUS
  <2>1. After(1) = inbox[1].piece /\ inbox[1].piece = job[s].due + 1
    BY <1>5 DEF After, About
  <2> QED BY <1>3, <1>8, <1>9, <1>10, <2>1
<1> QED BY <1>2, <1>3, <1>5, <1>6, <1>7, <1>8, <1>11, <1>12

\* The message in front is taken, and put into the hash state it is for.
LEMMA ShiftWorker ==
  ASSUME TypeOK, Ids, AtWorker, inbox # <<>>, alive', inbox' = Tail(inbox),
         UNCHANGED <<job, aborted>>, Owned', Reading',
         \A t \in Streams : InStream(t)' => InStream(t) \/ Says(1, t, {"open"}),
         \A t \in Streams : Tracked(t)' =>
           /\ ~Says(1, t, {"digest", "abort"})
           /\ Consumed(t)' = IF Says(1, t, {"update"}) THEN Consumed(t) + 1 ELSE Consumed(t)
  PROVE  AtWorker'
<1>1. inbox \in Seq(ToWorker)
  BY DEF TypeOK
<1>2. PICK n \in Nat :
        /\ DOMAIN inbox = 1 .. n /\ 1 \in 1 .. n /\ \A k \in 1 .. n : inbox[k] \in ToWorker
        /\ DOMAIN inbox' = 1 .. n - 1 /\ \A k \in 1 .. n - 1 : inbox'[k] = inbox[k + 1]
  BY <1>1, QueueFacts
<1>3. /\ \A k \in 1 .. n - 1 : k + 1 \in 1 .. n /\ k + 1 > 1
      /\ \A k \in 1 .. n : k # 1 => k - 1 \in 1 .. n - 1 /\ k = (k - 1) + 1
  BY <1>2
<1>4. /\ \A k \in 1 .. n : inbox[k].piece \in Nat /\ inbox[k].job \in Jobs
      /\ \A j \in Jobs : job[j].fed \in Nat
      /\ \A t \in Streams : t \in Jobs /\ t \notin Files
      /\ \A j \in Jobs : j \in Streams \/ j \in Files
  BY <1>2, HashAssumption DEF TypeOK, Jobs, JobRec, ToWorker
<1>5. /\ \A k \in 1 .. n - 1 : \A j, T : Says(k, j, T)' <=> Says(k + 1, j, T)
      /\ \A k \in 1 .. n - 1 : After(k)' = After(k + 1)
  BY <1>2 DEF Says, After
<1>6. \A t \in Streams : Tracked(t)' => Tracked(t)
  <2> SUFFICES ASSUME NEW t \in Streams, Tracked(t)' PROVE Tracked(t)
    OBVIOUS
  <2>1. CASE InStream(t)'
    BY <1>2, <2>1 DEF Tracked
  <2>2. ASSUME NEW k \in 1 .. n - 1, Says(k, t, {"open"})'
        PROVE  Tracked(t)
    BY <1>2, <1>3, <1>5, <2>2 DEF Tracked
  <2> QED BY <1>2, <2>1, <2>2 DEF Tracked
<1>7. Posted'
  <2> SUFFICES ASSUME NEW k \in 1 .. n - 1, NEW j \in Jobs, inbox'[k].job = j
               PROVE  About(k, j)'
    BY <1>2 DEF Posted
  <2>1. PICK x \in 1 .. n : x = k + 1
    BY <1>3
  <2>2. inbox'[k] = inbox[x] /\ About(x, j)
    BY <1>2, <2>1 DEF AtWorker, Posted
  <2>3. inbox[x].type = "open" => Opens(k, j)'
    <3> SUFFICES ASSUME inbox[x].type = "open" PROVE Opens(k, j)'
      OBVIOUS
    <3>1. Opens(x, j)
      BY <2>2 DEF About
    <3>2. ~Says(1, j, {"open"})
      BY <1>2, <1>3, <2>1, <3>1 DEF Opens
    <3>3. j \in Streams
      BY <1>4, <2>2 DEF About
    <3>4. ~InStream(j)'
      BY <3>1, <3>2, <3>3 DEF Opens
    <3>5. ASSUME NEW l \in 1 .. n - 1
          PROVE  /\ Says(l, j, {"open"})' => l = k
                 /\ inbox'[l].job = j => k <= l
      <4>1. PICK y \in 1 .. n : y = l + 1
        BY <1>3
      <4>2. /\ Says(y, j, {"open"}) => y = x
            /\ inbox[y].job = j => x <= y
        BY <1>2, <3>1 DEF Opens
      <4> QED BY <1>2, <1>5, <2>1, <4>1, <4>2
    <3> QED BY <1>2, <3>4, <3>5 DEF Opens
  <2>4. Asked(j)' = Asked(j)
    BY DEF Asked
  <2> QED BY <2>2, <2>3, <2>4 DEF About
<1>8. InOrder'
  <2> SUFFICES ASSUME NEW t \in Streams, Tracked(t)'
               PROVE  /\ Consumed(t)' <= job[t].fed
                      /\ \A k \in 1 .. n - 1 : inbox'[k].job = t =>
                           Consumed(t)' < inbox'[k].piece /\ After(k)' <= job[t].fed + 1
                      /\ \A k, l \in 1 .. n - 1 :
                           k < l /\ inbox'[k].job = t /\ inbox'[l].job = t =>
                             After(k)' <= inbox'[l].piece
                      /\ \A p \in Consumed(t)' + 1 .. job[t].fed :
                           \E k \in 1 .. n - 1 : Says(k, t, {"update"})' /\ inbox'[k].piece = p
    BY <1>2 DEF InOrder
  <2>1. /\ Consumed(t) <= job[t].fed
        /\ \A k \in 1 .. n : inbox[k].job = t =>
             Consumed(t) < inbox[k].piece /\ After(k) <= job[t].fed + 1
        /\ \A k, l \in 1 .. n :
             k < l /\ inbox[k].job = t /\ inbox[l].job = t => After(k) <= inbox[l].piece
        /\ \A p \in Consumed(t) + 1 .. job[t].fed :
             \E k \in 1 .. n : Says(k, t, {"update"}) /\ inbox[k].piece = p
    BY <1>2, <1>6 DEF AtWorker, InOrder
  <2>2. Tracked(t) /\ job[t].fed \in Nat
    BY <1>4, <1>6
  <2>3. ASSUME NEW k \in 1 .. n - 1, NEW l \in 1 .. n - 1,
               k < l, inbox'[k].job = t, inbox'[l].job = t
        PROVE  After(k)' <= inbox'[l].piece
    <3>1. PICK x \in 1 .. n, y \in 1 .. n : x = k + 1 /\ y = l + 1
      BY <1>3
    <3> QED BY <1>2, <1>5, <2>1, <2>3, <3>1
  <2>4. CASE Says(1, t, {"update"})
    <3>1. Consumed(t) \in Nat /\ inbox[1].piece = Consumed(t) + 1
      BY <2>2, <2>4, FrontFacts DEF Says
    <3>2. Consumed(t)' = Consumed(t) + 1 /\ After(1) = Consumed(t) + 2 /\ inbox[1].job = t
      BY <2>4, <3>1 DEF After, Says
    <3>3. Consumed(t)' <= job[t].fed
      BY <1>2, <2>1, <2>2, <3>1, <3>2
    <3>4. ASSUME NEW k \in 1 .. n - 1, inbox'[k].job = t
          PROVE  Consumed(t)' < inbox'[k].piece /\ After(k)' <= job[t].fed + 1
      <4>1. PICK x \in 1 .. n : x = k + 1 /\ 1 < x
        BY <1>3
      <4>2. After(1) <= inbox[x].piece /\ inbox[x].piece \in Nat
        BY <1>2, <1>4, <2>1, <3>2, <3>4, <4>1
      <4> QED BY <1>2, <1>5, <2>1, <3>1, <3>2, <3>4, <4>1, <4>2
    <3>5. ASSUME NEW p \in Consumed(t)' + 1 .. job[t].fed
          PROVE  \E k \in 1 .. n - 1 : Says(k, t, {"update"})' /\ inbox'[k].piece = p
      <4>1. p \in Consumed(t) + 1 .. job[t].fed /\ p # Consumed(t) + 1
        BY <2>2, <3>1, <3>2
      <4>2. PICK x \in 1 .. n : Says(x, t, {"update"}) /\ inbox[x].piece = p
        BY <2>1, <4>1
      <4>3. x # 1
        BY <3>1, <4>1, <4>2
      <4>4. PICK k \in 1 .. n - 1 : x = k + 1
        BY <1>3, <4>3
      <4> QED BY <1>2, <1>5, <4>2, <4>4
    <3> QED BY <2>3, <3>3, <3>4, <3>5
  <2>5. CASE ~Says(1, t, {"update"})
    <3>1. Consumed(t)' = Consumed(t)
      BY <2>5
    <3>2. ASSUME NEW k \in 1 .. n - 1, inbox'[k].job = t
          PROVE  Consumed(t)' < inbox'[k].piece /\ After(k)' <= job[t].fed + 1
      <4>1. PICK x \in 1 .. n : x = k + 1
        BY <1>3
      <4> QED BY <1>2, <1>5, <2>1, <3>1, <3>2, <4>1
    <3>3. ASSUME NEW p \in Consumed(t)' + 1 .. job[t].fed
          PROVE  \E k \in 1 .. n - 1 : Says(k, t, {"update"})' /\ inbox'[k].piece = p
      <4>1. PICK x \in 1 .. n : Says(x, t, {"update"}) /\ inbox[x].piece = p
        BY <2>1, <3>1
      <4>2. x # 1
        BY <2>5, <4>1
      <4>3. PICK k \in 1 .. n - 1 : x = k + 1
        BY <1>3, <4>2
      <4> QED BY <1>2, <1>5, <4>1, <4>3
    <3> QED BY <2>1, <2>3, <3>1, <3>2, <3>3
  <2> QED BY <2>4, <2>5
<1>9. Wanted'
  <2> SUFFICES ASSUME NEW t \in Streams, Tracked(t)'
               PROVE  \/ job[t].at = "open" /\ t \notin aborted
                      \/ \E k \in 1 .. n - 1 : Says(k, t, {"digest", "abort"})'
    BY <1>2 DEF Wanted
  <2>1. \/ job[t].at = "open" /\ t \notin aborted
        \/ \E k \in 1 .. n : k # 1 /\ Says(k, t, {"digest", "abort"})
    BY <1>2, <1>6 DEF AtWorker, Wanted
  <2>2. ASSUME NEW k \in 1 .. n, k # 1, Says(k, t, {"digest", "abort"})
        PROVE  \E l \in 1 .. n - 1 : Says(l, t, {"digest", "abort"})'
    <3>1. PICK l \in 1 .. n - 1 : k = l + 1
      BY <1>3, <2>2
    <3> QED BY <1>5, <2>2, <3>1
  <2> QED BY <2>1, <2>2
<1> QED BY <1>7, <1>8, <1>9 DEF AtWorker, Dead

\* The worker's "message" listener.
LEMMA TakesWorker ==
  ASSUME TypeOK, Ids, AtWorker, WorkerTakes
  PROVE  AtWorker' /\ AnswersRightly
<1>1. inbox \in Seq(ToWorker) /\ inbox # <<>> /\ inbox' = Tail(inbox)
  BY DEF TypeOK, WorkerTakes
<1>2. Head(inbox) = inbox[1] /\ inbox[1] \in ToWorker /\ 1 \in DOMAIN inbox
  BY <1>1, QueueFacts
<1>3. PICK j \in Jobs : j = inbox[1].job
  BY <1>2 DEF ToWorker
<1>4. PICK i \in Nat : i = inbox[1].id
  BY <1>2 DEF ToWorker
<1>5. PICK type \in {"file", "open", "update", "digest", "abort"} : type = inbox[1].type
  BY <1>2 DEF ToWorker
<1>6. About(1, j) /\ job[j].id = i /\ i # None
  BY <1>2, <1>3, <1>4 DEF AtWorker, Posted, About
<1>7. UNCHANGED <<job, aborted, alive>> /\ alive
  BY DEF WorkerTakes, pageVars
<1>8. /\ \A t \in Streams : t \in Jobs /\ t \notin Files
      /\ \A f \in Files : f \in Jobs
      /\ \A t \in Jobs : t \in Streams \/ t \in Files
      /\ \A t \in Jobs : job[t].id = i => t = j
  BY <1>6, HashAssumption DEF Jobs, Ids
<1>9. type # "file" => j \in Streams
  BY <1>5, <1>6, <1>8 DEF About
<1>10. j \in Streams =>
         /\ Consumed(j) \in Nat
         /\ type # "open" => (Tracked(j) <=> InStream(j))
         /\ InStream(j) => streams[i] = Data(j, Consumed(j))
         /\ type = "update" /\ Tracked(j) => inbox[1].piece = Consumed(j) + 1
         /\ type = "digest" /\ Tracked(j) => Consumed(j) = job[j].due
  BY <1>1, <1>3, <1>5, <1>6, FrontFacts
<1>11. \A t, T : Says(1, t, T) <=> t = j /\ type \in T
  BY <1>3, <1>5 DEF Says
<1>12. /\ Reading' /\ Owned'
       /\ \A t \in Streams : InStream(t)' => InStream(t) \/ Says(1, t, {"open"})
       /\ \A t \in Streams : Tracked(t)' =>
            /\ ~Says(1, t, {"digest", "abort"})
            /\ Consumed(t)' = IF Says(1, t, {"update"}) THEN Consumed(t) + 1 ELSE Consumed(t)
       /\ AnswersRightly
  <2>1. CASE type = "file"
    <3>1. reads' = With(reads, i, <<>>) /\ UNCHANGED <<streams, outbox>>
      BY <1>2, <1>4, <1>5, <2>1 DEF WorkerTakes
    <3>2. Reading'
      <4>1. j \in Files /\ Asked(j) /\ job[j].due = Pieces
        BY <1>5, <1>6, <2>1 DEF About
      <4>2. <<>> = Data(j, 0) /\ 0 \in 0 .. Pieces
        BY DataFacts, HashAssumption
      <4> SUFFICES ASSUME NEW x \in DOMAIN reads \cup {i}
                   PROVE  \E f \in Files :
                            /\ job[f].id = x /\ x # None /\ Asked(f) /\ job[f].due = Pieces
                            /\ \E n \in 0 .. Pieces : reads'[x] = Data(f, n)
        BY <1>7, <3>1 DEF Reading, Asked, With
      <4>3. CASE x = i
        <5>1. reads'[x] = Data(j, 0)
          BY <3>1, <4>2, <4>3 DEF With
        <5> QED BY <1>6, <4>1, <4>2, <4>3, <5>1
      <4>4. CASE x # i
        <5>1. x \in DOMAIN reads /\ reads'[x] = reads[x]
          BY <3>1, <4>4 DEF With
        <5> QED BY <5>1 DEF AtWorker, Reading
      <4> QED BY <4>3, <4>4
    <3>3. Owned'
      BY <1>7, <3>1 DEF AtWorker, Owned
    <3>4. \A t \in Streams : InStream(t)' = InStream(t) /\ Consumed(t)' = Consumed(t)
      BY <1>7, <3>1 DEF InStream, Consumed
    <3> QED BY <1>11, <2>1, <3>1, <3>2, <3>3, <3>4 DEF AnswersRightly
  <2>2. CASE type = "open"
    <3>1. streams' = With(streams, i, <<>>) /\ UNCHANGED <<reads, outbox>>
      BY <1>2, <1>4, <1>5, <2>2 DEF WorkerTakes
    <3>2. Reading'
      BY <1>7, <3>1 DEF AtWorker, Reading, Asked
    <3>3. ~InStream(j) /\ j \in Streams
      BY <1>5, <1>6, <1>9, <2>2 DEF About, Opens
    <3>4. Owned'
      <4>1. <<>> = Data(j, 0)
        BY DataFacts
      <4> SUFFICES ASSUME NEW x \in DOMAIN streams \cup {i}
                   PROVE  \E s \in Streams : /\ job[s].id = x /\ x # None
                                             /\ \E n \in Nat : streams'[x] = Data(s, n)
        BY <1>7, <3>1 DEF Owned, With
      <4>2. CASE x = i
        <5>1. streams'[x] = Data(j, 0)
          BY <3>1, <4>1, <4>2 DEF With
        <5> QED BY <1>6, <3>3, <4>2, <5>1
      <4>3. CASE x # i
        <5>1. x \in DOMAIN streams /\ streams'[x] = streams[x]
          BY <3>1, <4>3 DEF With
        <5> QED BY <5>1 DEF AtWorker, Owned
      <4> QED BY <4>2, <4>3
    <3>5. \A t \in Streams : t # j => InStream(t)' = InStream(t) /\ Consumed(t)' = Consumed(t)
      <4> SUFFICES ASSUME NEW t \in Streams, t # j
                   PROVE  InStream(t)' = InStream(t) /\ Consumed(t)' = Consumed(t)
        OBVIOUS
      <4>1. job[t].id # i /\ job'[t].id = job[t].id
        BY <1>7, <1>8
      <4> QED BY <3>1, <4>1 DEF InStream, Consumed, With
    <3>6. Consumed(j)' = 0 /\ Consumed(j) = 0
      <4>1. streams'[i] = <<>> /\ i \in DOMAIN streams' /\ Len(<<>>) = 0
        BY <3>1 DEF With
      <4> QED BY <1>6, <1>7, <3>3, <4>1 DEF Consumed, InStream
    <3> QED BY <1>11, <2>2, <3>1, <3>2, <3>4, <3>5, <3>6 DEF AnswersRightly
  <2>3. CASE type = "update"
    <3>1. /\ streams' = Fed(inbox[1]) /\ UNCHANGED <<reads, outbox>> /\ j \in Streams
      BY <1>2, <1>5, <1>9, <2>3 DEF WorkerTakes
    <3>2. Reading'
      BY <1>7, <3>1 DEF AtWorker, Reading, Asked
    <3>3. CASE ~InStream(j)
      <4>1. streams' = streams
        BY <1>4, <1>6, <3>1, <3>3 DEF Fed, InStream
      <4>2. \A t \in Streams : InStream(t)' = InStream(t) /\ Consumed(t)' = Consumed(t)
        BY <1>7, <4>1 DEF InStream, Consumed
      <4>3. Owned'
        BY <1>7, <4>1 DEF AtWorker, Owned
      <4>4. ~Tracked(j)'
        <5>1. ~Tracked(j)
          BY <1>10, <2>3, <3>1, <3>3
        <5>2. \A k \in DOMAIN inbox' : \E l \in DOMAIN inbox : inbox'[k] = inbox[l]
          <6>1. PICK n \in Nat :
                  /\ DOMAIN inbox = 1 .. n /\ DOMAIN inbox' = 1 .. n - 1
                  /\ \A k \in 1 .. n - 1 : inbox'[k] = inbox[k + 1]
            BY <1>1, QueueFacts
          <6>2. \A k \in 1 .. n - 1 : k + 1 \in 1 .. n
            OBVIOUS
          <6> QED BY <6>1, <6>2
        <5> QED BY <3>1, <4>2, <5>1, <5>2 DEF Tracked, Says
      <4> QED BY <1>11, <2>3, <3>1, <3>2, <4>2, <4>3, <4>4 DEF AnswersRightly
    <3>4. CASE InStream(j)
      <4> DEFINE c == Consumed(j)
      <4>1. /\ c \in Nat /\ inbox[1].piece = c + 1 /\ streams[i] = Data(j, c)
            /\ i \in DOMAIN streams
        BY <1>6, <1>10, <2>3, <3>1, <3>4 DEF InStream
      <4>2. streams' = [streams EXCEPT ![i] = Append(Data(j, c), <<j, c + 1>>)]
        BY <1>3, <1>4, <3>1, <4>1 DEF Fed
      <4>3. /\ streams' = [streams EXCEPT ![i] = Data(j, c + 1)] /\ Len(Data(j, c + 1)) = c + 1
        <5> HIDE DEF c
        <5>1. c + 1 \in Nat
          BY <4>1
        <5> QED BY <4>1, <4>2, <5>1, DataFacts
      <4>4. Owned'
        <5> SUFFICES ASSUME NEW x \in DOMAIN streams
                     PROVE  \E s \in Streams : /\ job[s].id = x /\ x # None
                                               /\ \E n \in Nat : streams'[x] = Data(s, n)
          BY <1>7, <4>3 DEF Owned
        <5> HIDE DEF c
        <5>1. CASE x = i
          <6>1. c + 1 \in Nat /\ streams'[x] = Data(j, c + 1)
            BY <4>1, <4>3, <5>1
          <6> QED BY <1>6, <3>1, <5>1, <6>1
        <5>2. CASE x # i
          BY <4>3, <5>2 DEF AtWorker, Owned
        <5> QED BY <5>1, <5>2
      <4>5. \A t \in Streams : InStream(t)' = InStream(t)
        BY <1>7, <4>3 DEF InStream
      <4>6. \A t \in Streams : t # j => Consumed(t)' = Consumed(t)
        <5> SUFFICES ASSUME NEW t \in Streams, t # j PROVE Consumed(t)' = Consumed(t)
          OBVIOUS
        <5>1. job[t].id # i /\ job'[t].id = job[t].id
          BY <1>7, <1>8
        <5> HIDE DEF c
        <5> QED BY <4>3, <5>1 DEF InStream, Consumed
      <4>7. Consumed(j)' = Consumed(j) + 1
        <5>1. InStream(j)' /\ job'[j].id = i
          BY <1>6, <1>7, <3>1, <3>4, <4>5
        <5>2. streams'[i] = Data(j, c + 1)
          <6> HIDE DEF c
          <6> QED BY <4>1, <4>3
        <5>3. Consumed(j)' = Len(streams'[i])
          BY <5>1 DEF Consumed
        <5> QED BY <4>3, <5>2, <5>3
      <4> QED BY <1>11, <2>3, <3>1, <3>2, <4>4, <4>5, <4>6, <4>7 DEF AnswersRightly
    <3> QED BY <3>3, <3>4
  <2>4. CASE type \in {"digest", "abort"}
    <3>1. streams' = Without(streams, i) /\ UNCHANGED reads /\ j \in Streams
      BY <1>2, <1>4, <1>5, <1>9, <2>4 DEF WorkerTakes
    <3>2. Reading'
      BY <1>7, <3>1 DEF AtWorker, Reading, Asked
    <3>3. /\ DOMAIN streams' = DOMAIN streams \ {i}
          /\ \A x \in DOMAIN streams' : streams'[x] = streams[x]
      BY <3>1 DEF Without, Restrict
    <3>4. Owned'
      BY <1>7, <3>3 DEF AtWorker, Owned
    <3>5. \A t \in Streams : t # j => InStream(t)' = InStream(t) /\ Consumed(t)' = Consumed(t)
      <4> SUFFICES ASSUME NEW t \in Streams, t # j
                   PROVE  InStream(t)' = InStream(t) /\ Consumed(t)' = Consumed(t)
        OBVIOUS
      <4>1. job[t].id # i /\ job'[t].id = job[t].id
        BY <1>7, <1>8
      <4> QED BY <3>3, <4>1 DEF InStream, Consumed
    <3>6. ~InStream(j)'
      BY <1>6, <1>7, <3>3 DEF InStream
    <3>7. ~Tracked(j)'
      <4>1. PICK n \in Nat :
              /\ DOMAIN inbox = 1 .. n /\ DOMAIN inbox' = 1 .. n - 1
              /\ \A k \in 1 .. n - 1 : inbox'[k] = inbox[k + 1]
        BY <1>1, QueueFacts
      <4> SUFFICES ASSUME NEW k \in 1 .. n - 1, Says(k, j, {"open"})' PROVE FALSE
        BY <3>6, <4>1 DEF Tracked
      <4>2. PICK l \in 1 .. n : l = k + 1 /\ ~(l <= 1)
        OBVIOUS
      <4>3. inbox[l].job = j /\ inbox[l].type = "open"
        BY <4>1, <4>2 DEF Says
      <4>4. Opens(l, j)
        BY <4>1, <4>3 DEF AtWorker, Posted, About
      <4>5. l <= 1
        BY <1>2, <1>3, <4>4 DEF Opens
      <4> QED BY <4>2, <4>5
    <3>8. AnswersRightly
      <4>1. CASE type = "abort"
        <5>1. outbox' = outbox
          BY <1>2, <1>5, <4>1 DEF WorkerTakes
        <5> QED BY <5>1 DEF AnswersRightly
      <4>2. CASE type = "digest"
        <5>1. IF InStream(j) THEN Answer("resolved", i, streams[i])
                             ELSE Answer("rejected", i, <<>>)
          BY <1>2, <1>4, <1>5, <1>6, <4>2 DEF WorkerTakes, InStream
        <5>2. CASE InStream(j)
          <6> DEFINE r == [type |-> "resolved", id |-> i, digest |-> Data(j, job[j].due)]
          <6>1. streams[i] = Data(j, job[j].due)
            BY <1>10, <3>1, <4>2, <5>2
          <6>2. outbox' = Append(outbox, r)
            BY <5>1, <5>2, <6>1 DEF Answer
          <6>3. Data(j, job[j].due) \in Digests
            BY DEF Digests, TypeOK, JobRec
          <6>4. r \in FromWorker
            BY <6>3 DEF FromWorker
          <6>5. r.id = i /\ r.digest = Data(j, job[j].due) /\ Asked(j)
            BY <1>5, <1>6, <4>2 DEF About
          <6> HIDE DEF r
          <6> QED BY <1>6, <6>2, <6>4, <6>5 DEF AnswersRightly
        <5>3. CASE ~InStream(j)
          <6> DEFINE r == [type |-> "rejected", id |-> i, digest |-> <<>>]
          <6>1. outbox' = Append(outbox, r) /\ r.type # "resolved"
            BY <5>1, <5>3 DEF Answer
          <6>2. <<>> \in Digests
            <7>1. <<>> = Data(j, 0) /\ 0 \in Nat
              BY DataFacts
            <7> QED BY <7>1 DEF Digests
          <6>3. r \in FromWorker
            BY <6>2 DEF FromWorker
          <6> HIDE DEF r
          <6> QED BY <6>1, <6>3 DEF AnswersRightly
        <5> QED BY <5>2, <5>3
      <4> QED BY <2>4, <4>1, <4>2
    <3> QED BY <1>11, <2>4, <3>2, <3>4, <3>5, <3>6, <3>7, <3>8
  <2> QED BY <2>1, <2>2, <2>3, <2>4
<1> QED BY <1>1, <1>7, <1>12, ShiftWorker

-----------------------------------------------------------------------------
(* The steps. *)

\* What is posted is a message, and so is an answer.
LEMMA QueuesTyped ==
  ASSUME TypeOK
  PROVE  /\ \A j \in Jobs, i \in Nat, type \in {"file", "open", "update", "digest", "abort"} :
              Post(type, j, i) => inbox' \in Seq(ToWorker)
         /\ AnswersRightly => outbox' \in Seq(FromWorker)
<1>1. ASSUME NEW j \in Jobs, NEW i \in Nat,
             NEW type \in {"file", "open", "update", "digest", "abort"}, Post(type, j, i)
      PROVE  inbox' \in Seq(ToWorker)
  <2> DEFINE m == [type |-> type, id |-> i, job |-> j, piece |-> job[j].fed + 1]
  <2>1. inbox \in Seq(ToWorker) /\ m \in ToWorker
    BY DEF TypeOK, ToWorker, JobRec
  <2>2. inbox' = Append(inbox, m) \/ inbox' = inbox
    BY <1>1 DEF Post
  <2> HIDE DEF m
  <2> QED BY <2>1, <2>2
<1>2. ASSUME AnswersRightly
      PROVE  outbox' \in Seq(FromWorker)
  <2>1. outbox \in Seq(FromWorker)
    BY DEF TypeOK
  <2>2. outbox' = outbox \/ \E r \in FromWorker : outbox' = Append(outbox, r)
    BY <1>2 DEF AnswersRightly
  <2> QED BY <2>1, <2>2
<1> QED BY <1>1, <1>2

\* Answers stay right as long as what was asked for does.
LEMMA AnswersKept ==
  ASSUME Answered,
         \A k \in DOMAIN outbox' : \E l \in DOMAIN outbox : outbox'[k] = outbox[l],
         \A j \in Jobs :
           /\ job[j].id # None =>
                /\ job'[j].id = job[j].id
                /\ Asked(j) => Asked(j)' /\ job'[j].due = job[j].due
           /\ job'[j].at = "resolved" => job'[j].digest = Data(j, job'[j].due)
  PROVE  Answered' /\ AnswersMatch'
<1>1. Answered'
  <2> SUFFICES ASSUME NEW k \in DOMAIN outbox', outbox'[k].type = "resolved"
               PROVE  \E j \in Jobs : /\ job'[j].id = outbox'[k].id /\ outbox'[k].id # None
                                      /\ Asked(j)' /\ outbox'[k].digest = Data(j, job'[j].due)
    BY DEF Answered
  <2>1. PICK l \in DOMAIN outbox : outbox'[k] = outbox[l]
    OBVIOUS
  <2>2. PICK j \in Jobs : /\ job[j].id = outbox[l].id /\ outbox[l].id # None
                          /\ Asked(j) /\ outbox[l].digest = Data(j, job[j].due)
    BY <2>1 DEF Answered
  <2> QED BY <2>1, <2>2
<1>2. AnswersMatch'
  BY DEF AnswersMatch
<1> QED BY <1>1, <1>2

\* createStreamingHasher()
LEMMA OpenStep ==
  ASSUME IInv, NEW s \in Streams, Open(s)
  PROVE  IInv'
<1>1. s \in Jobs /\ s \notin Files /\ job[s].id = 0 /\ job[s].fed = 0 /\ None = 0
  BY HashAssumption DEF Jobs, Open, IInv, Ids, None
<1>2. /\ UNCHANGED <<aborted, pending, outbox, streams, reads>>
      /\ (alive => alive') /\ job[s].at = "new"
  BY DEF Open, Starts
<1>3. CASE worker' = "up" /\ nextId' = nextId + 1 /\ Post("open", s, nextId')
           /\ job' = [job EXCEPT ![s].at = "open", ![s].id = nextId']
  <2>1. TypeOK'
    <3>1. nextId' \in Nat /\ outbox' = outbox
      BY <1>2, <1>3 DEF IInv, TypeOK
    <3>2. job' \in [Jobs -> JobRec]
      BY <1>3, <3>1 DEF IInv, TypeOK, Places, JobRec
    <3>3. inbox' \in Seq(ToWorker)
      BY <1>1, <1>3, <3>1, QueuesTyped DEF IInv
    <3> QED BY <3>1, <3>2, <3>3 DEF IInv, TypeOK
  <2>2. /\ job'[s].at = "open" /\ job'[s].id = nextId' /\ job'[s].fed = job[s].fed
        /\ \A j \in Jobs : j # s => job'[j] = job[j]
    BY <1>1, <1>3 DEF IInv, TypeOK
  <2>3. AtWorker'
    BY <1>1, <1>2, <1>3, <2>1, <2>2, NewWorker DEF IInv
  <2>4. Ids'
    <3>1. nextId \in Nat /\ \A j \in Jobs : job[j].id \in Nat /\ job[j].id <= nextId
      BY DEF IInv, TypeOK, Ids, JobRec
    <3>2. \A i \in DOMAIN pending : pending[i] # s
      BY <1>1 DEF IInv, Ids
    <3>3. \A j \in Jobs : job'[j].id <= nextId' /\ (job'[j].id = nextId' => j = s)
      <4>1. nextId' \in Nat /\ nextId' <= nextId'
        BY <1>3, <3>1
      <4>2. ASSUME NEW j \in Jobs, j # s
            PROVE  job'[j].id <= nextId' /\ job'[j].id # nextId'
        <5>1. job'[j].id = job[j].id
          BY <2>2, <4>2
        <5> QED BY <1>3, <3>1, <5>1
      <4> QED BY <2>2, <4>1, <4>2
    <3>4. \A i, j \in Jobs : job'[i].id = job'[j].id /\ job'[i].id # None => i = j
      BY <2>2, <3>3 DEF IInv, Ids
    <3>5. nextId' # None
      BY <1>1, <1>3, <3>1
    <3>6. \A j \in Jobs :
            /\ job'[j].at = "new" => job'[j].id = None /\ job'[j].fed = 0 /\ j \notin aborted
            /\ job'[j].at = "open" => job'[j].id # None
            /\ job'[j].at = "inline" => job'[j].id = None
      BY <2>2, <3>5 DEF IInv, Ids
    <3>7. \A i \in DOMAIN pending :
            pending[i] \in Jobs /\ job'[pending[i]].id = i /\ i # None /\ Asked(pending[i])'
      BY <1>2, <2>2, <3>2 DEF IInv, Ids, Asked
    <3> QED BY <1>2, <3>3, <3>4, <3>6, <3>7 DEF Ids
  <2>5. Answered' /\ AnswersMatch'
    BY <1>1, <1>2, <2>2, AnswersKept DEF IInv, AnswersMatch, Asked
  <2> QED BY <2>1, <2>3, <2>4, <2>5 DEF IInv
<1>4. CASE job' = [job EXCEPT ![s].at = "inline"] /\ UNCHANGED <<nextId, inbox>>
  <2>1. TypeOK'
    BY <1>2, <1>4 DEF IInv, TypeOK, Places, JobRec
  <2>2. /\ job'[s].at = "inline" /\ job'[s].id = job[s].id /\ job'[s].fed = job[s].fed
        /\ \A j \in Jobs : j # s => job'[j] = job[j]
    BY <1>1, <1>4 DEF IInv, TypeOK
  <2>3. AtWorker'
    BY <1>1, <1>2, <1>4, <2>2, QuietWorker DEF IInv, Asked
  <2>4. Ids'
    <3>1. \A i \in DOMAIN pending : pending[i] # s
      BY <1>1 DEF IInv, Ids
    <3> QED BY <1>1, <1>2, <1>4, <2>2, <3>1 DEF IInv, Ids, Asked
  <2>5. Answered' /\ AnswersMatch'
    BY <1>1, <1>2, <2>2, AnswersKept DEF IInv, AnswersMatch, Asked
  <2> QED BY <2>1, <2>3, <2>4, <2>5 DEF IInv
<1> QED BY <1>3, <1>4 DEF Open, MakeId

\* hashFileInBackground()
LEMMA HashFileStep ==
  ASSUME IInv, NEW f \in Files, HashFile(f)
  PROVE  IInv'
<1>1. f \in Jobs /\ f \in Files /\ job[f].id = 0 /\ job[f].fed = 0 /\ None = 0 /\ Pieces \in Nat
  BY HashAssumption DEF Jobs, HashFile, IInv, Ids, None
<1>2. UNCHANGED <<aborted, outbox, streams, reads>> /\ (alive => alive') /\ job[f].at = "new"
  BY DEF HashFile, Starts
<1>3. CASE worker' = "up" /\ nextId' = nextId + 1 /\ Post("file", f, nextId')
           /\ pending' = With(pending, nextId', f)
           /\ job' = [job EXCEPT ![f].at = "asked", ![f].id = nextId', ![f].due = Pieces]
  <2>1. TypeOK'
    <3>1. nextId' \in Nat /\ outbox' = outbox
      BY <1>2, <1>3 DEF IInv, TypeOK
    <3>2. job' \in [Jobs -> JobRec]
      <4> DEFINE r == [job[f] EXCEPT !.at = "asked", !.id = nextId', !.due = Pieces]
      <4>1. job' = [job EXCEPT ![f] = r] /\ job \in [Jobs -> JobRec]
        BY <1>3 DEF IInv, TypeOK
      <4>2. r \in JobRec
        BY <1>1, <3>1 DEF IInv, TypeOK, Places, JobRec
      <4> HIDE DEF r
      <4> QED BY <4>1, <4>2
    <3>3. inbox' \in Seq(ToWorker)
      BY <1>1, <1>3, <3>1, QueuesTyped DEF IInv
    <3> QED BY <3>1, <3>2, <3>3 DEF IInv, TypeOK
  <2>2. /\ job'[f].at = "asked" /\ job'[f].id = nextId' /\ job'[f].fed = job[f].fed
        /\ job'[f].due = Pieces
        /\ \A j \in Jobs : j # f => job'[j] = job[j]
    BY <1>1, <1>3 DEF IInv, TypeOK
  <2>3. AtWorker'
    BY <1>1, <1>2, <1>3, <2>1, <2>2, NewWorker DEF IInv, Asked
  <2>4. Ids'
    <3>1. nextId \in Nat /\ \A j \in Jobs : job[j].id \in Nat /\ job[j].id <= nextId
      BY DEF IInv, TypeOK, Ids, JobRec
    <3>2. \A i \in DOMAIN pending' :
            \/ i = nextId' /\ pending'[i] = f
            \/ i \in DOMAIN pending /\ pending'[i] = pending[i] /\ pending[i] # f
      BY <1>1, <1>3 DEF IInv, Ids, With
    <3>3. \A j \in Jobs : job'[j].id <= nextId' /\ (job'[j].id = nextId' => j = f)
      <4>1. nextId' \in Nat /\ nextId' <= nextId'
        BY <1>3, <3>1
      <4>2. ASSUME NEW j \in Jobs, j # f
            PROVE  job'[j].id <= nextId' /\ job'[j].id # nextId'
        <5>1. job'[j].id = job[j].id
          BY <2>2, <4>2
        <5> QED BY <1>3, <3>1, <5>1
      <4> QED BY <2>2, <4>1, <4>2
    <3>4. \A i, j \in Jobs : job'[i].id = job'[j].id /\ job'[i].id # None => i = j
      BY <2>2, <3>3 DEF IInv, Ids
    <3>5. nextId' # None
      BY <1>1, <1>3, <3>1
    <3>6. \A j \in Jobs :
            /\ job'[j].at = "new" => job'[j].id = None /\ job'[j].fed = 0 /\ j \notin aborted
            /\ job'[j].at = "open" => job'[j].id # None
            /\ job'[j].at = "inline" => job'[j].id = None
      BY <2>2, <3>5 DEF IInv, Ids
    <3>7. \A i \in DOMAIN pending' :
            /\ pending'[i] \in Jobs /\ job'[pending'[i]].id = i /\ i # None
            /\ Asked(pending[i])'
      BY <1>1, <2>2, <3>2, <3>5 DEF IInv, Ids, Asked
    <3> QED BY <1>2, <3>3, <3>4, <3>6, <3>7 DEF Ids
  <2>5. Answered' /\ AnswersMatch'
    BY <1>1, <1>2, <2>2, AnswersKept DEF IInv, AnswersMatch, Asked
  <2> QED BY <2>1, <2>3, <2>4, <2>5 DEF IInv
<1>4. CASE nextId' \in {nextId, nextId + 1} /\ UNCHANGED <<pending, inbox>>
           /\ job' = [job EXCEPT ![f].at = "inline"]
  <2>1. TypeOK'
    <3>1. nextId' \in Nat
      BY <1>4 DEF IInv, TypeOK
    <3> QED BY <1>2, <1>4, <3>1 DEF IInv, TypeOK, Places, JobRec
  <2>2. /\ job'[f].at = "inline" /\ job'[f].id = job[f].id /\ job'[f].fed = job[f].fed
        /\ \A j \in Jobs : j # f => job'[j] = job[j]
    BY <1>1, <1>4 DEF IInv, TypeOK
  <2>3. AtWorker'
    BY <1>1, <1>2, <1>4, <2>2, QuietWorker DEF IInv, Asked
  <2>4. Ids'
    <3>1. nextId \in Nat /\ \A j \in Jobs : job[j].id \in Nat /\ job[j].id <= nextId
      BY DEF IInv, TypeOK, Ids, JobRec
    <3>2. \A i \in DOMAIN pending : pending[i] # f
      BY <1>1 DEF IInv, Ids
    <3>3. \A j \in Jobs : job'[j].id = job[j].id /\ job[j].id <= nextId'
      BY <1>4, <2>2, <3>1
    <3> QED BY <1>1, <1>2, <1>4, <2>2, <3>2, <3>3 DEF IInv, Ids, Asked
  <2>5. Answered' /\ AnswersMatch'
    BY <1>1, <1>2, <2>2, AnswersKept DEF IInv, AnswersMatch, Asked
  <2> QED BY <2>1, <2>3, <2>4, <2>5 DEF IInv
<1> QED BY <1>3, <1>4 DEF HashFile, MakeId

\* update()
LEMMA UpdateStep ==
  ASSUME IInv, NEW s \in Streams, Update(s)
  PROVE  IInv'
<1>1. /\ s \in Jobs /\ job[s].id \in Nat /\ None = 0 /\ job[s].at # "new"
      /\ job' = [job EXCEPT ![s].fed = @ + 1]
      /\ UNCHANGED <<alive, nextId, aborted, pending, outbox, streams, reads>>
  BY DEF Jobs, Update, IInv, TypeOK, None, JobRec
<1>2. /\ job'[s].at = job[s].at /\ job'[s].id = job[s].id /\ job'[s].fed = job[s].fed + 1
      /\ job'[s].due = job[s].due /\ job'[s].digest = job[s].digest
      /\ \A j \in Jobs : j # s => job'[j] = job[j]
  BY <1>1 DEF IInv, TypeOK
<1>3. TypeOK'
  <2>1. job' \in [Jobs -> JobRec]
    <3>1. job[s].fed + 1 \in Nat
      BY <1>1 DEF IInv, TypeOK, JobRec
    <3> QED BY <1>1, <3>1 DEF IInv, TypeOK, JobRec
  <2>2. inbox' \in Seq(ToWorker)
    <3>1. CASE Post("update", s, job[s].id)
      BY <1>1, <3>1, QueuesTyped DEF IInv
    <3>2. CASE inbox' = inbox
      BY <3>2 DEF IInv, TypeOK
    <3> QED BY <3>1, <3>2 DEF Update
  <2> QED BY <1>1, <2>1, <2>2 DEF IInv, TypeOK
<1>4. AtWorker'
  <2>1. CASE job[s].id = None
    <3>1. inbox' = inbox
      BY <2>1 DEF Update
    <3>2. \A j \in Jobs :
            /\ job'[j].id = job[j].id
            /\ job[j].id # None => job'[j] = job[j]
      BY <1>2, <2>1
    <3> QED BY <1>1, <3>1, <3>2, QuietWorker DEF IInv, Asked
  <2>2. CASE job[s].id # None
    <3>1. Post("update", s, job[s].id)
      BY <2>2 DEF Update
    <3> QED BY <1>1, <1>2, <1>3, <2>2, <3>1, PostWorker DEF IInv, Asked
  <2> QED BY <2>1, <2>2
<1>5. Ids'
  BY <1>1, <1>2 DEF IInv, Ids, Asked
<1>6. Answered' /\ AnswersMatch'
  BY <1>1, <1>2, AnswersKept DEF IInv, AnswersMatch, Asked
<1> QED BY <1>3, <1>4, <1>5, <1>6 DEF IInv

\* digestHex()
LEMMA DigestStep ==
  ASSUME IInv, NEW s \in Streams, Digest(s)
  PROVE  IInv'
<1>1. /\ s \in Jobs /\ job[s].id \in Nat /\ job[s].fed \in Nat /\ None = 0
      /\ UNCHANGED <<alive, nextId, aborted, outbox, streams, reads>>
  BY DEF Jobs, Digest, IInv, TypeOK, None, JobRec
<1>2. \A i \in DOMAIN pending : job[s].at = "open" => pending[i] # s
  BY DEF IInv, Ids, Asked
<1>3. CASE /\ job[s].at = "open" /\ s \notin aborted
           /\ pending' = With(pending, job[s].id, s)
           /\ job' = [job EXCEPT ![s].at = "asked", ![s].due = job[s].fed]
           /\ Post("digest", s, job[s].id)
  <2>1. /\ job'[s].at = "asked" /\ job'[s].id = job[s].id /\ job'[s].fed = job[s].fed
        /\ job'[s].due = job[s].fed
        /\ \A j \in Jobs : j # s => job'[j] = job[j]
    BY <1>1, <1>3 DEF IInv, TypeOK
  <2>2. TypeOK'
    <3>1. job' \in [Jobs -> JobRec]
      BY <1>1, <1>3 DEF IInv, TypeOK, Places, JobRec
    <3>2. inbox' \in Seq(ToWorker)
      BY <1>1, <1>3, QueuesTyped DEF IInv
    <3> QED BY <1>1, <3>1, <3>2 DEF IInv, TypeOK
  <2>3. job[s].id # None
    BY <1>1, <1>3 DEF IInv, Ids
  <2>4. AtWorker'
    BY <1>1, <1>3, <2>1, <2>2, <2>3, PostWorker DEF IInv, Asked
  <2>5. Ids'
    <3>1. \A i \in DOMAIN pending' :
            \/ i = job[s].id /\ pending'[i] = s
            \/ i \in DOMAIN pending /\ pending'[i] = pending[i] /\ pending[i] # s
      BY <1>2, <1>3 DEF With
    <3>2. \A j \in Jobs : job'[j].id = job[j].id /\ job'[j].fed = job[j].fed
      BY <2>1
    <3>3. \A i \in DOMAIN pending' :
            /\ pending'[i] \in Jobs /\ job'[pending'[i]].id = i /\ i # None
            /\ Asked(pending[i])'
      BY <1>1, <2>1, <2>3, <3>1 DEF IInv, Ids, Asked
    <3>4. \A j \in Jobs :
            /\ job'[j].id <= nextId'
            /\ job'[j].at = "new" => job'[j].id = None /\ job'[j].fed = 0 /\ j \notin aborted
            /\ job'[j].at = "open" => job'[j].id # None
            /\ job'[j].at = "inline" => job'[j].id = None
      BY <1>1, <2>1 DEF IInv, Ids
    <3> QED BY <1>1, <3>2, <3>3, <3>4 DEF IInv, Ids
  <2>6. Answered' /\ AnswersMatch'
    BY <1>1, <1>3, <2>1, AnswersKept DEF IInv, AnswersMatch, Asked
  <2> QED BY <2>2, <2>4, <2>5, <2>6 DEF IInv
<1>4. CASE /\ job[s].at = "open" /\ s \in aborted
           /\ job' = [job EXCEPT ![s].at = "rejected"]
           /\ UNCHANGED <<pending, inbox>>
  <2>1. /\ job'[s].at = "rejected" /\ job'[s].id = job[s].id /\ job'[s].fed = job[s].fed
        /\ job'[s].due = job[s].due
        /\ \A j \in Jobs : j # s => job'[j] = job[j]
    BY <1>1, <1>4 DEF IInv, TypeOK
  <2>2. TypeOK'
    BY <1>1, <1>4 DEF IInv, TypeOK, Places, JobRec
  <2>3. AtWorker'
    BY <1>1, <1>4, <2>1, QuietWorker DEF IInv, Asked
  <2>4. Ids'
    BY <1>1, <1>2, <1>4, <2>1 DEF IInv, Ids, Asked
  <2>5. Answered' /\ AnswersMatch'
    BY <1>1, <1>4, <2>1, AnswersKept DEF IInv, AnswersMatch, Asked
  <2> QED BY <2>2, <2>3, <2>4, <2>5 DEF IInv
<1>5. CASE /\ job[s].at = "inline"
           /\ job' = [job EXCEPT ![s].at = "resolved", ![s].due = job[s].fed,
                                 ![s].digest = Data(s, job[s].fed)]
           /\ UNCHANGED <<pending, inbox>>
  <2>1. /\ job'[s].at = "resolved" /\ job'[s].id = job[s].id /\ job'[s].fed = job[s].fed
        /\ job'[s].due = job[s].fed /\ job'[s].digest = Data(s, job[s].fed)
        /\ \A j \in Jobs : j # s => job'[j] = job[j]
    BY <1>1, <1>5 DEF IInv, TypeOK
  <2>2. TypeOK'
    <3> DEFINE r == [job[s] EXCEPT !.at = "resolved", !.due = job[s].fed,
                                   !.digest = Data(s, job[s].fed)]
    <3>1. job' = [job EXCEPT ![s] = r] /\ job \in [Jobs -> JobRec]
      BY <1>5 DEF IInv, TypeOK
    <3>2. Data(s, job[s].fed) \in Digests
      BY <1>1 DEF Digests
    <3>3. r \in JobRec
      BY <1>1, <3>2 DEF IInv, TypeOK, Places, JobRec
    <3> HIDE DEF r
    <3>4. job' \in [Jobs -> JobRec]
      BY <3>1, <3>3
    <3> QED BY <1>1, <1>5, <3>4 DEF IInv, TypeOK
  <2>3. job[s].id = None
    BY <1>1, <1>5 DEF IInv, Ids
  <2>4. AtWorker'
    <3>1. \A j \in Jobs :
            /\ job'[j].id = job[j].id
            /\ job[j].id # None => job'[j] = job[j]
      BY <2>1, <2>3
    <3> QED BY <1>1, <1>5, <3>1, QuietWorker DEF IInv, Asked
  <2>5. Ids'
    <3>1. \A i \in DOMAIN pending : pending[i] # s
      BY <2>3 DEF IInv, Ids
    <3>2. \A j \in Jobs : job'[j].id = job[j].id /\ job'[j].fed = job[j].fed
      BY <2>1
    <3>3. \A i \in DOMAIN pending' :
            /\ pending'[i] \in Jobs /\ job'[pending'[i]].id = i /\ i # None
            /\ Asked(pending[i])'
      <4> SUFFICES ASSUME NEW i \in DOMAIN pending
                   PROVE  /\ pending'[i] \in Jobs /\ job'[pending'[i]].id = i /\ i # None
                          /\ Asked(pending[i])'
        BY <1>5
      <4>1. pending[i] \in Jobs /\ job[pending[i]].id = i /\ i # None /\ Asked(pending[i])
        BY DEF IInv, Ids
      <4>2. job'[pending[i]] = job[pending[i]] /\ pending'[i] = pending[i]
        BY <1>5, <2>1, <3>1, <4>1
      <4> QED BY <4>1, <4>2 DEF Asked
    <3>4. \A j \in Jobs :
            /\ job'[j].id <= nextId'
            /\ job'[j].at = "new" => job'[j].id = None /\ job'[j].fed = 0 /\ j \notin aborted
            /\ job'[j].at = "open" => job'[j].id # None
            /\ job'[j].at = "inline" => job'[j].id = None
      BY <1>1, <2>1 DEF IInv, Ids
    <3>5. \A i, j \in Jobs : job'[i].id = job'[j].id /\ job'[i].id # None => i = j
      BY <3>2 DEF IInv, Ids
    <3> QED BY <1>1, <3>3, <3>4, <3>5 DEF Ids
  <2>6. Answered' /\ AnswersMatch'
    BY <1>1, <1>5, <2>1, <2>3, AnswersKept DEF IInv, AnswersMatch, Asked
  <2> QED BY <2>2, <2>4, <2>5, <2>6 DEF IInv
<1> QED BY <1>3, <1>4, <1>5 DEF Digest

\* abort()
LEMMA AbortStep ==
  ASSUME IInv, NEW s \in Streams, Abort(s)
  PROVE  IInv'
<1>1. /\ s \in Jobs /\ job[s].id \in Nat /\ job[s].id # None
      /\ aborted' = aborted \cup {s} /\ pending' = Without(pending, job[s].id)
      /\ Post("abort", s, job[s].id)
      /\ UNCHANGED <<alive, nextId, job, outbox, streams, reads>>
  BY DEF Jobs, Abort, IInv, TypeOK, JobRec
<1>2. TypeOK'
  <2>1. inbox' \in Seq(ToWorker)
    BY <1>1, QueuesTyped DEF IInv
  <2> QED BY <1>1, <2>1 DEF IInv, TypeOK
<1>3. AtWorker'
  BY <1>1, <1>2, PostWorker DEF IInv, Asked
<1>4. Ids'
  <2>1. job[s].at # "new"
    BY <1>1 DEF IInv, Ids
  <2>2. \A i \in DOMAIN pending' : i \in DOMAIN pending /\ pending'[i] = pending[i]
    BY <1>1 DEF Without, Restrict
  <2> QED BY <1>1, <2>1, <2>2 DEF IInv, Ids, Asked
<1>5. Answered' /\ AnswersMatch'
  BY <1>1, AnswersKept DEF IInv, AnswersMatch, Asked
<1> QED BY <1>2, <1>3, <1>4, <1>5 DEF IInv

\* The "message" listener.
LEMMA PageHearsStep ==
  ASSUME IInv, PageHears
  PROVE  IInv'
<1>1. /\ outbox \in Seq(FromWorker) /\ outbox # <<>> /\ outbox' = Tail(outbox)
      /\ UNCHANGED <<alive, nextId, aborted, inbox, streams, reads>>
  BY DEF PageHears, workerVars, IInv, TypeOK
<1>2. PICK n \in Nat :
        /\ DOMAIN outbox = 1 .. n /\ 1 \in 1 .. n /\ outbox' \in Seq(FromWorker)
        /\ Head(outbox) = outbox[1] /\ outbox[1] \in FromWorker
        /\ DOMAIN outbox' = 1 .. n - 1 /\ \A k \in 1 .. n - 1 : outbox'[k] = outbox[k + 1]
  BY <1>1, QueueFacts
<1>3. \A k \in DOMAIN outbox' : \E l \in DOMAIN outbox : outbox'[k] = outbox[l]
  <2>1. \A k \in 1 .. n - 1 : k + 1 \in 1 .. n
    OBVIOUS
  <2> QED BY <1>2, <2>1
<1>4. PICK m \in FromWorker : m = outbox[1]
  BY <1>2
<1>5. m.type \in {"resolved", "rejected"} /\ m.digest \in Digests
  BY DEF FromWorker
<1>6. CASE m.id \in DOMAIN pending
  <2>1. PICK p \in Jobs : p = pending[m.id] /\ job[p].id = m.id /\ m.id # None /\ Asked(p)
    BY <1>6 DEF IInv, Ids
  <2>2. /\ pending' = Without(pending, m.id)
        /\ job' = [job EXCEPT ![p].at = m.type, ![p].digest = m.digest]
    BY <1>2, <1>4, <1>6, <2>1 DEF PageHears
  <2>3. /\ job'[p].at = m.type /\ job'[p].digest = m.digest /\ job'[p].id = job[p].id
        /\ job'[p].fed = job[p].fed /\ job'[p].due = job[p].due
        /\ \A j \in Jobs : j # p => job'[j] = job[j]
    BY <2>1, <2>2 DEF IInv, TypeOK
  <2>4. TypeOK'
    <3> DEFINE r == [job[p] EXCEPT !.at = m.type, !.digest = m.digest]
    <3>1. job' = [job EXCEPT ![p] = r] /\ job \in [Jobs -> JobRec]
      BY <2>2 DEF IInv, TypeOK
    <3>2. r \in JobRec
      BY <1>5, <2>1 DEF IInv, TypeOK, Places, JobRec, FromWorker
    <3> HIDE DEF r
    <3>3. job' \in [Jobs -> JobRec]
      BY <3>1, <3>2
    <3> QED BY <1>1, <1>2, <3>3 DEF IInv, TypeOK
  <2>5. AtWorker'
    BY <1>1, <1>5, <2>1, <2>3, QuietWorker DEF IInv, Asked
  <2>6. Ids'
    <3>1. \A i \in DOMAIN pending' : i \in DOMAIN pending /\ pending'[i] = pending[i]
      BY <2>2 DEF Without, Restrict
    <3>2. \A j \in Jobs : /\ job'[j].id = job[j].id /\ job'[j].fed = job[j].fed
                          /\ Asked(j) => Asked(j)'
      BY <1>5, <2>3 DEF Asked
    <3>3. \A i \in DOMAIN pending' :
            /\ pending'[i] \in Jobs /\ job'[pending'[i]].id = i /\ i # None
            /\ Asked(pending[i])'
      BY <3>1, <3>2 DEF IInv, Ids, Asked
    <3>4. \A j \in Jobs :
            /\ job'[j].id <= nextId'
            /\ job'[j].at = "new" => job'[j].id = None /\ job'[j].fed = 0 /\ j \notin aborted
            /\ job'[j].at = "open" => job'[j].id # None
            /\ job'[j].at = "inline" => job'[j].id = None
      BY <1>1, <1>5, <2>3 DEF IInv, Ids
    <3>5. \A i, j \in Jobs : job'[i].id = job'[j].id /\ job'[i].id # None => i = j
      BY <3>2 DEF IInv, Ids
    <3> QED BY <1>1, <3>3, <3>4, <3>5 DEF Ids
  <2>7. m.type = "resolved" => m.digest = Data(p, job[p].due)
    <3> SUFFICES ASSUME m.type = "resolved" PROVE m.digest = Data(p, job[p].due)
      OBVIOUS
    <3>1. PICK j \in Jobs : job[j].id = m.id /\ m.digest = Data(j, job[j].due)
      BY <1>2, <1>4 DEF IInv, Answered
    <3>2. j = p
      BY <2>1, <3>1 DEF IInv, Ids
    <3> QED BY <3>1, <3>2
  <2>8. Answered' /\ AnswersMatch'
    <3>1. \A j \in Jobs :
            /\ job'[j].id = job[j].id /\ job'[j].due = job[j].due
            /\ Asked(j) => Asked(j)'
            /\ job'[j].at = "resolved" => job'[j].digest = Data(j, job'[j].due)
      BY <1>5, <2>3, <2>7 DEF IInv, AnswersMatch, Asked
    <3> QED BY <1>3, <3>1, AnswersKept DEF IInv
  <2> QED BY <2>4, <2>5, <2>6, <2>8 DEF IInv
<1>7. CASE ~(m.id \in DOMAIN pending)
  <2>1. UNCHANGED <<pending, job>>
    BY <1>2, <1>4, <1>7 DEF PageHears
  <2>2. TypeOK'
    BY <1>1, <1>2, <2>1 DEF IInv, TypeOK
  <2>3. AtWorker'
    BY <1>1, <2>1, QuietWorker DEF IInv, Asked
  <2>4. Ids'
    BY <1>1, <2>1 DEF IInv, Ids, Asked
  <2>5. Answered' /\ AnswersMatch'
    BY <1>3, <2>1, AnswersKept DEF IInv, AnswersMatch, Asked
  <2> QED BY <2>2, <2>3, <2>4, <2>5 DEF IInv
<1> QED BY <1>6, <1>7

\* The "error" listener.
LEMMA WorkerErrorStep ==
  ASSUME IInv, WorkerError
  PROVE  IInv'
<1>1. /\ UNCHANGED <<nextId, aborted, outbox>> /\ pending' = <<>> /\ Ends
      /\ job' = [j \in Jobs |-> IF j \in Range(pending)
                                THEN [job[j] EXCEPT !.at = "rejected"] ELSE job[j]]
  BY DEF WorkerError
<1>2. \A j \in Range(pending) : Asked(j)
  BY DEF Range, IInv, Ids
<1>3. \A j \in Jobs :
        /\ job'[j].id = job[j].id /\ job'[j].fed = job[j].fed /\ job'[j].due = job[j].due
        /\ job'[j].digest = job[j].digest
        /\ job'[j].at # job[j].at => Asked(j) /\ job'[j].at = "rejected"
  BY <1>1, <1>2 DEF IInv, TypeOK
<1>4. TypeOK'
  <2>1. job' \in [Jobs -> JobRec]
    BY <1>1 DEF IInv, TypeOK, Places, JobRec
  <2>2. inbox' \in Seq(ToWorker)
    <3>1. inbox' = inbox \/ inbox' = <<>>
      BY <1>1 DEF Ends
    <3>2. inbox \in Seq(ToWorker)
      BY DEF IInv, TypeOK
    <3>3. \A T : <<>> \in Seq(T)
      OBVIOUS
    <3> QED BY <3>1, <3>2, <3>3
  <2> QED BY <1>1, <2>1, <2>2 DEF IInv, TypeOK
<1>5. AtWorker'
  <2>1. CASE inbox' = <<>> /\ streams' = <<>> /\ reads' = <<>>
    BY <2>1, EmptyWorker
  <2>2. CASE UNCHANGED <<inbox, workerVars>>
    <3>1. UNCHANGED <<inbox, alive, streams, reads, aborted>>
      BY <1>1, <2>2 DEF workerVars
    <3> QED BY <1>3, <3>1, QuietWorker DEF IInv, Asked
  <2> QED BY <1>1, <2>1, <2>2 DEF Ends
<1>6. Ids'
  <2>1. \A i, j \in Jobs : job'[i].id = job'[j].id /\ job'[i].id # None => i = j
    BY <1>3 DEF IInv, Ids
  <2>2. \A j \in Jobs :
          /\ job'[j].id <= nextId'
          /\ job'[j].at = "new" => job'[j].id = None /\ job'[j].fed = 0 /\ j \notin aborted'
          /\ job'[j].at = "open" => job'[j].id # None
          /\ job'[j].at = "inline" => job'[j].id = None
    BY <1>1, <1>3 DEF IInv, Ids
  <2> QED BY <1>1, <2>1, <2>2 DEF Ids
<1>7. Answered' /\ AnswersMatch'
  BY <1>1, <1>3, AnswersKept DEF IInv, AnswersMatch, Asked
<1> QED BY <1>4, <1>5, <1>6, <1>7 DEF IInv

\* The worker takes a message, or goes on with a file.
LEMMA WorkerStep ==
  ASSUME IInv, UNCHANGED pageVars, inbox' \in Seq(ToWorker), AtWorker', AnswersRightly
  PROVE  IInv'
<1>1. UNCHANGED <<nextId, job, aborted, pending>>
  BY DEF pageVars
<1>2. TypeOK'
  BY <1>1, QueuesTyped DEF IInv, TypeOK
<1>3. Ids'
  BY <1>1 DEF IInv, Ids, Asked
<1>4. AnswersMatch'
  BY <1>1 DEF IInv, AnswersMatch
<1>5. Answered'
  <2>1. CASE outbox' = outbox
    BY <1>1, <2>1 DEF IInv, Answered, Asked
  <2>2. CASE ~(outbox' = outbox)
    <3>1. PICK r \in FromWorker :
            /\ outbox' = Append(outbox, r)
            /\ r.type = "resolved" => \E j \in Jobs :
                 job[j].id = r.id /\ r.id # None /\ Asked(j) /\ r.digest = Data(j, job[j].due)
      BY <2>2 DEF AnswersRightly
    <3>2. outbox \in Seq(FromWorker)
      BY DEF IInv, TypeOK
    <3>3. PICK n \in Nat :
            /\ DOMAIN outbox = 1 .. n /\ DOMAIN outbox' = 1 .. n + 1
            /\ outbox'[n + 1] = r /\ \A k \in 1 .. n : outbox'[k] = outbox[k]
      BY <3>1, <3>2, QueueFacts
    <3> SUFFICES ASSUME NEW k \in 1 .. n + 1, outbox'[k].type = "resolved"
                 PROVE  \E j \in Jobs : /\ job[j].id = outbox'[k].id /\ outbox'[k].id # None
                                        /\ Asked(j) /\ outbox'[k].digest = Data(j, job[j].due)
      BY <1>1, <3>3 DEF Answered, Asked
    <3>4. CASE k = n + 1
      BY <3>1, <3>3, <3>4
    <3>5. CASE k \in 1 .. n
      BY <3>3, <3>5 DEF IInv, Answered
    <3> QED BY <3>4, <3>5
  <2> QED BY <2>1, <2>2
<1> QED BY <1>2, <1>3, <1>4, <1>5 DEF IInv

-----------------------------------------------------------------------------
LEMMA InitHash == Init => IInv
<1> SUFFICES ASSUME Init PROVE IInv
  OBVIOUS
<1>1. /\ nextId = 0 /\ aborted = {} /\ pending = <<>> /\ inbox = <<>> /\ outbox = <<>>
      /\ streams = <<>> /\ reads = <<>> /\ DOMAIN <<>> = {} /\ None = 0
      /\ \A j \in Jobs : job[j] = [at |-> "new", id |-> 0, fed |-> 0, due |-> 0, digest |-> <<>>]
  BY DEF Init, None
<1>2. TypeOK
  <2> DEFINE r == [at |-> "new", id |-> 0, fed |-> 0, due |-> 0, digest |-> <<>>]
  <2>1. ASSUME NEW j \in Jobs PROVE <<>> \in Digests
    <3>1. <<>> = Data(j, 0) /\ 0 \in Nat
      BY DataFacts
    <3> QED BY <3>1 DEF Digests
  <2>2. ASSUME NEW j \in Jobs PROVE r \in JobRec
    BY <2>1 DEF Places, JobRec
  <2>3. job = [j \in Jobs |-> r]
    BY DEF Init, None
  <2> HIDE DEF r
  <2>4. job \in [Jobs -> JobRec]
    BY <2>2, <2>3
  <2> QED BY <1>1, <2>4 DEF TypeOK
<1>3. Ids
  BY <1>1 DEF Ids
<1>4. AtWorker
  BY <1>1 DEF AtWorker, Dead, Posted, Owned, Reading, InOrder, Wanted, Tracked, InStream
<1>5. Answered /\ AnswersMatch
  BY <1>1 DEF Answered, AnswersMatch
<1> QED BY <1>2, <1>3, <1>4, <1>5 DEF IInv

LEMMA NextHash == IInv /\ [Next]_vars => IInv'
<1> SUFFICES ASSUME IInv, [Next]_vars PROVE IInv'
  OBVIOUS
<1>1. CASE \E s \in Streams : Open(s) \/ Update(s) \/ Digest(s) \/ Abort(s)
  BY <1>1, OpenStep, UpdateStep, DigestStep, AbortStep
<1>2. CASE \E f \in Files : HashFile(f)
  BY <1>2, HashFileStep
<1>3. CASE PageHears
  BY <1>3, PageHearsStep
<1>4. CASE WorkerError
  BY <1>4, WorkerErrorStep
<1>5. CASE WorkerTakes
  <2>1. UNCHANGED pageVars /\ inbox # <<>> /\ inbox' = Tail(inbox) /\ inbox \in Seq(ToWorker)
    BY <1>5 DEF WorkerTakes, IInv, TypeOK
  <2>2. inbox' \in Seq(ToWorker)
    BY <2>1, QueueFacts
  <2>3. AtWorker' /\ AnswersRightly
    BY <1>5, TakesWorker DEF IInv
  <2> QED BY <2>1, <2>2, <2>3, WorkerStep
<1>6. ASSUME NEW i \in DOMAIN reads, ReadGoesOn(i)
      PROVE  IInv'
  <2>1. UNCHANGED pageVars /\ inbox' = inbox
    BY <1>6 DEF ReadGoesOn
  <2>2. inbox' \in Seq(ToWorker)
    BY <2>1 DEF IInv, TypeOK
  <2>3. AtWorker' /\ AnswersRightly
    BY <1>6, ReadWorker DEF IInv
  <2> QED BY <2>1, <2>2, <2>3, WorkerStep
<1>7. CASE UNCHANGED vars
  <2>1. UNCHANGED <<alive, nextId, job, aborted, pending, inbox, outbox, streams, reads>>
    BY <1>7 DEF vars, pageVars, workerVars
  <2>2. TypeOK' /\ Ids'
    BY <2>1 DEF IInv, TypeOK, Ids, Asked
  <2>3. AtWorker'
    BY <2>1, QuietWorker DEF IInv, Asked
  <2>4. Answered' /\ AnswersMatch'
    BY <2>1, AnswersKept DEF IInv, AnswersMatch, Asked
  <2> QED BY <2>2, <2>3, <2>4 DEF IInv
<1> QED BY <1>1, <1>2, <1>3, <1>4, <1>5, <1>6, <1>7 DEF Next

\* A hash state that no message is on its way to is that of a stream that can still be
\* asked for.
LEMMA OnlyWanted == IInv => StreamsReleased
<1> SUFFICES ASSUME IInv, inbox = <<>>, NEW i \in DOMAIN streams
             PROVE  \E s \in Streams \ aborted : job[s].id = i /\ job[s].at = "open"
  BY DEF StreamsReleased
<1>1. PICK s \in Streams : job[s].id = i
  BY DEF IInv, AtWorker, Owned
<1>2. Tracked(s) /\ DOMAIN inbox = {}
  BY <1>1 DEF Tracked, InStream
<1> QED BY <1>1, <1>2 DEF IInv, AtWorker, Wanted

\* The bookkeeping on both sides of the two queues.
THEOREM HashInvariance == Spec => []IInv
BY InitHash, NextHash, PTL DEF Spec

\* A digest is that of all the bytes its job was fed before it was asked for, and of no
\* others, whatever jobs share the worker and wherever it fails.
THEOREM HashAnswers == Spec => []AnswersMatch
<1>1. IInv => AnswersMatch
  BY DEF IInv
<1> QED BY <1>1, HashInvariance, PTL

\* The worker keeps no hash state that nobody can ask for any more.
THEOREM HashReleased == Spec => []StreamsReleased
BY OnlyWanted, HashInvariance, PTL
=============================================================================
