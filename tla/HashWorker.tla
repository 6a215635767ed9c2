----------------------------- MODULE HashWorker -----------------------------
(***************************************************************************)
(* The page's hash worker: lib/webrtc/hash.ts on the page's side of two    *)
(* message queues, lib/webrtc/hash-worker.ts on the other.  Jobs of both   *)
(* kinds share it: a file hashed whole in the background for a sender, and *)
(* a stream fed chunk by chunk by a receiver.                              *)
(*                                                                         *)
(* The bytes of job j are its pieces <<j, 1>>, <<j, 2>>, ...; a digest is  *)
(* the sequence of the pieces that went into it.                           *)
(***************************************************************************)
EXTENDS Integers, Sequences, FiniteSets, TLC, SequencesExt, Functions

CONSTANTS
  Streams,        \* calls of createStreamingHasher()
  Files,          \* calls of hashFileInBackground()
  Pieces,         \* chunks fed to a stream, slices of a file
  Faults          \* what may go wrong

Jobs == Streams \cup Files

ASSUME HashAssumption ==
  /\ Streams \cap Files = {}
  /\ Pieces \in Nat
  /\ Faults \subseteq {"noWorker", "error", "readFail", "postFail"}

VARIABLES
  worker,         \* "none" yet, "up" (workerInstance), "gone" (workerUnavailable)
  alive,          \* the worker itself still runs
  nextId,
  job,            \* per job: where it is, its id, how many pieces it was fed, and
                  \* had been when the digest was asked for, and its digest
  aborted,        \* jobs on which abort() was called
  pending,        \* id -> the job whose promise waits for it
  inbox, outbox,  \* messages to the worker, and from it
  streams,        \* the worker's hash states: id -> pieces
  reads           \* files the worker is reading: id -> pieces

pageVars == <<worker, nextId, job, aborted, pending>>
workerVars == <<alive, streams, reads>>
vars == <<pageVars, workerVars, inbox, outbox>>

None == 0

With(f, x, v) == [y \in DOMAIN f \cup {x} |-> IF y = x THEN v ELSE f[y]]
Without(f, x) == Restrict(f, DOMAIN f \ {x})

Data(j, n) == [k \in 1 .. n |-> <<j, k>>]

\* postMessage(): what a dead worker is sent goes nowhere.
Post(type, j, i) ==
  inbox' = IF alive'
           THEN Append(inbox, [type |-> type, id |-> i, job |-> j,
                               piece |-> job[j].fed + 1])
           ELSE inbox

-----------------------------------------------------------------------------
(* The page *)

\* What getWorker() may leave behind: a worker is tried for once.
GetWorker ==
  IF worker = "none"
  THEN {"up"} \cup {w \in {"gone"} : "noWorker" \in Faults}
  ELSE {worker}

\* A worker that was just made runs.
Starts == alive' = (alive \/ (worker = "none" /\ worker' = "up"))

\* Mutant of MakeId: the counter is not advanced.
SameId == nextId' = 1

MakeId == nextId' = nextId + 1

\* createStreamingHasher()
Open(s) ==
  /\ job[s].at = "new"
  /\ worker' \in GetWorker /\ Starts
  /\ \/ /\ worker' = "up"
        /\ MakeId
        /\ job' = [job EXCEPT ![s].at = "open", ![s].id = nextId']
        /\ Post("open", s, nextId')
     \/ /\ worker' = "gone"
        /\ job' = [job EXCEPT ![s].at = "inline"]
        /\ UNCHANGED <<nextId, inbox>>
  /\ UNCHANGED <<aborted, pending, outbox, streams, reads>>

\* update(): after the question it is posted all the same.
Update(s) ==
  /\ job[s].at # "new" /\ s \notin aborted
  /\ job[s].fed < Pieces
  /\ job' = [job EXCEPT ![s].fed = @ + 1]
  /\ UNCHANGED alive
  /\ IF job[s].id = None THEN UNCHANGED inbox ELSE Post("update", s, job[s].id)
  /\ UNCHANGED <<worker, nextId, aborted, pending, outbox, streams, reads>>

\* digestHex()
Digest(s) ==
  /\ UNCHANGED alive
  /\ \/ /\ job[s].at = "open" /\ s \notin aborted
        /\ pending' = With(pending, job[s].id, s)
        /\ job' = [job EXCEPT ![s].at = "asked", ![s].due = job[s].fed]
        /\ Post("digest", s, job[s].id)
     \/ /\ job[s].at = "open" /\ s \in aborted
        /\ job' = [job EXCEPT ![s].at = "rejected"]
        /\ UNCHANGED <<pending, inbox>>
     \/ /\ job[s].at = "inline"
        /\ job' = [job EXCEPT ![s].at = "resolved", ![s].due = job[s].fed,
                              ![s].digest = Data(s, job[s].fed)]
        /\ UNCHANGED <<pending, inbox>>
  /\ UNCHANGED <<worker, nextId, aborted, outbox, streams, reads>>

\* Mutant of Abort: the worker is not told.
AbortsQuietly(s) ==
  /\ job[s].id # None /\ s \notin aborted
  /\ aborted' = aborted \cup {s}
  /\ pending' = Without(pending, job[s].id)
  /\ UNCHANGED <<worker, nextId, job, inbox, outbox, workerVars>>

\* abort(): a promise that waits is forgotten and never settles.
Abort(s) ==
  /\ job[s].id # None /\ s \notin aborted
  /\ aborted' = aborted \cup {s}
  /\ pending' = Without(pending, job[s].id)
  /\ UNCHANGED alive
  /\ Post("abort", s, job[s].id)
  /\ UNCHANGED <<worker, nextId, job, outbox, streams, reads>>

\* hashFileInBackground(); its caller hashes inline when it returns null.
HashFile(f) ==
  /\ job[f].at = "new"
  /\ worker' \in GetWorker /\ Starts
  /\ \/ /\ worker' = "up"
        /\ MakeId
        /\ pending' = With(pending, nextId', f)
        /\ job' = [job EXCEPT ![f].at = "asked", ![f].id = nextId', ![f].due = Pieces]
        /\ Post("file", f, nextId')
     \/ /\ worker' = "up" /\ "postFail" \in Faults
        /\ MakeId
        /\ job' = [job EXCEPT ![f].at = "inline"]
        /\ UNCHANGED <<pending, inbox>>
     \/ /\ worker' = "gone"
        /\ job' = [job EXCEPT ![f].at = "inline"]
        /\ UNCHANGED <<nextId, pending, inbox>>
  /\ UNCHANGED <<aborted, outbox, streams, reads>>

\* The "message" listener.
PageHears ==
  /\ outbox # <<>>
  /\ outbox' = Tail(outbox)
  /\ LET m == Head(outbox) IN
       IF m.id \in DOMAIN pending
       THEN /\ pending' = Without(pending, m.id)
            /\ job' = [job EXCEPT ![pending[m.id]].at = m.type,
                                  ![pending[m.id]].digest = m.digest]
       ELSE UNCHANGED <<pending, job>>
  /\ UNCHANGED <<worker, nextId, aborted, inbox, workerVars>>

\* The error may have ended the worker, or not.
Ends ==
  \/ UNCHANGED <<inbox, workerVars>>
  \/ alive' = FALSE /\ inbox' = <<>> /\ streams' = <<>> /\ reads' = <<>>

\* Mutant of WorkerError: what is in flight is left waiting.
ErrorIsIgnored ==
  /\ "error" \in Faults /\ worker = "up"
  /\ worker' = "gone" /\ Ends
  /\ UNCHANGED <<nextId, job, aborted, pending, outbox>>

\* The "error" listener.
WorkerError ==
  /\ "error" \in Faults /\ worker = "up"
  /\ worker' = "gone" /\ Ends
  /\ job' = [j \in Jobs |-> IF j \in Range(pending)
                            THEN [job[j] EXCEPT !.at = "rejected"] ELSE job[j]]
  /\ pending' = <<>>
  /\ UNCHANGED <<nextId, aborted, outbox>>

-----------------------------------------------------------------------------
(* The worker *)

Answer(type, i, digest) ==
  outbox' = Append(outbox, [type |-> type, id |-> i, digest |-> digest])

\* hasher.update(), for a stream that is there.
Fed(m) ==
  IF m.id \in DOMAIN streams
  THEN [streams EXCEPT ![m.id] = Append(@, <<m.job, m.piece>>)] ELSE streams

\* The worker's "message" listener.
WorkerTakes ==
  /\ alive /\ inbox # <<>>
  /\ inbox' = Tail(inbox)
  /\ LET m == Head(inbox) IN
       \/ /\ m.type = "file"
          /\ reads' = With(reads, m.id, <<>>)
          /\ UNCHANGED <<streams, outbox>>
       \/ /\ m.type = "open"
          /\ streams' = With(streams, m.id, <<>>)
          /\ UNCHANGED <<reads, outbox>>
       \/ /\ m.type = "update"
          /\ streams' = Fed(m)
          /\ UNCHANGED <<reads, outbox>>
       \/ /\ m.type = "digest"
          /\ IF m.id \in DOMAIN streams
             THEN Answer("resolved", m.id, streams[m.id])
             ELSE Answer("rejected", m.id, <<>>)
          /\ streams' = Without(streams, m.id)
          /\ UNCHANGED reads
       \/ /\ m.type = "abort"
          /\ streams' = Without(streams, m.id)
          /\ UNCHANGED <<reads, outbox>>
  /\ UNCHANGED <<pageVars, alive>>

\* hashBlob() gets another slice, the end of the file, or an error.
ReadGoesOn(i) ==
  /\ alive
  /\ LET got == Len(reads[i])
         f == CHOOSE g \in Files : job[g].id = i IN
       \/ /\ got < Pieces
          /\ reads' = [reads EXCEPT ![i] = Append(@, <<f, got + 1>>)]
          /\ UNCHANGED outbox
       \/ /\ got = Pieces
          /\ reads' = Without(reads, i)
          /\ Answer("resolved", i, reads[i])
       \/ /\ "readFail" \in Faults
          /\ reads' = Without(reads, i)
          /\ Answer("rejected", i, <<>>)
  /\ UNCHANGED <<pageVars, alive, streams, inbox>>

-----------------------------------------------------------------------------

Init ==
  /\ worker = "none" /\ alive = FALSE /\ nextId = 0
  /\ job = [j \in Jobs |-> [at |-> "new", id |-> None, fed |-> 0, due |-> 0,
                     digest |-> <<>>]]
  /\ aborted = {} /\ pending = <<>>
  /\ inbox = <<>> /\ outbox = <<>> /\ streams = <<>> /\ reads = <<>>

Next ==
  \/ \E s \in Streams : Open(s) \/ Update(s) \/ Digest(s) \/ Abort(s)
  \/ \E f \in Files : HashFile(f)
  \/ PageHears \/ WorkerTakes \/ WorkerError
  \/ \E i \in DOMAIN reads : ReadGoesOn(i)

Spec == Init /\ [][Next]_vars

\* Both event loops run, and reads settle.  Nothing makes a worker fail.
Fairness ==
  /\ WF_vars(PageHears) /\ WF_vars(WorkerTakes)
  /\ WF_vars(\E i \in DOMAIN reads : ReadGoesOn(i))

FairSpec == Spec /\ Fairness

-----------------------------------------------------------------------------
(* Properties *)

\* A digest is that of all the bytes its job was fed before it was asked for,
\* and of no others, whatever jobs share the worker and whatever is posted
\* after the question or arrives after an error.
AnswersMatch ==
  \A j \in Jobs : job[j].at = "resolved" => job[j].digest = Data(j, job[j].due)

\* The worker keeps no hash state that nobody can ask for any more.
StreamsReleased ==
  inbox = <<>> =>
    \A i \in DOMAIN streams :
      \E s \in Streams \ aborted : job[s].id = i /\ job[s].at = "open"

\* A digest that is asked of a worker that is up comes or is refused.
AnsweredIfUp ==
  \A j \in Jobs :
    job[j].at = "asked" /\ worker = "up" ~> job[j].at # "asked" \/ j \in aborted
=============================================================================
