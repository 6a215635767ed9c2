--------------------------- MODULE StoredTransfer ---------------------------
(***************************************************************************)
(* Stored transfers: uploadStored() and downloadStoredFiles() in the       *)
(* browsers (lib/store/storeclient.ts), the routes of the Worker           *)
(* (signaling/src/index.ts), the StoredTransfer Durable Object (store.ts)  *)
(* and the R2 bucket.                                                      *)
(*                                                                         *)
(* One transfer of one file.  A PUT or GET passes the Worker in two steps, *)
(* the status it asks the object for and the bucket.  Inside the object an *)
(* event waits while its storage is read or written (the platform's input  *)
(* gate), but not while a handler awaits a request body, a digest or R2.   *)
(***************************************************************************)
EXTENDS Integers, FiniteSets

CONSTANTS
  NumChunks,      \* totalChunks
  Concurrency,    \* CHUNK_CONCURRENCY
  Allowances,     \* the allowances a sender may choose; 0: unlimited
  Receivers,      \* pages that may open the share link
  Faults          \* "netFail": a fetch rejects; "crash": the object is lost

ASSUME StoredAssumption ==
  /\ NumChunks \in Nat
  /\ Concurrency \in Nat \ {0}
  /\ Allowances \subseteq Nat
  /\ Faults \subseteq {"netFail", "crash"}

ASSUME ReceiversFinite == IsFiniteSet(Receivers)

ChunkIds == 0 .. NumChunks - 1
Manifest == NumChunks                  \* the object beside the chunks
Objects == ChunkIds \cup {Manifest}

\* Keys in the bucket: the Worker names objects by the id in the URL, the
\* Durable Object by its own id.
UrlId == "url"
ObjectId == "object"
Uploaded == {UrlId} \X Objects

None == [complete |-> FALSE, used |-> -1, consumed |-> FALSE, revoked |-> FALSE]
NewMeta == [None EXCEPT !.used = 0]

VARIABLES
  maxDownloads,   \* the allowance of this transfer
  expired,        \* Date.now() > expiresAt
  stored,         \* "meta" in the object's storage, or None
  meta,           \* the object this.meta points to, or last pointed to
  loaded,         \* this.meta # null
  alarm,          \* "set", "deleting" or "done"
  bucket,         \* R2: the keys present
  upload,         \* where uploadStored(), then the Send panel, is
  puts,           \* per object, where its PUT is at the Worker
  fetches,        \* per object, what its fetch() came to
  completing,     \* where POST complete is
  revoke,         \* where POST revoke is
  page,           \* per receiver, where its page is
  gets,           \* per receiver and object, where its GET is
  commit          \* per receiver, where its POST commit is

terms == <<maxDownloads, expired>>
objectVars == <<stored, meta, loaded, alarm>>
uploadVars == <<upload, puts, fetches, completing, revoke>>
pageVars == <<page, gets, commit>>
vars == <<terms, objectVars, bucket, uploadVars, pageVars>>

NetFails == "netFail" \in Faults

-----------------------------------------------------------------------------
(* The Durable Object *)

Current == IF loaded THEN meta ELSE stored            \* loadMeta()
Gone(m) == m.consumed \/ m.revoked \/ expired         \* isExpiredOrGone()

Status ==
  IF Current = None THEN "none"
  ELSE IF Current.revoked THEN "revoked"
  ELSE IF Current.consumed THEN "consumed"
  ELSE IF expired THEN "expired"
  ELSE IF Current.complete THEN "available" ELSE "uploading"

\* deleteObjects(meta): the manifest, and the chunks if their number is known.
Remaining(m) ==
  bucket \ ({ObjectId} \X (IF m.complete THEN Objects ELSE {Manifest}))

\* this.meta = meta; storage.put("meta", meta)
Save(m) == meta' = m /\ loaded' = TRUE /\ stored' = m

HandleInit ==
  /\ Save(NewMeta)
  /\ alarm' = "set"

\* handleComplete() up to the body ...
CompleteChecked ==
  /\ completing = "sent"
  /\ IF Current = None \/ Gone(Current)
     THEN completing' = "refused" /\ UNCHANGED <<meta, loaded>>
     ELSE completing' = "checked" /\ meta' = Current /\ loaded' = TRUE
  /\ UNCHANGED <<terms, stored, alarm, bucket, upload, puts, fetches, revoke, pageVars>>

\* ... and after it.
CompleteStored ==
  /\ completing = "checked"
  /\ completing' = "done"
  /\ Save([meta EXCEPT !.complete = TRUE])
  /\ UNCHANGED <<terms, alarm, bucket, upload, puts, fetches, revoke, pageVars>>

\* The allowance is used up.
Exhausted(m) == maxDownloads # 0 /\ m.used >= maxDownloads

\* Mutant of CommitCounted: no look at isExpiredOrGone().
CommitsAnyway(r) ==
  /\ commit[r] = "sent"
  /\ LET m == [Current EXCEPT !.used = @ + 1] IN
       Save([m EXCEPT !.consumed = @ \/ Exhausted(m)])
  /\ commit' = [commit EXCEPT ![r] = "done"]
  /\ UNCHANGED <<terms, alarm, bucket, uploadVars, page, gets>>

\* handleCommit() up to the deletion of the objects, if it comes to that.
CommitCounted(r) ==
  /\ commit[r] = "sent"
  /\ LET m == [Current EXCEPT !.used = @ + 1] IN
       \/ /\ Current = None \/ Gone(Current)
          /\ commit' = [commit EXCEPT ![r] = "refused"]
          /\ UNCHANGED objectVars
       \/ /\ Current # None /\ ~Gone(Current) /\ ~Exhausted(m)
          /\ commit' = [commit EXCEPT ![r] = "done"]
          /\ Save(m) /\ UNCHANGED alarm
       \/ /\ Current # None /\ ~Gone(Current) /\ Exhausted(m)
          /\ commit' = [commit EXCEPT ![r] = "marked"]
          /\ meta' = [m EXCEPT !.consumed = TRUE] /\ loaded' = TRUE
          /\ UNCHANGED <<stored, alarm>>
  /\ UNCHANGED <<terms, bucket, uploadVars, page, gets>>

\* Mutant of CommitStored: the answer goes out and nothing is saved.
AnswersUnsaved(r) ==
  /\ commit[r] = "marked"
  /\ commit' = [commit EXCEPT ![r] = "done"]
  /\ bucket' = Remaining(meta)
  /\ UNCHANGED <<terms, objectVars, uploadVars, page, gets>>

CommitStored(r) ==
  /\ commit[r] = "marked"
  /\ commit' = [commit EXCEPT ![r] = "done"]
  /\ bucket' = Remaining(meta)
  /\ Save(meta)
  /\ UNCHANGED <<terms, alarm, uploadVars, page, gets>>

\* handleRevoke() up to the body and the digest of the token, up to the
\* deletion, and to its end.
RevokeChecked ==
  /\ revoke = "sent"
  /\ IF Current = None
     THEN revoke' = "refused" /\ UNCHANGED <<meta, loaded>>
     ELSE revoke' = "checked" /\ meta' = Current /\ loaded' = TRUE
  /\ UNCHANGED <<terms, stored, alarm, bucket, upload, puts, fetches, completing,
                 pageVars>>

RevokeMarked ==
  /\ revoke = "checked"
  /\ revoke' = "marked"
  /\ meta' = [meta EXCEPT !.revoked = TRUE]
  /\ UNCHANGED <<terms, stored, loaded, alarm, bucket, upload, puts, fetches,
                 completing, pageVars>>

RevokeStored ==
  /\ revoke = "marked"
  /\ revoke' = "done"
  /\ bucket' = Remaining(meta)
  /\ Save(meta)
  /\ UNCHANGED <<terms, alarm, upload, puts, fetches, completing, pageVars>>

\* alarm() up to the deletion, if there is something to clean up, and after.
AlarmFires ==
  /\ expired
  /\ alarm = "set"
  /\ IF Current = None \/ Current.consumed \/ Current.revoked
     THEN alarm' = "done" /\ UNCHANGED <<meta, loaded>>
     ELSE alarm' = "deleting" /\ meta' = Current /\ loaded' = TRUE
  /\ UNCHANGED <<terms, stored, bucket, uploadVars, pageVars>>

AlarmDone ==
  /\ alarm = "deleting"
  /\ alarm' = "done"
  /\ bucket' = Remaining(meta)
  /\ stored' = None /\ loaded' = FALSE
  /\ UNCHANGED <<terms, meta, uploadVars, pageVars>>

\* The object is evicted: its memory and the handlers in it are gone, what
\* it stored and the alarm are not.
Broken(stage) == IF stage \in {"checked", "marked"} THEN "refused" ELSE stage
Crash ==
  /\ "crash" \in Faults
  /\ loaded \/ alarm = "deleting"
  /\ meta' = None /\ loaded' = FALSE
  /\ completing' = Broken(completing)
  /\ revoke' = Broken(revoke)
  /\ commit' = [r \in Receivers |-> Broken(commit[r])]
  /\ alarm' = IF alarm = "deleting" THEN "set" ELSE alarm
  /\ UNCHANGED <<terms, stored, bucket, upload, puts, fetches, page, gets>>

Expire ==
  /\ upload # "new" /\ ~expired
  /\ expired' = TRUE
  /\ UNCHANGED <<maxDownloads, objectVars, bucket, uploadVars, pageVars>>

-----------------------------------------------------------------------------
(* Uploading *)

Create ==
  /\ upload = "new"
  /\ HandleInit
  /\ \/ upload' = "manifest"
     \/ NetFails /\ upload' = "error"
  /\ UNCHANGED <<terms, bucket, puts, fetches, completing, revoke, pageVars>>

\* runWithConcurrency(): each of its workers takes the next item; one whose
\* fetch failed is gone, the others go on, whatever became of the caller.
NextItem(state, i) ==
  /\ state[i] = "idle"
  /\ \A j \in 0 .. i - 1 : state[j] # "idle"
Free(state, busy, failed) ==
  Cardinality({i \in ChunkIds : state[i] \in busy \cup failed}) < Concurrency

StartPut(o) ==
  /\ \/ o = Manifest /\ upload = "manifest" /\ fetches[o] = "idle"
     \/ /\ o \in ChunkIds /\ upload \in {"chunks", "error"}
        /\ fetches[Manifest] = "ok"
        /\ NextItem(fetches, o) /\ Free(fetches, {"pending"}, {"failed"})
  /\ fetches' = [fetches EXCEPT ![o] = "pending"]
  /\ puts' = [puts EXCEPT ![o] = "sent"]
  /\ UNCHANGED <<terms, objectVars, bucket, upload, completing, revoke, pageVars>>

\* isUploadable()
PutChecked(o) ==
  /\ puts[o] = "sent"
  /\ puts' = [puts EXCEPT ![o] = IF Status = "uploading" THEN "allowed" ELSE "refused"]
  /\ UNCHANGED <<terms, objectVars, bucket, upload, fetches, completing, revoke,
                 pageVars>>

\* STORE_BUCKET.put()
PutStored(o) ==
  /\ puts[o] = "allowed"
  /\ puts' = [puts EXCEPT ![o] = "stored"]
  /\ bucket' = bucket \cup {<<UrlId, o>>}
  /\ UNCHANGED <<terms, objectVars, upload, fetches, completing, revoke, pageVars>>

\* Mutant of PutAnswered: a PUT counts before its object is in the bucket.
AnsweredEarly(o) ==
  /\ fetches[o] = "pending"
  /\ fetches' = [fetches EXCEPT ![o] = IF puts[o] = "refused" THEN "failed" ELSE "ok"]
  /\ UNCHANGED <<terms, objectVars, bucket, upload, puts, completing, revoke, pageVars>>

PutAnswered(o) ==
  /\ fetches[o] = "pending"
  /\ \/ puts[o] = "stored" /\ fetches' = [fetches EXCEPT ![o] = "ok"]
     \/ puts[o] = "refused" /\ fetches' = [fetches EXCEPT ![o] = "failed"]
  /\ UNCHANGED <<terms, objectVars, bucket, upload, puts, completing, revoke, pageVars>>

\* The fetch rejects; the request may be on its way all the same.
PutLost(o) ==
  /\ NetFails
  /\ fetches[o] = "pending"
  /\ fetches' = [fetches EXCEPT ![o] = "failed"]
  /\ \/ UNCHANGED puts
     \/ puts[o] = "sent" /\ puts' = [puts EXCEPT ![o] = "idle"]
  /\ UNCHANGED <<terms, objectVars, bucket, upload, completing, revoke, pageVars>>

\* Mutant of UploadGoesOn: Promise.race() for Promise.all().
GoesOnEarly ==
  /\ \/ /\ upload = "manifest" /\ fetches[Manifest] = "ok"
        /\ upload' = "chunks" /\ UNCHANGED completing
     \/ /\ upload = "chunks" /\ \E i \in ChunkIds : fetches[i] = "ok"
        /\ upload' = "completing" /\ completing' = "sent"
  /\ UNCHANGED <<terms, objectVars, bucket, puts, fetches, revoke, pageVars>>

\* uploadStored() past its awaits; the link exists once it returned.
UploadGoesOn ==
  /\ \/ /\ upload = "manifest" /\ fetches[Manifest] = "ok"
        /\ upload' = "chunks" /\ UNCHANGED completing
     \/ /\ upload = "chunks" /\ \A i \in ChunkIds : fetches[i] = "ok"
        /\ upload' = "completing" /\ completing' = "sent"
     \/ /\ upload = "completing" /\ completing = "done"
        /\ upload' = "done" /\ UNCHANGED completing
     \/ /\ \/ upload \in {"manifest", "chunks"} /\ \E o \in Objects : fetches[o] = "failed"
           \/ upload = "completing" /\ (completing = "refused" \/ NetFails)
        /\ upload' = "error" /\ UNCHANGED completing
  /\ UNCHANGED <<terms, objectVars, bucket, puts, fetches, revoke, pageVars>>

\* revokeStoreSend(): the panel forgets the transfer whatever the answer.
Revoke ==
  /\ upload = "done" /\ revoke = "idle"
  /\ revoke' = "sent"
  /\ UNCHANGED <<terms, objectVars, bucket, upload, puts, fetches, completing, pageVars>>

RevokeAnswered ==
  /\ upload = "done"
  /\ \/ revoke \in {"done", "refused"} /\ UNCHANGED revoke
     \/ NetFails /\ revoke # "idle" /\ UNCHANGED revoke
     \/ NetFails /\ revoke = "sent" /\ revoke' = "refused"
  /\ upload' = "forgotten"
  /\ UNCHANGED <<terms, objectVars, bucket, puts, fetches, completing, pageVars>>

-----------------------------------------------------------------------------
(* Downloading *)

\* The page of the link asks for the status.
OpenLink(r) ==
  /\ page[r] = "new"
  /\ upload \in {"done", "forgotten"}
  /\ \/ /\ Status = "available"
        /\ page' = [page EXCEPT ![r] = "manifest"]
        /\ gets' = [gets EXCEPT ![r][Manifest] = "sent"]
     \/ /\ Status # "available" \/ NetFails
        /\ page' = [page EXCEPT ![r] = "error"]
        /\ UNCHANGED gets
  /\ UNCHANGED <<terms, objectVars, bucket, uploadVars, commit>>

\* requireAvailable()
GetChecked(r, o) ==
  /\ gets[r][o] = "sent"
  /\ gets' = [gets EXCEPT ![r][o] = IF Status = "available" THEN "allowed" ELSE "refused"]
  /\ UNCHANGED <<terms, objectVars, bucket, uploadVars, page, commit>>

\* fetchObject(), or a fetch that rejects.
GetServed(r, o) ==
  /\ \/ /\ gets[r][o] = "allowed" /\ <<UrlId, o>> \in bucket
        /\ gets' = [gets EXCEPT ![r][o] = "ok"]
     \/ /\ \/ gets[r][o] = "allowed" /\ <<UrlId, o>> \notin bucket
           \/ NetFails /\ gets[r][o] \in {"sent", "allowed"}
        /\ gets' = [gets EXCEPT ![r][o] = "refused"]
  /\ UNCHANGED <<terms, objectVars, bucket, uploadVars, page, commit>>

\* The user has seen the manifest and goes on.
Download(r) ==
  /\ page[r] = "review"
  /\ page' = [page EXCEPT ![r] = "downloading"]
  /\ UNCHANGED <<terms, objectVars, bucket, uploadVars, gets, commit>>

StartGet(r, i) ==
  /\ page[r] = "downloading" \/ (page[r] = "error" /\ gets[r][0] # "idle")
  /\ NextItem(gets[r], i) /\ Free(gets[r], {"sent", "allowed"}, {"refused"})
  /\ gets' = [gets EXCEPT ![r][i] = "sent"]
  /\ UNCHANGED <<terms, objectVars, bucket, uploadVars, page, commit>>

\* Mutant of PageGoesOn: a failed chunk does not reject the whole.
SwallowsFailure(r) ==
  /\ \/ /\ page[r] = "manifest" /\ gets[r][Manifest] \in {"ok", "refused"}
        /\ page' = [page EXCEPT ![r] =
              IF gets[r][Manifest] = "ok" THEN "review" ELSE "error"]
        /\ UNCHANGED commit
     \/ /\ page[r] = "downloading" /\ \A i \in ChunkIds : gets[r][i] = "ok"
        /\ page' = [page EXCEPT ![r] = "committing"]
        /\ commit' = [commit EXCEPT ![r] = "sent"]
     \/ /\ page[r] = "committing" /\ commit[r] \in {"done", "refused"}
        /\ page' = [page EXCEPT ![r] = "done"] /\ UNCHANGED commit
  /\ UNCHANGED <<terms, objectVars, bucket, uploadVars, gets>>

\* The page past its awaits.  Every byte is there: commit.
PageGoesOn(r) ==
  /\ \/ /\ page[r] = "manifest" /\ gets[r][Manifest] = "ok"
        /\ page' = [page EXCEPT ![r] = "review"] /\ UNCHANGED commit
     \/ /\ page[r] = "downloading" /\ \A i \in ChunkIds : gets[r][i] = "ok"
        /\ page' = [page EXCEPT ![r] = "committing"]
        /\ commit' = [commit EXCEPT ![r] = "sent"]
     \/ /\ page[r] = "committing"
        /\ commit[r] \in {"done", "refused"} \/ NetFails
        /\ page' = [page EXCEPT ![r] = "done"] /\ UNCHANGED commit
     \/ /\ page[r] \in {"manifest", "downloading"}
        /\ \E o \in Objects : gets[r][o] = "refused"
        /\ page' = [page EXCEPT ![r] = "error"] /\ UNCHANGED commit
  /\ UNCHANGED <<terms, objectVars, bucket, uploadVars, gets>>

-----------------------------------------------------------------------------

Init ==
  /\ maxDownloads \in Allowances
  /\ expired = FALSE
  /\ stored = None /\ meta = None /\ loaded = FALSE /\ alarm = "done"
  /\ bucket = {}
  /\ upload = "new" /\ completing = "idle" /\ revoke = "idle"
  /\ puts = [o \in Objects |-> "idle"]
  /\ fetches = [o \in Objects |-> "idle"]
  /\ page = [r \in Receivers |-> "new"]
  /\ gets = [r \in Receivers |-> [o \in Objects |-> "idle"]]
  /\ commit = [r \in Receivers |-> "idle"]

Uploader ==
  \/ Create \/ UploadGoesOn \/ CompleteChecked \/ CompleteStored
  \/ \E o \in Objects : StartPut(o) \/ PutChecked(o) \/ PutStored(o) \/ PutAnswered(o)

Receiver(r) ==
  \/ PageGoesOn(r) \/ CommitCounted(r) \/ CommitStored(r)
  \/ \E i \in ChunkIds : StartGet(r, i)
  \/ \E o \in Objects : GetChecked(r, o) \/ GetServed(r, o)

Next ==
  \/ Uploader
  \/ \E o \in Objects : PutLost(o)
  \/ Revoke \/ RevokeChecked \/ RevokeMarked \/ RevokeStored \/ RevokeAnswered
  \/ \E r \in Receivers : Receiver(r) \/ OpenLink(r) \/ Download(r)
  \/ AlarmFires \/ AlarmDone \/ Expire \/ Crash

Spec == Init /\ [][Next]_vars

\* Requests are handled and answered and the pages' code goes on; no user has
\* to click and nothing has to fail or expire.
Fairness ==
  /\ WF_vars(Uploader)
  /\ \A r \in Receivers : WF_vars(Receiver(r))

FairSpec == Spec /\ Fairness

-----------------------------------------------------------------------------
(* Properties *)

Stages == {"idle", "sent", "checked", "marked", "done", "refused"}
Metas == [complete : BOOLEAN, used : Nat, consumed : BOOLEAN, revoked : BOOLEAN]

TypeOK ==
  /\ maxDownloads \in Allowances
  /\ expired \in BOOLEAN
  /\ stored \in Metas \cup {None} /\ meta \in Metas \cup {None}
  /\ loaded \in BOOLEAN
  /\ alarm \in {"set", "deleting", "done"}
  /\ bucket \subseteq Uploaded
  /\ upload \in {"new", "manifest", "chunks", "completing", "done", "forgotten", "error"}
  /\ puts \in [Objects -> {"idle", "sent", "allowed", "stored", "refused"}]
  /\ fetches \in [Objects -> {"idle", "pending", "ok", "failed"}]
  /\ completing \in Stages /\ revoke \in Stages
  /\ page \in [Receivers -> {"new", "manifest", "review", "downloading", "committing",
                             "done", "error"}]
  /\ gets \in [Receivers -> [Objects -> {"idle", "sent", "allowed", "ok", "refused"}]]
  /\ commit \in [Receivers -> Stages]

\* What is offered is there: while the status is "available" the manifest and
\* every chunk are in the bucket, however PUTs overlapped, failed or were
\* answered late.
OfferedIsThere == Status = "available" => Uploaded \subseteq bucket

\* While it is offered nothing is written to or deleted from it, by a PUT
\* that was let through before the upload was complete, or by anyone.
Frozen == [][Status = "available" => bucket' = bucket]_vars

\* The downloads that were acknowledged.
Acknowledged == {r \in Receivers : commit[r] = "done"}

\* Once a revocation or the last allowed download was acknowledged the
\* transfer is never offered again, not even by an object that lost its
\* memory and reads its storage.
GoneForGood ==
  revoke = "done" \/ (maxDownloads # 0 /\ Cardinality(Acknowledged) >= maxDownloads)
    => Status # "available"

\* A page that was opened comes to an end, or to the user's review.
PagesSettle ==
  \A r \in Receivers : page[r] # "new" ~> page[r] \in {"review", "done", "error"}

\* The clean-up leaves nothing of a consumed or revoked transfer behind.
NothingLeftBehind ==
  stored # None /\ (stored.consumed \/ stored.revoked) => bucket = {}

\* What is stored goes through the life of StoredLifecycle, and no more than
\* the allowance is ever acknowledged.
StoredStatus ==
  IF upload = "new" THEN "none"
  ELSE IF stored = None \/ Gone(stored) THEN "gone"
  ELSE IF stored.complete THEN "available" ELSE "uploading"
Lifecycle == INSTANCE StoredLifecycle
               WITH allowance <- maxDownloads, status <- StoredStatus,
                    downloads <- Cardinality(Acknowledged)
ImplementsLifecycle == Lifecycle!Spec
=============================================================================
