------------------------ MODULE StoredTransfer_proofs ------------------------
(***************************************************************************)
(* What a stored transfer promises, for every number of chunks, every      *)
(* allowance, every finite set of receivers and every set of faults.       *)
(*                                                                         *)
(* There are up to three copies of the record: what is stored, what memory *)
(* holds, and what a handler still holds that outlived both.  The proof    *)
(* shows that they never disagree on what matters: whether the upload is   *)
(* complete, and whether the transfer was ended for good.                  *)
(***************************************************************************)
EXTENDS StoredTransfer, FiniteSetTheorems, TLAPS

Copies == {stored, meta} \ {None}
WithLink == {"done", "forgotten"}            \* the link exists

\* Nothing has happened before the sender asks for a transfer.
Untouched ==
  upload = "new" =>
    /\ stored = None /\ meta = None /\ ~loaded /\ alarm = "done" /\ ~expired
    /\ completing = "idle"

\* How far the upload is, by where uploadStored() is.
UploadOrder ==
  /\ upload \in {"new", "manifest", "chunks"} => completing = "idle"
  /\ upload \in WithLink => completing = "done"
  /\ upload \in {"chunks", "completing"} => fetches[Manifest] = "ok"
  /\ completing # "idle" => \A o \in Objects : fetches[o] = "ok"
  /\ \A o \in Objects :
       puts[o] = "stored" \/ fetches[o] = "ok" => <<UrlId, o>> \in bucket

\* Nobody downloads or revokes before there is a link.
LinkFirst ==
  /\ revoke # "idle" => upload \in WithLink
  /\ \A r \in Receivers : page[r] # "new" => upload \in WithLink
  /\ \A r \in Receivers : commit[r] # "idle" => page[r] \in {"committing", "done"}

UploadSide == Untouched /\ UploadOrder /\ LinkFirst

\* A handler that has read the record still has it in its hands.
Held ==
  /\ loaded => stored # None /\ meta # None
  /\ completing = "checked" => meta # None
  /\ revoke \in {"checked", "marked"} => meta # None
  /\ alarm = "deleting" => meta # None
  /\ \A r \in Receivers : commit[r] = "marked" => meta # None

\* There is one record: what memory holds is what is stored or later, and a
\* handler that outlived the record is alone with it.
OneRecord ==
  /\ ~loaded => stored = None \/ meta = None
  /\ stored # None /\ meta # None =>
       /\ stored.consumed => meta.consumed
       /\ stored.revoked => meta.revoked
  /\ stored = None => upload = "new" \/ expired
  /\ alarm = "deleting" => expired

\* The copies know of the completion as soon as it was answered.
CompleteOnce ==
  \A m \in Copies : m.complete <=> completing = "done"

RevokedForGood ==
  /\ revoke = "marked" => meta.revoked
  /\ revoke = "done" => \A m \in Copies : m.revoked

\* The counter is that of the acknowledged downloads until the last allowed
\* one is being counted, and then no other is.
CountIs ==
  /\ \A m \in Copies :
       ~m.consumed => m.used = Cardinality(Acknowledged) /\ ~Exhausted(m)
  /\ \A r \in Receivers : commit[r] = "marked" =>
       /\ meta.consumed
       /\ maxDownloads = Cardinality(Acknowledged) + 1
       /\ \A s \in Receivers : commit[s] = "marked" => s = r

RecordSide == Held /\ OneRecord /\ CompleteOnce /\ RevokedForGood /\ CountIs

IInv == TypeOK /\ UploadSide /\ RecordSide

-----------------------------------------------------------------------------
(* Lemmas *)

\* A record that was made differs from none.
LEMMA RecordFacts ==
  /\ None \notin Metas /\ None.used = -1
  /\ ~None.complete /\ ~None.consumed /\ ~None.revoked
  /\ NewMeta \in Metas /\ NewMeta.used = 0
  /\ ~NewMeta.complete /\ ~NewMeta.consumed /\ ~NewMeta.revoked
<1>1. None.used = -1 /\ ~None.complete /\ ~None.consumed /\ ~None.revoked
  BY DEF None
<1>2. \A m \in Metas : m.used \in Nat
  BY DEF Metas
<1> DEFINE Records ==
              [complete : BOOLEAN, used : Int, consumed : BOOLEAN, revoked : BOOLEAN]
<1>3. /\ None \in Records
      /\ \A m \in Records :
           LET n == [m EXCEPT !.used = 0] IN
             /\ n \in Metas /\ n.used = 0 /\ n.complete = m.complete
             /\ n.consumed = m.consumed /\ n.revoked = m.revoked
  BY DEF None, Metas
<1>4. /\ NewMeta \in Metas /\ NewMeta.used = 0 /\ NewMeta.complete = None.complete
      /\ NewMeta.consumed = None.consumed /\ NewMeta.revoked = None.revoked
  BY <1>3 DEF NewMeta
<1> QED BY <1>1, <1>2, <1>4

\* The fields of a record that was made.
LEMMA RecordParts ==
  ASSUME NEW m \in Metas
  PROVE  /\ m # None
         /\ m.complete \in BOOLEAN /\ m.used \in Nat /\ m.consumed \in BOOLEAN
         /\ m.revoked \in BOOLEAN
BY RecordFacts DEF Metas

\* complete() marks a record and changes nothing else of it.
LEMMA CompletedRecord ==
  ASSUME NEW m \in Metas
  PROVE  LET n == [m EXCEPT !.complete = TRUE] IN
           /\ n \in Metas /\ n # None
           /\ n.complete /\ n.used = m.used
           /\ n.consumed = m.consumed /\ n.revoked = m.revoked
BY RecordFacts DEF Metas

\* commit() counts one download and changes nothing else of the record.
LEMMA CountedRecord ==
  ASSUME NEW m \in Metas
  PROVE  LET n == [m EXCEPT !.used = @ + 1] IN
           /\ n \in Metas /\ n # None
           /\ n.used = m.used + 1 /\ n.complete = m.complete
           /\ n.consumed = m.consumed /\ n.revoked = m.revoked
BY RecordFacts DEF Metas

\* The last allowed download marks the record consumed, and nothing else.
LEMMA ConsumedRecord ==
  ASSUME NEW m \in Metas
  PROVE  LET n == [m EXCEPT !.consumed = TRUE] IN
           /\ n \in Metas /\ n # None
           /\ n.consumed /\ n.used = m.used
           /\ n.complete = m.complete /\ n.revoked = m.revoked
BY RecordFacts DEF Metas

\* revoke() marks the record and changes nothing else of it.
LEMMA RevokedRecord ==
  ASSUME NEW m \in Metas
  PROVE  LET n == [m EXCEPT !.revoked = TRUE] IN
           /\ n \in Metas /\ n # None
           /\ n.revoked /\ n.used = m.used
           /\ n.complete = m.complete /\ n.consumed = m.consumed
BY RecordFacts DEF Metas

\* The same facts in one.
LEMMA RecordMoves ==
  ASSUME NEW m \in Metas
  PROVE  /\ m # None
         /\ m.complete \in BOOLEAN /\ m.used \in Nat /\ m.consumed \in BOOLEAN
         /\ m.revoked \in BOOLEAN
         /\ LET n == [m EXCEPT !.complete = TRUE] IN
              /\ n \in Metas /\ n.complete /\ n.used = m.used
              /\ n.consumed = m.consumed /\ n.revoked = m.revoked
         /\ LET n == [m EXCEPT !.used = @ + 1] IN
              /\ n \in Metas /\ n.used = m.used + 1 /\ n.complete = m.complete
              /\ n.consumed = m.consumed /\ n.revoked = m.revoked
         /\ LET n == [m EXCEPT !.consumed = TRUE] IN
              /\ n \in Metas /\ n.consumed /\ n.used = m.used
              /\ n.complete = m.complete /\ n.revoked = m.revoked
         /\ LET n == [m EXCEPT !.revoked = TRUE] IN
              /\ n \in Metas /\ n.revoked /\ n.used = m.used
              /\ n.complete = m.complete /\ n.consumed = m.consumed
BY RecordParts, CompletedRecord, CountedRecord, ConsumedRecord, RevokedRecord

\* What a handler finds when it reads the record (loadMeta()).
LEMMA CurrentFacts ==
  ASSUME TypeOK, Untouched, Held, OneRecord, Current # None
  PROVE  /\ Current \in Copies /\ Current \in Metas /\ stored # None /\ upload # "new"
         /\ meta # None => meta = Current
BY DEF TypeOK, Untouched, Held, OneRecord, Current, Copies

\* The objects of a transfer are deleted under an id they do not have.
LEMMA NothingRemoved ==
  ASSUME bucket \subseteq Uploaded, NEW m
  PROVE  Remaining(m) = bucket
BY DEF Remaining, Uploaded, UrlId, ObjectId

LEMMA ObjectFacts ==
  /\ NumChunks \in Nat /\ Manifest \in Objects /\ ChunkIds \subseteq Objects
  /\ Manifest \notin ChunkIds
BY StoredAssumption DEF Objects, ChunkIds, Manifest

\* Counting one more acknowledgement.
LEMMA AcknowledgeOne ==
  ASSUME TypeOK, NEW r \in Receivers, commit[r] # "done",
         commit' = [commit EXCEPT ![r] = "done"]
  PROVE  /\ Cardinality(Acknowledged) \in Nat
         /\ Cardinality(Acknowledged') = Cardinality(Acknowledged) + 1
<1>1. IsFiniteSet(Acknowledged)
  BY ReceiversFinite, FS_Subset DEF Acknowledged
<1>2. Acknowledged' = Acknowledged \cup {r} /\ r \notin Acknowledged
  BY DEF Acknowledged, TypeOK
<1> QED BY <1>1, <1>2, FS_AddElement, FS_CardinalityType

\* The copies may change, but not what they count.
LEMMA CountQuiet ==
  ASSUME CountIs, UNCHANGED <<maxDownloads, commit>>, meta.consumed => meta'.consumed,
         \A m \in Copies' :
           m.consumed \/ \E n \in Copies : ~n.consumed /\ n.used = m.used
  PROVE  CountIs'
<1>1. Acknowledged' = Acknowledged
  BY DEF Acknowledged
<1>2. \A m \in Copies' :
        ~m.consumed => m.used = Cardinality(Acknowledged) /\ ~Exhausted(m)'
  BY DEF CountIs, Exhausted
<1> QED BY <1>1, <1>2 DEF CountIs

\* The record is not touched.
LEMMA RecordQuiet ==
  ASSUME RecordSide, UNCHANGED <<maxDownloads, stored, meta, loaded, alarm, revoke>>,
         expired => expired', upload = "new" => upload' = "new",
         completing' = completing \/ (completing = "idle" /\ completing' = "sent"),
         \A r \in Receivers :
           \/ commit'[r] = commit[r]
           \/ {commit[r], commit'[r]} \cap {"marked", "done"} = {}
  PROVE  RecordSide'
<1>1. /\ \A r \in Receivers : commit'[r] = "marked" <=> commit[r] = "marked"
      /\ Acknowledged' = Acknowledged
  BY DEF Acknowledged
<1>2. Copies' = Copies
  BY DEF Copies
<1>3. Held'
  BY <1>1 DEF RecordSide, Held
<1>4. OneRecord' BY DEF RecordSide, OneRecord
<1>5. CompleteOnce' BY <1>2 DEF RecordSide, CompleteOnce
<1>6. RevokedForGood' BY <1>2 DEF RecordSide, RevokedForGood
<1>7. CountIs' BY <1>1, <1>2 DEF RecordSide, CountIs, Exhausted
<1> QED BY <1>3, <1>4, <1>5, <1>6, <1>7 DEF RecordSide

\* A transfer begins with one record, stored and in memory.
LEMMA CreateStep ==
  ASSUME IInv, Create
  PROVE  IInv'
<1>1. TypeOK'
  BY RecordFacts DEF IInv, TypeOK, Stages, Create, HandleInit, Save, terms, pageVars
<1>2. UploadSide'
  BY DEF IInv, UploadSide, Untouched, UploadOrder, LinkFirst, WithLink, Create,
         HandleInit, Save, terms, pageVars
<1>3. RecordSide'
  <2>1. Held'
    BY RecordFacts DEF IInv, RecordSide, Held, Create, HandleInit, Save, terms, pageVars
  <2>2. OneRecord'
    BY RecordFacts
    DEF IInv, RecordSide, OneRecord, Create, HandleInit, Save, terms, pageVars
  <2>3. CompleteOnce'
    BY RecordFacts
    DEF IInv, UploadSide, Untouched, RecordSide, CompleteOnce, Held, OneRecord, Copies,
        Create, HandleInit, Save, terms, pageVars
  <2>4. RevokedForGood'
    BY RecordFacts, RecordMoves
    DEF IInv, TypeOK, UploadSide, Untouched, UploadOrder, LinkFirst, WithLink,
        RecordSide, RevokedForGood, Held, OneRecord, Copies, Exhausted, Acknowledged,
        Create, HandleInit, Save, terms, objectVars, uploadVars, pageVars
  <2>5. CountIs'
    <3>1. Acknowledged = {} /\ Acknowledged' = {}
      BY DEF IInv, TypeOK, UploadSide, LinkFirst, WithLink, Create, HandleInit, Save,
             Acknowledged, pageVars
    <3>2. Copies' = {NewMeta} /\ \A r \in Receivers : commit'[r] = "idle"
      BY RecordFacts
      DEF IInv, TypeOK, UploadSide, LinkFirst, WithLink, Create, HandleInit, Save,
          Copies, pageVars
    <3>3. Cardinality(Acknowledged') = 0
      BY <3>1, FS_EmptySet
    <3>4. ~Exhausted(NewMeta)'
      BY RecordFacts, StoredAssumption DEF IInv, TypeOK, Create, terms, Exhausted
    <3> QED BY <3>2, <3>3, <3>4, RecordFacts DEF CountIs
  <2> QED BY <2>1, <2>2, <2>3, <2>4, <2>5 DEF RecordSide
<1> QED BY <1>1, <1>2, <1>3 DEF IInv

\* uploadStored() goes on when what it waits for is there.
LEMMA UploadGoesOnStep ==
  ASSUME IInv, UploadGoesOn
  PROVE  IInv'
<1>1. TypeOK'
  BY DEF IInv, TypeOK, Stages, UploadGoesOn, terms, objectVars, pageVars
<1>2. UploadSide'
  <2>1. /\ upload \in {"manifest", "chunks", "completing"} /\ upload' # "new"
        /\ UNCHANGED <<stored, meta, loaded, alarm, expired, puts, fetches, bucket,
                       page, commit, revoke>>
    BY DEF UploadGoesOn, terms, objectVars, uploadVars, pageVars
  <2>2. Untouched'
    BY <2>1 DEF Untouched
  <2>3. LinkFirst'
    BY <2>1 DEF IInv, UploadSide, LinkFirst, WithLink
  <2>4. upload \in {"manifest", "chunks"} => completing = "idle"
    BY DEF IInv, UploadSide, UploadOrder
  <2>5. completing' # "idle" => \A o \in Objects : fetches[o] = "ok"
    BY <2>1, <2>4, ObjectFacts DEF IInv, UploadSide, UploadOrder, UploadGoesOn, Objects
  <2>6. /\ upload' \in {"new", "manifest", "chunks"} => completing' = "idle"
        /\ upload' \in WithLink => completing' = "done"
        /\ upload' \in {"chunks", "completing"} => fetches[Manifest] = "ok"
    BY <2>1, <2>4, <2>5, ObjectFacts
    DEF UploadGoesOn, WithLink, IInv, UploadSide, UploadOrder
  <2>7. UploadOrder'
    BY <2>1, <2>5, <2>6 DEF IInv, UploadSide, UploadOrder
  <2> QED BY <2>2, <2>3, <2>7 DEF UploadSide
<1>3. RecordSide'
  <2>1. completing' = completing \/ (completing = "idle" /\ completing' = "sent")
    BY DEF IInv, UploadSide, UploadOrder, UploadGoesOn
  <2> QED
    BY <2>1, RecordQuiet
    DEF IInv, UploadGoesOn, terms, objectVars, uploadVars, pageVars
<1> QED BY <1>1, <1>2, <1>3 DEF IInv

\* The record is read before the completion.
LEMMA CompleteCheckedStep ==
  ASSUME IInv, CompleteChecked
  PROVE  IInv'
<1>1. TypeOK'
  <2>1. meta' \in Metas \cup {None} /\ loaded' \in BOOLEAN
    BY CurrentFacts DEF IInv, TypeOK, UploadSide, RecordSide, CompleteChecked
  <2>2. completing' \in Stages
    BY CurrentFacts DEF IInv, TypeOK, Stages, CompleteChecked
  <2> QED
    BY <2>1, <2>2
    DEF IInv, TypeOK, CompleteChecked, terms, objectVars, uploadVars, pageVars
<1>2. UploadSide'
  BY DEF IInv, UploadSide, Untouched, UploadOrder, LinkFirst, CompleteChecked, Current,
         terms, pageVars
<1>3. RecordSide'
  <2>1. Held'
    BY DEF IInv, RecordSide, Held, CompleteChecked, Current, terms, pageVars
  <2>2. OneRecord'
    BY DEF IInv, RecordSide, OneRecord, CompleteChecked, Current, terms, pageVars
  <2>3. CompleteOnce'
    BY DEF IInv, RecordSide, CompleteOnce, Copies, CompleteChecked, Current, terms,
           pageVars
  <2>4. RevokedForGood'
    BY RecordFacts
    DEF IInv, UploadSide, Untouched, RecordSide, RevokedForGood, Held, OneRecord,
        Copies, CompleteChecked, Current, terms, pageVars
  <2>5. CountIs'
    <3>1. \A m \in Copies' :
            m.consumed \/ \E n \in Copies : ~n.consumed /\ n.used = m.used
      BY CurrentFacts, RecordFacts, RecordMoves
      DEF IInv, TypeOK, UploadSide, RecordSide, Held, Copies, CompleteChecked, terms,
          objectVars, uploadVars, pageVars
    <3>2. meta.consumed => meta'.consumed
      BY CurrentFacts, RecordFacts DEF IInv, UploadSide, RecordSide, CompleteChecked
    <3> QED
      BY <3>1, <3>2, CountQuiet
      DEF IInv, RecordSide, CompleteChecked, terms, objectVars, uploadVars, pageVars
  <2> QED BY <2>1, <2>2, <2>3, <2>4, <2>5 DEF RecordSide
<1> QED BY <1>1, <1>2, <1>3 DEF IInv

\* The completion is saved with the record.
LEMMA CompleteStoredStep ==
  ASSUME IInv, CompleteStored
  PROVE  IInv'
<1>0. /\ meta \in Metas /\ meta' \in Metas /\ stored' = meta' /\ meta'.complete
      /\ meta'.used = meta.used /\ meta'.consumed = meta.consumed
      /\ meta'.revoked = meta.revoked
  <2>1. meta \in Metas
    BY DEF IInv, TypeOK, RecordSide, Held, CompleteStored
  <2> QED BY <2>1, RecordMoves DEF CompleteStored, Save
<1>1. TypeOK'
  BY <1>0 DEF IInv, TypeOK, Stages, CompleteStored, Save, terms, pageVars
<1>2. UploadSide'
  BY DEF IInv, UploadSide, Untouched, UploadOrder, LinkFirst, CompleteStored, Save,
         terms, pageVars
<1>3. RecordSide'
  <2>1. Held'
    BY <1>0, RecordFacts
    DEF IInv, RecordSide, Held, CompleteStored, Save, terms, pageVars
  <2>2. OneRecord'
    BY <1>0, RecordFacts DEF IInv, RecordSide, OneRecord, CompleteStored, Save, terms
  <2>3. CompleteOnce'
    BY <1>0 DEF CompleteOnce, Copies, CompleteStored
  <2>4. RevokedForGood'
    BY <1>0, RecordFacts
    DEF IInv, RecordSide, RevokedForGood, Copies, CompleteStored, pageVars
  <2>5. CountIs'
    <3>1. \A m \in Copies' :
            m.consumed \/ \E n \in Copies : ~n.consumed /\ n.used = m.used
      BY <1>0 DEF IInv, RecordSide, Held, Copies, CompleteStored
    <3>2. meta.consumed => meta'.consumed
      BY <1>0, CurrentFacts, RecordFacts
      DEF IInv, TypeOK, UploadSide, RecordSide, Held, CompleteStored, Save, terms,
          objectVars, uploadVars, pageVars
    <3> QED
      BY <3>1, <3>2, CountQuiet
      DEF IInv, RecordSide, CompleteStored, terms, objectVars, uploadVars, pageVars
  <2> QED BY <2>1, <2>2, <2>3, <2>4, <2>5 DEF RecordSide
<1> QED BY <1>1, <1>2, <1>3 DEF IInv

\* A PUT that starts has stored nothing.
LEMMA StartPutStep ==
  ASSUME IInv, NEW o \in Objects, StartPut(o)
  PROVE  IInv'
<1>1. TypeOK'
  BY DEF IInv, TypeOK, Stages, StartPut, terms, objectVars, pageVars
<1>2. UploadSide'
  <2>1. /\ fetches[o] # "ok" /\ fetches' = [fetches EXCEPT ![o] = "pending"]
        /\ puts' = [puts EXCEPT ![o] = "sent"]
        /\ fetches[o] = "idle" /\ upload # "new"
    BY DEF StartPut, NextItem
  <2>2. \A p \in Objects :
            /\ fetches'[p] = "ok" => fetches[p] = "ok"
            /\ p # o => fetches'[p] = fetches[p]
            /\ puts'[p] = "stored" => puts[p] = "stored"
    BY <2>1 DEF IInv, TypeOK
  <2>3. upload \in {"chunks", "completing"} => o # Manifest
    BY ObjectFacts DEF StartPut
  <2>4. completing = "idle"
    BY <2>1 DEF IInv, UploadSide, UploadOrder
  <2>5. UploadOrder'
    BY <2>2, <2>3, <2>4, ObjectFacts
    DEF IInv, UploadSide, UploadOrder, StartPut, terms, objectVars, uploadVars, pageVars
  <2>6. Untouched' /\ LinkFirst'
    BY <2>1
    DEF IInv, UploadSide, Untouched, LinkFirst, StartPut, terms, objectVars,
        uploadVars, pageVars
  <2> QED BY <2>5, <2>6 DEF UploadSide
<1>3. RecordSide'
  BY RecordQuiet DEF IInv, StartPut, terms, objectVars, pageVars
<1> QED BY <1>1, <1>2, <1>3 DEF IInv

\* Nor has one that is let through or refused.
LEMMA PutCheckedStep ==
  ASSUME IInv, NEW o \in Objects, PutChecked(o)
  PROVE  IInv'
<1>1. TypeOK'
  BY DEF IInv, TypeOK, Stages, PutChecked, terms, objectVars, pageVars
<1>2. UploadSide'
  BY DEF IInv, UploadSide, Untouched, UploadOrder, LinkFirst, PutChecked, terms,
         objectVars, pageVars
<1>3. RecordSide'
  BY RecordQuiet DEF IInv, PutChecked, terms, objectVars, pageVars
<1> QED BY <1>1, <1>2, <1>3 DEF IInv

\* A stored object is in the bucket.
LEMMA PutStoredStep ==
  ASSUME IInv, NEW o \in Objects, PutStored(o)
  PROVE  IInv'
<1>1. TypeOK'
  <2>1. bucket' \subseteq Uploaded
    BY DEF IInv, TypeOK, PutStored, Uploaded
  <2>2. puts' \in [Objects -> {"idle", "sent", "allowed", "stored", "refused"}]
    BY DEF IInv, TypeOK, PutStored
  <2> QED
    BY <2>1, <2>2
    DEF IInv, TypeOK, PutStored, terms, objectVars, uploadVars, pageVars
<1>2. UploadSide'
  BY DEF IInv, UploadSide, Untouched, UploadOrder, LinkFirst, PutStored, terms,
         objectVars, pageVars
<1>3. RecordSide'
  BY RecordQuiet DEF IInv, PutStored, terms, objectVars, pageVars
<1> QED BY <1>1, <1>2, <1>3 DEF IInv

\* A PUT succeeds when its object is stored.
LEMMA PutAnsweredStep ==
  ASSUME IInv, NEW o \in Objects, PutAnswered(o)
  PROVE  IInv'
<1>1. TypeOK'
  <2>1. fetches' \in [Objects -> {"idle", "pending", "ok", "failed"}]
    BY DEF IInv, TypeOK, PutAnswered
  <2> QED BY <2>1 DEF IInv, TypeOK, PutAnswered, terms, objectVars, uploadVars, pageVars
<1>2. UploadSide'
  BY RecordFacts, NothingRemoved, ObjectFacts
  DEF IInv, TypeOK, UploadSide, Untouched, UploadOrder, LinkFirst, WithLink,
      PutAnswered, terms, objectVars, uploadVars, pageVars
<1>3. RecordSide'
  BY RecordQuiet DEF IInv, PutAnswered, terms, objectVars, pageVars
<1> QED BY <1>1, <1>2, <1>3 DEF IInv

\* A lost PUT is none that succeeded.
LEMMA PutLostStep ==
  ASSUME IInv, NEW o \in Objects, PutLost(o)
  PROVE  IInv'
<1>1. TypeOK'
  BY DEF IInv, TypeOK, Stages, PutLost, terms, objectVars, pageVars
<1>2. UploadSide'
  BY DEF IInv, TypeOK, UploadSide, Untouched, UploadOrder, LinkFirst, WithLink, PutLost,
         terms, objectVars, pageVars
<1>3. RecordSide'
  BY RecordQuiet DEF IInv, PutLost, terms, objectVars, pageVars
<1> QED BY <1>1, <1>2, <1>3 DEF IInv

\* A page goes on with what it has.
LEMMA PageGoesOnStep ==
  ASSUME IInv, NEW r \in Receivers, PageGoesOn(r)
  PROVE  IInv'
<1>1. TypeOK'
  <2>1. page' \in [Receivers -> {"new", "manifest", "review", "downloading",
                             "committing", "done", "error"}]
    BY DEF IInv, TypeOK, PageGoesOn
  <2>2. commit' \in [Receivers -> Stages]
    BY DEF IInv, TypeOK, Stages, PageGoesOn
  <2> QED
    BY <2>1, <2>2
    DEF IInv, TypeOK, PageGoesOn, terms, objectVars, uploadVars, pageVars
<1>2. UploadSide'
  BY DEF IInv, TypeOK, UploadSide, Untouched, UploadOrder, LinkFirst, WithLink,
         PageGoesOn, terms, objectVars, uploadVars
<1>3. RecordSide'
  <2>1. commit[r] = "idle" \/ commit' = commit
    BY DEF IInv, UploadSide, LinkFirst, PageGoesOn
  <2> QED
    BY <2>1, RecordQuiet
    DEF IInv, TypeOK, PageGoesOn, terms, objectVars, uploadVars, pageVars
<1> QED BY <1>1, <1>2, <1>3 DEF IInv

\* A commit counts one, or is the last, or is refused.
LEMMA CommitCountedStep ==
  ASSUME IInv, NEW r \in Receivers, CommitCounted(r)
  PROVE  IInv'
<1>1. UploadSide'
  BY RecordFacts, NothingRemoved, ObjectFacts
  DEF IInv, TypeOK, UploadSide, Untouched, UploadOrder, LinkFirst, WithLink,
      CommitCounted, Current, Save, Gone, terms, objectVars, uploadVars, pageVars
<1> DEFINE m == [Current EXCEPT !.used = @ + 1]
<1>a. CASE /\ Current = None \/ Gone(Current)
           /\ commit' = [commit EXCEPT ![r] = "refused"]
           /\ UNCHANGED objectVars
  <2>1. TypeOK'
    BY <1>a DEF IInv, TypeOK, Stages, CommitCounted, objectVars, terms, uploadVars
  <2>2. RecordSide'
    <3>1. \A s \in Receivers :
            \/ commit'[s] = commit[s]
            \/ {commit[s], commit'[s]} \cap {"marked", "done"} = {}
      BY <1>a DEF IInv, TypeOK, CommitCounted
    <3> QED
      BY <1>a, <3>1, RecordQuiet DEF IInv, CommitCounted, objectVars, terms, uploadVars
  <2> QED BY <1>1, <2>1, <2>2 DEF IInv
<1>b. ASSUME Current # None, ~Gone(Current)
      PROVE  /\ Current \in Metas /\ Current \in Copies /\ m \in Metas /\ m # None
             /\ stored # None /\ upload # "new" /\ (meta # None => meta = Current)
             /\ ~Current.consumed /\ ~Current.revoked
             /\ m.used = Current.used + 1 /\ m.used \in Nat
             /\ m.consumed = Current.consumed
             /\ m.revoked = Current.revoked /\ m.complete = Current.complete
             /\ Current.used = Cardinality(Acknowledged) /\ ~Exhausted(Current)
             /\ \A s \in Receivers : commit[s] # "marked"
  <2>1. /\ Current \in Metas /\ Current \in Copies /\ stored # None /\ upload # "new"
        /\ (meta # None => meta = Current)
    BY <1>b, CurrentFacts DEF IInv, UploadSide, RecordSide
  <2>2. ~Current.consumed /\ ~Current.revoked
    BY <1>b DEF Gone
  <2>3. Current.used = Cardinality(Acknowledged) /\ ~Exhausted(Current)
    BY <2>1, <2>2 DEF IInv, RecordSide, CountIs
  <2>4. \A s \in Receivers : commit[s] # "marked"
    BY <2>1, <2>2 DEF IInv, RecordSide, CountIs, Held
  <2> QED BY <2>1, <2>2, <2>3, <2>4, RecordParts, CountedRecord
<1>c. CASE /\ Current # None /\ ~Gone(Current) /\ ~Exhausted(m)
           /\ commit' = [commit EXCEPT ![r] = "done"]
           /\ Save(m) /\ UNCHANGED alarm
  <2> HIDE DEF m
  <2>1. stored' = m /\ meta' = m /\ loaded' = TRUE
    BY <1>c DEF Save
  <2>2. /\ \A s \in Receivers : commit'[s] # "marked"
        /\ Cardinality(Acknowledged') = Cardinality(Acknowledged) + 1
    <3>1. commit[r] # "done"
      BY DEF CommitCounted
    <3> QED BY <1>b, <1>c, <3>1, AcknowledgeOne DEF IInv, TypeOK
  <2>3. TypeOK'
    BY <1>b, <1>c, <2>1 DEF IInv, TypeOK, Stages, CommitCounted, terms, uploadVars
  <2>4. /\ UNCHANGED <<maxDownloads, expired, alarm, completing, revoke, upload>>
        /\ Copies' = {m}
    BY <1>b, <1>c, <2>1 DEF CommitCounted, terms, uploadVars, Copies
  <2>5. Held' /\ OneRecord'
    BY <1>b, <1>c, <2>1, <2>2, <2>4 DEF Held, OneRecord, IInv, RecordSide
  <2>6. CompleteOnce'
    BY <1>b, <1>c, <2>4 DEF CompleteOnce, IInv, RecordSide
  <2>7. revoke' \notin {"marked", "done"}
    BY <1>b, <1>c, <2>4 DEF RevokedForGood, IInv, RecordSide, Held
  <2>8. CountIs'
    BY <1>b, <1>c, <2>2, <2>4 DEF CountIs, Exhausted
  <2> QED BY <1>1, <2>3, <2>5, <2>6, <2>7, <2>8 DEF IInv, RecordSide, RevokedForGood
<1>d. CASE /\ Current # None /\ ~Gone(Current) /\ Exhausted(m)
           /\ commit' = [commit EXCEPT ![r] = "marked"]
           /\ meta' = [m EXCEPT !.consumed = TRUE] /\ loaded' = TRUE
           /\ UNCHANGED <<stored, alarm>>
  <2> HIDE DEF m
  <2>1. /\ meta' \in Metas /\ meta' # None /\ meta'.consumed
        /\ meta'.complete = Current.complete /\ meta'.revoked = Current.revoked
    BY <1>b, <1>d, ConsumedRecord
  <2>2. UNCHANGED <<maxDownloads, expired, stored, alarm, completing, revoke, upload>>
    BY <1>d DEF CommitCounted, terms, uploadVars
  <2>3. TypeOK'
    BY <1>d, <2>1 DEF IInv, TypeOK, Stages, CommitCounted, terms, uploadVars
  <2>4. /\ Acknowledged' = Acknowledged
        /\ \A s \in Receivers : commit'[s] = "marked" <=> s = r
    <3>1. commit[r] # "done"
      BY DEF CommitCounted
    <3> QED BY <1>b, <1>d, <3>1 DEF IInv, TypeOK, Acknowledged
  <2>5. maxDownloads = Cardinality(Acknowledged) + 1
    <3>1. maxDownloads \in Nat
      BY StoredAssumption DEF IInv, TypeOK
    <3>2. Current.used \in Nat
      BY <1>b, <1>d, RecordParts
    <3> QED BY <1>b, <1>d, <3>1, <3>2 DEF Exhausted
  <2>6. Held' /\ OneRecord'
    <3>1. stored.revoked => Current.revoked
      BY <1>b, <1>d DEF OneRecord, IInv, RecordSide, Current
    <3>2. Held'
      BY <1>b, <1>d, <2>1, <2>2 DEF Held
    <3>3. OneRecord'
      BY <1>b, <1>d, <2>1, <2>2, <3>1 DEF OneRecord, IInv, RecordSide
    <3> QED BY <3>2, <3>3
  <2>7. CompleteOnce' /\ RevokedForGood'
    <3>1. CompleteOnce'
      BY <1>b, <1>d, <2>1, <2>2 DEF CompleteOnce, Copies, IInv, RecordSide
    <3>2. revoke' \notin {"marked", "done"}
      BY <1>b, <1>d, <2>2 DEF RevokedForGood, IInv, RecordSide, Held
    <3> QED BY <3>1, <3>2 DEF RevokedForGood
  <2>8. CountIs'
    <3>1. \A n \in Copies' : ~n.consumed =>
            n.used = Cardinality(Acknowledged') /\ ~Exhausted(n)'
      BY <2>1, <2>2, <2>4 DEF Copies, IInv, RecordSide, CountIs, Exhausted
    <3>2. maxDownloads' = Cardinality(Acknowledged') + 1
      BY <2>2, <2>4, <2>5
    <3> QED BY <2>1, <2>4, <3>1, <3>2 DEF CountIs, Exhausted
  <2> QED BY <1>1, <2>3, <2>6, <2>7, <2>8 DEF IInv, RecordSide
<1> QED BY <1>a, <1>c, <1>d DEF CommitCounted

\* The last allowed download is acknowledged.
LEMMA CommitStoredStep ==
  ASSUME IInv, NEW r \in Receivers, CommitStored(r)
  PROVE  IInv'
<1>1. TypeOK'
  BY NothingRemoved DEF IInv, TypeOK, Stages, CommitStored, Save, terms, uploadVars
<1>2. UploadSide'
  BY NothingRemoved
  DEF IInv, TypeOK, UploadSide, Untouched, UploadOrder, LinkFirst, WithLink,
      CommitStored, Save, terms, uploadVars
<1>3. RecordSide'
  <2>1. Held'
    BY DEF IInv, RecordSide, Held, CommitStored, Save, terms, uploadVars
  <2>2. OneRecord'
    BY RecordFacts
    DEF IInv, UploadSide, Untouched, RecordSide, OneRecord, Held, CommitStored, Save,
        terms, uploadVars
  <2>3. CompleteOnce'
    BY DEF IInv, RecordSide, CompleteOnce, Copies, CommitStored, Save, terms, uploadVars
  <2>4. RevokedForGood'
    BY DEF IInv, RecordSide, RevokedForGood, Copies, CommitStored, Save, terms,
           uploadVars
  <2>5. CountIs'
    <3>1. meta # None /\ meta.consumed
      BY DEF IInv, RecordSide, Held, CountIs, CommitStored
    <3>2. \A s \in Receivers : commit'[s] # "marked"
      BY DEF IInv, TypeOK, RecordSide, CountIs, CommitStored
    <3>3. stored' = meta /\ meta' = meta
      BY DEF CommitStored, Save
    <3> QED BY <3>1, <3>2, <3>3 DEF CountIs, Copies
  <2> QED BY <2>1, <2>2, <2>3, <2>4, <2>5 DEF RecordSide
<1> QED BY <1>1, <1>2, <1>3 DEF IInv

\* GETs change nothing at the object.
LEMMA StartGetStep ==
  ASSUME IInv, NEW r \in Receivers, NEW i \in ChunkIds, StartGet(r, i)
  PROVE  IInv'
<1>1. TypeOK'
  BY ObjectFacts DEF IInv, TypeOK, StartGet, terms, objectVars, uploadVars
<1>2. UploadSide'
  BY DEF IInv, UploadSide, Untouched, UploadOrder, LinkFirst, StartGet, terms,
         objectVars, uploadVars
<1>3. RecordSide'
  BY RecordQuiet DEF IInv, StartGet, terms, objectVars, uploadVars
<1> QED BY <1>1, <1>2, <1>3 DEF IInv

\* The same.
LEMMA GetCheckedStep ==
  ASSUME IInv, NEW r \in Receivers, NEW o \in Objects, GetChecked(r, o)
  PROVE  IInv'
<1>1. TypeOK'
  BY DEF IInv, TypeOK, Stages, GetChecked, terms, objectVars, uploadVars
<1>2. UploadSide'
  BY DEF IInv, UploadSide, Untouched, UploadOrder, LinkFirst, GetChecked, terms,
         objectVars, uploadVars
<1>3. RecordSide'
  BY RecordQuiet DEF IInv, GetChecked, terms, objectVars, uploadVars
<1> QED BY <1>1, <1>2, <1>3 DEF IInv

\* The same.
LEMMA GetServedStep ==
  ASSUME IInv, NEW r \in Receivers, NEW o \in Objects, GetServed(r, o)
  PROVE  IInv'
<1>1. TypeOK'
  <2>1. gets' \in
          [Receivers -> [Objects -> {"idle", "sent", "allowed", "ok", "refused"}]]
    BY DEF IInv, TypeOK, GetServed
  <2> QED BY <2>1 DEF IInv, TypeOK, GetServed, terms, objectVars, uploadVars, pageVars
<1>2. UploadSide'
  BY DEF IInv, UploadSide, Untouched, UploadOrder, LinkFirst, GetServed, terms,
         objectVars, uploadVars
<1>3. RecordSide'
  BY RecordQuiet DEF IInv, GetServed, terms, objectVars, uploadVars
<1> QED BY <1>1, <1>2, <1>3 DEF IInv

\* A revocation is asked for.
LEMMA RevokeStep ==
  ASSUME IInv, Revoke
  PROVE  IInv'
<1>1. TypeOK'
  BY DEF IInv, TypeOK, Stages, Revoke, terms, objectVars, pageVars
<1>2. UploadSide'
  BY DEF IInv, UploadSide, Untouched, UploadOrder, LinkFirst, WithLink, Revoke, terms,
         objectVars, pageVars
<1>3. RecordSide'
  <2>1. Held'
    BY DEF IInv, RecordSide, Held, Revoke, terms, objectVars, pageVars
  <2>2. OneRecord'
    BY DEF IInv, RecordSide, OneRecord, Revoke, terms, objectVars, pageVars
  <2>3. CompleteOnce'
    BY DEF IInv, RecordSide, CompleteOnce, Copies, Revoke, terms, objectVars, pageVars
  <2>4. RevokedForGood'
    BY DEF IInv, RecordSide, RevokedForGood, Copies, Revoke, terms, objectVars, pageVars
  <2>5. CountIs'
    <3>1. \A m \in Copies' :
            m.consumed \/ \E n \in Copies : ~n.consumed /\ n.used = m.used
      BY CurrentFacts, RecordFacts, RecordMoves
      DEF IInv, TypeOK, UploadSide, RecordSide, Held, Copies, Revoke, terms,
          objectVars, uploadVars, pageVars
    <3>2. meta.consumed => meta'.consumed
      BY CurrentFacts, RecordFacts, RecordMoves
      DEF IInv, TypeOK, UploadSide, RecordSide, Held, Revoke, terms, objectVars,
          uploadVars, pageVars
    <3> QED
      BY <3>1, <3>2, CountQuiet
      DEF IInv, RecordSide, Revoke, terms, objectVars, uploadVars, pageVars
  <2> QED BY <2>1, <2>2, <2>3, <2>4, <2>5 DEF RecordSide
<1> QED BY <1>1, <1>2, <1>3 DEF IInv

\* The record is read before the revocation.
LEMMA RevokeCheckedStep ==
  ASSUME IInv, RevokeChecked
  PROVE  IInv'
<1>1. TypeOK'
  <2>1. meta' \in Metas \cup {None} /\ loaded' \in BOOLEAN
    BY CurrentFacts DEF IInv, TypeOK, UploadSide, RecordSide, RevokeChecked
  <2>2. revoke' \in Stages
    BY CurrentFacts DEF IInv, TypeOK, Stages, RevokeChecked
  <2> QED
    BY <2>1, <2>2
    DEF IInv, TypeOK, RevokeChecked, terms, objectVars, uploadVars, pageVars
<1>2. UploadSide'
  BY DEF IInv, UploadSide, Untouched, UploadOrder, LinkFirst, RevokeChecked, Current,
         terms, pageVars
<1>3. RecordSide'
  <2>1. Held'
    BY DEF IInv, RecordSide, Held, RevokeChecked, Current, terms, pageVars
  <2>2. OneRecord'
    BY DEF IInv, RecordSide, OneRecord, RevokeChecked, Current, terms, pageVars
  <2>3. CompleteOnce'
    BY DEF IInv, RecordSide, CompleteOnce, Copies, RevokeChecked, Current, terms,
           pageVars
  <2>4. RevokedForGood'
    BY DEF IInv, RecordSide, RevokedForGood, Copies, RevokeChecked, Current, terms,
           pageVars
  <2>5. CountIs'
    <3>1. \A m \in Copies' :
            m.consumed \/ \E n \in Copies : ~n.consumed /\ n.used = m.used
      BY CurrentFacts, RecordFacts, RecordMoves
      DEF IInv, TypeOK, UploadSide, RecordSide, Held, Copies, RevokeChecked, terms,
          objectVars, uploadVars, pageVars
    <3>2. meta.consumed => meta'.consumed
      BY CurrentFacts, RecordFacts DEF IInv, UploadSide, RecordSide, RevokeChecked
    <3> QED
      BY <3>1, <3>2, CountQuiet
      DEF IInv, RecordSide, RevokeChecked, terms, objectVars, uploadVars, pageVars
  <2> QED BY <2>1, <2>2, <2>3, <2>4, <2>5 DEF RecordSide
<1> QED BY <1>1, <1>2, <1>3 DEF IInv

\* The copy in memory is marked first.
LEMMA RevokeMarkedStep ==
  ASSUME IInv, RevokeMarked
  PROVE  IInv'
<1>0. /\ meta \in Metas /\ meta' \in Metas /\ meta'.revoked
      /\ meta'.used = meta.used /\ meta'.consumed = meta.consumed
      /\ meta'.complete = meta.complete
  <2>1. meta \in Metas
    BY DEF IInv, TypeOK, RecordSide, Held, RevokeMarked
  <2> QED BY <2>1, RecordMoves DEF RevokeMarked
<1>1. TypeOK'
  BY <1>0 DEF IInv, TypeOK, Stages, RevokeMarked, terms, pageVars
<1>2. UploadSide'
  BY DEF IInv, UploadSide, Untouched, UploadOrder, LinkFirst, RevokeMarked, terms,
         pageVars
<1>3. RecordSide'
  <2>1. Held'
    BY RecordFacts, RecordMoves
    DEF IInv, TypeOK, UploadSide, Untouched, UploadOrder, LinkFirst, WithLink,
        RecordSide, Held, OneRecord, Exhausted, Acknowledged, RevokeMarked, terms,
        objectVars, uploadVars, pageVars
  <2>2. OneRecord'
    BY RecordFacts
    DEF IInv, UploadSide, Untouched, RecordSide, OneRecord, Held, RevokeMarked, terms,
        pageVars
  <2>3. CompleteOnce'
    BY <1>0, RecordFacts
    DEF IInv, RecordSide, CompleteOnce, Copies, RevokeMarked, terms, objectVars,
        uploadVars, pageVars
  <2>4. RevokedForGood'
    BY DEF IInv, RecordSide, RevokedForGood, Copies, RevokeMarked, terms, pageVars
  <2>5. CountIs'
    <3>1. \A m \in Copies' :
            m.consumed \/ \E n \in Copies : ~n.consumed /\ n.used = m.used
      BY <1>0, CurrentFacts, RecordFacts
      DEF IInv, TypeOK, UploadSide, RecordSide, Held, Copies, RevokeMarked, terms,
          objectVars, uploadVars, pageVars
    <3>2. meta.consumed => meta'.consumed
      BY <1>0, CurrentFacts, RecordFacts
      DEF IInv, TypeOK, UploadSide, RecordSide, Held, RevokeMarked, terms, objectVars,
          uploadVars, pageVars
    <3> QED
      BY <3>1, <3>2, CountQuiet
      DEF IInv, RecordSide, RevokeMarked, terms, objectVars, uploadVars, pageVars
  <2> QED BY <2>1, <2>2, <2>3, <2>4, <2>5 DEF RecordSide
<1> QED BY <1>1, <1>2, <1>3 DEF IInv

\* Then it is stored.
LEMMA RevokeStoredStep ==
  ASSUME IInv, RevokeStored
  PROVE  IInv'
<1>1. TypeOK'
  BY RecordFacts, RecordMoves, NothingRemoved, ObjectFacts
  DEF IInv, TypeOK, Stages, RevokeStored, Save, terms, objectVars, uploadVars, pageVars
<1>2. UploadSide'
  BY NothingRemoved
  DEF IInv, TypeOK, UploadSide, Untouched, UploadOrder, LinkFirst, WithLink,
      RevokeStored, Save, terms, pageVars
<1>3. RecordSide'
  <2>1. Held'
    BY DEF IInv, RecordSide, Held, RevokeStored, Save, terms, pageVars
  <2>2. OneRecord'
    BY RecordFacts
    DEF IInv, UploadSide, Untouched, RecordSide, OneRecord, Held, RevokeStored, Save,
        terms, pageVars
  <2>3. CompleteOnce'
    BY DEF IInv, RecordSide, CompleteOnce, Copies, RevokeStored, Save, terms, pageVars
  <2>4. RevokedForGood'
    BY DEF IInv, RecordSide, RevokedForGood, Copies, RevokeStored, Save, terms, pageVars
  <2>5. CountIs'
    <3>1. \A m \in Copies' :
            m.consumed \/ \E n \in Copies : ~n.consumed /\ n.used = m.used
      BY CurrentFacts, RecordFacts, RecordMoves
      DEF IInv, TypeOK, UploadSide, RecordSide, Held, Copies, RevokeStored, Save,
          terms, objectVars, uploadVars, pageVars
    <3>2. meta.consumed => meta'.consumed
      BY CurrentFacts, RecordFacts, RecordMoves
      DEF IInv, TypeOK, UploadSide, RecordSide, Held, RevokeStored, Save, terms,
          objectVars, uploadVars, pageVars
    <3> QED
      BY <3>1, <3>2, CountQuiet
      DEF IInv, RecordSide, RevokeStored, terms, objectVars, uploadVars, pageVars
  <2> QED BY <2>1, <2>2, <2>3, <2>4, <2>5 DEF RecordSide
<1> QED BY <1>1, <1>2, <1>3 DEF IInv

\* The panel forgets the transfer; the record does not change.
LEMMA RevokeAnsweredStep ==
  ASSUME IInv, RevokeAnswered
  PROVE  IInv'
<1>1. TypeOK'
  BY DEF IInv, TypeOK, Stages, RevokeAnswered, terms, objectVars, pageVars
<1>2. UploadSide'
  BY DEF IInv, UploadSide, Untouched, UploadOrder, LinkFirst, WithLink, RevokeAnswered,
         terms, objectVars, pageVars
<1>3. RecordSide'
  <2>1. Held'
    BY DEF IInv, RecordSide, Held, RevokeAnswered, terms, objectVars, pageVars
  <2>2. OneRecord'
    BY DEF IInv, RecordSide, OneRecord, RevokeAnswered, terms, objectVars, pageVars
  <2>3. CompleteOnce'
    BY DEF IInv, RecordSide, CompleteOnce, Copies, RevokeAnswered, terms, objectVars,
           pageVars
  <2>4. RevokedForGood'
    BY DEF IInv, RecordSide, RevokedForGood, Copies, RevokeAnswered, terms, objectVars,
           pageVars
  <2>5. CountIs'
    <3>1. \A m \in Copies' :
            m.consumed \/ \E n \in Copies : ~n.consumed /\ n.used = m.used
      BY CurrentFacts, RecordFacts, RecordMoves
      DEF IInv, TypeOK, UploadSide, RecordSide, Held, Copies, RevokeAnswered, terms,
          objectVars, uploadVars, pageVars
    <3>2. meta.consumed => meta'.consumed
      BY CurrentFacts, RecordFacts, RecordMoves
      DEF IInv, TypeOK, UploadSide, RecordSide, Held, RevokeAnswered, terms,
          objectVars, uploadVars, pageVars
    <3> QED
      BY <3>1, <3>2, CountQuiet
      DEF IInv, RecordSide, RevokeAnswered, terms, objectVars, uploadVars, pageVars
  <2> QED BY <2>1, <2>2, <2>3, <2>4, <2>5 DEF RecordSide
<1> QED BY <1>1, <1>2, <1>3 DEF IInv

\* A page opens a link that exists.
LEMMA OpenLinkStep ==
  ASSUME IInv, NEW r \in Receivers, OpenLink(r)
  PROVE  IInv'
<1>1. TypeOK'
  <2>1. page' \in [Receivers -> {"new", "manifest", "review", "downloading",
                             "committing", "done", "error"}]
    BY ObjectFacts DEF IInv, TypeOK, OpenLink
  <2>2. gets' \in
          [Receivers -> [Objects -> {"idle", "sent", "allowed", "ok", "refused"}]]
    <3>1. \A g \in [Objects -> {"idle", "sent", "allowed", "ok", "refused"}] :
            [g EXCEPT ![Manifest] = "sent"]
              \in [Objects -> {"idle", "sent", "allowed", "ok", "refused"}]
      BY ObjectFacts
    <3>2. gets \in
            [Receivers -> [Objects -> {"idle", "sent", "allowed", "ok", "refused"}]]
      BY DEF IInv, TypeOK
    <3>3. gets' = gets \/ gets' = [gets EXCEPT ![r] = [@ EXCEPT ![Manifest] = "sent"]]
      BY DEF OpenLink
    <3> QED BY <3>1, <3>2, <3>3
  <2> QED
    BY <2>1, <2>2
    DEF IInv, TypeOK, OpenLink, terms, objectVars, uploadVars, pageVars
<1>2. UploadSide'
  BY DEF IInv, TypeOK, UploadSide, Untouched, UploadOrder, LinkFirst, WithLink,
         OpenLink, terms, objectVars, uploadVars
<1>3. RecordSide'
  BY RecordQuiet DEF IInv, OpenLink, terms, objectVars, uploadVars
<1> QED BY <1>1, <1>2, <1>3 DEF IInv

\* The user goes on.
LEMMA DownloadStep ==
  ASSUME IInv, NEW r \in Receivers, Download(r)
  PROVE  IInv'
<1>1. TypeOK'
  BY DEF IInv, TypeOK, Stages, Download, terms, objectVars, uploadVars
<1>2. UploadSide'
  BY DEF IInv, UploadSide, Untouched, UploadOrder, LinkFirst, Download, terms,
         objectVars, uploadVars
<1>3. RecordSide'
  BY RecordQuiet DEF IInv, Download, terms, objectVars, uploadVars
<1> QED BY <1>1, <1>2, <1>3 DEF IInv

\* The alarm finds something to clean up, or nothing.
LEMMA AlarmFiresStep ==
  ASSUME IInv, AlarmFires
  PROVE  IInv'
<1>1. TypeOK'
  <2>1. meta' \in Metas \cup {None} /\ loaded' \in BOOLEAN
    BY CurrentFacts DEF IInv, TypeOK, UploadSide, RecordSide, AlarmFires
  <2>2. alarm' \in {"set", "deleting", "done"}
    BY CurrentFacts DEF IInv, TypeOK, AlarmFires
  <2> QED
    BY <2>1, <2>2
    DEF IInv, TypeOK, AlarmFires, terms, objectVars, uploadVars, pageVars
<1>2. UploadSide'
  BY DEF IInv, UploadSide, Untouched, UploadOrder, LinkFirst, AlarmFires, Current,
         terms, uploadVars, pageVars
<1>3. RecordSide'
  <2>1. Held'
    BY DEF IInv, RecordSide, Held, AlarmFires, Current, terms, uploadVars, pageVars
  <2>2. OneRecord'
    BY DEF IInv, RecordSide, OneRecord, AlarmFires, Current, terms, uploadVars, pageVars
  <2>3. CompleteOnce'
    BY DEF IInv, RecordSide, CompleteOnce, Copies, AlarmFires, Current, terms,
           uploadVars, pageVars
  <2>4. RevokedForGood'
    BY RecordFacts
    DEF IInv, UploadSide, Untouched, RecordSide, RevokedForGood, Held, OneRecord,
        Copies, AlarmFires, Current, terms, uploadVars, pageVars
  <2>5. CountIs'
    <3>1. \A m \in Copies' :
            m.consumed \/ \E n \in Copies : ~n.consumed /\ n.used = m.used
      BY CurrentFacts, RecordFacts, RecordMoves
      DEF IInv, TypeOK, UploadSide, RecordSide, Held, Copies, AlarmFires, terms,
          objectVars, uploadVars, pageVars
    <3>2. meta.consumed => meta'.consumed
      BY CurrentFacts, RecordFacts DEF IInv, UploadSide, RecordSide, AlarmFires
    <3> QED
      BY <3>1, <3>2, CountQuiet
      DEF IInv, RecordSide, AlarmFires, terms, objectVars, uploadVars, pageVars
  <2> QED BY <2>1, <2>2, <2>3, <2>4, <2>5 DEF RecordSide
<1> QED BY <1>1, <1>2, <1>3 DEF IInv

\* The alarm deletes the record, not the copy a handler holds.
LEMMA AlarmDoneStep ==
  ASSUME IInv, AlarmDone
  PROVE  IInv'
<1>1. TypeOK'
  BY NothingRemoved DEF IInv, TypeOK, AlarmDone, terms, uploadVars, pageVars
<1>2. UploadSide'
  BY NothingRemoved
  DEF IInv, TypeOK, UploadSide, Untouched, UploadOrder, LinkFirst, WithLink, AlarmDone,
      terms, uploadVars, pageVars
<1>3. RecordSide'
  <2>1. Held'
    BY DEF IInv, RecordSide, Held, AlarmDone, terms, uploadVars, pageVars
  <2>2. OneRecord'
    BY DEF IInv, RecordSide, OneRecord, AlarmDone, terms, uploadVars, pageVars
  <2>3. CompleteOnce'
    BY DEF IInv, RecordSide, CompleteOnce, Copies, AlarmDone, terms, uploadVars,
           pageVars
  <2>4. RevokedForGood'
    BY DEF IInv, RecordSide, RevokedForGood, Copies, AlarmDone, terms, uploadVars,
           pageVars
  <2>5. CountIs'
    <3>1. \A m \in Copies' :
            m.consumed \/ \E n \in Copies : ~n.consumed /\ n.used = m.used
      BY CurrentFacts, RecordFacts, RecordMoves
      DEF IInv, TypeOK, UploadSide, RecordSide, Held, Copies, AlarmDone, terms,
          objectVars, uploadVars, pageVars
    <3>2. meta.consumed => meta'.consumed
      BY CurrentFacts, RecordFacts, RecordMoves
      DEF IInv, TypeOK, UploadSide, RecordSide, Held, AlarmDone, terms, objectVars,
          uploadVars, pageVars
    <3> QED
      BY <3>1, <3>2, CountQuiet
      DEF IInv, RecordSide, AlarmDone, terms, objectVars, uploadVars, pageVars
  <2> QED BY <2>1, <2>2, <2>3, <2>4, <2>5 DEF RecordSide
<1> QED BY <1>1, <1>2, <1>3 DEF IInv

\* The time is over.
LEMMA ExpireStep ==
  ASSUME IInv, Expire
  PROVE  IInv'
<1>1. TypeOK'
  BY DEF IInv, TypeOK, Expire, objectVars, uploadVars, pageVars
<1>2. UploadSide'
  BY DEF IInv, UploadSide, Untouched, UploadOrder, LinkFirst, Expire, objectVars,
         uploadVars, pageVars
<1>3. RecordSide'
  BY RecordQuiet DEF IInv, Expire, objectVars, uploadVars, pageVars
<1> QED BY <1>1, <1>2, <1>3 DEF IInv

\* What was in memory is gone, with the handlers that held it.
LEMMA CrashStep ==
  ASSUME IInv, Crash
  PROVE  IInv'
<1>1. TypeOK'
  BY DEF IInv, TypeOK, Stages, Crash, Broken, terms
<1>2. UploadSide'
  BY DEF IInv, UploadSide, Untouched, UploadOrder, LinkFirst, Crash, Broken, terms
<1>3. RecordSide'
  <2>1. Held'
    BY DEF IInv, RecordSide, Held, Crash, Broken, terms
  <2>2. OneRecord'
    BY DEF IInv, RecordSide, OneRecord, Crash, Broken, terms
  <2>3. CompleteOnce'
    BY DEF IInv, RecordSide, CompleteOnce, Copies, Crash, Broken, terms
  <2>4. RevokedForGood'
    BY DEF IInv, RecordSide, RevokedForGood, Copies, Crash, Broken, terms
  <2>5. CountIs'
    <3>1. \A r \in Receivers : commit'[r] # "marked"
      BY DEF Crash, Broken
    <3>2. Acknowledged' = Acknowledged
      BY DEF Crash, Broken, Acknowledged
    <3>3. \A m \in Copies' : m \in Copies
      BY DEF Crash, Copies
    <3> QED BY <3>1, <3>2, <3>3 DEF IInv, RecordSide, CountIs, Exhausted, Crash, terms
  <2> QED BY <2>1, <2>2, <2>3, <2>4, <2>5 DEF RecordSide
<1> QED BY <1>1, <1>2, <1>3 DEF IInv

-----------------------------------------------------------------------------
(* The invariant *)

\* Before anything has happened.
LEMMA InitIInv ==
  ASSUME Init
  PROVE  IInv
<1>1. Acknowledged = {} /\ Copies = {}
  BY DEF Init, Acknowledged, Copies
<1>2. TypeOK
  BY ObjectFacts DEF Init, TypeOK, Stages, Uploaded
<1>3. UploadSide
  BY DEF Init, UploadSide, Untouched, UploadOrder, LinkFirst, WithLink
<1>4. RecordSide
  BY <1>1 DEF Init, RecordSide, Held, OneRecord, CompleteOnce, RevokedForGood, CountIs
<1> QED BY <1>2, <1>3, <1>4 DEF IInv

\* Nothing has happened.
LEMMA StutterIInv ==
  ASSUME IInv, UNCHANGED vars
  PROVE  IInv'
<1>1. TypeOK'
  BY DEF IInv, TypeOK, vars, terms, objectVars, uploadVars, pageVars
<1>2. UploadSide'
  BY DEF IInv, UploadSide, Untouched, UploadOrder, LinkFirst, vars, terms, objectVars,
         uploadVars, pageVars
<1>3. RecordSide'
  BY RecordQuiet DEF IInv, vars, terms, objectVars, uploadVars, pageVars
<1> QED BY <1>1, <1>2, <1>3 DEF IInv

\* IInv is an invariant of a stored transfer.
THEOREM StoredInvariance == Spec => []IInv
<1>1. IInv /\ [Next]_vars => IInv'
  <2> SUFFICES ASSUME IInv, [Next]_vars PROVE IInv'
    OBVIOUS
  <2>1. CASE Uploader
    BY <2>1, CreateStep, UploadGoesOnStep, CompleteCheckedStep, CompleteStoredStep,
       StartPutStep, PutCheckedStep, PutStoredStep, PutAnsweredStep DEF Uploader
  <2>2. ASSUME NEW o \in Objects, PutLost(o) PROVE IInv'
    BY <2>2, PutLostStep
  <2>3. CASE Revoke \/ RevokeChecked \/ RevokeMarked \/ RevokeStored \/ RevokeAnswered
    BY <2>3, RevokeStep, RevokeCheckedStep, RevokeMarkedStep, RevokeStoredStep,
       RevokeAnsweredStep
  <2>4. ASSUME NEW r \in Receivers, Receiver(r) \/ OpenLink(r) \/ Download(r)
        PROVE  IInv'
    BY <2>4, PageGoesOnStep, CommitCountedStep, CommitStoredStep, StartGetStep,
       GetCheckedStep, GetServedStep, OpenLinkStep, DownloadStep DEF Receiver
  <2>5. CASE AlarmFires \/ AlarmDone \/ Expire \/ Crash
    BY <2>5, AlarmFiresStep, AlarmDoneStep, ExpireStep, CrashStep
  <2>6. CASE UNCHANGED vars
    BY <2>6, StutterIInv
  <2> QED BY <2>1, <2>2, <2>3, <2>4, <2>5, <2>6 DEF Next
<1> QED BY InitIInv, <1>1, PTL DEF Spec

\* Every variable has its type.
THEOREM StoredTypes == Spec => []TypeOK
<1>1. IInv => TypeOK
  BY DEF IInv
<1> QED BY <1>1, StoredInvariance, PTL

-----------------------------------------------------------------------------
(* What follows *)

\* What is offered was completed, and what was completed is in the bucket.
LEMMA OfferedThere ==
  ASSUME IInv
  PROVE  OfferedIsThere
<1> SUFFICES ASSUME Status = "available" PROVE Uploaded \subseteq bucket
  BY DEF OfferedIsThere
<1>1. Current # None /\ Current.complete
  BY DEF Status
<1>2. Current \in Copies
  BY <1>1, CurrentFacts DEF IInv, UploadSide, RecordSide
<1>3. completing = "done"
  BY <1>1, <1>2 DEF IInv, RecordSide, CompleteOnce
<1> QED BY <1>3 DEF IInv, UploadSide, UploadOrder, Uploaded

\* A transfer that is offered has its manifest and every chunk in the bucket,
\* however many PUTs ran at once, failed or were answered late (store.ts
\* fetchObject(), index.ts).
THEOREM StoredOffer == Spec => []OfferedIsThere
BY StoredInvariance, OfferedThere, PTL

\* While it is offered nothing is written to it or deleted from it: a PUT that
\* was let through before the completion finds its object there already
\* (store.ts isUploadable(), index.ts).
THEOREM StoredFrozen == Spec => Frozen
<1>1. IInv /\ [Next]_vars => [Status = "available" => bucket' = bucket]_vars
  <2> SUFFICES ASSUME IInv, Next, Status = "available" PROVE bucket' = bucket
    BY DEF vars
  <2>1. /\ bucket \subseteq Uploaded /\ Uploaded \subseteq bucket
    BY OfferedThere DEF IInv, TypeOK, OfferedIsThere
  <2>2. CASE \E o \in Objects : PutStored(o)
    BY <2>1, <2>2 DEF PutStored, Uploaded
  <2>3. CASE RevokeStored \/ AlarmDone \/ \E r \in Receivers : CommitStored(r)
    BY <2>1, <2>3, NothingRemoved DEF RevokeStored, AlarmDone, CommitStored
  <2>4. CASE /\ \A o \in Objects : ~PutStored(o)
             /\ ~RevokeStored /\ ~AlarmDone /\ \A r \in Receivers : ~CommitStored(r)
    BY <2>4
    DEF Next, Uploader, Receiver, Create, HandleInit, Save, UploadGoesOn,
        CompleteChecked, CompleteStored, StartPut, PutChecked, PutAnswered, PutLost,
        Revoke, RevokeChecked, RevokeMarked, RevokeAnswered, PageGoesOn, CommitCounted,
        StartGet, GetChecked, GetServed, OpenLink, Download, AlarmFires, Expire, Crash
  <2> QED BY <2>2, <2>3, <2>4
<1> QED BY StoredInvariance, <1>1, PTL DEF Spec, Frozen

\* A transfer that was revoked, or downloaded as often as allowed, is never
\* offered again, also after the object lost its memory (store.ts
\* handleRevoke(), handleCommit()).
THEOREM StoredGone == Spec => []GoneForGood
<1>1. ASSUME IInv PROVE GoneForGood
  <2> SUFFICES ASSUME Status = "available",
                      \/ revoke = "done"
                      \/ maxDownloads # 0 /\ Cardinality(Acknowledged) >= maxDownloads
               PROVE  FALSE
    BY DEF GoneForGood
  <2>1. Current # None /\ ~Current.consumed /\ ~Current.revoked
    BY DEF Status
  <2>2. Current \in Copies
    BY <1>1, <2>1, CurrentFacts DEF IInv, UploadSide, RecordSide
  <2>3. Current.used = Cardinality(Acknowledged) /\ ~Exhausted(Current)
    BY <1>1, <2>1, <2>2 DEF IInv, RecordSide, CountIs
  <2>4. revoke # "done"
    BY <1>1, <2>1, <2>2 DEF IInv, RecordSide, RevokedForGood
  <2> QED BY <2>3, <2>4 DEF Exhausted
<1> QED BY <1>1, StoredInvariance, PTL

-----------------------------------------------------------------------------
(* The refinement *)

\* The status that StoredLifecycle sees.
LEMMA StatusIs ==
  ASSUME IInv
  PROVE  /\ StoredStatus \in {"none", "uploading", "available", "gone"}
         /\ StoredStatus = "none" <=> upload = "new"
         /\ upload # "new" =>
              /\ StoredStatus = "gone" <=> stored = None \/ Gone(stored)
              /\ StoredStatus = "available" <=>
                   stored # None /\ ~Gone(stored) /\ completing = "done"
<1>1. stored # None => stored \in Copies
  BY DEF Copies
<1>2. stored # None => (stored.complete <=> completing = "done")
  BY <1>1 DEF IInv, RecordSide, CompleteOnce
<1> QED BY <1>2 DEF StoredStatus

\* A step that acknowledges no download leaves the life of the transfer where
\* it is, takes it one stage further or ends it.
LEMMA NoDownload ==
  ASSUME IInv, IInv', UNCHANGED <<maxDownloads, Acknowledged>>,
         upload = "new" <=> upload' = "new",
         \/ UNCHANGED <<stored, expired>>
         \/ upload # "new" /\ (stored' = None \/ Gone(stored)')
         \/ /\ StoredStatus = "uploading" /\ StoredStatus' = "available"
  PROVE  [Lifecycle!Next]_Lifecycle!vars
<1>1. CASE UNCHANGED <<stored, expired>>
  <2>1. StoredStatus' = StoredStatus
    BY <1>1 DEF StoredStatus, Gone
  <2> QED BY <2>1 DEF Lifecycle!vars
<1>2. CASE upload # "new" /\ (stored' = None \/ Gone(stored)')
  <2>1. StoredStatus' = "gone"
    BY <1>2 DEF StoredStatus
  <2>2. StoredStatus \in {"uploading", "available", "gone"}
    BY <1>2, StatusIs
  <2> QED BY <2>1, <2>2 DEF Lifecycle!Next, Lifecycle!End, Lifecycle!vars
<1>3. CASE StoredStatus = "uploading" /\ StoredStatus' = "available"
  BY <1>3 DEF Lifecycle!Next, Lifecycle!Publish
<1> QED BY <1>1, <1>2, <1>3

\* An acknowledged download is one more, and one of the allowance.
LEMMA DownloadMaps ==
  ASSUME IInv, IInv', NEW r \in Receivers, commit[r] # "done",
         commit' = [commit EXCEPT ![r] = "done"], UNCHANGED maxDownloads,
         StoredStatus \in {"available", "gone"},
         maxDownloads # 0 => Cardinality(Acknowledged) < maxDownloads,
         StoredStatus' =
           IF maxDownloads # 0 /\ Cardinality(Acknowledged') >= maxDownloads
           THEN "gone" ELSE StoredStatus
  PROVE  [Lifecycle!Next]_Lifecycle!vars
<1>1. /\ Cardinality(Acknowledged) \in Nat
      /\ Cardinality(Acknowledged') = Cardinality(Acknowledged) + 1
  BY AcknowledgeOne DEF IInv
<1>2. maxDownloads \in Nat
  BY StoredAssumption DEF IInv, TypeOK
<1>3. Lifecycle!Count
  BY <1>1, <1>2 DEF Lifecycle!Count, Lifecycle!Exhausted
<1> QED BY <1>3 DEF Lifecycle!Next

\* The completion publishes what nobody has ended meanwhile.
LEMMA CompletionMaps ==
  ASSUME IInv, IInv', CompleteStored
  PROVE  [Lifecycle!Next]_Lifecycle!vars
<1>1. /\ upload # "new" /\ upload' # "new"
      /\ UNCHANGED <<maxDownloads, expired, Acknowledged>>
      /\ completing' = "done" /\ stored' # None
  BY DEF CompleteStored, Save, IInv, UploadSide, RecordSide, Untouched, Held, terms,
         pageVars, Acknowledged
<1>2. stored' = [meta EXCEPT !.complete = TRUE] /\ meta \in Metas
  BY DEF CompleteStored, Save, IInv, TypeOK, RecordSide, Held
<1>3. Gone(stored)' <=> Gone(meta)
  BY <1>1, <1>2, RecordMoves DEF Gone
<1>4. CASE Gone(meta)
  BY <1>1, <1>3, <1>4, NoDownload
<1>5. CASE ~Gone(meta)
  <2>1. stored # None /\ ~Gone(stored)
    BY <1>1, <1>2, <1>5, RecordMoves DEF IInv, RecordSide, OneRecord, Gone
  <2>2. StoredStatus = "uploading"
    BY <1>1, <2>1, StatusIs DEF CompleteStored
  <2>3. StoredStatus' = "available"
    <3>1. stored'.complete
      BY <1>2, RecordMoves
    <3> QED BY <1>1, <1>3, <1>5, <3>1 DEF StoredStatus
  <2> QED BY <1>1, <2>2, <2>3, NoDownload
<1> QED BY <1>4, <1>5

\* A commit counts one, or marks the record for the last.
LEMMA CommitMaps ==
  ASSUME IInv, IInv', NEW r \in Receivers, CommitCounted(r)
  PROVE  [Lifecycle!Next]_Lifecycle!vars
<1> DEFINE m == [Current EXCEPT !.used = @ + 1]
<1>1. /\ commit[r] = "sent" /\ commit \in [Receivers -> Stages]
      /\ UNCHANGED <<maxDownloads, expired, upload, completing>>
  BY DEF CommitCounted, IInv, TypeOK, terms, uploadVars
<1>2. CASE /\ UNCHANGED stored /\ commit'[r] # "done"
           /\ \A s \in Receivers \ {r} : commit'[s] = commit[s]
  <2>1. Acknowledged' = Acknowledged
    BY <1>1, <1>2 DEF Acknowledged
  <2> QED BY <1>1, <1>2, <2>1, NoDownload
<1>3. CASE /\ Current # None /\ ~Gone(Current) /\ ~Exhausted(m)
           /\ commit' = [commit EXCEPT ![r] = "done"] /\ stored' = m
  <2>1. /\ Current \in Copies /\ Current \in Metas /\ stored # None /\ upload # "new"
        /\ ~Current.consumed /\ ~Current.revoked /\ ~expired
    BY <1>3, CurrentFacts DEF IInv, UploadSide, RecordSide, Gone
  <2>2. /\ Current.used = Cardinality(Acknowledged) /\ Current.used \in Nat
        /\ maxDownloads \in Nat
    BY <2>1, StoredAssumption, RecordParts DEF IInv, TypeOK, RecordSide, CountIs
  <2>3. /\ m # None /\ m.used = Current.used + 1 /\ ~m.consumed /\ ~m.revoked
        /\ m.complete = Current.complete
    BY <2>1, RecordParts, CountedRecord
  <2>4. completing = "done"
    BY <1>1 DEF IInv, UploadSide, LinkFirst, UploadOrder
  <2>5. Current.complete
    BY <2>1, <2>4 DEF IInv, RecordSide, CompleteOnce
  <2>6. StoredStatus = "available"
    <3>1. ~stored.consumed /\ ~stored.revoked
      BY <2>1 DEF IInv, RecordSide, Held, OneRecord, Current
    <3> QED BY <2>1, <2>4, <3>1, StatusIs DEF Gone
  <2> HIDE DEF m
  <2>7. StoredStatus' = "available"
    BY <1>1, <1>3, <2>1, <2>3, <2>5 DEF StoredStatus, Gone
  <2>8. ~(maxDownloads # 0 /\ Cardinality(Acknowledged) + 1 >= maxDownloads)
    BY <1>3, <2>2, <2>3 DEF Exhausted
  <2>9. Cardinality(Acknowledged') = Cardinality(Acknowledged) + 1
    <3>1. TypeOK /\ commit[r] # "done"
      BY <1>1 DEF IInv
    <3> QED BY <1>3, <3>1, AcknowledgeOne
  <2>10. maxDownloads # 0 => Cardinality(Acknowledged) < maxDownloads
    BY <2>2, <2>8
  <2>11. StoredStatus' =
           IF maxDownloads # 0 /\ Cardinality(Acknowledged') >= maxDownloads
           THEN "gone" ELSE StoredStatus
    BY <2>6, <2>7, <2>8, <2>9
  <2>12. commit[r] # "done"
    BY <1>1
  <2> QED BY <1>1, <1>3, <2>6, <2>10, <2>11, <2>12, DownloadMaps
<1> QED BY <1>1, <1>2, <1>3 DEF CommitCounted, Save, objectVars

\* The last allowed download ends the transfer.
LEMMA LastCommitMaps ==
  ASSUME IInv, IInv', NEW r \in Receivers, CommitStored(r)
  PROVE  [Lifecycle!Next]_Lifecycle!vars
<1>1. /\ commit[r] = "marked" /\ commit' = [commit EXCEPT ![r] = "done"]
      /\ UNCHANGED <<maxDownloads, expired, upload, completing>> /\ stored' = meta
  BY DEF CommitStored, Save, terms, uploadVars
<1>2. meta # None /\ meta.consumed /\ maxDownloads = Cardinality(Acknowledged) + 1
  BY <1>1 DEF IInv, RecordSide, Held, CountIs
<1>3. upload # "new" /\ completing = "done"
  BY <1>1 DEF IInv, UploadSide, LinkFirst, UploadOrder, WithLink
<1>4. StoredStatus \in {"available", "gone"}
  BY <1>3, StatusIs
<1>5. StoredStatus' = "gone"
  BY <1>1, <1>2, <1>3 DEF StoredStatus, Gone
<1>6. /\ Cardinality(Acknowledged) \in Nat
      /\ Cardinality(Acknowledged') = Cardinality(Acknowledged) + 1
  <2>1. TypeOK /\ commit[r] # "done"
    BY <1>1 DEF IInv
  <2> QED BY <1>1, <2>1, AcknowledgeOne
<1>7. maxDownloads # 0 => Cardinality(Acknowledged) < maxDownloads
  BY <1>2, <1>6
<1>8. StoredStatus' =
        IF maxDownloads # 0 /\ Cardinality(Acknowledged') >= maxDownloads
        THEN "gone" ELSE StoredStatus
  BY <1>2, <1>5, <1>6
<1>9. commit[r] # "done"
  BY <1>1
<1> QED BY <1>1, <1>4, <1>7, <1>8, <1>9, DownloadMaps

\* Every step of the code is one of the life of the transfer, or none.
LEMMA StepMaps ==
  ASSUME IInv, IInv', [Next]_vars
  PROVE  [Lifecycle!Next]_Lifecycle!vars
<1>1. CASE Create
  <2>1. /\ upload = "new" /\ upload' # "new" /\ stored' = NewMeta
        /\ UNCHANGED <<maxDownloads, expired, commit>>
    BY <1>1 DEF Create, HandleInit, Save, terms, pageVars
  <2>2. Acknowledged' = Acknowledged
    BY <2>1 DEF Acknowledged
  <2>3. StoredStatus = "none" /\ StoredStatus' = "uploading"
    BY <2>1, RecordFacts DEF StoredStatus, Gone, IInv, UploadSide, Untouched
  <2> QED BY <2>1, <2>2, <2>3 DEF Lifecycle!Next, Lifecycle!Create
<1>2. CASE CompleteStored
  BY <1>2, CompletionMaps
<1>3. CASE \E r \in Receivers : CommitCounted(r) \/ CommitStored(r)
  BY <1>3, CommitMaps, LastCommitMaps
<1>4. CASE RevokeStored
  <2>1. stored' = meta /\ meta.revoked /\ upload # "new" /\ upload' # "new"
    BY <1>4 DEF RevokeStored, Save, IInv, RecordSide, RevokedForGood, UploadSide,
                LinkFirst, WithLink
  <2>2. Gone(stored)'
    BY <2>1 DEF Gone
  <2> QED
    BY <1>4, <2>1, <2>2, NoDownload
    DEF RevokeStored, terms, pageVars, Acknowledged
<1>5. CASE AlarmDone
  BY <1>5, NoDownload DEF AlarmDone, IInv, UploadSide, Untouched, terms, uploadVars,
                          pageVars, Acknowledged
<1>6. CASE Expire
  BY <1>6, NoDownload DEF Expire, Gone, uploadVars, pageVars, Acknowledged
<1>7. CASE /\ ~Create /\ ~CompleteStored /\ ~RevokeStored /\ ~AlarmDone /\ ~Expire
           /\ \A r \in Receivers : ~CommitCounted(r) /\ ~CommitStored(r)
  <2>1. /\ UNCHANGED <<maxDownloads, stored, expired>>
        /\ upload = "new" <=> upload' = "new"
    BY <1>7
    DEF Next, vars, Uploader, Receiver, terms, objectVars, uploadVars, pageVars,
        UploadGoesOn, CompleteChecked, StartPut, PutChecked, PutStored, PutAnswered,
        PutLost, Revoke, RevokeChecked, RevokeMarked, RevokeAnswered, PageGoesOn,
        StartGet, GetChecked, GetServed, OpenLink, Download, AlarmFires, Crash
  <2>2. \A r \in Receivers : commit'[r] = "done" <=> commit[r] = "done"
    <3>1. CASE Crash
      BY <3>1 DEF Crash, Broken
    <3>2. CASE \E r \in Receivers : PageGoesOn(r)
      BY <3>2 DEF PageGoesOn, IInv, TypeOK, UploadSide, LinkFirst
    <3>3. CASE ~Crash /\ \A r \in Receivers : ~PageGoesOn(r)
      BY <1>7, <3>3
      DEF Next, vars, Uploader, Receiver, pageVars, UploadGoesOn, CompleteChecked,
          StartPut, PutChecked, PutStored, PutAnswered, PutLost, Revoke, RevokeChecked,
          RevokeMarked, RevokeAnswered, StartGet, GetChecked, GetServed, OpenLink,
          Download, AlarmFires
    <3> QED BY <3>1, <3>2, <3>3
  <2> QED BY <2>1, <2>2, NoDownload DEF Acknowledged
<1> QED BY <1>1, <1>2, <1>3, <1>4, <1>5, <1>6, <1>7

\* The Worker, the object and the pages together implement the life of a
\* stored transfer: uploading, available, gone, in that order, and no more
\* acknowledged downloads than allowed.
THEOREM StoredRefines == Spec => ImplementsLifecycle
<1>1. Init => Lifecycle!Init
  <2> SUFFICES ASSUME Init PROVE Lifecycle!Init
    OBVIOUS
  <2>1. Acknowledged = {}
    BY DEF Init, Acknowledged
  <2> QED BY <2>1, FS_EmptySet DEF Init, Lifecycle!Init, StoredStatus
<1>2. IInv /\ IInv' /\ [Next]_vars => [Lifecycle!Next]_Lifecycle!vars
  BY StepMaps
<1> QED
  BY <1>1, <1>2, StoredInvariance, PTL
  DEF Spec, ImplementsLifecycle, Lifecycle!Spec
=============================================================================
