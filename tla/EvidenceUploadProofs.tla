------------------------ MODULE EvidenceUploadProofs ------------------------
(***************************************************************************)
(* Theorems about EvidenceUpload, for any sets of sessions, documents and  *)
(* roles, and any bound on the uploads.                                    *)
(***************************************************************************)
EXTENDS EvidenceUpload, TLAPS

\* A busy request has the fields of a job.
LEMMA JobFields ==
  ASSUME TypeOK, NEW s \in Session, Busy(s)
  PROVE  /\ job[s] \in Job
         /\ job[s].pc \in Point /\ job[s].doc \in Document /\ job[s].role \in Role
         /\ job[s].blob \in Upload /\ job[s].num \in Nat \ {0} /\ job[s].key \in Nat
         /\ job[s].flushed \in SUBSET Entry /\ job[s].fresh \in BOOLEAN
<1>1. job[s] \in Job \cup {Idle} /\ job[s].pc # "idle"
  BY DEF TypeOK, Busy, At
<1>2. job[s] \in Job
  BY <1>1 DEF Idle
<1> QED
  BY <1>2 DEF Job

\* Request s goes from one point to another and writes nothing; what names
\* its version stays, its key and what it has flushed may change.
Moves(s) ==
  /\ job' \in [Session -> Job \cup {Idle}]
  /\ \A t \in Session : t # s => job'[t] = job[t]
  /\ Busy(s) /\ job'[s] \in Job
  /\ job'[s].doc = job[s].doc /\ job'[s].num = job[s].num
  /\ job'[s].blob = job[s].blob /\ job'[s].role = job[s].role
  /\ UNCHANGED <<rows, suggested, blobs, uploads, acked, refused>>

\* Goto changes the point only.
LEMMA GotoMoves ==
  ASSUME TypeOK, NEW s \in Session, Busy(s), NEW p \in Point, Goto(s, p),
         UNCHANGED <<rows, suggested, blobs, uploads, acked, refused>>
  PROVE  /\ Moves(s)
         /\ job'[s].pc = p /\ job'[s].key = job[s].key
         /\ job'[s].flushed = job[s].flushed /\ job'[s].fresh = job[s].fresh
<1>1. job[s] \in Job
  BY JobFields
<1>2. job' = [job EXCEPT ![s] = [job[s] EXCEPT !.pc = p]]
  BY DEF Goto
<1>3. [job[s] EXCEPT !.pc = p] \in Job
  BY <1>1 DEF Job
<1> QED
  BY <1>1, <1>2, <1>3 DEF Moves, TypeOK, Job

\* Flush changes the point and adds an entry.
LEMMA FlushMoves ==
  ASSUME TypeOK, NEW s \in Session, NEW e \in Entry,
         NEW from \in Point, NEW to \in Point, Flush(s, e, from, to)
  PROVE  /\ Moves(s)
         /\ job[s].pc = from /\ job'[s].pc = to /\ job'[s].key = job[s].key
         /\ job'[s].flushed = job[s].flushed \cup {e}
<1>1. Busy(s) /\ job[s].pc = from
  BY DEF Flush, Busy, At, Point
<1>2. job[s] \in Job
  BY <1>1, JobFields
<1>3. job' = [job EXCEPT ![s] = [job[s] EXCEPT !.pc = to, !.flushed = @ \cup {e}]]
  BY DEF Flush
<1>4. [job[s] EXCEPT !.pc = to, !.flushed = @ \cup {e}] \in Job
  BY <1>2 DEF Job
<1> QED
  BY <1>1, <1>2, <1>3, <1>4 DEF Moves, TypeOK, Job, Flush
-----------------------------------------------------------------------------
(* Steps that write nothing outside the request *)

\* What these steps have in common: they never go back behind the commit,
\* and they take a number only if it is free.
Onward(s) ==
  /\ Moves(s)
  /\ At(s, Begun)' => At(s, Begun)
  /\ ~At(s, {"numbered"})'
  /\ At(s, Kept)' => At(s, Kept)
  /\ At(s, Kept \ (Uncommitted \cup {"stored"}))'
       => At(s, Kept \ (Uncommitted \cup {"stored"}))
  /\ At(s, Uncommitted)' => \/ At(s, Uncommitted)
                            \/ At(s, {"stored"}) /\ ~VersionHeld(s) /\ ~VersionClash(s)

\* What s flushes at each point, for the points it may go to.
EntriesOf(j) ==
  /\ j.pc \in {"recorded", "keyless", "signed", "evented", "sealed"} =>
       "document_version_uploaded" \in j.flushed
  /\ j.pc \in {"evented", "sealed"} => "case_event" \in j.flushed
  /\ j.pc = "sealed" => "case_event_sealed" \in j.flushed

\* The key that s holds at each point.
KeyOf(j) ==
  /\ j.pc \in Begun \ Signing => j.key = None
  /\ j.pc \in Signing => \/ j.key = keys[j.role] /\ j.key # None
                         \/ j.key = j.blob /\ keys[j.role] = None

Quiet(s) ==
  \/ EmptyFile(s) \/ FlushVersion(s) \/ RecordUpload(s) \/ LedgerFails(s)
  \/ FindKey(s) \/ MakeKey(s) \/ AppendEvent(s) \/ RecordEvent(s)
  \/ Score(s) \/ Skip(s) \/ FlushSuggestion(s) \/ FinishFails(s) \/ DatabaseFails(s)

\* These steps go onward, with complete entries and a sound key, and
\* provision a key only while nobody else does.
LEMMA QuietOnward ==
  ASSUME UploadInv, NEW s \in Session, Quiet(s)
  PROVE  /\ Onward(s) /\ EntriesOf(job'[s]) /\ KeyOf(job'[s])
         /\ Provisioning(s)' => Provisioning(s) \/ ~KeyHeld(s)
<1> USE DEF UploadInv
<1> USE DEF At, Begun, Kept, Uncommitted, Signing
<1>0. TypeOK /\ (Busy(s) => EntriesOf(job[s]) /\ KeyOf(job[s]))
  BY DEF EntriesComplete, EntriesOf, KeysHeld, KeyOf, Busy
<1>1. ASSUME NEW p \in Point, Goto(s, p), Busy(s), p \notin Kept, p # "numbered",
             UNCHANGED <<rows, suggested, blobs, uploads, acked, refused>>
      PROVE  /\ Onward(s) /\ EntriesOf(job'[s]) /\ KeyOf(job'[s])
             /\ ~Provisioning(s)'
  BY <1>0, <1>1, GotoMoves DEF Onward, EntriesOf, KeyOf, Provisioning
<1>2. CASE EmptyFile(s) \/ LedgerFails(s) \/ FinishFails(s) \/ DatabaseFails(s)
  BY <1>1, <1>2 DEF EmptyFile, LedgerFails, FinishFails, DatabaseFails, Fail, Busy, Point
<1>3. CASE FlushVersion(s)
  <2>1. CASE VersionClash(s)
    BY <1>1, <1>3, <2>1 DEF FlushVersion, Busy, Point
  <2>2. CASE ~VersionClash(s)
    <3>1. /\ Moves(s) /\ job[s].pc = "stored" /\ job'[s].pc = "versioned"
          /\ job'[s].key = job[s].key
      BY <1>0, <1>3, <2>2, GotoMoves DEF FlushVersion, Busy, Point
    <3>2. job'[s].key = None /\ job'[s].blob # None
      BY <1>0, <3>1 DEF KeyOf, Moves, Job, Upload, None
    <3> QED
      BY <1>3, <2>2, <3>1, <3>2 DEF FlushVersion, Onward, EntriesOf, KeyOf, Provisioning
  <2> QED
    BY <2>1, <2>2
<1>4. CASE RecordUpload(s) \/ AppendEvent(s) \/ RecordEvent(s)
  <2>1. /\ Moves(s) /\ job[s].key = job'[s].key
        /\ \/ /\ job[s].pc = "versioned" /\ job'[s].pc = "recorded"
              /\ job'[s].flushed = job[s].flushed \cup {"document_version_uploaded"}
           \/ /\ job[s].pc = "signed" /\ job'[s].pc = "evented"
              /\ job'[s].flushed = job[s].flushed \cup {"case_event"}
           \/ /\ job[s].pc = "evented" /\ job'[s].pc = "sealed"
              /\ job'[s].flushed = job[s].flushed \cup {"case_event_sealed"}
    BY <1>0, <1>4, FlushMoves DEF RecordUpload, AppendEvent, RecordEvent, Point, Entry
  <2> QED
    BY <1>0, <2>1 DEF Onward, Moves, EntriesOf, KeyOf, Provisioning, rows
<1>5. CASE FindKey(s)
  <2>1. /\ Busy(s) /\ job[s].pc = "recorded" /\ job[s] \in Job /\ keys[job[s].role] \in Nat
    BY <1>0, <1>5, JobFields DEF FindKey, Busy, TypeOK
  <2> DEFINE j == [job[s] EXCEPT
                     !.pc = IF keys[job[s].role] = None THEN "keyless" ELSE "signed",
                     !.key = keys[job[s].role]]
  <2>2. job' = [job EXCEPT ![s] = j] /\ j \in Job
    BY <1>5, <2>1 DEF FindKey, Job, Point
  <2>3. /\ Moves(s) /\ job'[s].flushed = job[s].flushed
        /\ job'[s].key = keys[job[s].role]
        /\ job'[s].pc = IF keys[job[s].role] = None THEN "keyless" ELSE "signed"
    BY <1>0, <1>5, <2>1, <2>2 DEF Moves, TypeOK, FindKey, Job
  <2>4. job[s].blob # keys[job[s].role]
    BY <2>1 DEF NamesFresh, KeysHeld, Busy, Job, Upload, None
  <2> QED
    BY <1>0, <2>1, <2>3, <2>4 DEF Onward, Moves, EntriesOf, KeyOf, Provisioning
<1>6. CASE MakeKey(s)
  <2>1. Busy(s) /\ job[s].pc = "keyless" /\ job[s] \in Job
    BY <1>0, <1>6, JobFields DEF MakeKey, Busy
  <2>2. CASE keys[job[s].role] # None
    BY <1>1, <1>6, <2>1, <2>2 DEF MakeKey, Point
  <2>3. CASE keys[job[s].role] = None
    <3> DEFINE j == [job[s] EXCEPT !.pc = "signed", !.key = job[s].blob]
    <3>1. job' = [job EXCEPT ![s] = j] /\ j \in Job
      BY <1>6, <2>1, <2>3 DEF MakeKey, Job, Point, Upload
    <3>2. /\ Moves(s) /\ job'[s].flushed = job[s].flushed
          /\ job'[s].key = job[s].blob /\ job'[s].pc = "signed"
      BY <1>0, <1>6, <2>1, <3>1 DEF Moves, TypeOK, MakeKey, Job
    <3> QED
      BY <1>0, <1>6, <2>1, <2>3, <3>2 DEF MakeKey, Onward, Moves, EntriesOf, KeyOf, Provisioning
  <2> QED
    BY <2>2, <2>3
<1>7. CASE Score(s)
  <2>1. Busy(s) /\ job[s].pc = "committed" /\ job[s] \in Job
    BY <1>0, <1>7, JobFields DEF Score, Busy
  <2> DEFINE j == [job[s] EXCEPT !.pc = "scored", !.fresh = job[s].doc \notin suggested]
  <2>2. job' = [job EXCEPT ![s] = j] /\ j \in Job
    BY <1>7, <2>1 DEF Score, Job, Point
  <2>3. Moves(s) /\ job'[s].pc = "scored"
    BY <1>0, <1>7, <2>1, <2>2 DEF Moves, TypeOK, Score, Job
  <2> QED
    BY <2>1, <2>3 DEF Onward, EntriesOf, KeyOf, Provisioning
<1>8. CASE Skip(s)
  <2>1. Busy(s) /\ job[s].pc = "committed" /\ Moves(s) /\ job'[s].pc = "unscored"
    BY <1>0, <1>8, GotoMoves DEF Skip, Busy, Point
  <2> QED
    BY <2>1 DEF Onward, EntriesOf, KeyOf, Provisioning
<1>9. CASE FlushSuggestion(s)
  <2>1. /\ Busy(s) /\ job[s].pc = "scored" /\ Moves(s)
        /\ job'[s].pc \in {"poisoned", "suggested"}
    BY <1>0, <1>9, GotoMoves DEF FlushSuggestion, Busy, Point
  <2> QED
    BY <2>1 DEF Onward, EntriesOf, KeyOf, Provisioning
<1> QED
  BY <1>2, <1>3, <1>4, <1>5, <1>6, <1>7, <1>8, <1>9 DEF Quiet
\* A step that writes nothing outside its request keeps the invariant.
LEMMA QuietStep ==
  ASSUME UploadInv, NEW s \in Session, Quiet(s)
  PROVE  UploadInv'
<1> USE DEF UploadInv
<1>1. /\ Onward(s) /\ Moves(s)
      /\ UNCHANGED <<versions, originals, keys, signatures, trail, suggested,
                     blobs, uploads, acked, refused>>
      /\ UNCHANGED <<Filed>>
  BY QuietOnward DEF Onward, Moves, rows, Filed
<1>2. /\ Busy(s) /\ Busy(s)'
      /\ \A t \in Session : job'[t].blob = job[t].blob \/ ~Busy(t)
      /\ \A t \in Session : Busy(t)' <=> Busy(t)
  BY <1>1 DEF Moves, Busy, At, Job, Point
<1>3. TypeOK'
  BY <1>1 DEF TypeOK, Moves
<1>4. NamesFresh'
  <2>1. \A t \in Session : At(t, Begun)' => At(t, Begun)
    BY <1>1 DEF Onward, Moves, At
  <2>2. \A t \in Session : At(t, {"numbered"})' => At(t, {"numbered"})
    BY <1>1 DEF Onward, Moves, At
  <2>3. \A t \in Session : job'[t].blob = job[t].blob
    BY <1>1 DEF Moves
  <2> QED
    BY <1>1, <1>2, <2>1, <2>2, <2>3 DEF NamesFresh
<1>5. FilesKept'
  <2> SUFFICES ASSUME NEW t \in Session
               PROVE  /\ At(t, Kept)' => job'[t].blob \in blobs
                      /\ At(t, Kept \ (Uncommitted \cup {"stored"}))' => VersionRow(job'[t]) \in versions
    BY <1>1 DEF FilesKept
  <2>1. CASE t = s
    BY <1>1, <2>1 DEF Onward, Moves, FilesKept, VersionRow
  <2>2. CASE t # s
    BY <1>1, <2>2 DEF Moves, FilesKept, At, Kept, Uncommitted
  <2> QED
    BY <2>1, <2>2
<1>6. \A d : Numbers(d)' = Numbers(d) /\ HasOriginal(d)' = HasOriginal(d)
  BY <1>1 DEF Numbers, HasOriginal
<1>7. NumbersHeld' /\ OriginalsHeld'
  <2>1. \A t \in Session : job'[t].doc = job[t].doc /\ job'[t].num = job[t].num
    BY <1>1 DEF Moves
  <2>2. \A t \in Session : At(t, Begun)' => At(t, Begun)
    BY <1>1 DEF Onward, Moves, At
  <2>3. \A t \in Session : t # s => (At(t, Uncommitted)' <=> At(t, Uncommitted))
    BY <1>1 DEF Moves, At, Uncommitted
  <2>4. At(s, Uncommitted)' =>
          \/ At(s, Uncommitted)
          \/ /\ job[s].num \notin Numbers(job[s].doc)
             /\ job[s].num = 1 => ~HasOriginal(job[s].doc)
             /\ \A t \in Session \ {s} : ~(/\ At(t, Uncommitted) /\ job[t].doc = job[s].doc
                                          /\ job[t].num = job[s].num)
    BY <1>1 DEF Onward, VersionHeld, VersionClash
  <2>5. NumbersHeld'
    BY <1>6, <2>1, <2>2, <2>3, <2>4 DEF NumbersHeld
  <2>6. OriginalsHeld'
    BY <1>6, <2>1, <2>3, <2>4 DEF OriginalsHeld
  <2> QED
    BY <2>5, <2>6
<1>8. VersionsContiguous' /\ OriginalIsFirstVersion'
  BY <1>1, <1>6 DEF VersionsContiguous, OriginalIsFirstVersion
<1>9. EntriesComplete'
  BY <1>1, QuietOnward DEF Moves, EntriesOf, EntriesComplete, At
<1>10. VersionSealed' /\ SignedWithRoleKey' /\ AckedIsDurable'
  BY <1>1 DEF VersionSealed, SignedWithRoleKey, AckedIsDurable
<1>11. KeysHeld'
  <2>1. \A r \in Role : keys'[r] # None => keys'[r] \in Filed'
    BY <1>1 DEF KeysHeld
  <2>2. ASSUME NEW t \in Session
        PROVE  /\ At(t, Begun \ Signing)' => job'[t].key = None
               /\ At(t, Signing)' => \/ job'[t].key = keys'[job'[t].role] /\ job'[t].key # None
                                     \/ job'[t].key = job'[t].blob /\ keys'[job'[t].role] = None
    <3>1. CASE t = s
      BY <1>1, <3>1, QuietOnward DEF KeyOf, At
    <3>2. CASE t # s
      BY <1>1, <3>2 DEF Moves, KeysHeld, At
    <3> QED
      BY <3>1, <3>2
  <2>3. \A t \in Session : t # s => (Provisioning(t)' <=> Provisioning(t))
    BY <1>1 DEF Moves, Provisioning, At, Uncommitted
  <2>4. Provisioning(s)' => Provisioning(s) \/ \A t \in Session \ {s} :
                                 ~(Provisioning(t) /\ job[t].role = job[s].role)
    BY QuietOnward DEF KeyHeld
  <2>5. \A t \in Session : job'[t].role = job[t].role
    BY <1>1 DEF Moves
  <2> QED
    BY <2>1, <2>2, <2>3, <2>4, <2>5 DEF KeysHeld
<1> QED
  BY <1>3, <1>4, <1>5, <1>7, <1>8, <1>9, <1>10, <1>11
-----------------------------------------------------------------------------
(* Steps that begin and end requests and that store and delete blobs *)

\* Nothing is claimed of an idle request.
LEMMA IdleClaimsNothing ==
  ASSUME NEW s \in Session, job[s] = Idle
  PROVE  /\ ~Busy(s) /\ ~Provisioning(s)
         /\ ~At(s, Begun) /\ ~At(s, Kept) /\ ~At(s, Uncommitted) /\ ~At(s, Signing)
         /\ ~At(s, {"numbered"}) /\ ~At(s, {"failed"})
  BY DEF Idle, Busy, At, Begun, Kept, Uncommitted, Signing, Provisioning

\* A set of requests, one or all of them, goes idle; at most the blob of the
\* one that is answered comes or goes.
LEMMA LeaveStep ==
  ASSUME UploadInv,
         NEW gone \in SUBSET Session,
         job' = [t \in Session |-> IF t \in gone THEN Idle ELSE job[t]],
         UNCHANGED <<rows, uploads>>, suggested' \subseteq Document,
         \/ blobs' = blobs /\ acked' = acked /\ refused' = refused
         \/ \E s \in gone :
             /\ Busy(s)
             /\ \/ blobs' = blobs
                \/ blobs' = blobs \cup {job[s].blob}
                \/ blobs' = blobs \ {job[s].blob} /\ At(s, {"failed"})
             /\ \/ acked' = acked
                \/ /\ blobs' = blobs /\ acked' = acked \cup {job[s].blob}
                   /\ At(s, Kept \ (Uncommitted \cup {"stored"}))
             /\ refused' = refused \/ refused' = refused \cup {job[s].blob}
  PROVE  UploadInv'
<1> USE DEF UploadInv
<1>1. /\ UNCHANGED <<versions, originals, keys, signatures, trail, uploads>>
      /\ Filed' = Filed
      /\ \A d : Numbers(d)' = Numbers(d) /\ HasOriginal(d)' = HasOriginal(d)
  BY DEF rows, Filed, Numbers, HasOriginal
<1>2. \A t \in gone : /\ job'[t] = Idle
                      /\ ~Busy(t)' /\ ~Provisioning(t)'
                      /\ ~At(t, Begun)' /\ ~At(t, Kept)' /\ ~At(t, Uncommitted)'
                      /\ ~At(t, Signing)' /\ ~At(t, {"numbered"})'
                      /\ ~At(t, Kept \ (Uncommitted \cup {"stored"}))'
  BY DEF Idle, Busy, At, Begun, Kept, Uncommitted, Signing, Provisioning
<1>3. \A t \in Session \ gone :
        /\ job'[t] = job[t]
        /\ (Busy(t)' <=> Busy(t)) /\ (Provisioning(t)' <=> Provisioning(t))
        /\ \A points : At(t, points)' <=> At(t, points)
  BY DEF Busy, At, Uncommitted, Provisioning
<1>4. /\ blobs' \subseteq Upload /\ acked' \subseteq Upload /\ refused' \subseteq Upload
      /\ \A b \in blobs' \cup acked' \cup refused' : b <= uploads
  BY JobFields DEF TypeOK, NamesFresh
<1>5. TypeOK'
  BY <1>1, <1>4 DEF TypeOK
<1>6. \A t \in Session \ gone : Busy(t) =>
        /\ job[t].blob \in blobs' <=> job[t].blob \in blobs
        /\ job[t].blob \in acked' <=> job[t].blob \in acked
        /\ job[t].blob \in refused' <=> job[t].blob \in refused
  BY DEF NamesFresh
<1>7. NamesFresh'
  BY <1>1, <1>2, <1>3, <1>4, <1>6 DEF NamesFresh
<1>8. FilesKept'
  <2>1. \A t \in Session : At(t, Kept) => Busy(t)
    BY DEF At, Kept, Uncommitted, Busy
  <2> QED
    BY <1>1, <1>2, <1>3, <1>6, <2>1 DEF FilesKept, VersionRow
<1>9. NumbersHeld' /\ OriginalsHeld'
  BY <1>1, <1>2, <1>3 DEF NumbersHeld, OriginalsHeld
<1>10. VersionsContiguous' /\ OriginalIsFirstVersion' /\ VersionSealed' /\ SignedWithRoleKey'
  BY <1>1 DEF VersionsContiguous, OriginalIsFirstVersion, VersionSealed, SignedWithRoleKey
<1>11. EntriesComplete'
  BY <1>2, <1>3 DEF EntriesComplete, At, Idle
<1>12. KeysHeld'
  <2>1. \A t \in gone : ~At(t, Begun \ Signing)'
    BY <1>2 DEF At
  <2> QED
    BY <1>1, <1>2, <1>3, <2>1 DEF KeysHeld
<1>13. AckedIsDurable'
  <2>1. \A u \in acked : u \in blobs'
    BY DEF AckedIsDurable, NamesFresh
  <2>2. \A u \in acked' \ acked : u \in blobs' /\ u \in Filed
    <3>1. \A s \in Session : At(s, Kept \ (Uncommitted \cup {"stored"})) => At(s, Kept)
      BY DEF At
    <3>2. \A s \in Session : VersionRow(job[s]) \in versions => job[s].blob \in Filed
      BY DEF VersionRow, Filed
    <3> QED
      BY <3>1, <3>2 DEF FilesKept
  <2>3. \A u \in acked : u \in Filed
    BY DEF AckedIsDurable, Filed
  <2> QED
    BY <1>1, <2>1, <2>2, <2>3 DEF AckedIsDurable, Filed
<1> QED
  BY <1>5, <1>7, <1>8, <1>9, <1>10, <1>11, <1>12, <1>13
\* A request is answered, or dies.
LEMMA EndStep ==
  ASSUME UploadInv,
         \/ \E s \in Session : PutFails(s) \/ Delete(s) \/ DeleteFails(s) \/ Finish(s)
         \/ Crash
  PROVE  UploadInv'
<1> USE DEF UploadInv
<1>1. CASE Crash
  BY <1>1, LeaveStep DEF Crash, TypeOK, rows
<1>2. ASSUME NEW s \in Session, PutFails(s) \/ Delete(s) \/ DeleteFails(s) \/ Finish(s)
      PROVE  UploadInv'
  <2>1. job' = [t \in Session |-> IF t \in {s} THEN Idle ELSE job[t]]
    BY <1>2 DEF PutFails, Delete, DeleteFails, Finish, Refuse, TypeOK
  <2>2. UNCHANGED <<rows, uploads>> /\ Busy(s)
    BY <1>2 DEF PutFails, Delete, DeleteFails, Finish, Refuse, Busy, At
  <2>3. suggested' \subseteq Document
    BY <1>2, <2>2, JobFields DEF PutFails, Delete, DeleteFails, Finish, Refuse, TypeOK
  <2>4. /\ \/ blobs' = blobs
           \/ blobs' = blobs \cup {job[s].blob}
           \/ blobs' = blobs \ {job[s].blob} /\ At(s, {"failed"})
        /\ \/ acked' = acked
           \/ /\ blobs' = blobs /\ acked' = acked \cup {job[s].blob}
              /\ At(s, Kept \ (Uncommitted \cup {"stored"}))
        /\ refused' = refused \/ refused' = refused \cup {job[s].blob}
    BY <1>2 DEF PutFails, Delete, DeleteFails, Finish, Refuse, At, Kept, Uncommitted
  <2>5. \E u \in {s} :
          /\ Busy(u)
          /\ \/ blobs' = blobs
             \/ blobs' = blobs \cup {job[u].blob}
             \/ blobs' = blobs \ {job[u].blob} /\ At(u, {"failed"})
          /\ \/ acked' = acked
             \/ /\ blobs' = blobs /\ acked' = acked \cup {job[u].blob}
                /\ At(u, Kept \ (Uncommitted \cup {"stored"}))
          /\ refused' = refused \/ refused' = refused \cup {job[u].blob}
    BY <2>2, <2>4
  <2>6. {s} \in SUBSET Session
    OBVIOUS
  <2> QED
    BY <2>1, <2>2, <2>3, <2>5, <2>6, LeaveStep
<1> QED
  BY <1>1, <1>2

\* A request begins under the next name and above the numbers committed.
LEMMA BeginStep ==
  ASSUME UploadInv, NEW s \in Session, NEW d \in Document, NEW r \in Role, Begin(s, d, r)
  PROVE  UploadInv'
<1> USE DEF UploadInv
<1>0. uploads \in Nat /\ uploads + 1 \in Upload
  BY DEF TypeOK, Upload
<1>1. PICK latest \in {0} \cup Numbers(d) :
        /\ \A n \in Numbers(d) : n <= latest
        /\ job' = [job EXCEPT ![s] =
             [pc |-> "numbered", doc |-> d, role |-> r, blob |-> uploads + 1,
              num |-> latest + 1, key |-> None, flushed |-> {}, fresh |-> FALSE]]
  BY DEF Begin
<1>2. latest \in Nat
  BY DEF Numbers, TypeOK, Version
<1>3. /\ job'[s] \in Job /\ job'[s].pc = "numbered" /\ job'[s].doc = d
      /\ job'[s].blob = uploads + 1 /\ job'[s].num = latest + 1 /\ job'[s].key = None
  BY <1>0, <1>1, <1>2 DEF TypeOK, Job, Point, None
<1>4. /\ job' \in [Session -> Job \cup {Idle}]
      /\ \A t \in Session : t # s => job'[t] = job[t]
  BY <1>1, <1>3 DEF TypeOK
<1>5. /\ uploads' = uploads + 1 /\ ~Busy(s)
      /\ UNCHANGED <<versions, originals, keys, signatures, trail, suggested,
                     blobs, acked, refused>>
      /\ Filed' = Filed
      /\ \A e : Numbers(e)' = Numbers(e) /\ HasOriginal(e)' = HasOriginal(e)
  BY DEF Begin, Busy, rows, Filed, Numbers, HasOriginal
<1>6. \A t \in Session \ {s} :
        /\ (Busy(t)' <=> Busy(t)) /\ (Provisioning(t)' <=> Provisioning(t))
        /\ \A points : At(t, points)' <=> At(t, points)
  BY <1>4 DEF Busy, At, Provisioning, Uncommitted
<1>7. /\ Busy(s)' /\ ~Provisioning(s)' /\ At(s, Begun)'
      /\ ~At(s, Uncommitted)' /\ ~At(s, Kept)' /\ ~At(s, Signing)'
      /\ ~At(s, Kept \ (Uncommitted \cup {"stored"}))'
  BY <1>3 DEF Busy, At, Provisioning, Begun, Kept, Uncommitted, Signing
<1>8. TypeOK'
  BY <1>0, <1>4, <1>5 DEF TypeOK
<1>9. NamesFresh'
  <2>1. \A b \in Filed \cup blobs \cup acked \cup refused : b <= uploads + 1 /\ b # uploads + 1
    <3>1. Filed \subseteq Upload
      BY DEF TypeOK, Filed, Version
    <3>2. \A b \in Filed \cup blobs \cup acked \cup refused : b \in Nat /\ b <= uploads
      BY <3>1 DEF NamesFresh, TypeOK, Upload
    <3> QED
      BY <1>0, <3>2
  <2>2. \A t \in Session \ {s} : Busy(t) =>
          job[t].blob <= uploads + 1 /\ job[t].blob # uploads + 1
    BY <1>0, JobFields DEF NamesFresh, Upload
  <2> QED
    BY <1>3, <1>4, <1>5, <1>6, <2>1, <2>2 DEF NamesFresh
<1>10. FilesKept'
  BY <1>4, <1>5, <1>6, <1>7 DEF FilesKept, VersionRow
<1>11. NumbersHeld'
  <2>1. \A n \in 1..(job'[s].num - 1) : n \in Numbers(d)
    <3>1. CASE latest = 0
      BY <1>3, <3>1
    <3>2. CASE latest \in Numbers(d)
      <4>1. PICK v \in versions : v.doc = d /\ v.num = latest
        BY <3>2 DEF Numbers
      <4>2. 1..latest \subseteq Numbers(d)
        BY <4>1 DEF VersionsContiguous
      <4> QED
        BY <1>2, <1>3, <4>2
    <3> QED
      BY <3>1, <3>2
  <2> QED
    BY <1>3, <1>4, <1>5, <1>6, <1>7, <2>1 DEF NumbersHeld
<1>12. OriginalsHeld'
  BY <1>4, <1>5, <1>6, <1>7 DEF OriginalsHeld
<1>13. VersionsContiguous' /\ OriginalIsFirstVersion' /\ VersionSealed' /\ SignedWithRoleKey'
       /\ AckedIsDurable'
  BY <1>5 DEF VersionsContiguous, OriginalIsFirstVersion, VersionSealed, SignedWithRoleKey,
              AckedIsDurable
<1>14. EntriesComplete'
  BY <1>3, <1>4 DEF EntriesComplete, At
<1>15. KeysHeld'
  BY <1>3, <1>4, <1>5, <1>6, <1>7 DEF KeysHeld
<1> QED
  BY <1>8, <1>9, <1>10, <1>11, <1>12, <1>13, <1>14, <1>15

\* The blob of a request is stored.
LEMMA PutStep ==
  ASSUME UploadInv, NEW s \in Session, Put(s)
  PROVE  UploadInv'
<1> USE DEF UploadInv
<1>1. Busy(s) /\ job[s] \in Job /\ job[s].pc = "numbered"
  BY JobFields DEF Put, Busy, At
<1>2. job' = [job EXCEPT ![s] = [job[s] EXCEPT !.pc = "stored"]]
  BY DEF Put, Goto
<1>3. /\ job'[s] \in Job /\ job'[s].pc = "stored"
      /\ \A t \in Session : t # s => job'[t] = job[t]
      /\ \A t \in Session : /\ job'[t].doc = job[t].doc /\ job'[t].num = job[t].num
                            /\ job'[t].blob = job[t].blob /\ job'[t].key = job[t].key
                            /\ job'[t].role = job[t].role /\ job'[t].flushed = job[t].flushed
      /\ job' \in [Session -> Job \cup {Idle}]
  BY <1>1, <1>2 DEF TypeOK, Job, Point
<1>4. /\ blobs' = blobs \cup {job[s].blob}
      /\ UNCHANGED <<versions, originals, keys, signatures, trail, suggested,
                     uploads, acked, refused>>
      /\ Filed' = Filed
      /\ \A e : Numbers(e)' = Numbers(e) /\ HasOriginal(e)' = HasOriginal(e)
  BY DEF Put, rows, Filed, Numbers, HasOriginal
<1>5. \A t \in Session :
        /\ Busy(t)' <=> Busy(t)
        /\ At(t, Begun)' <=> At(t, Begun)
        /\ At(t, Uncommitted)' <=> At(t, Uncommitted)
        /\ At(t, Signing)' <=> At(t, Signing)
        /\ At(t, Begun \ Signing)' <=> At(t, Begun \ Signing)
        /\ At(t, Kept)' => At(t, Kept) \/ t = s
        /\ At(t, Kept \ (Uncommitted \cup {"stored"}))'
             <=> At(t, Kept \ (Uncommitted \cup {"stored"}))
        /\ At(t, {"numbered"})' => At(t, {"numbered"}) /\ t # s
  BY <1>1, <1>3 DEF Busy, At, Begun, Kept, Uncommitted, Signing
<1>6. TypeOK'
  BY <1>1, <1>3, <1>4 DEF TypeOK, Job
<1>7. NamesFresh'
  BY <1>1, <1>3, <1>4, <1>5 DEF NamesFresh, At
<1>8. FilesKept'
  <2>1. \A t \in Session : At(t, Kept \ (Uncommitted \cup {"stored"}))' => t # s
    BY <1>3 DEF At
  <2> QED
    BY <1>3, <1>4, <1>5, <2>1 DEF FilesKept
<1>9. NumbersHeld' /\ OriginalsHeld'
  BY <1>3, <1>4, <1>5 DEF NumbersHeld, OriginalsHeld
<1>10. VersionsContiguous' /\ OriginalIsFirstVersion' /\ VersionSealed' /\ SignedWithRoleKey'
       /\ AckedIsDurable'
  BY <1>4 DEF VersionsContiguous, OriginalIsFirstVersion, VersionSealed, SignedWithRoleKey,
              AckedIsDurable
<1>11. EntriesComplete'
  BY <1>3 DEF EntriesComplete, At
<1>12. KeysHeld'
  <2>1. \A t \in Session : Provisioning(t)' <=> Provisioning(t)
    BY <1>3, <1>5 DEF Provisioning
  <2> QED
    BY <1>3, <1>4, <1>5, <2>1 DEF KeysHeld
<1> QED
  BY <1>6, <1>7, <1>8, <1>9, <1>10, <1>11, <1>12
-----------------------------------------------------------------------------
(* Steps that write to the database *)

\* The version of s is committed, with everything flushed about it.
LEMMA CommitStep ==
  ASSUME UploadInv, NEW s \in Session, CommitEvent(s)
  PROVE  UploadInv'
<1> USE DEF UploadInv
<1> DEFINE j == job[s]
<1> DEFINE v == VersionRow(j)
<1>1. Busy(s) /\ j \in Job /\ j.pc = "sealed"
  BY JobFields DEF CommitEvent, Busy, At
<1>2. /\ v \in Version /\ v.doc = j.doc /\ v.num = j.num /\ v.blob = j.blob
      /\ SignatureRow(j).blob = j.blob /\ SignatureRow(j).role = j.role
      /\ SignatureRow(j).key = j.key
      /\ OriginalRow(j) = [doc |-> j.doc, ref |-> j.blob] /\ OriginalRow(j) \in Original
  BY <1>1 DEF VersionRow, SignatureRow, OriginalRow, Version, Original, Job, Upload
<1>3. job' = [job EXCEPT ![s] = [job[s] EXCEPT !.pc = "committed"]]
  BY DEF CommitEvent, Goto
<1>4. /\ job'[s] \in Job /\ job'[s].pc = "committed"
      /\ \A t \in Session : t # s => job'[t] = job[t]
      /\ \A t \in Session : /\ job'[t].doc = job[t].doc /\ job'[t].num = job[t].num
                            /\ job'[t].blob = job[t].blob /\ job'[t].key = job[t].key
                            /\ job'[t].role = job[t].role /\ job'[t].flushed = job[t].flushed
      /\ job' \in [Session -> Job \cup {Idle}]
  BY <1>1, <1>3 DEF TypeOK, Job, Point
<1>5. /\ versions' = versions \cup {v}
      /\ originals' = IF j.num = 1 THEN originals \cup {OriginalRow(j)} ELSE originals
      /\ keys' = IF j.key = j.blob THEN [keys EXCEPT ![j.role] = j.key] ELSE keys
      /\ signatures' = signatures \cup {SignatureRow(j)}
      /\ trail' = trail \cup {<<e, j.blob>> : e \in j.flushed}
      /\ UNCHANGED <<suggested, blobs, uploads, acked, refused>>
  BY DEF CommitEvent
<1>6. /\ Filed' = Filed \cup {j.blob}
      /\ \A d : Numbers(d)' = IF d = j.doc THEN Numbers(d) \cup {j.num} ELSE Numbers(d)
  BY <1>2, <1>5 DEF Filed, Numbers
<1>7. \A t \in Session :
        /\ Busy(t)' <=> Busy(t)
        /\ At(t, Begun)' <=> At(t, Begun) /\ t # s
        /\ At(t, Uncommitted)' <=> At(t, Uncommitted) /\ t # s
        /\ At(t, Signing)' <=> At(t, Signing) /\ t # s
        /\ At(t, Begun \ Signing)' <=> At(t, Begun \ Signing)
        /\ At(t, Kept)' <=> At(t, Kept)
        /\ At(t, Kept \ (Uncommitted \cup {"stored"}))'
             <=> At(t, Kept \ (Uncommitted \cup {"stored"})) \/ t = s
        /\ At(t, {"numbered"})' <=> At(t, {"numbered"})
        /\ Provisioning(t)' <=> Provisioning(t) /\ t # s
  BY <1>1, <1>4 DEF Busy, At, Begun, Kept, Uncommitted, Signing, Provisioning
<1>8. /\ At(s, Begun) /\ At(s, Uncommitted) /\ At(s, Signing) /\ At(s, Kept)
      /\ j.flushed = Entry
  BY <1>1 DEF At, Begun, Uncommitted, Kept, Signing, EntriesComplete, Entry, Job
<1>9. \A t \in Session : Busy(t) /\ t # s => job[t].blob # j.blob
  BY <1>1 DEF NamesFresh
<1>10. TypeOK'
  <2>1. keys' \in [Role -> Nat] /\ signatures' \subseteq Signature
    <3>1. j.key # 0
      BY <1>1, <1>8 DEF KeysHeld, Job, Upload, None
    <3> QED
      BY <1>1, <1>5, <3>1 DEF TypeOK, Job, Signature, SignatureRow, Upload
  <2>2. trail' \subseteq Entry \X Upload
    BY <1>1, <1>5, <1>8 DEF TypeOK, Job
  <2> QED
    BY <1>2, <1>4, <1>5, <2>1, <2>2 DEF TypeOK
<1>11. NamesFresh'
  BY <1>1, <1>4, <1>5, <1>6, <1>7, <1>9 DEF NamesFresh
<1>12. FilesKept'
  <2>1. \A t \in Session : VersionRow(job'[t]) = VersionRow(job[t])
    BY <1>4 DEF VersionRow
  <2> QED
    BY <1>4, <1>5, <1>7, <2>1 DEF FilesKept
<1>13. NumbersHeld'
  BY <1>4, <1>6, <1>7, <1>8 DEF NumbersHeld
<1>14. VersionsContiguous'
  <2>1. 1..j.num \subseteq Numbers(j.doc) \cup {j.num}
    BY <1>1, <1>8 DEF NumbersHeld, Job
  <2>2. \A w \in versions' : 1..w.num \subseteq Numbers(w.doc)'
    BY <1>2, <1>5, <1>6, <2>1 DEF VersionsContiguous
  <2>3. \A w \in versions : ~(w.doc = v.doc /\ w.num = v.num) /\ w.blob # v.blob
    BY <1>1, <1>2, <1>8 DEF NumbersHeld, Numbers, NamesFresh, Filed
  <2>4. \A x, w \in versions' : (x.doc = w.doc /\ x.num = w.num) \/ x.blob = w.blob => x = w
    BY <1>5, <2>3 DEF VersionsContiguous
  <2> QED
    BY <2>2, <2>4 DEF VersionsContiguous
<1>15. OriginalsHeld'
  <2>1. \A d : HasOriginal(d)' => HasOriginal(d) \/ (d = j.doc /\ j.num = 1)
    BY <1>2, <1>5 DEF HasOriginal
  <2>2. \A t \in Session \ {s} :
          At(t, Uncommitted) => ~(job[t].doc = j.doc /\ job[t].num = j.num)
    BY <1>8 DEF NumbersHeld
  <2> QED
    BY <1>4, <1>7, <2>1, <2>2 DEF OriginalsHeld
<1>16. OriginalIsFirstVersion'
  <2> DEFINE Own(d) == {o \in originals : o.doc = d}
  <2>1. ASSUME NEW d \in Document, Numbers(d)' # {}
        PROVE  \E w \in versions' : /\ w.doc = d /\ w.num = 1
                 /\ {o \in originals' : o.doc = d} = {[doc |-> d, ref |-> w.blob]}
    <3>1. CASE d # j.doc
      <4>1. {o \in originals' : o.doc = d} = Own(d)
        BY <1>2, <1>5, <3>1
      <4> QED
        BY <1>5, <1>6, <2>1, <3>1, <4>1 DEF OriginalIsFirstVersion
    <3>2. CASE d = j.doc /\ j.num = 1
      <4>1. Own(d) = {}
        BY <1>8, <3>2 DEF OriginalsHeld, HasOriginal
      <4>2. {o \in originals' : o.doc = d} = {OriginalRow(j)}
        BY <1>2, <1>5, <3>2, <4>1
      <4> QED
        BY <1>2, <1>5, <3>2, <4>2
    <3>3. CASE d = j.doc /\ j.num # 1
      <4>1. 1 \in Numbers(d)
        BY <1>1, <1>8, <3>3 DEF NumbersHeld, Job
      <4>2. {o \in originals' : o.doc = d} = Own(d)
        BY <1>5, <3>3
      <4> QED
        BY <1>5, <4>1, <4>2 DEF OriginalIsFirstVersion
    <3> QED
      BY <3>1, <3>2, <3>3
  <2> QED
    BY <2>1 DEF OriginalIsFirstVersion
<1>17. EntriesComplete'
  BY <1>4 DEF EntriesComplete, At
<1>18. VersionSealed'
  <2>1. \A e \in Entry : <<e, j.blob>> \in trail'
    BY <1>5, <1>8
  <2>2. \A x \in trail' : x \in trail \/ x[2] = j.blob
    BY <1>5
  <2> QED
    BY <1>2, <1>5, <2>1, <2>2 DEF VersionSealed
<1>19. \A r \in Role : keys[r] # None => keys'[r] = keys[r]
  BY <1>1, <1>5, <1>8 DEF KeysHeld, NamesFresh, TypeOK
<1>20. KeysHeld' /\ SignedWithRoleKey'
  <2>1. j.key # None /\ j.key = keys'[j.role]
    BY <1>1, <1>5, <1>8 DEF KeysHeld, TypeOK, Job, Upload, None
  <2>2. \A r \in Role : keys'[r] # None => keys'[r] \in Filed'
    BY <1>1, <1>5, <1>6 DEF KeysHeld, TypeOK
  <2>3. SignedWithRoleKey'
    <3>1. \A g \in signatures : g.role \in Role /\ g.key # None
      BY DEF TypeOK, Signature, Upload, None
    <3> QED
      BY <1>2, <1>5, <1>19, <2>1, <3>1 DEF SignedWithRoleKey
  <2>4. ASSUME NEW t \in Session, At(t, Signing), t # s
        PROVE  \/ job[t].key = keys'[job[t].role] /\ job[t].key # None
               \/ job[t].key = job[t].blob /\ keys'[job[t].role] = None
    <3>1. /\ Busy(t) /\ At(t, Uncommitted) /\ job[t].role \in Role
          /\ job[t].blob # None
      BY <2>4, JobFields DEF At, Signing, Uncommitted, Busy, Upload, None
    <3>2. CASE job[t].key = keys[job[t].role] /\ job[t].key # None
      BY <1>19, <3>1, <3>2
    <3>3. CASE job[t].key = job[t].blob /\ keys[job[t].role] = None
      <4>1. Provisioning(t)
        BY <3>1, <3>3 DEF Provisioning
      <4>2. ~(j.key = j.blob /\ j.role = job[t].role)
        BY <1>8, <2>4, <4>1 DEF KeysHeld, Provisioning
      <4> QED
        BY <1>1, <1>5, <3>1, <3>3, <4>2 DEF TypeOK
    <3> QED
      BY <2>4, <3>2, <3>3 DEF KeysHeld
  <2>5. \A t \in Session : At(t, Begun \ Signing)' => job'[t].key = None
    BY <1>4, <1>7 DEF KeysHeld
  <2>6. \A t \in Session : At(t, Signing)' =>
          \/ job'[t].key = keys'[job'[t].role] /\ job'[t].key # None
          \/ job'[t].key = job'[t].blob /\ keys'[job'[t].role] = None
    BY <1>4, <1>7, <2>4
  <2>7. \A t, u \in Session :
          Provisioning(t)' /\ Provisioning(u)' /\ job'[t].role = job'[u].role => t = u
    BY <1>4, <1>7 DEF KeysHeld
  <2> QED
    BY <2>2, <2>3, <2>5, <2>6, <2>7 DEF KeysHeld
<1>21. AckedIsDurable'
  BY <1>5 DEF AckedIsDurable
<1> QED
  BY <1>10, <1>11, <1>12, <1>13, <1>14, <1>15, <1>16, <1>17, <1>18, <1>20, <1>21

\* An original is recorded by hand.
LEMMA AttachStep ==
  ASSUME UploadInv, NEW d \in Document, AttachOriginal(d)
  PROVE  UploadInv'
<1> USE DEF UploadInv
<1> DEFINE o == [doc |-> d, ref |-> ByHand]
<1>1. /\ originals' = originals \cup {o} /\ ~HasOriginal(d)
      /\ \A s \in Session : ~(At(s, Uncommitted) /\ job[s].doc = d /\ job[s].num = 1)
      /\ UNCHANGED <<versions, keys, signatures, trail, suggested, blobs, uploads,
                     acked, refused, job>>
  BY DEF AttachOriginal
<1>2. TypeOK'
  BY <1>1 DEF TypeOK, Original, ByHand
<1>3. OriginalsHeld'
  <2>1. \A e : HasOriginal(e)' => HasOriginal(e) \/ e = d
    BY <1>1 DEF HasOriginal
  <2> QED
    BY <1>1, <2>1 DEF OriginalsHeld, At
<1>4. OriginalIsFirstVersion'
  <2>1. Numbers(d) = {}
    BY <1>1 DEF OriginalIsFirstVersion, HasOriginal
  <2>2. \A e \in Document : e # d =>
          {x \in originals' : x.doc = e} = {x \in originals : x.doc = e}
    BY <1>1
  <2> QED
    BY <1>1, <2>1, <2>2 DEF OriginalIsFirstVersion, Numbers
<1> QED
  BY <1>1, <1>2, <1>3, <1>4
     DEF NamesFresh, FilesKept, NumbersHeld, VersionsContiguous, EntriesComplete, VersionSealed,
         KeysHeld, SignedWithRoleKey, AckedIsDurable, Busy, At, Filed, Numbers, Provisioning
-----------------------------------------------------------------------------
(* The theorems *)

\* Every step keeps the invariant.
LEMMA UploadStep == UploadInv /\ [Next]_vars => UploadInv'
<1> SUFFICES ASSUME UploadInv, [Next]_vars PROVE UploadInv'
  OBVIOUS
<1>1. ASSUME NEW s \in Session, Step(s) \/ Break(s) PROVE UploadInv'
  <2>1. \/ Quiet(s) \/ Put(s) \/ CommitEvent(s)
        \/ PutFails(s) \/ Delete(s) \/ DeleteFails(s) \/ Finish(s)
    BY <1>1 DEF Step, Break, Quiet
  <2> QED
    BY <2>1, QuietStep, PutStep, CommitStep, EndStep
<1>2. CASE UNCHANGED vars
  BY <1>2 DEF vars, rows, UploadInv, TypeOK, NamesFresh, FilesKept, NumbersHeld,
       VersionsContiguous, OriginalsHeld, OriginalIsFirstVersion, EntriesComplete, VersionSealed,
       KeysHeld, SignedWithRoleKey, AckedIsDurable, Busy, At, Filed, Numbers, Provisioning,
       HasOriginal
<1> QED
  BY <1>1, <1>2, BeginStep, AttachStep, EndStep DEF Next

\* The invariant holds in every reachable state, whatever fails.
THEOREM UploadInvariant == Spec => []UploadInv
<1>1. Init => UploadInv
  BY DEF Init, UploadInv, TypeOK, NamesFresh, FilesKept, NumbersHeld, VersionsContiguous,
         OriginalsHeld, OriginalIsFirstVersion, EntriesComplete, VersionSealed, KeysHeld,
         SignedWithRoleKey, AckedIsDurable, Busy, At, Filed, Numbers, Provisioning, Idle,
         Begun, Kept, Uncommitted, Signing, None
<1> QED
  BY <1>1, UploadStep, PTL DEF Spec

\* Every variable keeps its type.
THEOREM UploadTypes == Spec => []TypeOK
  BY UploadInvariant, PTL DEF UploadInv

\* Version numbers have neither gaps nor duplicates.
THEOREM NumbersAreContiguous == Spec => []VersionsContiguous
  BY UploadInvariant, PTL DEF UploadInv

\* The original record is the first version.
THEOREM OriginalIsAlwaysFirst == Spec => []OriginalIsFirstVersion
  BY UploadInvariant, PTL DEF UploadInv

\* No version is committed without its records, its event and its signature.
THEOREM VersionsAreSealed == Spec => []VersionSealed
  BY UploadInvariant, PTL DEF UploadInv

\* Signatures are made with the one key of their role.
THEOREM SignaturesMatchKeys == Spec => []SignedWithRoleKey
  BY UploadInvariant, PTL DEF UploadInv

\* What was answered with 201 is never lost, whatever fails.
THEOREM AckedNeverLost == Spec => []AckedIsDurable
  BY UploadInvariant, PTL DEF UploadInv

-----------------------------------------------------------------------------
(* Without classification and without database failures *)

CleanInv == CleanFailures /\ BytesPreserved /\ RefusedLeavesNothing

\* A failed request has committed nothing, so the except clause deletes no
\* blob of a version.
LEMMA CleanStep ==
  ASSUME ~ClassifyOnUpload, "database" \notin Faults,
         UploadInv, CleanInv, [Next]_vars
  PROVE  CleanInv'
<1> USE DEF CleanInv
<1>0. /\ TypeOK /\ \A b \in Filed : \E v \in versions : v.blob = b
  BY DEF UploadInv, Filed
<1>1. ASSUME NEW s \in Session, Quiet(s) PROVE CleanInv'
  <2>1. /\ UNCHANGED <<versions, blobs, refused, Filed>>
        /\ Busy(s) /\ job'[s].blob = job[s].blob
        /\ \A t \in Session : t # s => job'[t] = job[t]
    BY <1>1, QuietOnward DEF Onward, Moves, rows, Filed
  <2>2. /\ job'[s].pc \notin {"scored", "suggested", "poisoned"}
        /\ job'[s].pc = "failed" => At(s, Begun)
    <3>1. job[s] \in Job /\ job[s].pc \notin {"scored", "suggested", "poisoned"}
      BY <1>0, <2>1, JobFields DEF CleanFailures, At
    <3>2. CASE EmptyFile(s) \/ LedgerFails(s)
      BY <1>0, <2>1, <3>2, GotoMoves
         DEF EmptyFile, LedgerFails, Fail, At, Begun, Uncommitted, Point
    <3>3. CASE FlushVersion(s)
      BY <1>0, <2>1, <3>3, GotoMoves DEF FlushVersion, At, Begun, Point
    <3>4. CASE RecordUpload(s) \/ AppendEvent(s) \/ RecordEvent(s)
      BY <1>0, <3>4, FlushMoves DEF RecordUpload, AppendEvent, RecordEvent, Point, Entry
    <3>5. CASE FindKey(s)
      BY <1>0, <3>1, <3>5 DEF FindKey, TypeOK, Job
    <3>6. CASE MakeKey(s) /\ keys[job[s].role] = None
      BY <1>0, <3>1, <3>6 DEF MakeKey, TypeOK, Job
    <3>7. CASE MakeKey(s) /\ keys[job[s].role] # None
      BY <1>0, <2>1, <3>7, GotoMoves DEF MakeKey, At, Begun, Uncommitted, Point
    <3>8. CASE Skip(s)
      BY <1>0, <2>1, <3>8, GotoMoves DEF Skip, Point
    <3>9. ~(Score(s) \/ FlushSuggestion(s) \/ FinishFails(s) \/ DatabaseFails(s))
      BY <3>1 DEF Score, FlushSuggestion, FinishFails, DatabaseFails, At
    <3> QED
      BY <1>1, <3>2, <3>3, <3>4, <3>5, <3>6, <3>7, <3>8, <3>9 DEF Quiet
  <2>3. At(s, Begun) => job[s].blob \notin Filed
    BY <2>1 DEF UploadInv, NamesFresh
  <2> QED
    BY <2>1, <2>2, <2>3 DEF CleanFailures, BytesPreserved, RefusedLeavesNothing, At
<1>2. ASSUME NEW s \in Session, CommitEvent(s) PROVE CleanInv'
  <2>1. /\ Busy(s) /\ At(s, Kept) /\ At(s, Begun)
    BY <1>2 DEF CommitEvent, Busy, At, Kept, Begun, Uncommitted
  <2>2. job[s].blob \in blobs /\ job[s].blob \notin refused
    BY <2>1 DEF UploadInv, FilesKept, NamesFresh
  <2>3. /\ \A v \in versions' : v \in versions \/ v.blob = job[s].blob
        /\ blobs' = blobs /\ refused' = refused
        /\ \A t \in Session : t # s => job'[t] = job[t]
    BY <1>2 DEF CommitEvent, VersionRow, Goto
  <2>4. job'[s].pc = "committed"
    BY <1>2, <2>1, <1>0, JobFields DEF CommitEvent, Goto, TypeOK, Job
  <2>5. \A t \in Session : t # s /\ At(t, {"failed"}) =>
          job[t].blob # job[s].blob
    BY <2>1 DEF UploadInv, NamesFresh, Busy, At
  <2> QED
    BY <2>2, <2>3, <2>4, <2>5 DEF CleanFailures, BytesPreserved, RefusedLeavesNothing, At, Filed
<1>3. ASSUME NEW s \in Session, PutFails(s) \/ Delete(s) \/ DeleteFails(s) \/ Finish(s)
      PROVE  CleanInv'
  <2>1. /\ versions' = versions /\ Filed' = Filed
        /\ \A t \in Session : job'[t] = IF t = s THEN Idle ELSE job[t]
    BY <1>0, <1>3 DEF PutFails, Delete, DeleteFails, Finish, Refuse, rows, TypeOK, Filed
  <2>2. PutFails(s) \/ Delete(s) \/ DeleteFails(s) => job[s].blob \notin Filed
    BY DEF PutFails, Delete, DeleteFails, UploadInv, NamesFresh, CleanFailures, At, Begun, Busy
  <2>3. /\ \A b \in blobs : b \in blobs' \/ b \notin Filed
        /\ \A b \in refused' : b \in refused \/ b \notin Filed
    BY <1>3, <2>2 DEF PutFails, Delete, DeleteFails, Finish, Refuse
  <2>4. CleanFailures'
    BY <2>1 DEF CleanFailures, At, Idle
  <2> QED
    BY <2>1, <2>3, <2>4 DEF BytesPreserved, RefusedLeavesNothing, Filed
<1>4. ASSUME NEW s \in Session, Put(s) PROVE CleanInv'
  <2>1. /\ versions' = versions /\ blobs \subseteq blobs' /\ refused' = refused /\ Filed' = Filed
        /\ \A t \in Session : t # s => job'[t] = job[t]
    BY <1>4 DEF Put, rows, Filed, Goto
  <2>2. job'[s].pc = "stored"
    BY <1>0, <1>4, JobFields DEF Put, Goto, TypeOK, Job, Busy, At
  <2> QED
    BY <2>1, <2>2 DEF CleanFailures, BytesPreserved, RefusedLeavesNothing, At
<1>5. ASSUME NEW s \in Session, NEW d \in Document, NEW r \in Role, Begin(s, d, r)
      PROVE  CleanInv'
  <2>1. /\ versions' = versions /\ blobs' = blobs /\ refused' = refused /\ Filed' = Filed
        /\ job'[s].pc = "numbered"
        /\ \A t \in Session : t # s => job'[t] = job[t]
    BY <1>0, <1>5 DEF Begin, rows, Filed, TypeOK
  <2> QED
    BY <2>1 DEF CleanFailures, BytesPreserved, RefusedLeavesNothing, At
<1>6. CASE Crash \/ (\E d \in Document : AttachOriginal(d)) \/ UNCHANGED vars
  <2>1. /\ versions' = versions /\ blobs' = blobs /\ refused' = refused /\ Filed' = Filed
        /\ \A t \in Session : job'[t] = job[t] \/ job'[t] = Idle
    BY <1>6 DEF Crash, AttachOriginal, rows, vars, Filed
  <2> QED
    BY <2>1 DEF CleanFailures, BytesPreserved, RefusedLeavesNothing, At, Idle
<1> QED
  BY <1>1, <1>2, <1>3, <1>4, <1>5, <1>6 DEF Next, Step, Break, Quiet

\* Without classification and database failures, the bytes of every version
\* stay in the storage.
THEOREM BytesStay ==
  ASSUME ~ClassifyOnUpload, "database" \notin Faults
  PROVE  Spec => []BytesPreserved
<1>1. Init => CleanInv
  BY DEF Init, CleanInv, CleanFailures, BytesPreserved, RefusedLeavesNothing, At, Idle
<1>2. UploadInv /\ CleanInv /\ [Next]_vars => CleanInv'
  BY CleanStep
<1>3. CleanInv => BytesPreserved
  BY DEF CleanInv
<1> QED
  BY <1>1, <1>2, <1>3, UploadInvariant, PTL DEF Spec

\* Under the same conditions a refused upload leaves no version behind.
THEOREM RefusedIsUndone ==
  ASSUME ~ClassifyOnUpload, "database" \notin Faults
  PROVE  Spec => []RefusedLeavesNothing
<1>1. Init => CleanInv
  BY DEF Init, CleanInv, CleanFailures, BytesPreserved, RefusedLeavesNothing, At, Idle
<1>2. UploadInv /\ CleanInv /\ [Next]_vars => CleanInv'
  BY CleanStep
<1>3. CleanInv => RefusedLeavesNothing
  BY DEF CleanInv
<1> QED
  BY <1>1, <1>2, <1>3, UploadInvariant, PTL DEF Spec

\* Under the same conditions EvidenceUpload implements EvidenceVault.
THEOREM UploadImplementsVault ==
  ASSUME ~ClassifyOnUpload, "database" \notin Faults
  PROVE  Spec => UploadsFillVault
<1> DEFINE readable == {v \in versions : v.blob \in blobs}
<1>1. Init => CleanInv /\ Vault!VaultInit
  BY DEF Init, CleanInv, CleanFailures, BytesPreserved, RefusedLeavesNothing, At, Idle,
         Vault!VaultInit
<1>2. UploadInv /\ CleanInv /\ [Next]_vars => CleanInv'
  BY CleanStep
<1>3. ASSUME UploadInv, CleanInv, CleanInv', [Next]_vars
      PROVE  [Vault!File]_(Vault!vault)
  <2>1. readable = versions /\ readable' = versions'
    BY <1>3 DEF CleanInv, BytesPreserved
  <2>2. ASSUME NEW s \in Session, CommitEvent(s) PROVE Vault!File
    <3> DEFINE v == VersionRow(job[s])
    <3>1. /\ Busy(s) /\ At(s, Begun) /\ At(s, Uncommitted) /\ job[s] \in Job
      BY <1>3, <2>2, JobFields DEF CommitEvent, Busy, At, Begun, Uncommitted, UploadInv
    <3>2. v.doc = job[s].doc /\ v.num = job[s].num /\ v.blob = job[s].blob
      BY DEF VersionRow
    <3>3. versions' = versions \cup {v}
      BY <2>2 DEF CommitEvent
    <3>4. \A w \in versions : w.blob # v.blob
      BY <1>3, <3>1, <3>2 DEF UploadInv, NamesFresh, Filed
    <3>5. job[s].num \notin Numbers(v.doc)
      BY <1>3, <3>1, <3>2 DEF UploadInv, NumbersHeld
    <3>6. \A w \in versions : w.doc = v.doc => w.num < v.num
      <4>1. SUFFICES ASSUME NEW w \in versions, w.doc = v.doc PROVE w.num < v.num
        OBVIOUS
      <4>2. 1..w.num \subseteq Numbers(v.doc)
        BY <1>3, <4>1 DEF UploadInv, VersionsContiguous
      <4>3. w.num \in Nat \ {0} /\ v.num \in Nat \ {0}
        BY <1>3, <3>1, <3>2 DEF UploadInv, TypeOK, Version, Job
      <4>4. v.num \notin 1..w.num
        BY <3>2, <3>5, <4>2
      <4> QED
        BY <4>3, <4>4
    <3>7. v.num = 1 \/ \E w \in versions : w.doc = v.doc /\ v.num = w.num + 1
      <4>1. CASE v.num # 1
        <5>1. v.num - 1 \in Numbers(v.doc)
          BY <1>3, <3>1, <3>2, <4>1 DEF UploadInv, NumbersHeld, Job
        <5>2. PICK w \in versions : w.doc = v.doc /\ w.num = v.num - 1
          BY <5>1 DEF Numbers
        <5> QED
          BY <3>1, <3>2, <5>2 DEF Job
      <4> QED
        BY <4>1
    <3>8. Vault!NextNumber(v)
      BY <3>6, <3>7 DEF Vault!NextNumber
    <3> QED
      BY <2>1, <3>3, <3>4, <3>8 DEF Vault!File
  <2>3. ASSUME \A s \in Session : ~CommitEvent(s) PROVE versions' = versions
    BY <1>3, <2>3 DEF Next, Step, Break, Begin, Put, PutFails, EmptyFile, FlushVersion,
       RecordUpload, FindKey, MakeKey, AppendEvent, RecordEvent, Score, Skip, FlushSuggestion,
       Finish, FinishFails, Delete, LedgerFails, DatabaseFails, DeleteFails, AttachOriginal,
       Crash, Refuse, Fail, Flush, rows, vars
  <2> QED
    BY <2>1, <2>2, <2>3 DEF Vault!vault
<1>4. UploadInv /\ CleanInv /\ CleanInv' /\ [Next]_vars => [Vault!File]_(Vault!vault)
  BY <1>3
<1> QED
  BY <1>1, <1>2, <1>4, UploadInvariant, PTL DEF Spec, UploadsFillVault, Vault!VaultSpec
-----------------------------------------------------------------------------
(* Without storage failures and crashes *)

\* No request ends without filing or deleting its blob.
LEMMA OrphanStep ==
  ASSUME "storage" \notin Faults, "crash" \notin Faults,
         UploadInv, NoOrphans, [Next]_vars
  PROVE  NoOrphans'
<1> DEFINE Owned(b) == (\E v \in versions : v.blob = b)
                       \/ \E s \in Session : Busy(s) /\ job[s].blob = b
<1>1. SUFFICES ASSUME NEW b \in blobs' PROVE Owned(b)'
  BY DEF NoOrphans, Busy
<1>2. b \in blobs => Owned(b)
  BY DEF NoOrphans, Busy
<1>3. TypeOK
  BY DEF UploadInv
<1>4. ASSUME NEW s \in Session, Quiet(s) PROVE Owned(b)'
  <2>1. /\ versions' = versions /\ blobs' = blobs
        /\ \A t \in Session : Busy(t) => Busy(t)' /\ job'[t].blob = job[t].blob
    BY <1>3, <1>4, QuietOnward DEF Onward, Moves, rows, Busy, At, Job, Point, UploadInv
  <2> QED
    BY <1>2, <2>1
<1>5. ASSUME NEW s \in Session, Put(s) \/ CommitEvent(s) PROVE Owned(b)'
  <2>1. Busy(s) /\ job[s] \in Job
    BY <1>3, <1>5, JobFields DEF Put, CommitEvent, Busy, At
  <2>2. \E p \in {"stored", "committed"} : job' = [job EXCEPT ![s] = [job[s] EXCEPT !.pc = p]]
    BY <1>5 DEF Put, CommitEvent, Goto
  <2>3. /\ versions \subseteq versions'
        /\ b \in blobs \/ b = job[s].blob
        /\ \A t \in Session : Busy(t) => Busy(t)' /\ job'[t].blob = job[t].blob
    BY <1>3, <1>5, <2>1, <2>2 DEF Put, CommitEvent, rows, Busy, At, TypeOK, Job
  <2> QED
    BY <1>2, <2>1, <2>3
<1>6. ASSUME NEW s \in Session, PutFails(s) \/ Delete(s) \/ DeleteFails(s) \/ Finish(s)
      PROVE  Owned(b)'
  <2>1. /\ versions' = versions /\ b \in blobs
        /\ \A t \in Session : t # s => job'[t] = job[t]
    <3>1. \E j : job' = [job EXCEPT ![s] = j]
      BY <1>6 DEF PutFails, Delete, DeleteFails, Finish, Refuse
    <3>2. versions' = versions
      BY <1>6 DEF PutFails, Delete, DeleteFails, Finish, Refuse, rows
    <3>3. blobs' \subseteq blobs
      BY <1>6 DEF PutFails, Delete, DeleteFails, Finish
    <3> QED
      BY <1>3, <3>1, <3>2, <3>3 DEF TypeOK
  <2>2. b # job[s].blob \/ \E v \in versions : v.blob = b
    <3>1. CASE PutFails(s)
      BY <2>1, <3>1 DEF PutFails, UploadInv, NamesFresh, At, Busy
    <3>2. CASE Delete(s)
      BY <3>2 DEF Delete
    <3>3. CASE Finish(s)
      <4>1. VersionRow(job[s]) \in versions
        BY <3>3 DEF Finish, UploadInv, FilesKept, At, Kept, Uncommitted
      <4> QED
        BY <4>1 DEF VersionRow
    <3> QED
      BY <1>6, <3>1, <3>2, <3>3 DEF DeleteFails
  <2> QED
    BY <1>2, <2>1, <2>2 DEF Busy, At
<1>7. ASSUME NEW s \in Session, NEW d \in Document, NEW r \in Role, Begin(s, d, r)
      PROVE  Owned(b)'
  <2>1. /\ versions' = versions /\ blobs' = blobs /\ ~Busy(s)
        /\ \A t \in Session : t # s => job'[t] = job[t]
    BY <1>7 DEF Begin, rows, Busy
  <2> QED
    BY <1>2, <2>1 DEF Busy, At
<1>8. CASE Crash \/ (\E d \in Document : AttachOriginal(d)) \/ UNCHANGED vars
  BY <1>2, <1>8 DEF Crash, AttachOriginal, vars, rows, Busy, At
<1> QED
  BY <1>4, <1>5, <1>6, <1>7, <1>8 DEF Next, Step, Break, Quiet

\* Without storage failures and crashes no blob is left behind.
THEOREM NoBlobIsOrphaned ==
  ASSUME "storage" \notin Faults, "crash" \notin Faults
  PROVE  Spec => []NoOrphans
<1>1. Init => NoOrphans
  BY DEF Init, NoOrphans
<1>2. UploadInv /\ NoOrphans /\ [Next]_vars => NoOrphans'
  BY OrphanStep
<1> QED
  BY <1>1, <1>2, UploadInvariant, PTL DEF Spec

-----------------------------------------------------------------------------
(* Losses, whatever fails *)

\* A committed version has its bytes, or its upload has failed after the commit
\* and was answered with an error (Delete, services.py:431-435; deleting and
\* answering are one step): nothing else ever takes the bytes of a version.
LostOnlyWhenRefused == \A v \in versions : v.blob \in blobs \cup refused

\* Faults of every kind, classification and other uploads lose no version that
\* its officer was not told to be refused.
THEOREM LossesAreRefused == Spec => []LostOnlyWhenRefused
<1>1. Init => LostOnlyWhenRefused
  BY DEF Init, LostOnlyWhenRefused
<1>2. ASSUME UploadInv, LostOnlyWhenRefused, [Next]_vars PROVE LostOnlyWhenRefused'
  <2> USE <1>2
  <2>1. ASSUME NEW s \in Session, CommitEvent(s) PROVE LostOnlyWhenRefused'
    <3>1. job[s].blob \in blobs
      BY <2>1 DEF CommitEvent, At, UploadInv, FilesKept, Kept, Uncommitted
    <3>2. /\ \A v \in versions' : v \in versions \/ v.blob = job[s].blob
          /\ blobs' = blobs /\ refused' = refused
      BY <2>1 DEF CommitEvent, VersionRow
    <3> QED
      BY <3>1, <3>2 DEF LostOnlyWhenRefused
  <2>2. ASSUME NEW s \in Session, Delete(s) PROVE LostOnlyWhenRefused'
    BY <2>2 DEF Delete, Refuse, rows, LostOnlyWhenRefused
  <2>3. ASSUME NEW s \in Session, Quiet(s) PROVE LostOnlyWhenRefused'
    <3>1. UNCHANGED <<versions, blobs, refused>>
      BY <2>3, QuietOnward DEF Onward, Moves, rows, UploadInv
    <3> QED
      BY <3>1 DEF LostOnlyWhenRefused
  <2>4. ASSUME NEW s \in Session, Put(s) \/ PutFails(s) \/ DeleteFails(s) \/ Finish(s)
        PROVE  LostOnlyWhenRefused'
    <3>1. versions' = versions /\ blobs \subseteq blobs' /\ refused \subseteq refused'
      BY <2>4 DEF Put, PutFails, DeleteFails, Finish, Refuse, rows
    <3> QED
      BY <3>1 DEF LostOnlyWhenRefused
  <2>5. CASE \/ \E s \in Session, d \in Document, r \in Role : Begin(s, d, r)
             \/ \E d \in Document : AttachOriginal(d)
             \/ Crash
             \/ UNCHANGED vars
    <3>1. UNCHANGED <<versions, blobs, refused>>
      BY <2>5 DEF Begin, AttachOriginal, Crash, rows, vars
    <3> QED
      BY <3>1 DEF LostOnlyWhenRefused
  <2> QED
    BY <2>1, <2>2, <2>3, <2>4, <2>5 DEF Next, Step, Break, Quiet
<1> QED
  BY <1>1, <1>2, UploadInvariant, PTL DEF Spec

-----------------------------------------------------------------------------
(* Waits *)

\* The transaction of t holds a unique key that the next flush of s inserts:
\* the version number, the role key, the metadata of the document.
WaitsOn(s, t) ==
  /\ t # s
  /\ \/ /\ At(s, {"stored"}) /\ At(t, Uncommitted)
        /\ job[t].doc = job[s].doc /\ job[t].num = job[s].num
     \/ /\ At(s, {"keyless"}) /\ Provisioning(t)
        /\ job[t].role = job[s].role
     \/ /\ At(s, {"scored"}) /\ job[s].fresh
        /\ At(t, {"suggested"}) /\ job[t].fresh /\ job[t].doc = job[s].doc

\* The guards of FlushVersion, MakeKey and FlushSuggestion keep s waiting.
Waiting(s) ==
  \/ At(s, {"stored"}) /\ VersionHeld(s)
  \/ At(s, {"keyless"}) /\ KeyHeld(s)
  \/ At(s, {"scored"}) /\ job[s].fresh /\ SuggestionHeld(s)

LEMMA WaitingIsForSomebody ==
  ASSUME NEW s \in Session
  PROVE  Waiting(s) <=> \E t \in Session : WaitsOn(s, t)
BY DEF Waiting, WaitsOn, VersionHeld, KeyHeld, SuggestionHeld

\* Whoever is waited for by one that is itself waited for goes on: no circle of
\* requests, however long, waits for each other's keys.
WaitsNeverCircle ==
  \A s, t, u \in Session : WaitsOn(s, t) /\ WaitsOn(t, u) => ~Waiting(u)

\* Whoever provisions a key has signed with it and waits for nothing more
\* before the commit.
LEMMA ProvisionersGoOn ==
  ASSUME UploadInv, NEW s \in Session, Provisioning(s)
  PROVE  ~Waiting(s)
<1>1. At(s, Signing)
  <2>1. Busy(s) /\ At(s, Begun) /\ job[s].key = job[s].blob
    BY DEF Provisioning, At, Busy, Begun, Uncommitted
  <2>2. job[s].key # None
    BY <2>1, JobFields DEF UploadInv, Upload, None
  <2> QED
    BY <2>1, <2>2 DEF UploadInv, KeysHeld, At
<1> QED
  BY <1>1 DEF Signing, Waiting, At

\* The order in which an upload takes keys (number, role key, commit, metadata)
\* keeps requests from waiting in a circle (services.py:378, signatures.py:52,
\* classification.py:161).
THEOREM UploadsNeverWaitInCircle == Spec => []WaitsNeverCircle
<1>1. ASSUME UploadInv, NEW s \in Session, NEW t \in Session, NEW u \in Session,
             WaitsOn(s, t), WaitsOn(t, u)
      PROVE  ~Waiting(u)
  <2>1. ~At(t, {"suggested"}) /\ ~Provisioning(t)
    <3>1. Waiting(t)
      BY <1>1, WaitingIsForSomebody
    <3>2. ~At(t, {"suggested"})
      BY <3>1 DEF Waiting, At
    <3> QED
      BY <1>1, <3>1, <3>2, ProvisionersGoOn
  <2>2. At(t, Uncommitted)
    BY <1>1, <2>1 DEF WaitsOn
  <2>3. Provisioning(u)
    BY <1>1, <2>2 DEF WaitsOn, At, Uncommitted
  <2> QED
    BY <1>1, <2>3, ProvisionersGoOn
<1>2. UploadInv => WaitsNeverCircle
  BY <1>1 DEF WaitsNeverCircle
<1> QED
  BY <1>2, UploadInvariant, PTL

\* So one of the uploads in progress can always go on.
SomebodyGoesOn ==
  (\E s \in Session : Busy(s)) => \E s \in Session : Busy(s) /\ ~Waiting(s)

\* The unique keys of uploads never leave all of them waiting for each other.
THEOREM SomeUploadGoesOn == Spec => []SomebodyGoesOn
<1>1. ASSUME NEW s \in Session, NEW t \in Session, WaitsOn(s, t)
      PROVE  Busy(t)
  BY <1>1 DEF WaitsOn, Provisioning, Busy, At, Uncommitted
<1>2. ASSUME WaitsNeverCircle, NEW s \in Session, Busy(s)
      PROVE  \E t \in Session : Busy(t) /\ ~Waiting(t)
  <2> SUFFICES ASSUME \A t \in Session : Busy(t) => Waiting(t) PROVE FALSE
    OBVIOUS
  <2>1. PICK t \in Session : WaitsOn(s, t)
    BY <1>2, WaitingIsForSomebody
  <2>2. Busy(t)
    BY <1>1, <2>1
  <2>3. PICK u \in Session : WaitsOn(t, u)
    BY <2>2, WaitingIsForSomebody
  <2>4. Busy(u)
    BY <1>1, <2>3
  <2> QED
    BY <1>2, <2>1, <2>3, <2>4 DEF WaitsNeverCircle
<1>3. WaitsNeverCircle => SomebodyGoesOn
  BY <1>2 DEF SomebodyGoesOn
<1> QED
  BY <1>3, UploadsNeverWaitInCircle, PTL
=============================================================================
