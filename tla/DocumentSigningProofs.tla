----------------------- MODULE DocumentSigningProofs -----------------------
(***************************************************************************)
(* Signing, proved for any number of completing requests, uploads and      *)
(* contents, with calls to the store that land late, sweeps that roll back *)
(* and handlers that go on past their deadline: SigningSound holds in      *)
(* every reachable state.                                                  *)
(***************************************************************************)
EXTENDS DocumentSigning, TLAPS

(* The inductive invariant.                                                *)

(* Who holds the document's row has locked it while it was issued.  Only a *)
(* handler past its deadline goes on without it.                           *)
DocHeld ==
  \A p \in Completers :
    /\ docLock = p => proc[p].at \in Locked /\ doc.status = "issued"
    /\ ~Zombies /\ proc[p].at \in Locked => docLock = p

(* What the second look at the request has found stays true.               *)
StaysOpen ==
  \A p \in Completers :
    docLock = p /\ proc[p].at \in Claimed => request = "pending" /\ signature = None

(* A file's row is locked by the completion that inserted a signature for  *)
(* it and by the sweep that has it in its batch.                           *)
FilesHeld ==
  /\ \A f \in Files, p \in Completers :
       (fileLock[f] = p) <=>
          (docLock = p /\ proc[p].at \in Inserted /\ proc[p].file = f)
  /\ \A f \in Files : (fileLock[f] = Sweep) <=> (f \in sweep.batch)

Locks == DocHeld /\ StaysOpen /\ FilesHeld

(* The sweep works on abandoned uploads, which it has locked until its     *)
(* transaction ends.                                                       *)
SweepOnBatch ==
  /\ sweep.at = "idle" => sweep.batch = {}
  /\ sweep.batch # {} => sweep.todo \subseteq sweep.batch
  /\ sweep.at = "durable" => sweep.file \in sweep.todo
  /\ sweep.at = "row" => /\ sweep.file \in Files /\ row[sweep.file].old
                         /\ sweep.batch # {} => sweep.file \in sweep.batch
  /\ ~SweepFails /\ sweep.at # "idle" => sweep.batch # {}
  /\ \A f \in sweep.batch : row[f].status = "pending"
  /\ \A f \in sweep.batch \cup sweep.todo : row[f].old

(* A completion carries bytes that verified, from the copy on they are the *)
(* declared ones, and the row it has locked stays.                         *)
Copying == {"copying", "copied", "ready", "unstaged"}

Verified ==
  \A p \in Completers :
    /\ proc[p].at # "idle" => proc[p].file \in Files
    /\ proc[p].at \notin {"idle", "loaded"} => proc[p].bytes \in Valid
    /\ proc[p].at \in Copying => row[proc[p].file].declared = proc[p].bytes
    /\ docLock = p /\ proc[p].at \in Inserted => row[proc[p].file].status # "absent"

(* A file whose declared bytes were copied.  They stay in the durable      *)
(* object until the row is past the cutoff, and then until a sweep deletes *)
(* them.                                                                   *)
Stored(f) ==
  /\ row[f].declared # None
  /\ row[f].old \/ durable[f] = row[f].declared
  /\ row[f].status # "absent" /\ f \notin purged /\ f \notin deletedInBatch =>
       durable[f] = row[f].declared

Copied ==
  /\ \A p \in Completers :
       proc[p].at \in {"copied", "ready", "unstaged"} => Stored(proc[p].file)
  /\ \A f \in Files : row[f].status = "ready" => Stored(f)

(* A call that was cut off copies the declared bytes, unstages what is     *)
(* copied, or purges what a sweep gave up.                                 *)
LateHarmless ==
  \A c \in late :
    /\ c.call = "copy" => c.bytes = row[c.file].declared /\ c.bytes # None
    /\ c.call = "unstage" => Stored(c.file)
    /\ c.call = "purge" => SweepFails /\ row[c.file].old

(* A row that was requested has a declared checksum, and only then is      *)
(* anything put.                                                           *)
RowDeclared ==
  \A f \in Files :
    /\ row[f].status # "absent" => row[f].declared # None
    /\ row[f].declared = None => lastPut[f] = None

(* The signature's file is ready, with the declared bytes.                 *)
SignedFile ==
  signature # None /\ "signature" \notin strays =>
    /\ row[signature.file].status = "ready"
    /\ row[signature.file].declared = signature.signer

Recorded == SignedFile /\ SignedIsNotCancelled /\ CompletedIsSigned /\ Accounted

SInv ==
  /\ TypeOK /\ Locks /\ SweepOnBatch /\ Verified /\ Copied /\ LateHarmless
  /\ RowDeclared /\ Recorded /\ UploadSurvives

-----------------------------------------------------------------------------
(* Types.                                                                  *)

Procs == [at : Steps, file : Files \cup {None}, bytes : Objects]
Rows == [status : {"absent", "pending", "ready"}, declared : Objects, old : BOOLEAN]
Calls == [call : {"copy", "unstage", "purge"}, file : Files, bytes : Objects]

LEMMA DocumentTypes ==
  ASSUME SigningAssumption, TypeOK, document \/ upload
  PROVE  TypeOK'
<1>1. CASE requestSign \/ grantExpires \/ cancel
  BY <1>1 DEF requestSign, grantExpires, cancel, TypeOK, storeVars, historyVars
<1>2. CASE startSigning \/ abandonRequest
  BY <1>2 DEF startSigning, abandonRequest, TypeOK, storeVars, historyVars
<1>3. ASSUME NEW f \in Files, requestSigningUpload(f) PROVE TypeOK'
  BY <1>3 DEF requestSigningUpload, TypeOK, storeVars, historyVars, Objects
<1>4. ASSUME NEW f \in Files, putObject(f) PROVE TypeOK'
  BY <1>4 DEF putObject, TypeOK, rowsVars, historyVars, Objects
<1>5. ASSUME NEW f \in Files, passesCutoff(f) PROVE TypeOK'
  <2>0. row[f] \in Rows
    BY DEF TypeOK, Rows
  <2>1. [row[f] EXCEPT !.old = TRUE] \in Rows
    BY <2>0 DEF Rows
  <2>2. row' = [row EXCEPT ![f] = [row[f] EXCEPT !.old = TRUE]]
    BY <1>5 DEF passesCutoff, TypeOK
  <2>3. row' \in [Files -> Rows]
    BY <2>1, <2>2 DEF TypeOK, Rows
  <2> QED BY <1>5, <2>3 DEF passesCutoff, TypeOK, storeVars, historyVars, Rows
<1> QED BY <1>1, <1>2, <1>3, <1>4, <1>5 DEF document, upload

(* Releasing what a transaction holds.                                     *)
LEMMA ReleaseTypes ==
  ASSUME TypeOK, NEW p
  PROVE  /\ releaseDoc(p) => docLock' \in Completers \cup {None}
         /\ releaseFiles(p) => fileLock' \in [Files -> Completers \cup {Sweep, None}]
BY DEF TypeOK, releaseDoc, releaseFiles

LEMMA LeaveTypes ==
  ASSUME TypeOK, NEW p \in Completers, leave(p)
  PROVE  TypeOK'
<1>1. proc' \in [Completers -> Procs]
  BY DEF leave, TypeOK, Idle, Steps, Objects, Procs
<1> QED BY <1>1, ReleaseTypes DEF leave, TypeOK, rowsVars, storeVars, historyVars, Procs

(* Readying a row.                                                         *)
LEMMA ReadyTypes ==
  ASSUME TypeOK, NEW f \in Files, row' = [row EXCEPT ![f].status = "ready"]
  PROVE  row' \in [Files -> Rows]
<1>1. [row[f] EXCEPT !.status = "ready"] \in Rows
  BY DEF TypeOK, Rows
<1> QED BY <1>1 DEF TypeOK, Rows

LEMMA CompleteTypes ==
  ASSUME SigningAssumption, TypeOK, Verified, NEW p \in Completers, complete(p)
  PROVE  TypeOK'
<1>0. ASSUME NEW at \in Steps, step(p, at) PROVE proc' \in [Completers -> Procs]
  BY <1>0 DEF step, TypeOK, Procs
<1>a. proc[p].at # "idle" => proc[p].file \in Files
  BY DEF Verified
<1>b. proc' = [proc EXCEPT ![p] = Idle] => proc' \in [Completers -> Procs]
  BY DEF TypeOK, Idle, Steps, Objects, Procs
<1>1. ASSUME NEW f \in Files, load(p, f) PROVE TypeOK'
  <2>1. proc' \in [Completers -> Procs]
    BY <1>1 DEF load, TypeOK, Steps, Objects, Procs
  <2> QED BY <1>1, <2>1 DEF load, TypeOK, rowsVars, storeVars, historyVars, Procs
<1>2. CASE readPendingSigningObject(p)
  <2>1. readable(proc[p].file) \in Objects
    BY <1>2 DEF readPendingSigningObject, verifies, SigningAssumption, Objects
  <2>2. proc' \in [Completers -> Procs]
    <3>0. proc[p] \in Procs
      BY DEF TypeOK, Procs
    <3>1. [proc[p] EXCEPT !.at = "verified", !.bytes = readable(proc[p].file)] \in Procs
      BY <2>1, <3>0 DEF Steps, Procs
    <3>2. proc' = [proc EXCEPT ![p] =
                     [proc[p] EXCEPT !.at = "verified", !.bytes = readable(proc[p].file)]]
      BY <1>2 DEF readPendingSigningObject, TypeOK
    <3> QED BY <3>1, <3>2 DEF TypeOK, Procs
  <2> QED BY <1>2, <2>2
          DEF readPendingSigningObject, TypeOK, rowsVars, storeVars, historyVars, Procs
<1>3. CASE \/ readRefused(p) \/ lockRefused(p) \/ alreadySigned(p) \/ insertRefused(p)
           \/ recordRefused(p) \/ copyRefused(p) \/ readyRefused(p) \/ completeRefused(p)
  BY <1>3, LeaveTypes
     DEF readRefused, lockRefused, alreadySigned, insertRefused, recordRefused,
         copyRefused, readyRefused, completeRefused
<1>4. CASE lockIssuedForSigning(p)
  <2>1. proc' \in [Completers -> Procs]
    BY <1>0, <1>4 DEF lockIssuedForSigning, Steps, Locked
  <2> QED BY <1>4, <2>1
          DEF lockIssuedForSigning, takesDoc, TypeOK, rowsVars, storeVars, historyVars, Procs
<1>5. CASE claimRequest(p) \/ recordSigningObject(p) \/ readyRaced(p)
  <2>1. proc' \in [Completers -> Procs]
    BY <1>0, <1>5
       DEF claimRequest, recordSigningObject, readyRaced, Steps, Locked, Claimed, Inserted
  <2> QED BY <1>5, <2>1
          DEF claimRequest, recordSigningObject, readyRaced, TypeOK, rowsVars, storeVars,
              historyVars, Procs
<1>6. CASE insertSignature(p)
  <2>1. proc' \in [Completers -> Procs]
    BY <1>0, <1>6 DEF insertSignature, Steps, Locked, Claimed, Inserted
  <2>2. fileLock' \in [Files -> Completers \cup {Sweep, None}]
    BY <1>6 DEF insertSignature, TypeOK
  <2> QED BY <1>6, <2>1, <2>2
          DEF insertSignature, TypeOK, rowsVars, storeVars, historyVars, Procs
<1>7. CASE insertsLate(p)
  <2>1. signature' \in [file : Files, signer : Valid]
    BY <1>7 DEF insertsLate, Verified
  <2>2. proc' \in [Completers -> Procs]
    BY <1>7, <1>b DEF insertsLate
  <2> QED BY <1>7, <2>1, <2>2 DEF insertsLate, TypeOK, storeVars, Procs
<1>8. CASE copyObject(p)
  <2>1. proc' \in [Completers -> Procs]
    BY <1>0, <1>8 DEF copyObject, Steps, Locked, Claimed, Inserted
  <2>2. durable' \in [Files -> Objects]
    BY <1>8, <1>a DEF copyObject, TypeOK
  <2> QED BY <1>8, <2>1, <2>2 DEF copyObject, TypeOK, rowsVars, historyVars, Procs
<1>9. CASE markReady(p)
  <2>1. proc' \in [Completers -> Procs]
    BY <1>0, <1>9 DEF markReady, Steps, Locked, Claimed, Inserted
  <2>2. row' \in [Files -> Rows]
    BY <1>9, <1>a, ReadyTypes DEF markReady, TypeOK, Rows
  <2>3. strays' \subseteq {"signature", "file", "request"}
    BY <1>9 DEF markReady, TypeOK
  <2> QED BY <1>9, <2>1, <2>2, <2>3 DEF markReady, TypeOK, storeVars, Procs, Rows
<1>10. CASE deleteStaging(p)
  <2>1. proc' \in [Completers -> Procs]
    BY <1>0, <1>10 DEF deleteStaging, Steps, Locked, Claimed, Inserted
  <2>2. staging' \in [Files -> Objects]
    BY <1>10 DEF deleteStaging, TypeOK, Objects
  <2> QED BY <1>10, <2>1, <2>2 DEF deleteStaging, TypeOK, rowsVars, historyVars, Procs
<1>11. CASE commit(p)
  <2>1. proc' \in [Completers -> Procs]
    BY <1>11, <1>b DEF commit
  <2>2. signature' \in [file : Files, signer : Valid]
    BY <1>11 DEF commit, Verified
  <2>3. row' \in [Files -> Rows]
    BY <1>11, <1>a, ReadyTypes DEF commit
  <2> QED BY <1>11, <2>1, <2>2, <2>3, ReleaseTypes
          DEF commit, TypeOK, storeVars, historyVars, Procs, Rows
<1>12. CASE completesLate(p)
  <2>1. proc' \in [Completers -> Procs]
    BY <1>12, <1>b DEF completesLate
  <2> QED BY <1>12, <2>1 DEF completesLate, TypeOK, storeVars, Procs
<1>13. CASE rollBack(p)
  <2>1. proc' \in [Completers -> Procs]
    BY <1>13, <1>b DEF rollBack
  <2>2. proc[p].file \in Files /\ proc[p].bytes \in Objects
    BY <1>13, <1>a DEF rollBack, TypeOK
  <2>3. late' \subseteq Calls
    BY <1>13, <2>2 DEF rollBack, TypeOK, Objects, Calls
  <2> QED BY <1>13, <2>1, <2>3, ReleaseTypes
          DEF rollBack, TypeOK, rowsVars, storeVars, historyVars, Procs, Calls
<1>14. CASE outlive(p)
  BY <1>14, ReleaseTypes DEF outlive, TypeOK, rowsVars, storeVars, historyVars
<1> QED BY <1>1, <1>2, <1>3, <1>4, <1>5, <1>6, <1>7, <1>8, <1>9, <1>10, <1>11, <1>12,
           <1>13, <1>14 DEF complete

LEMMA LandingTypes ==
  ASSUME TypeOK, NEW c \in late, callLands(c)
  PROVE  TypeOK'
<1>1. c.file \in Files /\ late' \subseteq late /\ purged' \subseteq Files
  BY DEF callLands, TypeOK
<1>2. staging' \in [Files -> Objects]
  BY <1>1 DEF callLands, TypeOK, Objects
<1>3. durable' \in [Files -> Objects]
  BY <1>1 DEF callLands, TypeOK, Objects
<1> QED BY <1>1, <1>2, <1>3 DEF callLands, TypeOK, rowsVars

LEMMA SweepTypes ==
  ASSUME TypeOK, SweepOnBatch, sweepAbandonedUploads
  PROVE  TypeOK'
<1>1. CASE sweepSelects
  <2>1. abandoned \in SUBSET Files
    BY DEF abandoned
  <2>2. fileLock' \in [Files -> Completers \cup {Sweep, None}]
    BY <1>1 DEF sweepSelects, TypeOK
  <2> QED BY <1>1, <2>1, <2>2 DEF sweepSelects, TypeOK, rowsVars, storeVars, historyVars
<1>2. CASE sweepDeletesStaging
  <2>1. PICK f \in sweep.todo :
          /\ staging' = [staging EXCEPT ![f] = None]
          /\ sweep' = [sweep EXCEPT !.at = "durable", !.file = f]
    BY <1>2 DEF sweepDeletesStaging
  <2>2. f \in Files /\ staging' \in [Files -> Objects]
    BY <2>1 DEF TypeOK, Objects
  <2> QED BY <1>2, <2>1, <2>2 DEF sweepDeletesStaging, TypeOK, rowsVars, historyVars
<1>3. CASE sweepDeletesDurable
  <2>1. sweep.file \in Files
    BY <1>3 DEF sweepDeletesDurable, SweepOnBatch, TypeOK
  <2> QED BY <1>3, <2>1 DEF sweepDeletesDurable, TypeOK, rowsVars, Objects
<1>4. CASE sweepDeletesRow
  <2>1. row' \in [Files -> Rows]
    <3>1. sweep.file \in Files
      BY <1>4 DEF sweepDeletesRow, SweepOnBatch
    <3>2. [row[sweep.file] EXCEPT !.status = "absent"] \in Rows
      BY <3>1 DEF TypeOK, Rows
    <3> QED BY <1>4, <3>1, <3>2 DEF sweepDeletesRow, TypeOK, Rows
  <2>2. sweep' = [sweep EXCEPT !.at = "next", !.file = None]
    BY <1>4 DEF sweepDeletesRow
  <2> QED BY <1>4, <2>1, <2>2 DEF sweepDeletesRow, TypeOK, storeVars, historyVars, Rows
<1>5. CASE sweepCommits
  <2>1. row' \in [Files -> Rows]
    BY <1>5 DEF sweepCommits, TypeOK, Rows
  <2> QED BY <1>5, <2>1, ReleaseTypes
          DEF sweepCommits, TypeOK, storeVars, historyVars, Resting, Rows
<1>6. deletedInBatch \subseteq Files
  BY DEF deletedInBatch, TypeOK
<1>7. CASE sweepRollsBack
  <2>1. late' \subseteq Calls
    BY <1>7 DEF sweepRollsBack, TypeOK, SweepOnBatch, Objects, Calls
  <2> QED BY <1>6, <1>7, <2>1, ReleaseTypes
          DEF sweepRollsBack, TypeOK, rowsVars, storeVars, Resting, Calls
<1>8. CASE sweepRefused
  BY <1>6, <1>8, ReleaseTypes DEF sweepRefused, TypeOK, rowsVars, storeVars, Resting
<1>9. CASE sweepOutlives
  BY <1>6, <1>9, ReleaseTypes DEF sweepOutlives, TypeOK, rowsVars, storeVars
<1> QED BY <1>1, <1>2, <1>3, <1>4, <1>5, <1>7, <1>8, <1>9 DEF sweepAbandonedUploads


-----------------------------------------------------------------------------
(* Locks.                                                                  *)

(* A handler ends, with what its transaction has locked.                   *)
LEMMA EndLocks ==
  ASSUME SigningAssumption, TypeOK, Locks, NEW p \in Completers,
         proc' = [proc EXCEPT ![p] = Idle], releaseDoc(p), releaseFiles(p),
         UNCHANGED <<doc, sweep>>,
         docLock = p \/ UNCHANGED <<request, signature>>
  PROVE  Locks'
<1>1. /\ proc'[p].at = "idle"
      /\ \A q \in Completers \ {p} : proc'[q] = proc[q]
  BY DEF TypeOK, Idle
<1>2. docLock' # p /\ \A q \in Completers \ {p} : (docLock' = q) <=> (docLock = q)
  BY DEF releaseDoc, SigningAssumption
<1>3. \A f \in Files : /\ fileLock'[f] # p
                       /\ \A q \in (Completers \cup {Sweep}) \ {p} :
                            (fileLock'[f] = q) <=> (fileLock[f] = q)
  BY DEF releaseFiles, held, SigningAssumption
<1>4. DocHeld'
  BY <1>1, <1>2 DEF Locks, DocHeld, Locked, Claimed, Inserted
<1>5. StaysOpen'
  BY <1>1, <1>2 DEF Locks, StaysOpen
<1>6. FilesHeld'
  <2>1. ASSUME NEW f \in Files, NEW q \in Completers
        PROVE  (fileLock'[f] = q) <=>
                 (docLock' = q /\ proc'[q].at \in Inserted /\ proc'[q].file = f)
    <3>1. CASE q = p
      BY <1>1, <1>2, <1>3, <3>1
    <3>2. CASE q # p
      BY <1>1, <1>2, <1>3, <3>2 DEF Locks, FilesHeld
    <3> QED BY <3>1, <3>2
  <2>2. \A f \in Files : (fileLock'[f] = Sweep) <=> (f \in sweep'.batch)
    BY <1>3 DEF Locks, FilesHeld, SigningAssumption
  <2> QED BY <2>1, <2>2 DEF FilesHeld
<1> QED BY <1>4, <1>5, <1>6 DEF Locks

(* A handler goes on, with the locks it has.                               *)
LEMMA MoveLocks ==
  ASSUME SigningAssumption, TypeOK, Locks, NEW p \in Completers, NEW r,
         proc' = [proc EXCEPT ![p] = r],
         UNCHANGED <<doc, sweep, docLock, fileLock, request, signature>>,
         (r.at \in Locked) <=> (proc[p].at \in Locked),
         (r.at \in Inserted) <=> (proc[p].at \in Inserted),
         r.at \in Claimed => proc[p].at \in Claimed,
         r.at \in Inserted => r.file = proc[p].file
  PROVE  Locks'
<1>1. /\ proc'[p] = r
      /\ \A q \in Completers \ {p} : proc'[q] = proc[q]
  BY DEF TypeOK
<1>4. DocHeld'
  BY <1>1 DEF Locks, DocHeld
<1>5. StaysOpen'
  BY <1>1 DEF Locks, StaysOpen
<1>6. FilesHeld'
  BY <1>1 DEF Locks, FilesHeld
<1> QED BY <1>4, <1>5, <1>6 DEF Locks

LEMMA CompleteLocks ==
  ASSUME SigningAssumption, TypeOK, Locks, NEW p \in Completers, complete(p)
  PROVE  Locks'
<1>0. ASSUME NEW at, step(p, at)
      PROVE  /\ proc' = [proc EXCEPT ![p] = [proc[p] EXCEPT !.at = at]]
             /\ [proc[p] EXCEPT !.at = at].at = at
             /\ [proc[p] EXCEPT !.at = at].file = proc[p].file
  BY <1>0 DEF step, TypeOK
<1>1. CASE leave(p) \/ rollBack(p)
  BY <1>1, EndLocks DEF leave, rollBack, rowsVars
<1>2. CASE \/ readRefused(p) \/ lockRefused(p) \/ alreadySigned(p) \/ insertRefused(p)
           \/ recordRefused(p) \/ copyRefused(p) \/ readyRefused(p) \/ completeRefused(p)
  BY <1>1, <1>2
     DEF readRefused, lockRefused, alreadySigned, insertRefused, recordRefused,
         copyRefused, readyRefused, completeRefused
<1>3. CASE commit(p)
  <2>1. docLock = p
    BY <1>3 DEF commit, inTx
  <2> QED BY <1>3, <2>1, EndLocks DEF commit
<1>4. ASSUME NEW f \in Files, load(p, f) PROVE Locks'
  <2> DEFINE r == [at |-> "loaded", file |-> f, bytes |-> None]
  <2>1. proc' = [proc EXCEPT ![p] = r]
    BY <1>4 DEF load
  <2>2. /\ r.at \notin Locked /\ r.at \notin Claimed /\ r.at \notin Inserted
        /\ proc[p].at \notin Locked /\ proc[p].at \notin Inserted
    BY <1>4 DEF load, Locked, Claimed, Inserted
  <2> HIDE DEF r
  <2> QED BY <1>4, <2>1, <2>2, MoveLocks DEF load, rowsVars
<1>5. CASE readPendingSigningObject(p)
  <2> DEFINE r == [proc[p] EXCEPT !.at = "verified", !.bytes = readable(proc[p].file)]
  <2>1. proc' = [proc EXCEPT ![p] = r]
    BY <1>5 DEF readPendingSigningObject, TypeOK
  <2>2. r.at = "verified" /\ proc[p].at = "loaded"
    BY <1>5 DEF readPendingSigningObject, TypeOK
  <2> HIDE DEF r
  <2>3. /\ r.at \notin Locked /\ r.at \notin Claimed /\ r.at \notin Inserted
        /\ proc[p].at \notin Locked /\ proc[p].at \notin Inserted
    BY <2>2 DEF Locked, Claimed, Inserted
  <2> QED BY <1>5, <2>1, <2>3, MoveLocks DEF readPendingSigningObject, rowsVars
<1>6. CASE \/ recordSigningObject(p) \/ copyObject(p) \/ markReady(p) \/ readyRaced(p)
           \/ deleteStaging(p)
  <2>1. PICK at \in Inserted : step(p, at)
    BY <1>6 DEF recordSigningObject, copyObject, markReady, readyRaced, deleteStaging, Inserted
  <2>2. proc[p].at \in Inserted
    BY <1>6 DEF recordSigningObject, copyObject, markReady, readyRaced, deleteStaging, Inserted
  <2>3. UNCHANGED <<doc, sweep, docLock, fileLock, request, signature>>
    BY <1>6 DEF recordSigningObject, copyObject, markReady, readyRaced, deleteStaging, rowsVars
  <2> DEFINE r == [proc[p] EXCEPT !.at = at]
  <2>4. proc' = [proc EXCEPT ![p] = r] /\ r.at = at /\ r.file = proc[p].file
    BY <1>0, <2>1
  <2>5. at \in Locked /\ at \in Claimed /\ proc[p].at \in Locked /\ proc[p].at \in Claimed
    BY <2>1, <2>2 DEF Locked, Claimed
  <2> HIDE DEF r
  <2> QED BY <2>1, <2>2, <2>3, <2>4, <2>5, MoveLocks
<1>7. CASE lockIssuedForSigning(p)
  <2>1. /\ proc'[p].at = "locked" /\ proc[p].at = "verified"
        /\ \A q \in Completers \ {p} : proc'[q] = proc[q]
    BY <1>7 DEF lockIssuedForSigning, step, TypeOK
  <2>2. /\ docLock = None /\ docLock' = p /\ doc.status = "issued"
        /\ UNCHANGED <<doc, sweep, fileLock, request, signature>>
    BY <1>7 DEF lockIssuedForSigning, takesDoc, issuedAndGranted, rowsVars
  <2>3. \A q \in Completers : docLock # q
    BY <2>2 DEF SigningAssumption
  <2>4. DocHeld'
    BY <2>1, <2>2, <2>3 DEF Locks, DocHeld, Locked
  <2>5. StaysOpen'
    BY <2>1, <2>2 DEF StaysOpen, Claimed, Inserted
  <2>6. FilesHeld'
    BY <2>1, <2>2, <2>3 DEF Locks, FilesHeld, Inserted
  <2> QED BY <2>4, <2>5, <2>6 DEF Locks
<1>8. CASE claimRequest(p)
  <2>1. /\ proc'[p].at = "claimed" /\ proc[p].at = "locked"
        /\ \A q \in Completers \ {p} : proc'[q] = proc[q]
    BY <1>8 DEF claimRequest, step, TypeOK
  <2>2. /\ request = "pending" /\ signature = None
        /\ UNCHANGED <<doc, sweep, docLock, fileLock, request, signature>>
    BY <1>8 DEF claimRequest, stillOpen, rowsVars
  <2>4. DocHeld'
    BY <2>1, <2>2 DEF Locks, DocHeld, Locked, Claimed
  <2>5. StaysOpen'
    BY <2>1, <2>2 DEF Locks, StaysOpen
  <2>6. FilesHeld'
    BY <2>1, <2>2 DEF Locks, FilesHeld, Inserted
  <2> QED BY <2>4, <2>5, <2>6 DEF Locks
<1>9. CASE insertSignature(p)
  <2> DEFINE f == proc[p].file
  <2>1. /\ proc'[p].at = "recording" /\ proc'[p].file = f /\ proc[p].at = "claimed"
        /\ \A q \in Completers \ {p} : proc'[q] = proc[q]
    BY <1>9 DEF insertSignature, step, TypeOK
  <2>2. /\ docLock = p /\ fileLock[f] # Sweep
        /\ UNCHANGED <<doc, sweep, docLock, request, signature>>
    BY <1>9 DEF insertSignature, inTx, keysFree, rowsVars
  <2>3. \A g \in Files : fileLock'[g] = IF g = f THEN p ELSE fileLock[g]
    BY <1>9 DEF insertSignature, TypeOK
  <2>4. DocHeld'
    BY <2>1, <2>2 DEF Locks, DocHeld, Locked, Claimed, Inserted
  <2>5. StaysOpen'
    BY <2>1, <2>2 DEF Locks, StaysOpen, Claimed
  <2>6. \A g \in Files, q \in Completers :
          (fileLock'[g] = q) <=> (docLock' = q /\ proc'[q].at \in Inserted /\ proc'[q].file = g)
    BY <2>1, <2>2, <2>3 DEF Locks, FilesHeld, Inserted
  <2>7. \A g \in Files : (fileLock'[g] = Sweep) <=> (g \in sweep'.batch)
    BY <2>2, <2>3 DEF Locks, FilesHeld, SigningAssumption
  <2> QED BY <2>4, <2>5, <2>6, <2>7 DEF Locks, FilesHeld
<1>10. CASE insertsLate(p)
  <2>1. docLock = None /\ UNCHANGED <<doc, sweep, docLock, fileLock>>
    BY <1>10 DEF insertsLate, inTx, keysFree
  <2>2. proc'[p].at = "idle" /\ \A q \in Completers \ {p} : proc'[q] = proc[q]
    BY <1>10 DEF insertsLate, TypeOK, Idle
  <2>3. \A q \in Completers : docLock # q
    BY <2>1 DEF SigningAssumption
  <2>4. DocHeld'
    BY <2>1, <2>2, <2>3 DEF Locks, DocHeld, Locked, Claimed, Inserted
  <2>5. StaysOpen'
    BY <2>1, <2>3 DEF StaysOpen
  <2>6. FilesHeld'
    BY <2>1, <2>3 DEF Locks, FilesHeld
  <2> QED BY <2>4, <2>5, <2>6 DEF Locks
<1>11. CASE completesLate(p)
  <2>1. docLock # p /\ UNCHANGED <<doc, sweep, docLock, fileLock, signature>>
    BY <1>11 DEF completesLate, inTx
  <2>2. proc'[p].at = "idle" /\ \A q \in Completers \ {p} : proc'[q] = proc[q]
    BY <1>11 DEF completesLate, TypeOK, Idle
  <2>3. \A q \in Completers : docLock = q => proc[q].at \notin Claimed
    BY <1>11 DEF completesLate, requestLocked, inTx
  <2>4. DocHeld'
    BY <2>1, <2>2 DEF Locks, DocHeld, Locked, Claimed, Inserted
  <2>5. StaysOpen'
    BY <2>1, <2>2, <2>3 DEF StaysOpen
  <2>6. FilesHeld'
    BY <2>1, <2>2 DEF Locks, FilesHeld
  <2> QED BY <2>4, <2>5, <2>6 DEF Locks
<1>12. CASE outlive(p)
  <2>1. /\ docLock = p /\ Zombies /\ docLock' = None
        /\ UNCHANGED <<doc, sweep, proc, request, signature>>
    BY <1>12 DEF outlive, inTx, releaseDoc, rowsVars
  <2>2. \A f \in Files : /\ fileLock'[f] # p
                         /\ \A q \in (Completers \cup {Sweep}) \ {p} :
                              (fileLock'[f] = q) <=> (fileLock[f] = q)
    BY <1>12 DEF outlive, releaseFiles, held, SigningAssumption
  <2>3. \A q \in Completers : docLock' # q
    BY <2>1 DEF SigningAssumption
  <2>4. DocHeld' /\ StaysOpen'
    BY <2>1, <2>3 DEF DocHeld, StaysOpen
  <2>5. ASSUME NEW f \in Files PROVE \A q \in Completers : fileLock'[f] # q
    BY <2>1, <2>2 DEF Locks, FilesHeld
  <2>6. \A f \in Files : (fileLock'[f] = Sweep) <=> (f \in sweep'.batch)
    BY <2>1, <2>2 DEF Locks, FilesHeld, SigningAssumption
  <2> QED BY <2>3, <2>4, <2>5, <2>6 DEF Locks, FilesHeld
<1> QED BY <1>1, <1>2, <1>3, <1>4, <1>5, <1>6, <1>7, <1>8, <1>9, <1>10, <1>11, <1>12
        DEF complete

LEMMA OtherLocks ==
  ASSUME SigningAssumption, TypeOK, Locks, SweepOnBatch,
         \/ document \/ upload \/ sweepAbandonedUploads
         \/ \E c \in late : callLands(c)
  PROVE  Locks'
<1>1. CASE document
  <2>1. UNCHANGED <<proc, docLock, fileLock, sweep>>
    BY <1>1 DEF document, requestSign, grantExpires, cancel, startSigning, abandonRequest
  <2>2. ASSUME NEW p \in Completers, docLock = p
        PROVE  /\ doc'.status = doc.status
               /\ proc[p].at \in Claimed => UNCHANGED <<request, signature>>
    <3>1. docLock # None
      BY <2>2 DEF SigningAssumption
    <3> QED BY <1>1, <2>2, <3>1
            DEF document, requestSign, grantExpires, cancel, startSigning, abandonRequest,
                requestLocked, inTx, TypeOK
  <2>3. DocHeld' /\ StaysOpen' /\ FilesHeld'
    BY <2>1, <2>2 DEF Locks, DocHeld, StaysOpen, FilesHeld
  <2> QED BY <2>3 DEF Locks
<1>2. CASE upload
  <2>1. UNCHANGED <<doc, request, signature, proc, docLock, fileLock, sweep>>
    BY <1>2 DEF upload, requestSigningUpload, putObject, passesCutoff, rowsVars
  <2> QED BY <2>1 DEF Locks, DocHeld, StaysOpen, FilesHeld
<1>3. CASE \E c \in late : callLands(c)
  <2>1. UNCHANGED <<doc, request, signature, proc, docLock, fileLock, sweep>>
    BY <1>3 DEF callLands, rowsVars
  <2> QED BY <2>1 DEF Locks, DocHeld, StaysOpen, FilesHeld
<1>4. CASE sweepAbandonedUploads
  <2>1. UNCHANGED <<doc, request, signature, proc, docLock>>
    BY <1>4 DEF sweepAbandonedUploads, sweepSelects, sweepDeletesStaging,
                sweepDeletesDurable, sweepDeletesRow, sweepCommits, sweepRollsBack,
                sweepRefused, sweepOutlives, rowsVars
  <2>2. DocHeld' /\ StaysOpen'
    BY <2>1 DEF Locks, DocHeld, StaysOpen
  <2>3. ASSUME sweepSelects
        PROVE  FilesHeld'
    <3>1. sweep.batch = {} /\ sweep'.batch = abandoned
      BY <2>3 DEF sweepSelects, SweepOnBatch
    <3>2. \A f \in Files : fileLock'[f] = IF f \in abandoned THEN Sweep ELSE fileLock[f]
      BY <2>3 DEF sweepSelects
    <3>3. \A f \in abandoned : fileLock[f] = None
      BY DEF abandoned
    <3> QED BY <2>1, <3>1, <3>2, <3>3 DEF Locks, FilesHeld, SigningAssumption
  <2>4. ASSUME sweepDeletesStaging \/ sweepDeletesDurable \/ sweepDeletesRow
        PROVE  FilesHeld'
    <3>1. sweep'.batch = sweep.batch /\ UNCHANGED fileLock
      BY <2>4 DEF sweepDeletesStaging, sweepDeletesDurable, sweepDeletesRow, TypeOK
    <3> QED BY <2>1, <3>1 DEF Locks, FilesHeld
  <2>5. ASSUME sweepCommits \/ sweepRollsBack \/ sweepRefused \/ sweepOutlives
        PROVE  FilesHeld'
    <3>1. sweep'.batch = {} /\ releaseFiles(Sweep)
      BY <2>5 DEF sweepCommits, sweepRollsBack, sweepRefused, sweepOutlives, Resting, TypeOK
    <3>2. \A f \in Files : /\ fileLock'[f] # Sweep
                           /\ \A q \in Completers :
                                (fileLock'[f] = q) <=> (fileLock[f] = q)
      BY <3>1 DEF releaseFiles, held, SigningAssumption
    <3> QED BY <2>1, <3>1, <3>2 DEF Locks, FilesHeld
  <2>6. FilesHeld'
    BY <1>4, <2>3, <2>4, <2>5 DEF sweepAbandonedUploads
  <2> QED BY <2>2, <2>6 DEF Locks
<1> QED BY <1>1, <1>2, <1>3, <1>4

-----------------------------------------------------------------------------
(* What becomes of the rows.                                               *)

(* A file that a completion of an open transaction has signed, or whose    *)
(* row can be updated, is in no batch.                                     *)
LEMMA NotInBatch ==
  ASSUME SigningAssumption, Locks, NEW p \in Completers, NEW f \in Files,
         \/ docLock = p /\ proc[p].at \in Inserted /\ f = proc[p].file
         \/ fileLock[f] # Sweep
  PROVE  f \notin sweep.batch
BY DEF Locks, FilesHeld, SigningAssumption

(* What a completion does to the rows.                                     *)
LEMMA CompleteRows ==
  ASSUME SigningAssumption, TypeOK, Locks, Verified, NEW p \in Completers, complete(p)
  PROVE  \/ UNCHANGED row
         \/ /\ proc[p].at \in {"copied", "unstaged"}
            /\ proc[p].file \in Files /\ proc[p].file \notin sweep.batch
            /\ row[proc[p].file].status # "absent"
            /\ row' = [row EXCEPT ![proc[p].file].status = "ready"]
<1>1. CASE markReady(p)
  <2>1. proc[p].file \in Files
    BY <1>1 DEF markReady, Verified
  <2>2. proc[p].file \notin sweep.batch
    BY <1>1, <2>1, NotInBatch DEF markReady, updatable
  <2> QED BY <1>1, <2>1, <2>2 DEF markReady
<1>2. CASE commit(p)
  <2>1. proc[p].file \in Files
    BY <1>2 DEF commit, Verified
  <2>2. docLock = p /\ proc[p].at \in Inserted
    BY <1>2 DEF commit, inTx, Inserted
  <2>3. proc[p].file \notin sweep.batch
    BY <2>1, <2>2, NotInBatch
  <2>4. row[proc[p].file].status # "absent"
    BY <2>2 DEF Verified
  <2> QED BY <1>2, <2>1, <2>3, <2>4 DEF commit
<1>3. CASE ~markReady(p) /\ ~commit(p)
  BY <1>3
     DEF complete, load, readPendingSigningObject, readRefused, lockIssuedForSigning,
         lockRefused, claimRequest, alreadySigned, insertSignature, insertsLate,
         insertRefused, recordSigningObject, recordRefused, copyObject, copyRefused,
         readyRaced, readyRefused, deleteStaging, completesLate, completeRefused,
         rollBack, outlive, leave, rowsVars
<1> QED BY <1>1, <1>2, <1>3

LEMMA CompleteOld ==
  ASSUME SigningAssumption, TypeOK, Locks, Verified, NEW p \in Completers, complete(p),
         NEW f \in Files
  PROVE  /\ row'[f].declared = row[f].declared /\ row'[f].old = row[f].old
         /\ row[f].status = "absent" => row'[f].status = "absent"
<1>1. CASE row' = row
  BY <1>1
<1>2. CASE row' # row
  <2>1. /\ proc[p].file \in Files /\ row[proc[p].file].status # "absent"
        /\ row' = [row EXCEPT ![proc[p].file].status = "ready"]
    BY <1>2, CompleteRows
  <2>2. CASE f = proc[p].file
    BY <2>1, <2>2 DEF TypeOK
  <2>3. CASE f # proc[p].file
    BY <2>1, <2>3 DEF TypeOK
  <2> QED BY <2>2, <2>3
<1> QED BY <1>1, <1>2

(* The rows of a step of anyone: the declared checksum of a requested row  *)
(* and its cutoff stay, and only the sweep takes rows away.                *)
LEMMA RowsKept ==
  ASSUME SigningAssumption, TypeOK, Locks, SweepOnBatch, Verified, Next, NEW f \in Files
  PROVE  /\ row[f].declared # None => row'[f].declared = row[f].declared
         /\ row[f].old => row'[f].old
         /\ row[f].declared # None /\ row[f].status = "absent" => row'[f].status = "absent"
<1>1. CASE document \/ \E c \in late : callLands(c)
  <2>1. UNCHANGED row
    BY <1>1 DEF document, requestSign, grantExpires, cancel, startSigning, abandonRequest,
                callLands, rowsVars
  <2> QED BY <2>1
<1>2. CASE upload
  BY <1>2 DEF upload, requestSigningUpload, putObject, passesCutoff, rowsVars, TypeOK
<1>3. ASSUME NEW p \in Completers, complete(p)
      PROVE  /\ row'[f].declared = row[f].declared /\ row'[f].old = row[f].old
             /\ row[f].status = "absent" => row'[f].status = "absent"
  BY <1>3, CompleteOld
<1>4. CASE sweepAbandonedUploads
  <2>1. CASE sweepDeletesRow
    BY <2>1 DEF sweepDeletesRow, TypeOK
  <2>2. CASE sweepCommits
    BY <2>2 DEF sweepCommits, TypeOK
  <2>3. CASE ~sweepDeletesRow /\ ~sweepCommits
    <3>1. UNCHANGED row
      BY <1>4, <2>3
         DEF sweepAbandonedUploads, sweepSelects, sweepDeletesStaging, sweepDeletesDurable,
             sweepRollsBack, sweepRefused, sweepOutlives, rowsVars
    <3> QED BY <3>1
  <2> QED BY <2>1, <2>2, <2>3
<1> QED BY <1>1, <1>2, <1>3, <1>4 DEF Next

LEMMA BatchKept ==
  ASSUME SigningAssumption, TypeOK, Locks, SweepOnBatch, Verified, Next
  PROVE  SweepOnBatch'
<1>1. CASE document \/ \E c \in late : callLands(c)
  <2>1. UNCHANGED <<row, sweep>>
    BY <1>1 DEF document, requestSign, grantExpires, cancel, startSigning, abandonRequest,
                callLands, rowsVars
  <2> QED BY <2>1 DEF SweepOnBatch
<1>2. CASE upload
  <2>1. UNCHANGED sweep
    BY <1>2 DEF upload, requestSigningUpload, putObject, passesCutoff
  <2>2. ASSUME NEW f \in Files PROVE row[f].old => row'[f].old
    BY <1>2, RowsKept DEF Next
  <2>3. ASSUME NEW f \in Files, row[f].status = "pending" PROVE row'[f].status = "pending"
    BY <1>2, <2>3 DEF upload, requestSigningUpload, putObject, passesCutoff, rowsVars, TypeOK
  <2>4. sweep.batch \subseteq Files /\ sweep.todo \subseteq Files
    BY DEF TypeOK
  <2> QED BY <2>1, <2>2, <2>3, <2>4 DEF SweepOnBatch
<1>3. ASSUME NEW p \in Completers, complete(p) PROVE SweepOnBatch'
  <2>1. UNCHANGED sweep
    BY <1>3 DEF complete, load, readPendingSigningObject, readRefused, lockIssuedForSigning,
         lockRefused, claimRequest, alreadySigned, insertSignature, insertsLate,
         insertRefused, recordSigningObject, recordRefused, copyObject, copyRefused,
         markReady, commit,
         readyRaced, readyRefused, deleteStaging, completesLate, completeRefused,
         rollBack, outlive, leave
  <2>2. ASSUME NEW f \in Files PROVE row'[f].old = row[f].old
    BY <1>3, CompleteOld
  <2>3. ASSUME NEW f \in sweep.batch PROVE row'[f] = row[f]
    BY <1>3, CompleteRows DEF TypeOK
  <2>4. sweep.batch \subseteq Files /\ sweep.todo \subseteq Files
    BY DEF TypeOK
  <2> QED BY <2>1, <2>2, <2>3, <2>4 DEF SweepOnBatch
<1>4. CASE sweepSelects
  <2>1. sweep' = [at |-> "next", batch |-> abandoned, todo |-> abandoned, file |-> None]
    BY <1>4 DEF sweepSelects
  <2> QED BY <1>4, <2>1 DEF sweepSelects, SweepOnBatch, abandoned, rowsVars
<1>5. CASE sweepDeletesStaging
  <2>1. PICK f \in sweep.todo : sweep' = [sweep EXCEPT !.at = "durable", !.file = f]
    BY <1>5 DEF sweepDeletesStaging
  <2>2. /\ sweep'.at = "durable" /\ sweep'.file = f
        /\ sweep'.batch = sweep.batch /\ sweep'.todo = sweep.todo
    BY <2>1 DEF TypeOK
  <2> QED BY <1>5, <2>1, <2>2 DEF sweepDeletesStaging, SweepOnBatch, rowsVars
<1>6. CASE sweepDeletesDurable
  <2>1. /\ sweep'.at = "row" /\ sweep'.file = sweep.file /\ sweep.file \in sweep.todo
        /\ sweep'.batch = sweep.batch /\ sweep'.todo \subseteq sweep.todo
    BY <1>6 DEF sweepDeletesDurable, SweepOnBatch, TypeOK
  <2>2. sweep.file \in Files
    BY <2>1 DEF TypeOK
  <2> QED BY <1>6, <2>1, <2>2 DEF sweepDeletesDurable, SweepOnBatch, rowsVars
<1>7. CASE sweepDeletesRow
  <2>1. /\ sweep'.at = "next"
        /\ sweep'.batch = sweep.batch /\ sweep'.todo = sweep.todo
    BY <1>7 DEF sweepDeletesRow, TypeOK
  <2>2. ASSUME NEW f \in Files PROVE row'[f].old = row[f].old
    BY <1>7 DEF sweepDeletesRow, TypeOK
  <2>3. ASSUME NEW f \in sweep.batch PROVE row'[f] = row[f]
    BY <1>7, <2>3 DEF sweepDeletesRow, sweepInTx
  <2>4. sweep.batch \subseteq Files /\ sweep.todo \subseteq Files
    BY DEF TypeOK
  <2> QED BY <1>7, <2>1, <2>2, <2>3, <2>4 DEF sweepDeletesRow, SweepOnBatch
<1>8. CASE sweepCommits \/ sweepRollsBack \/ sweepRefused
  BY <1>8 DEF sweepCommits, sweepRollsBack, sweepRefused, Resting, SweepOnBatch
<1>9. CASE sweepOutlives
  <2>1. /\ sweep'.at = sweep.at /\ sweep'.batch = {} /\ sweep'.todo = sweep.todo
        /\ sweep'.file = sweep.file /\ SweepFails /\ sweep.batch # {}
    BY <1>9 DEF sweepOutlives, sweepInTx, TypeOK
  <2> QED BY <1>9, <2>1 DEF sweepOutlives, SweepOnBatch, rowsVars
<1> QED BY <1>1, <1>2, <1>3, <1>4, <1>5, <1>6, <1>7, <1>8, <1>9
        DEF Next, sweepAbandonedUploads

-----------------------------------------------------------------------------
(* What has been stored stays.                                             *)

LEMMA DeletedStays ==
  ASSUME SigningAssumption, SInv, NEW f \in Files, row[f].declared # None, Next
  PROVE  /\ durable[f] = row[f].declared =>
              durable'[f] = row[f].declared \/ row[f].old
         /\ row'[f].status # "absent" /\ f \notin purged' /\ f \notin deletedInBatch' =>
              /\ f \notin purged /\ f \notin deletedInBatch
              /\ durable[f] = row[f].declared => durable'[f] = row[f].declared
<1> USE DEF SInv
<1>1. CASE document \/ upload
  <2>1. UNCHANGED <<durable, purged, sweep>>
    BY <1>1 DEF document, requestSign, grantExpires, cancel, startSigning, abandonRequest,
                upload, requestSigningUpload, putObject, passesCutoff, storeVars, historyVars
  <2> QED BY <2>1 DEF deletedInBatch
<1>2. ASSUME NEW c \in late, callLands(c)
      PROVE  /\ durable[f] = row[f].declared =>
                  durable'[f] = row[f].declared \/ row[f].old
             /\ f \notin purged' =>
                  /\ f \notin purged
                  /\ durable[f] = row[f].declared => durable'[f] = row[f].declared
             /\ UNCHANGED sweep
  <2>1. c.file \in Files
    BY DEF TypeOK
  <2>2. CASE c.call = "copy"
    BY <1>2, <2>1, <2>2 DEF callLands, LateHarmless, etagMatches, TypeOK
  <2>3. CASE c.call = "unstage"
    BY <1>2, <2>3 DEF callLands
  <2>4. CASE c.call = "purge"
    BY <1>2, <2>1, <2>4 DEF callLands, LateHarmless, TypeOK
  <2> QED BY <1>2, <2>2, <2>3, <2>4 DEF callLands, TypeOK
<1>3. ASSUME NEW p \in Completers, complete(p)
      PROVE  /\ durable[f] = row[f].declared => durable'[f] = row[f].declared
             /\ UNCHANGED <<purged, sweep>>
  <2>1. CASE copyObject(p)
    <3>1. /\ proc[p].file \in Files /\ row[proc[p].file].declared = proc[p].bytes
      BY <2>1 DEF copyObject, Verified, Copying
    <3> QED BY <2>1, <3>1 DEF copyObject, etagMatches, TypeOK, rowsVars, historyVars
  <2>2. CASE ~copyObject(p)
    <3>1. UNCHANGED <<durable, purged, sweep>>
      BY <1>3, <2>2
         DEF complete, load, readPendingSigningObject, readRefused, lockIssuedForSigning,
         lockRefused, claimRequest, alreadySigned, insertSignature, insertsLate,
         insertRefused, recordSigningObject, recordRefused, copyRefused,
         markReady, commit, readyRaced, readyRefused, deleteStaging, completesLate,
         completeRefused, rollBack, outlive, leave, storeVars, historyVars
    <3> QED BY <3>1
  <2> QED BY <2>1, <2>2
<1>4. CASE sweepSelects
  <2>1. UNCHANGED <<durable, purged>> /\ deletedInBatch = {} /\ deletedInBatch' = {}
    BY <1>4 DEF sweepSelects, storeVars, historyVars, deletedInBatch, SweepOnBatch
  <2> QED BY <2>1
<1>5. CASE sweepDeletesStaging \/ sweepDeletesRow
  <2>1. UNCHANGED <<durable, purged>>
    BY <1>5 DEF sweepDeletesStaging, sweepDeletesRow, storeVars, historyVars
  <2>2. sweep'.batch = sweep.batch /\ sweep'.todo = sweep.todo
    BY <1>5 DEF sweepDeletesStaging, sweepDeletesRow, TypeOK
  <2> QED BY <2>1, <2>2 DEF deletedInBatch
<1>6. CASE sweepDeletesDurable
  <2>1. /\ sweep.file \in Files /\ row[sweep.file].old /\ sweep.file \in sweep.todo
        /\ sweep.batch # {} => sweep.file \in sweep.batch
    BY <1>6 DEF sweepDeletesDurable, SweepOnBatch, TypeOK
  <2>2. sweep'.batch = sweep.batch /\ sweep'.todo = sweep.todo \ {sweep.file}
    BY <1>6 DEF sweepDeletesDurable, TypeOK
  <2>3. purged' = IF sweep.batch # {} THEN purged ELSE purged \cup {sweep.file}
    BY <1>6 DEF sweepDeletesDurable, sweepInTx
  <2>4. durable' = [durable EXCEPT ![sweep.file] = None]
    BY <1>6 DEF sweepDeletesDurable
  <2>5. CASE f = sweep.file
    BY <2>1, <2>2, <2>3, <2>5 DEF deletedInBatch
  <2>6. CASE f # sweep.file
    BY <2>1, <2>2, <2>3, <2>4, <2>6 DEF deletedInBatch, TypeOK
  <2> QED BY <2>5, <2>6
<1>7. CASE sweepCommits
  <2>1. UNCHANGED <<durable, purged>>
    BY <1>7 DEF sweepCommits, storeVars, historyVars
  <2>2. f \in sweep.batch => row'[f].status = "absent"
    BY <1>7 DEF sweepCommits, TypeOK
  <2> QED BY <2>1, <2>2 DEF deletedInBatch
<1>8. CASE sweepRollsBack \/ sweepRefused \/ sweepOutlives
  <2>1. UNCHANGED durable /\ purged' = purged \cup deletedInBatch
    BY <1>8 DEF sweepRollsBack, sweepRefused, sweepOutlives, storeVars
  <2> QED BY <2>1
<1> QED BY <1>1, <1>2, <1>3, <1>4, <1>5, <1>6, <1>7, <1>8
        DEF Next, sweepAbandonedUploads, deletedInBatch

LEMMA StoredStays ==
  ASSUME SigningAssumption, SInv, NEW f \in Files, Stored(f), Next
  PROVE  Stored(f)'
<1>1. row[f].declared # None
  BY DEF Stored
<1>2. row'[f].declared = row[f].declared
  BY <1>1, RowsKept DEF SInv
<1>3. row[f].old => row'[f].old
  BY RowsKept DEF SInv
<1>4. row[f].status = "absent" => row'[f].status = "absent"
  BY <1>1, RowsKept DEF SInv
<1>5. row'[f].old \/ durable'[f] = row'[f].declared
  BY <1>1, <1>2, <1>3, DeletedStays DEF Stored
<1>6. row'[f].status # "absent" /\ f \notin purged' /\ f \notin deletedInBatch' =>
        durable'[f] = row'[f].declared
  BY <1>1, <1>2, <1>4, DeletedStays DEF Stored
<1> QED BY <1>1, <1>2, <1>5, <1>6 DEF Stored

(* What has just been copied is stored.                                    *)
LEMMA CopiedIsStored ==
  ASSUME SigningAssumption, SInv, NEW p \in Completers, complete(p),
         copyObject(p) \/ recordSigningObject(p) \/ readyRaced(p),
         proc'[p].at \in {"copied", "ready", "unstaged"}
  PROVE  proc'[p].file \in Files /\ Stored(proc[p].file)'
<1> USE DEF SInv
<1> DEFINE f == proc[p].file
<1>1. f \in Files /\ proc'[p].file = f /\ proc[p].bytes \in Valid
  BY DEF copyObject, recordSigningObject, readyRaced, step, Verified, TypeOK
<1>2. proc[p].bytes # None
  BY <1>1 DEF SigningAssumption
<1>3. UNCHANGED row
  BY DEF copyObject, recordSigningObject, readyRaced, rowsVars
<1>4. CASE row[f].status = "ready"
  BY <1>1, <1>4, StoredStays DEF Copied, Next
<1>5. CASE row[f].status # "ready"
  <2>1. row[f].declared = proc[p].bytes
    BY <1>5 DEF copyObject, recordSigningObject, readyRaced, recorded, recordable,
                declaredMatches, Verified, Copying
  <2>2. durable'[f] = proc[p].bytes
    <3>1. CASE copyObject(p)
      BY <1>1, <3>1 DEF copyObject, etagMatches, TypeOK
    <3>2. CASE recordSigningObject(p)
      BY <1>1, <1>5, <3>2
         DEF recordSigningObject, recorded, step, TypeOK, storeVars
    <3>3. CASE readyRaced(p)
      BY <1>5, <3>3 DEF readyRaced, recorded
    <3> QED BY <3>1, <3>2, <3>3
  <2> QED BY <1>1, <1>2, <1>3, <2>1, <2>2 DEF Stored
<1> QED BY <1>4, <1>5

-----------------------------------------------------------------------------
(* Completions and rows.                                                   *)

(* A step of a completion is nobody else's.                                *)
LEMMA OthersStay ==
  ASSUME SigningAssumption, TypeOK, NEW p \in Completers, complete(p),
         NEW q \in Completers, q # p
  PROVE  proc'[q] = proc[q] /\ (docLock' = q => docLock = q)
<1>1. proc'[q] = proc[q]
  BY DEF complete, load, readPendingSigningObject, readRefused, lockIssuedForSigning,
         lockRefused, claimRequest, alreadySigned, insertSignature, insertsLate,
         insertRefused, recordSigningObject, recordRefused, copyObject, copyRefused,
         markReady, commit, readyRaced, readyRefused, deleteStaging, completesLate,
         completeRefused, rollBack, outlive, leave, step, TypeOK
<1>2. docLock' = q => docLock = q
  BY DEF complete, load, readPendingSigningObject, readRefused, lockIssuedForSigning,
         lockRefused, claimRequest, alreadySigned, insertSignature, insertsLate,
         insertRefused, recordSigningObject, recordRefused, copyObject, copyRefused,
         markReady, commit, readyRaced, readyRefused, deleteStaging, completesLate,
         completeRefused, rollBack, outlive, leave, takesDoc, releaseDoc, SigningAssumption
<1> QED BY <1>1, <1>2

LEMMA OtherSteps ==
  ASSUME \/ document \/ upload \/ sweepAbandonedUploads
         \/ \E c \in late : callLands(c)
  PROVE  UNCHANGED <<proc, docLock>>
BY DEF document, requestSign, grantExpires, cancel, startSigning, abandonRequest,
       upload, requestSigningUpload, putObject, passesCutoff,
       sweepAbandonedUploads, sweepSelects, sweepDeletesStaging, sweepDeletesDurable,
       sweepDeletesRow, sweepCommits, sweepRollsBack, sweepRefused, sweepOutlives, callLands

(* The row an open transaction has signed is not taken away.               *)
LEMMA LockedRowStays ==
  ASSUME SigningAssumption, SInv, NEW p \in Completers, docLock = p,
         proc[p].at \in Inserted, Next
  PROVE  row'[proc[p].file].status # "absent"
<1> USE DEF SInv
<1> DEFINE f == proc[p].file
<1>1. f \in Files /\ row[f].status # "absent" /\ f \notin sweep.batch
  BY NotInBatch DEF Verified, Inserted
<1>2. fileLock[f] = p
  BY <1>1 DEF Locks, FilesHeld
<1> HIDE DEF f
<1>3. ASSUME document \/ \E c \in late : callLands(c) PROVE row'[f].status # "absent"
  BY <1>1, <1>3 DEF document, requestSign, grantExpires, cancel, startSigning,
                    abandonRequest, callLands, rowsVars
<1>4. ASSUME upload PROVE row'[f].status # "absent"
  BY <1>1, <1>4 DEF upload, requestSigningUpload, putObject, passesCutoff, rowsVars, TypeOK
<1>5. ASSUME NEW q \in Completers, complete(q) PROVE row'[f].status # "absent"
  <2>1. CASE row' = row
    BY <1>1, <2>1
  <2>2. CASE row' # row
    <3>1. PICK g \in Files : row' = [row EXCEPT ![g].status = "ready"]
      BY <1>5, <2>2, CompleteRows
    <3> QED BY <1>1, <3>1 DEF TypeOK
  <2> QED BY <2>1, <2>2
<1>6. ASSUME sweepDeletesRow PROVE row'[f].status # "absent"
  BY <1>1, <1>2, <1>6 DEF sweepDeletesRow, SigningAssumption, TypeOK
<1>7. ASSUME sweepCommits PROVE row'[f].status # "absent"
  BY <1>1, <1>7 DEF sweepCommits
<1>8. ASSUME sweepAbandonedUploads /\ ~sweepDeletesRow /\ ~sweepCommits PROVE row'[f].status # "absent"
  BY <1>1, <1>8 DEF sweepAbandonedUploads, sweepSelects, sweepDeletesStaging,
                    sweepDeletesDurable, sweepRollsBack, sweepRefused, sweepOutlives, rowsVars
<1>9. row'[f].status # "absent"
  BY <1>3, <1>4, <1>5, <1>6, <1>7, <1>8 DEF Next
<1> QED BY <1>9 DEF f

(* Where a completion goes next.                                           *)
VerifiedAt(p) ==
  /\ proc[p].at # "idle" => proc[p].file \in Files
  /\ proc[p].at \notin {"idle", "loaded"} => proc[p].bytes \in Valid
  /\ proc[p].at \in Copying => row[proc[p].file].declared = proc[p].bytes
  /\ docLock = p /\ proc[p].at \in Inserted => row[proc[p].file].status # "absent"

(* A completion that stays where it is.                                    *)
LEMMA VerifiedStays ==
  ASSUME SigningAssumption, SInv, NEW q \in Completers, Next,
         proc'[q] = proc[q], docLock' = q => docLock = q
  PROVE  VerifiedAt(q)'
<1>1. /\ proc[q].at # "idle" => proc[q].file \in Files
      /\ proc[q].at \notin {"idle", "loaded"} => proc[q].bytes \in Valid
      /\ proc[q].at \in Copying => row[proc[q].file].declared = proc[q].bytes
  BY DEF SInv, Verified
<1>2. proc[q].at \in Copying => row'[proc[q].file].declared = proc[q].bytes
  BY <1>1, RowsKept DEF Copying, SInv, SigningAssumption
<1>3. docLock = q /\ proc[q].at \in Inserted => row'[proc[q].file].status # "absent"
  BY LockedRowStays
<1> QED BY <1>1, <1>2, <1>3 DEF VerifiedAt

LEMMA VerifiedKept ==
  ASSUME SigningAssumption, SInv, Next
  PROVE  Verified'
<1> USE DEF SInv
<1>1. CASE \/ document \/ upload \/ sweepAbandonedUploads \/ \E c \in late : callLands(c)
  BY <1>1, OtherSteps, VerifiedStays DEF Verified, VerifiedAt
<1>2. ASSUME NEW p \in Completers, complete(p) PROVE VerifiedAt(p)'
  <2>0. /\ proc[p].at # "idle" => proc[p].file \in Files
        /\ proc[p].at \notin {"idle", "loaded"} => proc[p].bytes \in Valid
        /\ proc[p].at \in Copying => row[proc[p].file].declared = proc[p].bytes
    BY DEF Verified
  <2>1. ASSUME proc'[p].at = "idle" PROVE VerifiedAt(p)'
    BY <2>1 DEF VerifiedAt, Copying, Inserted
  <2>2. ASSUME NEW f \in Files, load(p, f) PROVE VerifiedAt(p)'
    <3>1. proc'[p].at = "loaded" /\ proc'[p].file = f
      BY <2>2 DEF load, TypeOK
    <3> QED BY <3>1 DEF VerifiedAt, Copying, Inserted
  <2>3. CASE readPendingSigningObject(p)
    <3>1. /\ proc'[p].at = "verified" /\ proc'[p].file = proc[p].file
          /\ proc'[p].bytes \in Valid /\ proc[p].at = "loaded"
      BY <2>3 DEF readPendingSigningObject, verifies, TypeOK
    <3> QED BY <2>0, <3>1 DEF VerifiedAt, Copying, Inserted
  <2>4. CASE lockIssuedForSigning(p) \/ claimRequest(p)
    <3>1. /\ proc'[p].at \in {"locked", "claimed"} /\ proc'[p].file = proc[p].file
          /\ proc'[p].bytes = proc[p].bytes /\ proc[p].at \in {"verified", "locked"}
      BY <2>4 DEF lockIssuedForSigning, claimRequest, step, TypeOK
    <3> QED BY <2>0, <3>1 DEF VerifiedAt, Copying, Inserted
  <2>5. CASE insertSignature(p)
    <3>1. /\ proc'[p].at = "recording" /\ proc'[p].file = proc[p].file
          /\ proc'[p].bytes = proc[p].bytes /\ proc[p].at = "claimed"
          /\ row'[proc[p].file].status # "absent"
      BY <2>5 DEF insertSignature, insertable, step, TypeOK, rowsVars
    <3> QED BY <2>0, <3>1 DEF VerifiedAt, Copying
  <2>6. CASE \/ recordSigningObject(p) \/ copyObject(p) \/ markReady(p) \/ readyRaced(p)
             \/ deleteStaging(p)
    <3>1. /\ proc'[p].file = proc[p].file /\ proc'[p].bytes = proc[p].bytes
          /\ proc[p].at \in Inserted /\ docLock' = docLock
      BY <2>6 DEF recordSigningObject, copyObject, markReady, readyRaced, deleteStaging,
                  step, TypeOK, Inserted
    <3>2. row[proc[p].file].declared = proc[p].bytes
      BY <2>0, <2>6
         DEF recordSigningObject, copyObject, markReady, readyRaced, deleteStaging,
             recordable, recorded, declaredMatches, Copying
    <3>3. proc[p].file \in Files /\ proc[p].bytes \in Valid
      BY <2>0, <3>1 DEF Inserted
    <3>4. row'[proc[p].file].declared = proc[p].bytes
      BY <1>2, <3>2, <3>3, CompleteOld
    <3>5. docLock = p => row'[proc[p].file].status # "absent"
      BY <1>2, <3>1, LockedRowStays DEF Next
    <3> QED BY <3>1, <3>3, <3>4, <3>5 DEF VerifiedAt
  <2>7. CASE outlive(p)
    <3>1. UNCHANGED proc /\ docLock' # p
      BY <2>7 DEF outlive, releaseDoc, SigningAssumption
    <3> QED BY <1>2, <3>1, VerifiedStays DEF Next
  <2>8. CASE \/ insertsLate(p) \/ commit(p) \/ completesLate(p) \/ rollBack(p) \/ leave(p)
    BY <2>1, <2>8 DEF insertsLate, commit, completesLate, rollBack, leave, Idle, TypeOK
  <2> QED BY <1>2, <2>2, <2>3, <2>4, <2>5, <2>6, <2>7, <2>8
          DEF complete, readRefused, lockRefused, alreadySigned, insertRefused,
              recordRefused, copyRefused, readyRefused, completeRefused
<1>3. ASSUME NEW p \in Completers, complete(p) PROVE \A q \in Completers : VerifiedAt(q)'
  BY <1>2, <1>3, OthersStay, VerifiedStays DEF Next
<1> QED BY <1>1, <1>3 DEF Next, Verified, VerifiedAt

-----------------------------------------------------------------------------
(* The objects.                                                            *)

(* A file becomes ready by the completion that has copied it.              *)
LEMMA ReadyFrom ==
  ASSUME SigningAssumption, SInv, Next, NEW f \in Files, row'[f].status = "ready"
  PROVE  Stored(f)
<1> USE DEF SInv
<1>1. CASE document \/ \E c \in late : callLands(c)
  BY <1>1 DEF document, requestSign, grantExpires, cancel, startSigning,
              abandonRequest, callLands, rowsVars, Copied
<1>2. CASE upload
  <2>1. row[f].status = "ready"
    BY <1>2 DEF upload, requestSigningUpload, putObject, passesCutoff, rowsVars, TypeOK
  <2> QED BY <2>1 DEF Copied
<1>3. ASSUME NEW p \in Completers, complete(p) PROVE Stored(f)
  <2>1. CASE row' = row
    BY <2>1 DEF Copied
  <2>2. CASE row' # row
    <3>1. /\ proc[p].at \in {"copied", "unstaged"} /\ proc[p].file \in Files
          /\ row' = [row EXCEPT ![proc[p].file].status = "ready"]
      BY <1>3, <2>2, CompleteRows
    <3>2. CASE f = proc[p].file
      BY <3>1, <3>2 DEF Copied
    <3>3. CASE f # proc[p].file
      BY <3>1, <3>3 DEF Copied, TypeOK
    <3> QED BY <3>2, <3>3
  <2> QED BY <2>1, <2>2
<1>4. CASE sweepAbandonedUploads
  <2>1. CASE sweepDeletesRow
    <3>1. row[f].status = "ready"
      BY <2>1 DEF sweepDeletesRow, TypeOK
    <3> QED BY <3>1 DEF Copied
  <2>2. CASE sweepCommits
    <3>1. row[f].status = "ready"
      BY <2>2 DEF sweepCommits, TypeOK
    <3> QED BY <3>1 DEF Copied
  <2>3. CASE ~sweepDeletesRow /\ ~sweepCommits
    <3>1. UNCHANGED row
      BY <1>4, <2>3
         DEF sweepAbandonedUploads, sweepSelects, sweepDeletesStaging, sweepDeletesDurable,
             sweepRollsBack, sweepRefused, sweepOutlives, rowsVars
    <3> QED BY <3>1 DEF Copied
  <2> QED BY <2>1, <2>2, <2>3
<1> QED BY <1>1, <1>2, <1>3, <1>4 DEF Next

LEMMA CopiedKept ==
  ASSUME SigningAssumption, SInv, Next
  PROVE  Copied'
<1> USE DEF SInv
<1> DEFINE Has == {"copied", "ready", "unstaged"}
<1>1. ASSUME NEW f \in Files, row'[f].status = "ready" PROVE Stored(f)'
  BY <1>1, ReadyFrom, StoredStays
<1>2. ASSUME NEW q \in Completers, proc'[q] = proc[q], proc'[q].at \in Has
      PROVE  Stored(proc[q].file)'
  BY <1>2, StoredStays DEF Copied, Verified
<1>3. ASSUME NEW p \in Completers, complete(p), proc'[p].at \in Has
      PROVE  proc'[p].file = proc[p].file /\ Stored(proc[p].file)'
  <2>1. CASE copyObject(p) \/ recordSigningObject(p) \/ readyRaced(p)
    <3>1. proc'[p].file = proc[p].file
      BY <2>1 DEF copyObject, recordSigningObject, readyRaced, step, TypeOK
    <3> QED BY <1>3, <2>1, <3>1, CopiedIsStored
  <2>2. CASE markReady(p) \/ deleteStaging(p)
    <3>1. proc'[p].file = proc[p].file /\ proc[p].at \in Has
      BY <2>2 DEF markReady, deleteStaging, step, TypeOK
    <3>2. proc[p].file \in Files /\ Stored(proc[p].file)
      BY <3>1 DEF Copied, Verified
    <3> QED BY <3>1, <3>2, StoredStays
  <2>3. CASE outlive(p)
    BY <1>2, <1>3, <2>3 DEF outlive
  <2>4. CASE ~(\/ copyObject(p) \/ recordSigningObject(p) \/ readyRaced(p) \/ markReady(p)
               \/ deleteStaging(p) \/ outlive(p))
    <3>1. proc'[p].at \notin Has
      BY <1>3, <2>4
         DEF complete, load, readPendingSigningObject, readRefused, lockIssuedForSigning,
         lockRefused, claimRequest, alreadySigned, insertSignature, insertsLate,
         insertRefused, recordRefused, copyRefused,
         commit, readyRefused, completesLate,
         completeRefused, rollBack, leave, step, TypeOK, Idle
    <3> QED BY <1>3, <3>1
  <2> QED BY <2>1, <2>2, <2>3, <2>4
<1>4. CASE \/ document \/ upload \/ sweepAbandonedUploads \/ \E c \in late : callLands(c)
  BY <1>1, <1>2, <1>4, OtherSteps DEF Copied
<1>5. ASSUME NEW p \in Completers, complete(p), NEW q \in Completers, proc'[q].at \in Has
      PROVE  proc'[q].file = proc[q].file /\ Stored(proc[q].file)'
  BY <1>2, <1>3, <1>5, OthersStay
<1>6. ASSUME NEW p \in Completers, complete(p) PROVE Copied'
  BY <1>1, <1>5, <1>6 DEF Copied
<1> QED BY <1>4, <1>6 DEF Next

LEMMA LateKept ==
  ASSUME SigningAssumption, SInv, Next
  PROVE  LateHarmless'
<1> USE DEF SInv
<1> DEFINE Harmless(c) ==
      /\ c.call = "copy" => c.bytes = row[c.file].declared /\ c.bytes # None
      /\ c.call = "unstage" => Stored(c.file)
      /\ c.call = "purge" => SweepFails /\ row[c.file].old
<1>1. ASSUME NEW c \in Calls, Harmless(c) PROVE Harmless(c)'
  <2>1. c.file \in Files
    BY DEF Calls
  <2>2. c.call = "copy" => row'[c.file].declared = row[c.file].declared
    BY <1>1, <2>1, RowsKept
  <2>3. c.call = "unstage" => Stored(c.file)'
    BY <1>1, <2>1, StoredStays
  <2>4. row[c.file].old => row'[c.file].old
    BY <2>1, RowsKept
  <2> QED BY <1>1, <2>2, <2>3, <2>4
<1>2. \A c \in late : c \in Calls /\ Harmless(c)
  BY DEF TypeOK, Calls, LateHarmless
<1>3. ASSUME NEW c \in late', c \notin late PROVE Harmless(c) /\ c \in Calls
  <2>1. ASSUME NEW p \in Completers, rollBack(p) PROVE Harmless(c) /\ c \in Calls
    <3>1. proc[p].at # "idle" /\ proc[p].file \in Files /\ proc[p].bytes \in Objects
      BY <2>1 DEF rollBack, Verified, TypeOK
    <3>2. CASE /\ proc[p].at = "copying"
               /\ c = [call |-> "copy", file |-> proc[p].file, bytes |-> proc[p].bytes]
      BY <3>1, <3>2 DEF Verified, Copying, Calls, SigningAssumption
    <3>3. CASE /\ proc[p].at = "ready"
               /\ c = [call |-> "unstage", file |-> proc[p].file, bytes |-> None]
      BY <3>1, <3>3 DEF Copied, Calls, Objects
    <3> QED BY <1>3, <2>1, <3>2, <3>3 DEF rollBack
  <2>2. CASE sweepRollsBack
    <3>1. /\ SweepFails /\ sweep.at = "durable"
          /\ c = [call |-> "purge", file |-> sweep.file, bytes |-> None]
      BY <1>3, <2>2 DEF sweepRollsBack
    <3>2. sweep.file \in Files /\ row[sweep.file].old
      BY <3>1 DEF SweepOnBatch, TypeOK
    <3> QED BY <3>1, <3>2 DEF Calls, Objects
  <2>3. \/ \E p \in Completers : rollBack(p)
        \/ sweepRollsBack
    <3>1. ASSUME NEW p \in Completers, complete(p), ~rollBack(p) PROVE late' = late
      BY <3>1 DEF complete, load, readPendingSigningObject, readRefused, lockIssuedForSigning,
         lockRefused, claimRequest, alreadySigned, insertSignature, insertsLate,
         insertRefused, recordSigningObject, recordRefused, copyObject, copyRefused,
         markReady, commit, readyRaced, readyRefused, deleteStaging, completesLate,
         completeRefused, outlive, leave
    <3>2. CASE \/ document \/ upload
               \/ sweepAbandonedUploads /\ ~sweepRollsBack
               \/ \E d \in late : callLands(d)
      <4>1. late' \subseteq late
        BY <3>2
           DEF document, requestSign, grantExpires, cancel, startSigning, abandonRequest,
           upload, requestSigningUpload, putObject, passesCutoff,
           sweepAbandonedUploads, sweepSelects, sweepDeletesStaging, sweepDeletesDurable,
           sweepDeletesRow, sweepCommits, sweepRefused, sweepOutlives, callLands
      <4> QED BY <1>3, <4>1
    <3> QED BY <1>3, <3>1, <3>2 DEF Next
  <2> QED BY <2>1, <2>2, <2>3
<1> HIDE DEF Harmless
<1>4. \A c \in late' : Harmless(c)'
  BY <1>1, <1>2, <1>3
<1> QED BY <1>4 DEF LateHarmless, Harmless

LEMMA DeclaredKept ==
  ASSUME SigningAssumption, SInv, Next
  PROVE  RowDeclared'
<1> USE DEF SInv
<1> SUFFICES ASSUME NEW f \in Files
             PROVE  /\ row'[f].status # "absent" => row'[f].declared # None
                    /\ row'[f].declared = None => lastPut'[f] = None
  BY DEF RowDeclared
<1>1. CASE row[f].declared # None
  BY <1>1, RowsKept
<1>2. CASE row[f].declared = None
  <2>1. row[f].status = "absent" /\ lastPut[f] = None
    BY <1>2 DEF RowDeclared
  <2>2. ASSUME upload
        PROVE  /\ row'[f].status # "absent" => row'[f].declared # None
               /\ row'[f].declared = None => lastPut'[f] = None
    <3>1. ASSUME NEW g \in Files, requestSigningUpload(g)
          PROVE  /\ row'[f].status # "absent" => row'[f].declared # None
                 /\ lastPut'[f] = None
      BY <2>1, <3>1 DEF requestSigningUpload, storeVars, TypeOK, SigningAssumption
    <3>2. ASSUME NEW g \in Files, putObject(g)
          PROVE  row'[f].status = "absent" /\ lastPut'[f] = None
      BY <2>1, <3>2 DEF putObject, rowsVars, TypeOK
    <3>3. ASSUME NEW g \in Files, passesCutoff(g)
          PROVE  row'[f].status = "absent" /\ lastPut'[f] = None
      BY <2>1, <3>3 DEF passesCutoff, storeVars, TypeOK
    <3> QED BY <2>2, <3>1, <3>2, <3>3 DEF upload
  <2>3. CASE document \/ \E c \in late : callLands(c)
    BY <1>2, <2>1, <2>3
       DEF document, requestSign, grantExpires, cancel, startSigning, abandonRequest,
           callLands, rowsVars, storeVars
  <2>4. ASSUME NEW p \in Completers, complete(p)
        PROVE  /\ row'[f].status # "absent" => row'[f].declared # None
               /\ row'[f].declared = None => lastPut'[f] = None
    <3>1. lastPut' = lastPut
      BY <2>4
         DEF complete, load, readPendingSigningObject, readRefused, lockIssuedForSigning,
         lockRefused, claimRequest, alreadySigned, insertSignature, insertsLate,
         insertRefused, recordSigningObject, recordRefused, copyObject, copyRefused,
         markReady, commit, readyRaced, readyRefused, deleteStaging, completesLate,
         completeRefused, rollBack, outlive, leave, storeVars
    <3> QED BY <2>1, <2>4, <3>1, CompleteOld
  <2>5. CASE sweepAbandonedUploads
    <3>1. lastPut' = lastPut
      BY <2>5 DEF sweepAbandonedUploads, sweepSelects, sweepDeletesStaging,
         sweepDeletesDurable, sweepDeletesRow, sweepCommits, sweepRollsBack, sweepRefused,
         sweepOutlives, storeVars
    <3>2. row'[f].status = "absent"
      <4>1. CASE sweepDeletesRow
        BY <2>1, <4>1 DEF sweepDeletesRow, TypeOK
      <4>2. CASE sweepCommits
        BY <2>1, <4>2 DEF sweepCommits, TypeOK
      <4>3. CASE ~sweepDeletesRow /\ ~sweepCommits
        BY <2>1, <2>5, <4>3
           DEF sweepAbandonedUploads, sweepSelects, sweepDeletesStaging, sweepDeletesDurable,
             sweepRollsBack, sweepRefused, sweepOutlives, rowsVars
      <4> QED BY <4>1, <4>2, <4>3
    <3> QED BY <2>1, <3>1, <3>2
  <2> QED BY <2>2, <2>3, <2>4, <2>5 DEF Next
<1> QED BY <1>1, <1>2

LEMMA SurvivalKept ==
  ASSUME SigningAssumption, SInv, Next
  PROVE  UploadSurvives'
<1> USE DEF SInv
<1> SUFFICES ASSUME NEW f \in Files, row'[f].status = "pending", ~row'[f].old,
                    lastPut'[f] = row'[f].declared, lastPut'[f] # None
             PROVE  lastPut'[f] \in {staging'[f], durable'[f]}
  BY DEF UploadSurvives
<1>0. ~row[f].old
  BY RowsKept
<1>1. CASE document
  <2>1. UNCHANGED <<row, storeVars>>
    BY <1>1 DEF document, requestSign, grantExpires, cancel, startSigning, abandonRequest
  <2> QED BY <2>1 DEF UploadSurvives, storeVars
<1>2. ASSUME NEW g \in Files, requestSigningUpload(g)
      PROVE  lastPut'[f] \in {staging'[f], durable'[f]}
  <2>1. UNCHANGED storeVars
    BY <1>2 DEF requestSigningUpload
  <2>2. CASE f = g
    BY <1>2, <2>1, <2>2 DEF requestSigningUpload, RowDeclared, storeVars
  <2>3. CASE f # g
    BY <1>2, <2>1, <2>3 DEF requestSigningUpload, UploadSurvives, storeVars, TypeOK
  <2> QED BY <2>2, <2>3
<1>3. ASSUME NEW g \in Files, putObject(g)
      PROVE  lastPut'[f] \in {staging'[f], durable'[f]}
  BY <1>3 DEF putObject, UploadSurvives, rowsVars, TypeOK
<1>4. ASSUME NEW g \in Files, passesCutoff(g)
      PROVE  lastPut'[f] \in {staging'[f], durable'[f]}
  BY <1>4 DEF passesCutoff, UploadSurvives, storeVars, TypeOK
<1>5. ASSUME NEW c \in late, callLands(c)
      PROVE  lastPut'[f] \in {staging'[f], durable'[f]}
  <2>1. /\ lastPut[f] = row[f].declared /\ lastPut[f] # None /\ lastPut' = lastPut
        /\ row[f].status = "pending" /\ c.file \in Files
    BY <1>5 DEF callLands, rowsVars, TypeOK
  <2>2. lastPut[f] \in {staging[f], durable[f]}
    BY <1>0, <2>1 DEF UploadSurvives
  <2>3. CASE c.call = "copy"
    BY <1>5, <2>1, <2>2, <2>3 DEF callLands, LateHarmless, etagMatches, TypeOK
  <2>4. CASE c.call = "unstage"
    <3>1. durable' = durable /\ staging' = [staging EXCEPT ![c.file] = None]
      BY <1>5, <2>4 DEF callLands
    <3>2. c.file = f => durable[f] = row[f].declared
      BY <1>0, <2>4 DEF LateHarmless, Stored
    <3> QED BY <2>1, <2>2, <3>1, <3>2 DEF TypeOK
  <2>5. CASE c.call = "purge"
    BY <1>0, <1>5, <2>1, <2>2, <2>5 DEF callLands, LateHarmless, TypeOK
  <2> QED BY <2>3, <2>4, <2>5 DEF TypeOK
<1>6. ASSUME NEW p \in Completers, complete(p)
      PROVE  lastPut'[f] \in {staging'[f], durable'[f]}
  <2>1. lastPut' = lastPut
    BY <1>6
         DEF complete, load, readPendingSigningObject, readRefused, lockIssuedForSigning,
         lockRefused, claimRequest, alreadySigned, insertSignature, insertsLate,
         insertRefused, recordSigningObject, recordRefused, copyObject, copyRefused,
         markReady, commit, readyRaced, readyRefused, deleteStaging, completesLate,
         completeRefused, rollBack, outlive, leave, storeVars
  <2>2. row[f].declared = row'[f].declared /\ row[f].status = "pending"
    <3>1. CASE row' = row
      BY <3>1
    <3>2. CASE row' # row
      <4>1. PICK g \in Files : row' = [row EXCEPT ![g].status = "ready"]
        BY <1>6, <3>2, CompleteRows
      <4> QED BY <4>1 DEF TypeOK
    <3> QED BY <3>1, <3>2
  <2>3. lastPut[f] \in {staging[f], durable[f]} /\ lastPut[f] = row[f].declared
    BY <1>0, <2>1, <2>2 DEF UploadSurvives
  <2>4. CASE copyObject(p)
    <3>1. /\ durable' = [durable EXCEPT ![proc[p].file] = staging[proc[p].file]]
          /\ staging' = staging /\ staging[proc[p].file] = proc[p].bytes
          /\ row[proc[p].file].declared = proc[p].bytes /\ proc[p].file \in Files
      BY <2>4 DEF copyObject, Verified, Copying, etagMatches
    <3>2. CASE f = proc[p].file
      BY <2>1, <2>3, <3>1, <3>2 DEF TypeOK
    <3>3. CASE f # proc[p].file
      BY <2>1, <2>3, <3>1, <3>3 DEF TypeOK
    <3> QED BY <3>2, <3>3
  <2>5. CASE deleteStaging(p)
    <3>1. durable' = durable /\ staging' = [staging EXCEPT ![proc[p].file] = None]
      BY <2>5 DEF deleteStaging
    <3>2. proc[p].file = f => durable[f] = row[f].declared
      BY <1>0, <2>5 DEF deleteStaging, Copied, Stored
    <3> QED BY <2>1, <2>3, <3>1, <3>2 DEF TypeOK
  <2>6. CASE ~copyObject(p) /\ ~deleteStaging(p)
    <3>1. UNCHANGED <<staging, durable>>
      BY <1>6, <2>6
         DEF complete, load, readPendingSigningObject, readRefused, lockIssuedForSigning,
         lockRefused, claimRequest, alreadySigned, insertSignature, insertsLate,
         insertRefused, recordSigningObject, recordRefused, copyRefused,
         markReady, commit, readyRaced, readyRefused, completesLate,
         completeRefused, rollBack, outlive, leave, storeVars
    <3> QED BY <2>1, <2>3, <3>1
  <2> QED BY <2>4, <2>5, <2>6
<1>7. CASE sweepAbandonedUploads
  <2>1. lastPut' = lastPut
    BY <1>7 DEF sweepAbandonedUploads, sweepSelects, sweepDeletesStaging,
         sweepDeletesDurable, sweepDeletesRow, sweepCommits, sweepRollsBack, sweepRefused,
         sweepOutlives, storeVars
  <2>2. row[f].declared = row'[f].declared /\ row[f].status = "pending"
    <3>1. CASE sweepDeletesRow
      BY <3>1 DEF sweepDeletesRow, TypeOK
    <3>2. CASE sweepCommits
      BY <3>2 DEF sweepCommits, TypeOK
    <3>3. CASE ~sweepDeletesRow /\ ~sweepCommits
      BY <1>7, <3>3
         DEF sweepAbandonedUploads, sweepSelects, sweepDeletesStaging, sweepDeletesDurable,
             sweepRollsBack, sweepRefused, sweepOutlives, rowsVars
    <3> QED BY <3>1, <3>2, <3>3
  <2>3. lastPut[f] \in {staging[f], durable[f]}
    BY <1>0, <2>1, <2>2 DEF UploadSurvives
  <2>4. CASE sweepDeletesStaging
    <3>1. PICK g \in sweep.todo : staging' = [staging EXCEPT ![g] = None]
      BY <2>4 DEF sweepDeletesStaging
    <3>2. g \in Files /\ g # f /\ durable' = durable
      BY <1>0, <2>4, <3>1 DEF sweepDeletesStaging, SweepOnBatch, TypeOK
    <3> QED BY <2>1, <2>3, <3>1, <3>2 DEF TypeOK
  <2>5. CASE sweepDeletesDurable
    <3>1. sweep.file # f
      BY <1>0, <2>5 DEF sweepDeletesDurable, SweepOnBatch
    <3> QED BY <2>1, <2>3, <2>5, <3>1 DEF sweepDeletesDurable, TypeOK
  <2>6. CASE ~sweepDeletesStaging /\ ~sweepDeletesDurable
    <3>1. UNCHANGED <<staging, durable>>
      BY <1>7, <2>6 DEF sweepAbandonedUploads, sweepSelects, sweepDeletesRow, sweepCommits,
             sweepRollsBack, sweepRefused, sweepOutlives, storeVars
    <3> QED BY <2>1, <2>3, <3>1
  <2> QED BY <2>4, <2>5, <2>6
<1> QED BY <1>1, <1>2, <1>3, <1>4, <1>5, <1>6, <1>7 DEF Next, upload

-----------------------------------------------------------------------------
(* The record.                                                             *)

(* What a completion writes of the record.                                 *)
LEMMA CompleteRecords ==
  ASSUME SigningAssumption, SInv, NEW p \in Completers, complete(p)
  PROVE  \/ UNCHANGED <<signature, request, strays>>
         \/ insertsLate(p) \/ commit(p) \/ completesLate(p) \/ markReady(p)
BY DEF complete, load, readPendingSigningObject, readRefused, lockIssuedForSigning,
       lockRefused, claimRequest, alreadySigned, insertSignature,
       insertRefused, recordSigningObject, recordRefused, copyObject, copyRefused,
       readyRaced, readyRefused, deleteStaging, completeRefused, rollBack, outlive,
       leave, rowsVars, historyVars

(* A handler that writes outside of its transaction has gone on past its   *)
(* deadline.                                                               *)
LEMMA LateIsZombie ==
  ASSUME SInv, NEW p \in Completers, ~inTx(p), proc[p].at \in Locked
  PROVE  Zombies
BY DEF SInv, Locks, DocHeld, inTx

LEMMA SignedFileKept ==
  ASSUME SigningAssumption, SInv, Next
  PROVE  SignedFile'
<1> USE DEF SInv
<1> SUFFICES ASSUME signature' # None, "signature" \notin strays'
             PROVE  /\ row'[signature'.file].status = "ready"
                    /\ row'[signature'.file].declared = signature'.signer
  BY DEF SignedFile
<1>1. ASSUME NEW p \in Completers, commit(p)
      PROVE  /\ row'[signature'.file].status = "ready"
             /\ row'[signature'.file].declared = signature'.signer
  <2>1. /\ proc[p].file \in Files /\ row[proc[p].file].declared = proc[p].bytes
        /\ signature' = [file |-> proc[p].file, signer |-> proc[p].bytes]
        /\ row' = [row EXCEPT ![proc[p].file].status = "ready"]
    BY <1>1 DEF commit, Verified, Copying
  <2> QED BY <2>1 DEF TypeOK
<1>2. ASSUME UNCHANGED signature, "signature" \notin strays
      PROVE  /\ row'[signature'.file].status = "ready"
             /\ row'[signature'.file].declared = signature'.signer
  <2> DEFINE f == signature.file
  <2>1. /\ row[f].status = "ready" /\ row[f].declared = signature.signer
        /\ f \in Files /\ signature.signer \in Valid
    BY <1>2 DEF Recorded, SignedFile, TypeOK
  <2>2. row'[f].declared = signature.signer
    BY <2>1, RowsKept DEF SigningAssumption
  <2>3. f \notin sweep.batch
    BY <2>1 DEF SweepOnBatch
  <2> HIDE DEF f
  <2>4. ASSUME document \/ \E c \in late : callLands(c) PROVE row'[f].status = "ready"
    BY <2>1, <2>4 DEF document, requestSign, grantExpires, cancel, startSigning,
                      abandonRequest, callLands, rowsVars
  <2>5. ASSUME upload PROVE row'[f].status = "ready"
    BY <2>1, <2>5 DEF upload, requestSigningUpload, putObject, passesCutoff, rowsVars, TypeOK
  <2>6. ASSUME NEW p \in Completers, complete(p) PROVE row'[f].status = "ready"
    <3>1. CASE row' = row
      BY <2>1, <3>1
    <3>2. CASE row' # row
      <4>1. PICK g \in Files : row' = [row EXCEPT ![g].status = "ready"]
        BY <2>6, <3>2, CompleteRows
      <4> QED BY <2>1, <4>1 DEF TypeOK
    <3> QED BY <3>1, <3>2
  <2>7. ASSUME sweepAbandonedUploads PROVE row'[f].status = "ready"
    <3>1. CASE sweepDeletesRow
      BY <2>1, <3>1 DEF sweepDeletesRow, deletable, TypeOK
    <3>2. CASE sweepCommits
      BY <2>1, <2>3, <3>2 DEF sweepCommits, TypeOK
    <3>3. CASE ~sweepDeletesRow /\ ~sweepCommits
      BY <2>1, <2>7, <3>3
         DEF sweepAbandonedUploads, sweepSelects, sweepDeletesStaging, sweepDeletesDurable,
             sweepRollsBack, sweepRefused, sweepOutlives, rowsVars
    <3> QED BY <3>1, <3>2, <3>3
  <2>8. row'[f].status = "ready"
    BY <2>4, <2>5, <2>6, <2>7 DEF Next
  <2> QED BY <1>2, <2>2, <2>8 DEF f
<1>3. ASSUME NEW p \in Completers, complete(p), ~commit(p)
      PROVE  UNCHANGED signature /\ "signature" \notin strays
  BY <1>3, CompleteRecords DEF insertsLate, completesLate, markReady
<1>4. ASSUME \/ document \/ upload \/ sweepAbandonedUploads \/ \E c \in late : callLands(c)
      PROVE  UNCHANGED <<signature, strays>>
  BY <1>4
     DEF document, requestSign, grantExpires, cancel, startSigning, abandonRequest,
       upload, requestSigningUpload, putObject, passesCutoff, callLands,
       sweepAbandonedUploads, sweepSelects, sweepDeletesStaging, sweepDeletesDurable,
       sweepDeletesRow, sweepCommits, sweepRollsBack, sweepRefused, sweepOutlives,
       rowsVars, historyVars
<1> QED BY <1>1, <1>2, <1>3, <1>4 DEF Next

LEMMA RecordedKept ==
  ASSUME SigningAssumption, SInv, Next
  PROVE  Recorded'
<1> USE DEF SInv
<1>1. SignedFile'
  BY SignedFileKept
<1>2. CASE document
  <2>1. UNCHANGED <<signature, strays, purged>>
    BY <1>2 DEF document, requestSign, grantExpires, cancel, startSigning, abandonRequest,
                historyVars
  <2>2. signature # None => doc'.status = doc.status
    BY <1>2 DEF document, requestSign, grantExpires, cancel, startSigning, abandonRequest,
                startable, TypeOK
  <2>3. request' = "completed" => request = "completed"
    BY <1>2 DEF document, requestSign, grantExpires, cancel, startSigning, abandonRequest
  <2> QED BY <1>1, <2>1, <2>2, <2>3
          DEF Recorded, SignedIsNotCancelled, CompletedIsSigned, Accounted
<1>3. CASE upload
  <2>1. UNCHANGED <<doc, request, signature, strays, purged>>
    BY <1>3 DEF upload, requestSigningUpload, putObject, passesCutoff, rowsVars, historyVars
  <2> QED BY <1>1, <2>1 DEF Recorded, SignedIsNotCancelled, CompletedIsSigned, Accounted
<1>4. ASSUME NEW c \in late, callLands(c) PROVE Recorded'
  <2>1. UNCHANGED <<doc, request, signature, strays>>
    BY <1>4 DEF callLands, rowsVars
  <2>2. ~SweepFails => purged' = purged
    BY <1>4 DEF callLands, LateHarmless
  <2> QED BY <1>1, <2>1, <2>2 DEF Recorded, SignedIsNotCancelled, CompletedIsSigned, Accounted
<1>5. CASE sweepAbandonedUploads
  <2>1. UNCHANGED <<doc, request, signature, strays>>
    BY <1>5 DEF sweepAbandonedUploads, sweepSelects, sweepDeletesStaging,
       sweepDeletesDurable, sweepDeletesRow, sweepCommits, sweepRollsBack, sweepRefused,
       sweepOutlives, rowsVars, historyVars
  <2>2. ASSUME ~SweepFails, "signature" \notin strays PROVE purged' = purged
    <3>1. CASE sweepRefused
      <4>1. sweep.batch # {} /\ sweep.file \in sweep.batch
        BY <2>2, <3>1 DEF sweepRefused, SweepOnBatch
      <4>2. row[sweep.file].status = "pending"
        BY <4>1 DEF SweepOnBatch
      <4>3. signature # None /\ signature.file = sweep.file
        BY <3>1, <4>2 DEF sweepRefused, deletable
      <4> QED BY <2>2, <4>2, <4>3 DEF Recorded, SignedFile
    <3>2. CASE sweepDeletesDurable
      BY <2>2, <3>2 DEF sweepDeletesDurable, SweepOnBatch, sweepInTx
    <3>3. CASE ~sweepRefused /\ ~sweepDeletesDurable
      BY <1>5, <2>2, <3>3
         DEF sweepAbandonedUploads, sweepSelects, sweepDeletesStaging,
             sweepDeletesRow, sweepCommits, sweepRollsBack, sweepOutlives, historyVars
    <3> QED BY <3>1, <3>2, <3>3
  <2> QED BY <1>1, <2>1, <2>2 DEF Recorded, SignedIsNotCancelled, CompletedIsSigned, Accounted
<1>6. ASSUME NEW p \in Completers, complete(p) PROVE Recorded'
  <2>1. UNCHANGED <<doc, purged>>
    BY <1>6
       DEF complete, load, readPendingSigningObject, readRefused, lockIssuedForSigning,
         lockRefused, claimRequest, alreadySigned, insertSignature, insertsLate,
         insertRefused, recordSigningObject, recordRefused, copyObject, copyRefused,
         markReady, commit, readyRaced, readyRefused, deleteStaging, completesLate,
         completeRefused, rollBack, outlive, leave, rowsVars, historyVars
  <2>2. CASE UNCHANGED <<signature, request, strays>>
    BY <1>1, <2>1, <2>2 DEF Recorded, SignedIsNotCancelled, CompletedIsSigned, Accounted
  <2>3. CASE insertsLate(p)
    <3>1. Zombies
      BY <2>3, LateIsZombie DEF insertsLate, Locked, Claimed
    <3>2. signature' \in [file : Files, signer : Valid]
      BY <2>3 DEF insertsLate, Verified
    <3> QED BY <1>1, <2>1, <2>3, <3>1, <3>2
            DEF insertsLate, SigningAssumption, Recorded, SignedIsNotCancelled, CompletedIsSigned, Accounted
  <2>4. CASE commit(p)
    <3>1. doc.status = "issued"
      BY <2>4 DEF commit, inTx, Locks, DocHeld
    <3>2. signature' \in [file : Files, signer : Valid]
      BY <2>4 DEF commit, Verified
    <3>3. signature' # None
      BY <3>2 DEF SigningAssumption
    <3> QED BY <1>1, <2>1, <2>4, <3>1, <3>3
            DEF commit, historyVars, Recorded, SignedIsNotCancelled, CompletedIsSigned, Accounted
  <2>5. CASE completesLate(p)
    <3>1. Zombies
      BY <2>5, LateIsZombie DEF completesLate, Locked, Claimed, Inserted
    <3> QED BY <1>1, <2>1, <2>5, <3>1
            DEF completesLate, Recorded, SignedIsNotCancelled, CompletedIsSigned, Accounted
  <2>6. CASE markReady(p)
    <3>1. inTx(p) \/ Zombies
      BY <2>6, LateIsZombie DEF markReady, Locked, Claimed, Inserted
    <3> QED BY <1>1, <2>1, <2>6, <3>1
            DEF markReady, Recorded, SignedIsNotCancelled, CompletedIsSigned, Accounted
  <2> QED BY <1>6, <2>2, <2>3, <2>4, <2>5, <2>6, CompleteRecords
<1> QED BY <1>2, <1>3, <1>4, <1>5, <1>6 DEF Next

-----------------------------------------------------------------------------
LEMMA InitSInv ==
  ASSUME SigningAssumption, Init
  PROVE  SInv
<1> USE DEF Init, Idle, Resting
<1>1. TypeOK
  BY DEF TypeOK, Steps, Objects
<1>2. Locks
  BY DEF Locks, DocHeld, StaysOpen, FilesHeld, Locked, Claimed, Inserted, SigningAssumption
<1>3. SweepOnBatch /\ Verified /\ Copied /\ LateHarmless
  BY DEF SweepOnBatch, Verified, Copied, LateHarmless, Copying, Inserted
<1>4. RowDeclared /\ Recorded /\ UploadSurvives
  BY DEF RowDeclared, Recorded, SignedFile, SignedIsNotCancelled, CompletedIsSigned,
         Accounted, UploadSurvives
<1> QED BY <1>1, <1>2, <1>3, <1>4 DEF SInv

LEMMA NextKeepsSInv ==
  ASSUME SigningAssumption, SInv, [Next]_vars
  PROVE  SInv'
<1>1. CASE Next
  <2>1. TypeOK'
    BY <1>1, DocumentTypes, CompleteTypes, LandingTypes, SweepTypes DEF SInv, Next
  <2>2. Locks'
    BY <1>1, CompleteLocks, OtherLocks DEF SInv, Next
  <2>3. SweepOnBatch'
    BY <1>1, BatchKept DEF SInv
  <2> QED BY <1>1, <2>1, <2>2, <2>3, VerifiedKept, CopiedKept, LateKept, DeclaredKept,
             RecordedKept, SurvivalKept DEF SInv
<1>2. CASE UNCHANGED vars
  BY <1>2 DEF vars, SInv, TypeOK, Locks, DocHeld, StaysOpen, FilesHeld, SweepOnBatch,
              Verified, Copied, Stored, deletedInBatch, LateHarmless, RowDeclared, Recorded,
              SignedFile, SignedIsNotCancelled, CompletedIsSigned, Accounted, UploadSurvives
<1> QED BY <1>1, <1>2

(* SigningSound (docSigning.complete, documents.cancel and the sweep of    *)
(* abandoned uploads): whatever handlers outlive their transactions, the   *)
(* signature that a transaction recorded is of an issued document and of a *)
(* ready file with the declared bytes, the object behind a ready file is   *)
(* the declared one until a sweep that did not commit purged it, and no    *)
(* upload before its cutoff is lost.                                       *)
THEOREM SigningIsSound ==
  ASSUME SigningAssumption
  PROVE  Spec => []SigningSound
<1>1. Init => SInv
  BY InitSInv
<1>2. SInv /\ [Next]_vars => SInv'
  BY NextKeepsSInv
<1>3. SInv => SigningSound
  <2> SUFFICES ASSUME SInv PROVE SigningSound
    OBVIOUS
  <2>1. ASSUME NEW f \in Files, row[f].status = "ready", f \notin purged
        PROVE  durable[f] = row[f].declared
    <3>1. f \notin deletedInBatch
      BY <2>1 DEF SInv, SweepOnBatch, deletedInBatch
    <3> QED BY <2>1, <3>1 DEF SInv, Copied, Stored
  <2>2. ReadyIsStored
    BY <2>1 DEF ReadyIsStored
  <2>3. SignatureIsStored
    <3>1. signature # None => signature.file \in Files
      BY DEF SInv, TypeOK
    <3> QED BY <2>1, <3>1 DEF SInv, Recorded, SignedFile, SignatureIsStored
  <2> QED BY <2>2, <2>3 DEF SInv, Recorded, SigningSound
<1> QED BY <1>1, <1>2, <1>3, PTL DEF Spec

(* A recorded signature is for good: no step, and none of a handler past   *)
(* its deadline, replaces it or takes it back.                             *)
THEOREM SignatureStays ==
  ASSUME SigningAssumption
  PROVE  Spec => [][signature # None => signature' = signature]_vars
<1>1. Init => SInv
  BY InitSInv
<1>2. SInv /\ [Next]_vars => SInv'
  BY NextKeepsSInv
<1>3. SInv /\ [Next]_vars => [signature # None => signature' = signature]_vars
  <2> SUFFICES ASSUME SInv, Next, signature # None PROVE signature' = signature
    OBVIOUS
  <2>1. ASSUME NEW p \in Completers, complete(p) PROVE signature' = signature
    <3>1. ~commit(p)
      BY DEF commit, inTx, SInv, Locks, StaysOpen, Claimed, Inserted
    <3>2. ~insertsLate(p)
      BY DEF insertsLate, insertable
    <3> QED BY <2>1, <3>1, <3>2, CompleteRecords DEF completesLate, markReady
  <2>2. ASSUME \/ document \/ upload \/ sweepAbandonedUploads
               \/ \E c \in late : callLands(c)
        PROVE  signature' = signature
    BY <2>2
       DEF document, requestSign, grantExpires, cancel, startSigning, abandonRequest,
       upload, requestSigningUpload, putObject, passesCutoff, callLands,
       sweepAbandonedUploads, sweepSelects, sweepDeletesStaging, sweepDeletesDurable,
       sweepDeletesRow, sweepCommits, sweepRollsBack, sweepRefused, sweepOutlives, rowsVars
  <2> QED BY <2>1, <2>2 DEF Next
<1> QED BY <1>1, <1>2, <1>3, PTL DEF Spec
=============================================================================
