--------------------------- MODULE DocumentSigning ---------------------------
(***************************************************************************)
(* Signing one issued document: the grant, the signing request, the upload *)
(* of the signed container and docSigning.complete, which verifies the     *)
(* container and records the signature, against documents.cancel, the      *)
(* abandonment of the request and the sweep of abandoned uploads.          *)
(*                                                                         *)
(* The rows of PostgreSQL and the objects of the store change separately:  *)
(* a transaction that rolls back takes back its rows and none of the       *)
(* objects it copied or deleted, and a call that is cut off may still      *)
(* land.  What a transaction has written is visible when it commits; until *)
(* then its row locks are what the others meet.                            *)
(*                                                                         *)
(* A handler that is past its deadline is not stopped: its transaction is  *)
(* rolled back and its locks are gone, but the statements that follow      *)
(* commit one by one on the released connection.  Here each commits on its *)
(* own; that it may land in a transaction of another action is the subject *)
(* of ExecutionTx.                                                         *)
(***************************************************************************)
EXTENDS Integers, FiniteSets

CONSTANTS
  Completers,  \* requests that run docSigning.complete
  Files,       \* ids of signing uploads
  Contents,    \* what a client can put in a container
  Valid,       \* the contents that verify and carry the document's digest
  SweepFails,  \* can the sweep's transaction roll back half-way
  Zombies,     \* do handlers go on when their transaction was rolled back
  None, Sweep

SigningAssumption ==
  /\ IsFiniteSet(Files) /\ Valid \subseteq Contents /\ SweepFails \in BOOLEAN
  /\ Zombies \in BOOLEAN
  /\ None \notin Contents \cup Files \cup Completers \cup [file : Files, signer : Valid]
  /\ Sweep \notin Completers \cup {None}

VARIABLES
  doc,       \* documents: status and the grant signRequestedAt
  request,   \* signing_requests of the document
  signature, \* signing_signatures of the supplier, with the signer it names
  row,       \* files: status, declared checksum, and whether past the cutoff
  staging,   \* the staging object of a file
  durable,   \* the object {companyId}/signing/{fileId}
  lastPut,   \* history: what the client put last
  docLock,   \* who holds the document's row
  fileLock,  \* who holds a file's row
  proc,      \* the completers: step, file and the bytes they verified
  sweep,     \* the sweep: batch, files left, file at hand and step
  late,      \* calls to the store that were cut off and may still land
  strays,    \* history: what handlers wrote after their transaction
  purged     \* history: files whose durable object was deleted by a sweep
             \* that did not commit

rowsVars == <<doc, request, signature, row>>
storeVars == <<staging, durable, lastPut>>
historyVars == <<strays, purged>>
vars == <<doc, request, signature, row, staging, durable, lastPut, docLock,
          fileLock, proc, sweep, late, strays, purged>>

Objects == Contents \cup {None}
Idle == [at |-> "idle", file |-> None, bytes |-> None]
Resting == [at |-> "idle", batch |-> {}, todo |-> {}, file |-> None]
Inserted == {"recording", "copying", "copied", "ready", "unstaged"}
Claimed == {"claimed"} \cup Inserted
Locked == {"locked"} \cup Claimed
Steps == {"idle", "loaded", "verified"} \cup Locked

TypeOK ==
  /\ doc \in [status : {"issued", "cancelled"}, grant : {"none", "fresh", "expired"}]
  /\ request \in {"none", "pending", "completed"}
  /\ signature \in [file : Files, signer : Valid] \cup {None}
  /\ row \in [Files -> [status : {"absent", "pending", "ready"},
                        declared : Objects, old : BOOLEAN]]
  /\ staging \in [Files -> Objects] /\ durable \in [Files -> Objects]
  /\ lastPut \in [Files -> Objects]
  /\ docLock \in Completers \cup {None}
  /\ fileLock \in [Files -> Completers \cup {Sweep, None}]
  /\ proc \in [Completers -> [at : Steps, file : Files \cup {None}, bytes : Objects]]
  /\ sweep \in [at : {"idle", "next", "durable", "row"}, batch : SUBSET Files,
                todo : SUBSET Files, file : Files \cup {None}]
  /\ late \subseteq [call : {"copy", "unstage", "purge"}, file : Files, bytes : Objects]
  /\ strays \subseteq {"signature", "file", "request"} /\ purged \subseteq Files

Init ==
  /\ doc = [status |-> "issued", grant |-> "none"]
  /\ request = "none" /\ signature = None
  /\ row = [f \in Files |-> [status |-> "absent", declared |-> None, old |-> FALSE]]
  /\ staging = [f \in Files |-> None] /\ durable = [f \in Files |-> None]
  /\ lastPut = [f \in Files |-> None]
  /\ docLock = None /\ fileLock = [f \in Files |-> None]
  /\ proc = [p \in Completers |-> Idle]
  /\ sweep = Resting /\ late = {} /\ strays = {} /\ purged = {}

-----------------------------------------------------------------------------
(* The short transactions: each takes the document's row FOR UPDATE, and    *)
(* waits while a completer holds it.                                        *)

requestSign ==
  /\ docLock = None
  /\ doc.status = "issued" /\ signature = None
  /\ doc' = [doc EXCEPT !.grant = "fresh"]
  /\ UNCHANGED <<request, signature, row, storeVars, docLock, fileLock, proc, sweep, late,
                 historyVars>>

grantExpires ==
  /\ doc.grant = "fresh"
  /\ doc' = [doc EXCEPT !.grant = "expired"]
  /\ UNCHANGED <<request, signature, row, storeVars, docLock, fileLock, proc, sweep, late,
                 historyVars>>

cancel ==
  /\ docLock = None
  /\ doc.status = "issued" /\ signature = None
  /\ doc' = [status |-> "cancelled", grant |-> "none"]
  /\ UNCHANGED <<request, signature, row, storeVars, docLock, fileLock, proc, sweep, late,
                 historyVars>>

(* What lockIssuedForSigning demands of the row it has locked. *)
issuedAndGranted == doc.status = "issued" /\ doc.grant = "fresh"

(* Mutation: a request is opened whatever has become of the document. *)
startableUnchecked == request = "none" /\ signature = None

startable == issuedAndGranted /\ signature = None /\ request = "none"

(* A start that finds a pending request returns it and changes nothing.     *)
(* One request is followed: none is opened beside a completed one.          *)
startSigning ==
  /\ docLock = None
  /\ startable
  /\ request' = "pending"
  /\ UNCHANGED <<doc, signature, row, storeVars, docLock, fileLock, proc, sweep, late,
                 historyVars>>

inTx(p) == docLock = p

(* A completer that has claimed the request holds its row to the end of the *)
(* transaction.                                                             *)
requestLocked == \E p \in Completers : inTx(p) /\ proc[p].at \in Claimed

(* The handler of documents.cancelled; its DELETE waits for the row. *)
abandonRequest ==
  /\ doc.status = "cancelled"
  /\ request = "pending" /\ ~requestLocked
  /\ request' = "none"
  /\ UNCHANGED <<doc, signature, row, storeVars, docLock, fileLock, proc, sweep, late,
                 historyVars>>

-----------------------------------------------------------------------------
(* The upload. *)

requestSigningUpload(f) ==
  /\ row[f] = [status |-> "absent", declared |-> None, old |-> FALSE]
  /\ \E b \in Contents :
       row' = [row EXCEPT ![f] = [status |-> "pending", declared |-> b, old |-> FALSE]]
  /\ UNCHANGED <<doc, request, signature, storeVars, docLock, fileLock, proc, sweep, late,
                 historyVars>>

(* No signed URL outlives the cutoff of its row (signedPutWouldOutlivePending). *)
putObject(f) ==
  /\ row[f].status # "absent" /\ ~row[f].old
  /\ \E b \in Contents :
       /\ staging' = [staging EXCEPT ![f] = b]
       /\ lastPut' = [lastPut EXCEPT ![f] = b]
  /\ UNCHANGED <<rowsVars, durable, docLock, fileLock, proc, sweep, late,
                 historyVars>>

passesCutoff(f) ==
  /\ row[f].status # "absent" /\ ~row[f].old
  /\ row' = [row EXCEPT ![f].old = TRUE]
  /\ UNCHANGED <<doc, request, signature, storeVars, docLock, fileLock, proc, sweep, late,
                 historyVars>>

-----------------------------------------------------------------------------
(* docSigning.complete. *)

step(p, at) == proc' = [proc EXCEPT ![p].at = at]

held(p) == {f \in Files : fileLock[f] = p}
releaseDoc(p) == docLock' = IF docLock = p THEN None ELSE docLock
releaseFiles(p) == fileLock' = [f \in Files |-> IF f \in held(p) THEN None ELSE fileLock[f]]

(* The handler ends: its transaction rolls back, or had nothing to write. *)
leave(p) ==
  /\ proc' = [proc EXCEPT ![p] = Idle]
  /\ releaseDoc(p) /\ releaseFiles(p)
  /\ UNCHANGED <<rowsVars, storeVars, sweep, late, historyVars>>

load(p, f) ==
  /\ proc[p].at = "idle"
  /\ request = "pending" /\ signature = None
  /\ proc' = [proc EXCEPT ![p] = [at |-> "loaded", file |-> f, bytes |-> None]]
  /\ UNCHANGED <<rowsVars, storeVars, docLock, fileLock, sweep, late, historyVars>>

(* Staging is preferred; the durable object stands in for it. *)
readable(f) == IF staging[f] # None THEN staging[f] ELSE durable[f]

(* verifyAsicE and requireMatchingDigest. *)
verifies(b) == b \in Valid

readPendingSigningObject(p) ==
  LET f == proc[p].file IN
  /\ proc[p].at = "loaded"
  /\ row[f].status = "pending" /\ verifies(readable(f))
  /\ proc' = [proc EXCEPT ![p].at = "verified", ![p].bytes = readable(f)]
  /\ UNCHANGED <<rowsVars, storeVars, docLock, fileLock, sweep, late, historyVars>>

readRefused(p) ==
  LET f == proc[p].file IN
  /\ proc[p].at = "loaded"
  /\ row[f].status # "pending" \/ ~verifies(readable(f))
  /\ leave(p)

takesDoc(p) == docLock = None /\ docLock' = p

lockIssuedForSigning(p) ==
  /\ proc[p].at = "verified"
  /\ issuedAndGranted
  /\ takesDoc(p)
  /\ step(p, "locked")
  /\ UNCHANGED <<rowsVars, storeVars, fileLock, sweep, late, historyVars>>

lockRefused(p) ==
  /\ proc[p].at = "verified" /\ docLock = None /\ ~issuedAndGranted
  /\ leave(p)

(* The request is read again FOR UPDATE, and the signature after it. *)
stillOpen == request = "pending" /\ signature = None

claimRequest(p) ==
  /\ proc[p].at = "locked" /\ ~requestLocked /\ stillOpen
  /\ step(p, "claimed")
  /\ UNCHANGED <<rowsVars, storeVars, docLock, fileLock, sweep, late, historyVars>>

alreadySigned(p) == proc[p].at = "locked" /\ ~requestLocked /\ ~stillOpen /\ leave(p)

(* The foreign keys of the signature take FOR KEY SHARE of the document and *)
(* of the file: the insert waits for the sweep, and the sweep skips the     *)
(* file until the transaction is over.                                      *)
keysFree(p) == fileLock[proc[p].file] # Sweep /\ docLock \in {None, p}

insertable(p) == row[proc[p].file].status # "absent" /\ signature = None

insertSignature(p) ==
  /\ proc[p].at = "claimed" /\ inTx(p) /\ keysFree(p) /\ insertable(p)
  /\ fileLock' = [fileLock EXCEPT ![proc[p].file] = p]
  /\ step(p, "recording")
  /\ UNCHANGED <<rowsVars, storeVars, docLock, sweep, late, historyVars>>

(* After the transaction the insert commits by itself, and callAtomic, past *)
(* the deadline, refuses to go on.                                          *)
insertsLate(p) ==
  /\ proc[p].at = "claimed" /\ ~inTx(p) /\ keysFree(p) /\ insertable(p)
  /\ signature' = [file |-> proc[p].file, signer |-> proc[p].bytes]
  /\ strays' = strays \cup {"signature"}
  /\ proc' = [proc EXCEPT ![p] = Idle]
  /\ UNCHANGED <<doc, request, row, storeVars, docLock, fileLock, sweep, late, purged>>

insertRefused(p) == proc[p].at = "claimed" /\ keysFree(p) /\ ~insertable(p) /\ leave(p)

declaredMatches(f, bytes) == row[f].declared = bytes

recordable(f, bytes) == row[f].status = "pending" /\ declaredMatches(f, bytes)

(* matchingSigningRow: another handler has recorded the file. *)
recorded(f, bytes) == row[f].status = "ready" /\ declaredMatches(f, bytes)

(* recordSigningObject up to the copy: the row and the staging object, read *)
(* again; a durable object with the same checksum needs no copy.            *)
recordSigningObject(p) ==
  LET f == proc[p].file  b == proc[p].bytes IN
  /\ proc[p].at = "recording"
  /\ \/ recordable(f, b) /\ staging[f] = b /\ step(p, "copying")
     \/ recordable(f, b) /\ staging[f] = None /\ durable[f] = b /\ step(p, "copied")
     \/ recorded(f, b) /\ step(p, "unstaged")
  /\ UNCHANGED <<rowsVars, storeVars, docLock, fileLock, sweep, late, historyVars>>

recordRefused(p) ==
  LET f == proc[p].file  b == proc[p].bytes IN
  /\ proc[p].at = "recording" /\ ~recorded(f, b)
  /\ \/ ~recordable(f, b)
     \/ readable(f) # b
  /\ leave(p)

etagMatches(f, bytes) == staging[f] = bytes

copyObject(p) ==
  LET f == proc[p].file IN
  /\ proc[p].at = "copying" /\ etagMatches(f, proc[p].bytes)
  /\ durable' = [durable EXCEPT ![f] = staging[f]]
  /\ step(p, "copied")
  /\ UNCHANGED <<rowsVars, staging, lastPut, docLock, fileLock, sweep, late, historyVars>>

copyRefused(p) ==
  /\ proc[p].at = "copying" /\ ~etagMatches(proc[p].file, proc[p].bytes)
  /\ leave(p)

(* The UPDATE to ready waits for one that has not committed and for the     *)
(* sweep, not for an insert's key share.                                    *)
updatable(p, f) ==
  /\ fileLock[f] # Sweep
  /\ \A q \in Completers \ {p} :
       fileLock[f] = q => proc[q].at \notin {"ready", "unstaged"}

markReady(p) ==
  LET f == proc[p].file IN
  /\ proc[p].at = "copied" /\ row[f].status = "pending" /\ updatable(p, f)
  /\ IF inTx(p) THEN UNCHANGED <<row, strays>>
     ELSE /\ row' = [row EXCEPT ![f].status = "ready"]
          /\ strays' = strays \cup {"file"}
  /\ step(p, "ready")
  /\ UNCHANGED <<doc, request, signature, storeVars, docLock, fileLock, sweep, late,
                 purged>>

(* No row is pending any more: it is another's ready row, or it is gone. *)
readyRaced(p) ==
  LET f == proc[p].file IN
  /\ proc[p].at = "copied" /\ recorded(f, proc[p].bytes)
  /\ step(p, "unstaged")
  /\ UNCHANGED <<rowsVars, storeVars, docLock, fileLock, sweep, late, historyVars>>

readyRefused(p) ==
  /\ proc[p].at = "copied" /\ row[proc[p].file].status = "absent"
  /\ leave(p)

deleteStaging(p) ==
  LET f == proc[p].file IN
  /\ proc[p].at = "ready"
  /\ staging' = [staging EXCEPT ![f] = None]
  /\ step(p, "unstaged")
  /\ UNCHANGED <<rowsVars, durable, lastPut, docLock, fileLock, sweep, late, historyVars>>

(* The request becomes completed and the transaction commits. *)
commit(p) ==
  LET f == proc[p].file IN
  /\ proc[p].at = "unstaged" /\ inTx(p)
  /\ signature' = [file |-> f, signer |-> proc[p].bytes]
  /\ row' = [row EXCEPT ![f].status = "ready"]
  /\ request' = "completed"
  /\ proc' = [proc EXCEPT ![p] = Idle]
  /\ releaseDoc(p) /\ releaseFiles(p)
  /\ UNCHANGED <<doc, storeVars, sweep, late, historyVars>>

(* After the transaction only the request is left to complete: the insert   *)
(* of the signature was rolled back.                                        *)
completesLate(p) ==
  /\ proc[p].at = "unstaged" /\ ~inTx(p) /\ ~requestLocked
  /\ request = "pending"
  /\ request' = "completed" /\ strays' = strays \cup {"request"}
  /\ proc' = [proc EXCEPT ![p] = Idle]
  /\ UNCHANGED <<doc, signature, row, storeVars, docLock, fileLock, sweep, late, purged>>

completeRefused(p) ==
  /\ proc[p].at = "unstaged" /\ ~inTx(p) /\ ~requestLocked
  /\ request # "pending"
  /\ leave(p)

(* A call fails or the process dies: the transaction rolls back, the        *)
(* handler ends, and the call under way may still reach the store.  At the  *)
(* deadline a handler that has not locked the document ends as well, since  *)
(* it can begin no further call.                                            *)
rollBack(p) ==
  LET f == proc[p].file IN
  /\ proc[p].at # "idle"
  /\ proc' = [proc EXCEPT ![p] = Idle]
  /\ releaseDoc(p) /\ releaseFiles(p)
  /\ \/ UNCHANGED late
     \/ /\ proc[p].at = "copying"
        /\ late' = late \cup {[call |-> "copy", file |-> f, bytes |-> proc[p].bytes]}
     \/ /\ proc[p].at = "ready"
        /\ late' = late \cup {[call |-> "unstage", file |-> f, bytes |-> None]}
  /\ UNCHANGED <<rowsVars, storeVars, sweep, historyVars>>

(* The deadline passes: the transaction rolls back and the handler goes on. *)
outlive(p) ==
  /\ Zombies /\ inTx(p)
  /\ releaseDoc(p) /\ releaseFiles(p)
  /\ UNCHANGED <<rowsVars, storeVars, proc, sweep, late, historyVars>>

(* A call that was cut off reaches the store. *)
callLands(c) ==
  /\ c \in late /\ late' = late \ {c}
  /\ staging' = IF c.call = "unstage" THEN [staging EXCEPT ![c.file] = None] ELSE staging
  /\ durable' = CASE c.call = "copy" /\ etagMatches(c.file, c.bytes) ->
                       [durable EXCEPT ![c.file] = staging[c.file]]
                  [] c.call = "purge" -> [durable EXCEPT ![c.file] = None]
                  [] OTHER -> durable
  /\ purged' = IF c.call = "purge" THEN purged \cup {c.file} ELSE purged
  /\ UNCHANGED <<rowsVars, lastPut, docLock, fileLock, proc, sweep, strays>>

-----------------------------------------------------------------------------
(* files.sweepAbandonedUploads: one transaction for the batch. *)

(* Mutation: the batch is read without FOR UPDATE SKIP LOCKED. *)
abandonedLocked == {f \in Files : row[f].status = "pending" /\ row[f].old}

abandoned == {f \in Files : /\ row[f].status = "pending" /\ row[f].old
                            /\ fileLock[f] = None}

sweepSelects ==
  /\ sweep.at = "idle" /\ abandoned # {}
  /\ sweep' = [at |-> "next", batch |-> abandoned, todo |-> abandoned, file |-> None]
  /\ fileLock' = [f \in Files |-> IF f \in abandoned THEN Sweep ELSE fileLock[f]]
  /\ UNCHANGED <<rowsVars, storeVars, docLock, proc, late, historyVars>>

(* Its transaction is open while it has locked rows. *)
sweepInTx == sweep.batch # {}

sweepDeletesStaging ==
  /\ sweep.at = "next"
  /\ \E f \in sweep.todo :
       /\ staging' = [staging EXCEPT ![f] = None]
       /\ sweep' = [sweep EXCEPT !.at = "durable", !.file = f]
  /\ UNCHANGED <<rowsVars, durable, lastPut, docLock, fileLock, proc, late, historyVars>>

sweepDeletesDurable ==
  /\ sweep.at = "durable"
  /\ durable' = [durable EXCEPT ![sweep.file] = None]
  /\ sweep' = [sweep EXCEPT !.at = "row", !.todo = @ \ {sweep.file}]
  /\ purged' = IF sweepInTx THEN purged ELSE purged \cup {sweep.file}
  /\ UNCHANGED <<rowsVars, staging, lastPut, docLock, fileLock, proc, late, strays>>

(* The DELETE of the row: the signature's foreign key restricts it. *)
deletable(f) ==
  /\ row[f].status = "pending"
  /\ signature # None => signature.file # f

(* In the transaction it shows at the commit, after it at once; then it     *)
(* waits for whoever has the row.                                           *)
sweepDeletesRow ==
  /\ sweep.at = "row" /\ deletable(sweep.file)
  /\ sweep' = [sweep EXCEPT !.at = "next", !.file = None]
  /\ \/ sweepInTx /\ UNCHANGED row
     \/ /\ ~sweepInTx /\ fileLock[sweep.file] = None
        /\ row' = [row EXCEPT ![sweep.file].status = "absent"]
  /\ UNCHANGED <<doc, request, signature, storeVars, docLock, fileLock, proc, late,
                 historyVars>>

sweepCommits ==
  /\ sweep.at = "next" /\ sweep.todo = {}
  /\ row' = [f \in Files |->
               IF f \in sweep.batch THEN [row[f] EXCEPT !.status = "absent"] ELSE row[f]]
  /\ sweep' = Resting
  /\ releaseFiles(Sweep)
  /\ UNCHANGED <<doc, request, signature, storeVars, docLock, proc, late, historyVars>>

(* The files of the batch that have lost their durable object. *)
deletedInBatch == sweep.batch \ sweep.todo

(* A failing call or the deadline rolls the whole batch back; ... *)
sweepRollsBack ==
  /\ SweepFails /\ sweep.at # "idle"
  /\ sweep' = Resting
  /\ releaseFiles(Sweep)
  /\ purged' = purged \cup deletedInBatch
  /\ \/ UNCHANGED late
     \/ /\ sweep.at = "durable"
        /\ late' = late \cup {[call |-> "purge", file |-> sweep.file, bytes |-> None]}
  /\ UNCHANGED <<rowsVars, storeVars, docLock, proc, strays>>

(* ... so does a row that cannot be deleted; ... *)
sweepRefused ==
  /\ sweep.at = "row" /\ ~deletable(sweep.file)
  /\ sweep' = Resting
  /\ releaseFiles(Sweep)
  /\ purged' = purged \cup deletedInBatch
  /\ UNCHANGED <<rowsVars, storeVars, docLock, proc, late, strays>>

(* ... and at the deadline the handler goes on with the files it has left. *)
sweepOutlives ==
  /\ SweepFails /\ Zombies /\ sweepInTx
  /\ sweep' = [sweep EXCEPT !.batch = {}]
  /\ releaseFiles(Sweep)
  /\ purged' = purged \cup deletedInBatch
  /\ UNCHANGED <<rowsVars, storeVars, docLock, proc, late, strays>>

-----------------------------------------------------------------------------
document == requestSign \/ grantExpires \/ cancel \/ startSigning \/ abandonRequest

upload == \E f \in Files : requestSigningUpload(f) \/ putObject(f) \/ passesCutoff(f)

complete(p) ==
  \/ \E f \in Files : load(p, f)
  \/ readPendingSigningObject(p) \/ readRefused(p)
  \/ lockIssuedForSigning(p) \/ lockRefused(p)
  \/ claimRequest(p) \/ alreadySigned(p)
  \/ insertSignature(p) \/ insertsLate(p) \/ insertRefused(p)
  \/ recordSigningObject(p) \/ recordRefused(p)
  \/ copyObject(p) \/ copyRefused(p)
  \/ markReady(p) \/ readyRaced(p) \/ readyRefused(p)
  \/ deleteStaging(p)
  \/ commit(p) \/ completesLate(p) \/ completeRefused(p)
  \/ rollBack(p) \/ outlive(p)

sweepAbandonedUploads ==
  \/ sweepSelects \/ sweepDeletesStaging \/ sweepDeletesDurable \/ sweepDeletesRow
  \/ sweepCommits \/ sweepRollsBack \/ sweepRefused \/ sweepOutlives

Next ==
  \/ document \/ upload \/ sweepAbandonedUploads
  \/ \E p \in Completers : complete(p)
  \/ \E c \in late : callLands(c)

Spec == Init /\ [][Next]_vars

-----------------------------------------------------------------------------
(* A document that carries a signature is not cancelled: complete verifies  *)
(* without the document's lock, so a cancellation may commit in between.    *)
(* Only a handler past its deadline inserts without that lock.              *)
SignedIsNotCancelled ==
  signature # None /\ "signature" \notin strays => doc.status = "issued"

(* A completed request has its signature, unless a handler past its         *)
(* deadline, whose insert was rolled back, has completed it.                *)
CompletedIsSigned ==
  request = "completed" /\ "request" \notin strays => signature # None

(* Whoever marks a file ready, in a transaction or past its deadline, and   *)
(* whatever was put, copied, deleted or swept meanwhile: its durable object *)
(* is the declared one, as long as no sweep that did not commit purged it.  *)
ReadyIsStored ==
  \A f \in Files :
    row[f].status = "ready" /\ f \notin purged => durable[f] = row[f].declared

(* The stored signature names the signer of the container that is stored:   *)
(* the file is ready, and its durable object is what complete verified.     *)
SignatureIsStored ==
  signature # None /\ "signature" \notin strays =>
    /\ row[signature.file].status = "ready"
    /\ signature.file \notin purged => durable[signature.file] = signature.signer

(* An upload that is not past the cutoff is not lost: however many          *)
(* completions failed, were cut off or went on past their deadline, the     *)
(* declared bytes that the client put last are in staging or durable.       *)
UploadSurvives ==
  \A f \in Files :
    row[f].status = "pending" /\ ~row[f].old /\ lastPut[f] = row[f].declared
      /\ lastPut[f] # None
    => lastPut[f] \in {staging[f], durable[f]}

(* Nothing is written after a transaction, and no object purged but its row *)
(* kept, where handlers end with their transactions and sweeps commit.      *)
Accounted ==
  /\ ~Zombies => strays = {}
  /\ ~SweepFails /\ "signature" \notin strays => purged = {}

(* What holds of a signing at every moment (docSigning.complete,            *)
(* recordSigningObject, lockIssuedForSigning, sweepAbandonedUploads).       *)
SigningSound ==
  /\ TypeOK /\ SignedIsNotCancelled /\ CompletedIsSigned
  /\ ReadyIsStored /\ SignatureIsStored /\ UploadSurvives /\ Accounted

(* What the comment at lockIssuedForSigning's call says: "a signature is    *)
(* never recorded on a cancelled document" (complete.ts).                   *)
NeverSignedCancelled == signature # None => doc.status = "issued"

(* A cancelled document ends up without an open signing request, for good. *)
CancelledIsAbandoned == <>[](doc.status = "cancelled" => request # "pending")
=============================================================================
