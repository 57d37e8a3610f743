---------------------------- MODULE CatalogUpload ----------------------------
(***************************************************************************)
(* Uploads of catalog images: the client's signed PUT into staging,        *)
(* files.finalizeUpload, which writes the original and its renditions and  *)
(* then marks the row ready, the sweep of abandoned and leftover objects   *)
(* and the backfill of renditions.                                         *)
(*                                                                         *)
(* As in DocumentSigning, rows roll back and objects do not.  A handler    *)
(* whose transaction was rolled back at its deadline is not stopped: with  *)
(* Zombies it carries on with its calls to the store until it meets the    *)
(* database again.                                                         *)
(***************************************************************************)
EXTENDS Integers, Sequences, FiniteSets

CONSTANTS
  Finalizers, Files,
  Legacy,      \* files that were ready before renditions existed
  Undecodable, \* files no rendition can be derived from
  Renditions,  \* the sequence CATALOG_RENDITIONS
  Zombies,     \* do handlers outlive their transaction
  None, Sweep

Derived == {Renditions[i] : i \in DOMAIN Renditions}

UploadAssumption ==
  /\ IsFiniteSet(Files) /\ Legacy \subseteq Files /\ Undecodable \subseteq Files
  /\ Zombies \in BOOLEAN
  /\ Renditions \in Seq(Derived) /\ {"staging", "original"} \cap Derived = {}
  /\ None \notin Finalizers \cup Files \cup {"declared", "other"}
  /\ Sweep \notin Finalizers \cup {None}

VARIABLES
  row,      \* files: status, past the cutoff, stagingPurgedAt set
  object,   \* the objects of a file: staging, the original, the renditions
  lock,     \* who holds a file's row
  fin,      \* the finalizers: step, file, bytes read, keys left to put
  sweep,    \* the sweep: step, file, keys left to delete
  backfill, \* the backfill: file and the renditions it found missing
  zombies   \* calls of handlers without a transaction

uploadVars == <<row, object, lock, fin, sweep, backfill, zombies>>

Bytes == {"declared", "other"}
Served == {"original"} \cup Derived
Keys == {"staging"} \cup Served
NoFinalizer == [at |-> "idle", file |-> None, bytes |-> None, todo |-> {}]
NoSweep == [at |-> "idle", file |-> None, todo |-> {}]
NoBackfill == [file |-> None, bytes |-> None, todo |-> {}]

RowType == [status : {"absent", "pending", "ready", "deleted"},
            old : BOOLEAN, purged : BOOLEAN]
FinalizerType == [at : {"idle", "staged", "putting", "filling"},
                  file : Files \cup {None}, bytes : Bytes \cup {None},
                  todo : SUBSET Served]
SweepType == [at : {"idle", "abandoned", "leftover"}, file : Files \cup {None},
              todo : SUBSET Keys]
BackfillType == [file : Files \cup {None}, bytes : Bytes \cup {None},
                 todo : SUBSET Derived]
CallType == [file : Files, bytes : Bytes \cup {None}, todo : SUBSET Keys]

UploadTypeOK ==
  /\ row \in [Files -> RowType]
  /\ object \in [Files -> [Keys -> Bytes \cup {None}]]
  /\ lock \in [Files -> Finalizers \cup {Sweep, None}]
  /\ fin \in [Finalizers -> FinalizerType]
  /\ sweep \in SweepType
  /\ backfill \in BackfillType
  /\ zombies \subseteq CallType

UploadInit ==
  /\ row = [f \in Files |-> [status |-> IF f \in Legacy THEN "ready" ELSE "absent",
                             old |-> f \in Legacy, purged |-> f \in Legacy]]
  /\ object = [f \in Files |-> [k \in Keys |->
                  IF f \in Legacy /\ k = "original" THEN "declared" ELSE None]]
  /\ lock = [f \in Files |-> None]
  /\ fin = [p \in Finalizers |-> NoFinalizer]
  /\ sweep = NoSweep /\ backfill = NoBackfill /\ zombies = {}

(* The calls of one handler to the store go out in this order.             *)
Order == <<"staging", "original">> \o Renditions
first(todo) ==
  {k \in todo : \E i \in DOMAIN Order :
                   Order[i] = k /\ \A j \in 1..(i - 1) : Order[j] \notin todo}

store(f, k, b) == object' = [object EXCEPT ![f][k] = b]
unlock(p) == lock' = [f \in Files |-> IF lock[f] = p THEN None ELSE lock[f]]

-----------------------------------------------------------------------------
requestUpload(f) ==
  /\ row[f].status = "absent"
  /\ row' = [row EXCEPT ![f].status = "pending"]
  /\ UNCHANGED <<object, lock, fin, sweep, backfill, zombies>>

(* No signed URL outlives the cutoff of its row; one may outlive finalize. *)
putObject(f) ==
  /\ row[f].status \in {"pending", "ready"} /\ ~row[f].old
  /\ \E b \in Bytes : store(f, "staging", b)
  /\ UNCHANGED <<row, lock, fin, sweep, backfill, zombies>>

passesCutoff(f) ==
  /\ row[f].status \in {"pending", "ready"} /\ ~row[f].old
  /\ row' = [row EXCEPT ![f].old = TRUE]
  /\ UNCHANGED <<object, lock, fin, sweep, backfill, zombies>>

-----------------------------------------------------------------------------
(* finalizeStaffUpload. *)

validStaging(b) == b = "declared"

missing(f) == {k \in Derived : object[f][k] = None}

(* Not with nothing to fill, no original, or one that cannot be decoded:   *)
(* the request then fails, and the backfill skips the file.                *)
fills(f) ==
  missing(f) # {} /\ object[f]["original"] # None /\ f \notin Undecodable

fillStep(p, f) ==
  fin' = [fin EXCEPT ![p] = IF fills(f)
            THEN [at |-> "filling", file |-> f, bytes |-> object[f]["original"],
                  todo |-> missing(f)]
            ELSE NoFinalizer]

readStaging(p, f) ==
  /\ fin[p].at = "idle" /\ row[f].status = "pending"
  /\ validStaging(object[f]["staging"])
  /\ fin' = [fin EXCEPT ![p] = [at |-> "staged", file |-> f,
                                bytes |-> object[f]["staging"], todo |-> {}]]
  /\ UNCHANGED <<row, object, lock, sweep, backfill, zombies>>

(* A second finalize of a ready file fills what is missing. *)
finalizeReady(p, f) ==
  /\ fin[p].at = "idle" /\ row[f].status = "ready"
  /\ fillStep(p, f)
  /\ UNCHANGED <<row, object, lock, sweep, backfill, zombies>>

(* Mutation: the row is read again without FOR UPDATE. *)
takesRowUnlocked(p, f) == UNCHANGED lock

takesRow(p, f) == lock[f] = None /\ lock' = [lock EXCEPT ![f] = p]

(* Under the row's lock staging must still be what was read and hashed,    *)
(* and the renditions are derived before anything is written.              *)
lockPending(p) ==
  LET f == fin[p].file IN
  /\ fin[p].at = "staged" /\ row[f].status = "pending"
  /\ takesRow(p, f)
  /\ object[f]["staging"] = fin[p].bytes /\ f \notin Undecodable
  /\ fin' = [fin EXCEPT ![p].at = "putting", ![p].todo = Served]
  /\ UNCHANGED <<row, object, sweep, backfill, zombies>>

lockRefused(p) ==
  LET f == fin[p].file IN
  /\ fin[p].at = "staged" /\ lock[f] = None
  /\ \/ row[f].status = "deleted"
     \/ row[f].status = "pending" /\ object[f]["staging"] # fin[p].bytes
     \/ row[f].status = "pending" /\ f \in Undecodable
  /\ fin' = [fin EXCEPT ![p] = NoFinalizer]
  /\ UNCHANGED <<row, object, lock, sweep, backfill, zombies>>

(* Another finalizer was first; the lock is released when this one ends. *)
lockReady(p) ==
  LET f == fin[p].file IN
  /\ fin[p].at = "staged" /\ row[f].status = "ready" /\ lock[f] = None
  /\ fillStep(p, f)
  /\ lock' = IF fills(f) THEN [lock EXCEPT ![f] = p] ELSE lock
  /\ UNCHANGED <<row, object, sweep, backfill, zombies>>

(* The bytes that were hashed, from memory. *)
promoted(p) == fin[p].bytes

putNext(p) ==
  /\ fin[p].at \in {"putting", "filling"}
  /\ \E k \in first(fin[p].todo) :
       /\ store(fin[p].file, k, promoted(p))
       /\ fin' = [fin EXCEPT ![p].todo = @ \ {k}]
  /\ UNCHANGED <<row, lock, sweep, backfill, zombies>>

finish(p) ==
  /\ fin[p].todo = {}
  /\ \/ /\ fin[p].at = "putting" /\ row[fin[p].file].status = "pending"
        /\ row' = [row EXCEPT ![fin[p].file].status = "ready"]
     \/ fin[p].at = "filling" /\ UNCHANGED row
  /\ fin' = [fin EXCEPT ![p] = NoFinalizer]
  /\ unlock(p)
  /\ UNCHANGED <<object, sweep, backfill, zombies>>

(* What is left of a handler's calls when its transaction is gone. *)
haunt(f, bytes, todo) ==
  zombies' = IF Zombies /\ todo # {}
               THEN zombies \cup {[file |-> f, bytes |-> bytes, todo |-> todo]}
               ELSE zombies

(* The deadline, a failed call or the death of the process. *)
rollBack(p) ==
  /\ fin[p].at # "idle"
  /\ haunt(fin[p].file, fin[p].bytes, fin[p].todo) \/ UNCHANGED zombies
  /\ fin' = [fin EXCEPT ![p] = NoFinalizer]
  /\ unlock(p)
  /\ UNCHANGED <<row, object, sweep, backfill>>

(* A put or, without bytes, a delete. *)
zombieCalls(z) ==
  /\ \E k \in first(z.todo) :
       /\ store(z.file, k, z.bytes)
       /\ zombies' = (zombies \ {z}) \cup
            (IF z.todo = {k} THEN {} ELSE {[z EXCEPT !.todo = @ \ {k}]})
  /\ UNCHANGED <<row, lock, fin, sweep, backfill>>

-----------------------------------------------------------------------------
(* files.sweepAbandonedUploads, one row of its batch at a time: rows of one *)
(* batch commit or roll back together, and no row depends on another.       *)

abandonedKeys == Keys

leftover(f) == row[f].status = "ready" /\ ~row[f].purged

sweepSelects(f) ==
  /\ sweep.at = "idle" /\ lock[f] = None
  /\ \/ /\ row[f].status = "pending" /\ row[f].old
        /\ sweep' = [at |-> "abandoned", file |-> f, todo |-> abandonedKeys]
     \/ /\ leftover(f)
        /\ sweep' = [at |-> "leftover", file |-> f, todo |-> {"staging"}]
  /\ lock' = [lock EXCEPT ![f] = Sweep]
  /\ UNCHANGED <<row, object, fin, backfill, zombies>>

sweepDeletes ==
  /\ \E k \in first(sweep.todo) :
       /\ store(sweep.file, k, None)
       /\ sweep' = [sweep EXCEPT !.todo = @ \ {k}]
  /\ UNCHANGED <<row, lock, fin, backfill, zombies>>

sweptRow(f) == IF sweep.at = "abandoned" THEN [row[f] EXCEPT !.status = "deleted"]
               ELSE [row[f] EXCEPT !.purged = TRUE]

sweepCommits ==
  /\ sweep.at # "idle" /\ sweep.todo = {}
  /\ row' = [row EXCEPT ![sweep.file] = sweptRow(sweep.file)]
  /\ sweep' = NoSweep
  /\ unlock(Sweep)
  /\ UNCHANGED <<object, fin, backfill, zombies>>

sweepRollsBack ==
  /\ sweep.at # "idle"
  /\ haunt(sweep.file, None, sweep.todo) \/ UNCHANGED zombies
  /\ sweep' = NoSweep
  /\ unlock(Sweep)
  /\ UNCHANGED <<row, object, fin, backfill>>

-----------------------------------------------------------------------------
(* files.backfillCatalogRenditions: no lock, and no write to a row. *)

incomplete(f) == fills(f)

backfillInspects(f) ==
  /\ backfill.file = None
  /\ row[f].status = "ready" /\ incomplete(f)
  /\ backfill' = [file |-> f, bytes |-> object[f]["original"], todo |-> missing(f)]
  /\ UNCHANGED <<row, object, lock, fin, sweep, zombies>>

(* The puts are sent together and land in any order. *)
backfillPuts ==
  /\ \E k \in backfill.todo :
       /\ store(backfill.file, k, backfill.bytes)
       /\ backfill' = IF backfill.todo = {k} THEN NoBackfill
                      ELSE [backfill EXCEPT !.todo = @ \ {k}]
  /\ UNCHANGED <<row, lock, fin, sweep, zombies>>

(* When one of them fails the others are not waited for, and may land late. *)
backfillFails ==
  /\ backfill.file # None
  /\ zombies' = zombies \cup
       {[file |-> backfill.file, bytes |-> backfill.bytes, todo |-> {k}] :
           k \in backfill.todo}
  /\ backfill' = NoBackfill
  /\ UNCHANGED <<row, object, lock, fin, sweep>>

-----------------------------------------------------------------------------
client(f) == requestUpload(f) \/ putObject(f) \/ passesCutoff(f)

finalize(p) ==
  \/ \E f \in Files : readStaging(p, f) \/ finalizeReady(p, f)
  \/ lockPending(p) \/ lockRefused(p) \/ lockReady(p)
  \/ putNext(p) \/ finish(p) \/ rollBack(p)

maintain ==
  \/ \E f \in Files : sweepSelects(f) \/ backfillInspects(f)
  \/ sweepDeletes \/ sweepCommits \/ sweepRollsBack
  \/ backfillPuts \/ backfillFails

UploadNext ==
  \/ \E f \in Files : client(f)
  \/ \E p \in Finalizers : finalize(p)
  \/ maintain
  \/ \E z \in zombies : zombieCalls(z)

UploadSpec == UploadInit /\ [][UploadNext]_uploadVars

-----------------------------------------------------------------------------
(* Ready means the original and every rendition, with the declared bytes,   *)
(* however finalizers, sweeps and late puts into staging interleave.        *)
ReadyIsComplete ==
  \A f \in Files \ Legacy : row[f].status = "ready" =>
    \A k \in Served : object[f][k] = "declared"

(* Whatever is put into staging while a finalizer reads, locks or writes,   *)
(* only the declared bytes reach the keys that are served.                  *)
ServedIsDeclared ==
  \A f \in Files, k \in Served : object[f][k] \in {"declared", None}

(* Once an abandoned row is deleted, none of its objects is left: no later  *)
(* sweep would look for them.                                               *)
NothingOutlivesTheRow ==
  \A f \in Files : row[f].status = "deleted" => \A k \in Keys : object[f][k] = None

(* What is checked of uploads, the last two where no handler outlives its   *)
(* transaction (finalizeStaffUpload, runAbandonedUploadSweep).              *)
UploadSound ==
  /\ UploadTypeOK /\ ServedIsDeclared
  /\ ~Zombies => ReadyIsComplete /\ NothingOutlivesTheRow

(* An image that was ready before renditions existed gets all of them,      *)
(* whether a backfill fails between two of them or not; one that cannot be  *)
(* decoded never does (skippedUndecodable).                                 *)
LegacyIsFilled ==
  \A f \in Legacy \ Undecodable : <>[](\A k \in Derived : object[f][k] = "declared")

(* An upload does not stay pending for ever, and the staging object of a    *)
(* ready one is looked at once: every row ends deleted or ready and purged. *)
RowsSettle ==
  \A f \in Files : row[f].status = "pending" ~>
                     row[f].status = "deleted" \/ row[f].purged
=============================================================================
