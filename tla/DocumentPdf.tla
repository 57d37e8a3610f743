----------------------------- MODULE DocumentPdf -----------------------------
(***************************************************************************)
(* The PDF of one document: docGeneration.renderPdf under the delivery of  *)
(* documents.created, the worker's bookkeeping of exhausted deliveries and *)
(* docGeneration.markFailed.                                               *)
(*                                                                         *)
(* All attempts put their rendering under the same object key, outside the *)
(* transaction that records it; each rendering carries its own date, so no *)
(* two have the same bytes.  The pending job is inserted in the            *)
(* transaction that ends ready, failed or rolled back, so it is never      *)
(* seen.  The delivery protocol itself is Outbox's; here it is one row.    *)
(***************************************************************************)
EXTENDS Integers, FiniteSets

CONSTANTS
  Workers,
  MaxAttempts,    \* DELIVERY_MAX_ATTEMPTS
  MaxClaims,      \* bound: claims of the delivery between two replays
  MaxRenders,     \* bound: renderings
  MaxReplays,     \* bound: operator replays of the dead delivery
  Failures,       \* how an attempt can fail: "retryable", "timeout",
                  \* "early" (before or outside the renderer's try block),
                  \* "bookkeeping" (markFailed itself)
  Crashes,        \* can a worker process die
  None

PdfAssumption ==
  /\ MaxAttempts \in Nat \ {0} /\ MaxClaims \in Nat /\ MaxRenders \in Nat
  /\ MaxReplays \in Nat /\ Crashes \in BOOLEAN /\ None \notin Workers
  /\ Failures \subseteq {"retryable", "timeout", "early", "bookkeeping"}

VARIABLES
  delivery,   \* event_deliveries: status, attempts, claimedBy
  job,        \* document_generation_jobs: status
  file,       \* files: the checksum of the recorded PDF
  object,     \* the object {companyId}/documents/{fileId}
  scopes,     \* the processes that remember the invocation's scope
  att,        \* the attempt of a worker
  zombies,    \* renderings of handlers whose transaction is gone
  renders, replays,
  exhausted   \* history: has the delivery been dead

vars == <<delivery, job, file, object, scopes, att, zombies, renders, replays, exhausted>>
countVars == <<renders, replays>>

Versions == 1..MaxRenders
NoAttempt == [at |-> "idle", version |-> None, found |-> None, error |-> None]
InTransaction == {"rendering", "putting", "recording"}

TypeOK ==
  /\ delivery \in [status : {"pending", "processing", "processed", "dead"},
                   attempts : 0..MaxClaims, owner : Workers \cup {None}]
  /\ job \in {"absent", "ready", "failed"}
  /\ file \in Versions \cup {None} /\ object \in Versions \cup {None}
  /\ scopes \subseteq Workers
  /\ att \in [Workers -> [at : {"idle", "claimed", "failed", "finalizing"} \cup InTransaction,
                          version : Versions \cup {None},
                          found : {"absent", "failed", None},
                          error : {"retryable", "timeout", "other", None}]]
  /\ zombies \subseteq Versions
  /\ renders \in 0..MaxRenders /\ replays \in 0..MaxReplays
  /\ exhausted \in BOOLEAN

Init ==
  /\ delivery = [status |-> "pending", attempts |-> 0, owner |-> None]
  /\ job = "absent" /\ file = None /\ object = None
  /\ scopes = {} /\ att = [w \in Workers |-> NoAttempt]
  /\ zombies = {} /\ renders = 0 /\ replays = 0 /\ exhausted = FALSE

-----------------------------------------------------------------------------
(* The claim commits by itself.  A processing row can be taken over once    *)
(* its lease has expired, unless its transaction still holds the row.       *)

claimable ==
  \/ delivery.status = "pending"
  \/ /\ delivery.status = "processing"
     /\ \A w \in Workers : att[w].at \notin InTransaction

claim(w) ==
  /\ att[w].at = "idle" /\ claimable /\ delivery.attempts < MaxClaims
  /\ delivery' = [status |-> "processing", attempts |-> delivery.attempts + 1, owner |-> w]
  /\ att' = [att EXCEPT ![w] = [NoAttempt EXCEPT !.at = "claimed"]]
  /\ UNCHANGED <<job, file, object, scopes, zombies, countVars, exhausted>>

(* A claim that throws answers failed with retryAt null, like a dead one. *)
claimThrows(w) ==
  /\ att[w].at = "idle" /\ claimable
  /\ att' = [att EXCEPT ![w] = [NoAttempt EXCEPT !.at = "finalizing", !.error = "other"]]
  /\ UNCHANGED <<delivery, job, file, object, scopes, zombies, countVars, exhausted>>

-----------------------------------------------------------------------------
(* renderTenantDocumentPdf. *)

owns(w) == delivery.status = "processing" /\ delivery.owner = w

(* The lease was taken over: the delivery is another worker's. *)
deferred(w) ==
  /\ att[w].at = "claimed" /\ ~owns(w)
  /\ att' = [att EXCEPT ![w] = NoAttempt]
  /\ UNCHANGED <<delivery, job, file, object, scopes, zombies, countVars, exhausted>>

(* getForGeneration proved the document: its scope is remembered.  The      *)
(* early return for a ready job is never taken here: ready and processed    *)
(* are committed together.                                                  *)
getForGeneration(w) ==
  /\ att[w].at = "claimed" /\ owns(w) /\ job # "ready"
  /\ renders < MaxRenders
  /\ renders' = renders + 1
  /\ scopes' = scopes \cup {w}
  /\ att' = [att EXCEPT ![w] = [at |-> "rendering", version |-> renders + 1,
                                found |-> job, error |-> None]]
  /\ UNCHANGED <<delivery, job, file, object, zombies, replays, exhausted>>

rendered(w) ==
  /\ att[w].at = "rendering"
  /\ att' = [att EXCEPT ![w].at = "putting"]
  /\ UNCHANGED <<delivery, job, file, object, scopes, zombies, countVars, exhausted>>

(* The handler found no job and another transaction has inserted one since: *)
(* the unique violation ends the transaction.                               *)
insertLost(w) == att[w].found = "absent" /\ job # "absent"

(* A terminal failure persists failed and acknowledges the delivery. *)
markJobFailed(w) ==
  /\ att[w].at = "rendering" /\ ~insertLost(w)
  /\ job' = "failed"
  /\ delivery' = [delivery EXCEPT !.status = "processed", !.owner = None]
  /\ att' = [att EXCEPT ![w] = NoAttempt]
  /\ UNCHANGED <<file, object, scopes, zombies, countVars, exhausted>>

putGeneratedPdf(w) ==
  /\ att[w].at = "putting"
  /\ object' = att[w].version
  /\ att' = [att EXCEPT ![w].at = "recording"]
  /\ UNCHANGED <<delivery, job, file, scopes, zombies, countVars, exhausted>>

(* recordGeneratedObject reads the object back and compares its checksum. *)
recordable(w) == file = None /\ object = att[w].version

markJobReady(w) ==
  /\ att[w].at = "recording" /\ recordable(w) /\ ~insertLost(w)
  /\ file' = att[w].version
  /\ job' = "ready"
  /\ delivery' = [delivery EXCEPT !.status = "processed", !.owner = None]
  /\ scopes' = scopes \ {w}
  /\ att' = [att EXCEPT ![w] = NoAttempt]
  /\ UNCHANGED <<object, zombies, countVars, exhausted>>

-----------------------------------------------------------------------------
(* The ways an attempt fails; the transaction is rolled back. *)

failWith(w, error) == att' = [att EXCEPT ![w].at = "failed", ![w].error = error]

retryableFailure(w) ==
  /\ att[w].at \in InTransaction
  /\ \/ "retryable" \in Failures
     \/ att[w].at = "recording" /\ (~recordable(w) \/ insertLost(w))
  /\ failWith(w, "retryable")
  /\ UNCHANGED <<delivery, job, file, object, scopes, zombies, countVars, exhausted>>

(* Mutation: the catch of a handler that timed out forgets the scope. *)
scopesAfterTimeoutNone(w) == scopes \ {w}

scopesAfterTimeout(w) == scopes

(* The deadline: the handler goes on without its transaction, and what it   *)
(* rendered is still put.                                                   *)
timeoutFailure(w) ==
  /\ "timeout" \in Failures
  /\ att[w].at \in InTransaction
  /\ zombies' = IF att[w].at = "recording" THEN zombies ELSE zombies \cup {att[w].version}
  /\ scopes' = scopesAfterTimeout(w)
  /\ failWith(w, "timeout")
  /\ UNCHANGED <<delivery, job, file, object, countVars, exhausted>>

(* Before the try block, or after the handler: the first query, the         *)
(* principal, the audit row, the commit.                                    *)
earlyFailure(w) ==
  /\ "early" \in Failures
  /\ att[w].at \in {"claimed", "recording"} /\ owns(w)
  /\ \E error \in {"timeout", "other"} : failWith(w, error)
  /\ UNCHANGED <<delivery, job, file, object, scopes, zombies, countVars, exhausted>>

zombiePuts(v) ==
  /\ v \in zombies /\ zombies' = zombies \ {v}
  /\ object' = v
  /\ UNCHANGED <<delivery, job, file, scopes, att, countVars, exhausted>>

zombieEnds(v) ==
  /\ v \in zombies /\ zombies' = zombies \ {v}
  /\ UNCHANGED <<delivery, job, file, object, scopes, att, countVars, exhausted>>

recordDeliveryFailure(w) ==
  /\ att[w].at = "failed" /\ owns(w)
  /\ IF delivery.attempts >= MaxAttempts
       THEN /\ delivery' = [delivery EXCEPT !.status = "dead", !.owner = None]
            /\ att' = [att EXCEPT ![w].at = "finalizing"]
            /\ exhausted' = TRUE
       ELSE /\ delivery' = [delivery EXCEPT !.status = "pending", !.owner = None]
            /\ att' = [att EXCEPT ![w] = NoAttempt]
            /\ UNCHANGED exhausted
  /\ UNCHANGED <<job, file, object, scopes, zombies, countVars>>

failureOfAnother(w) ==
  /\ att[w].at = "failed" /\ ~owns(w)
  /\ att' = [att EXCEPT ![w] = NoAttempt]
  /\ UNCHANGED <<delivery, job, file, object, scopes, zombies, countVars, exhausted>>

-----------------------------------------------------------------------------
(* maybeFinalizeDeadPdfGeneration. *)

(* Mutation: a remembered scope is enough. *)
resolveExhaustedPdfScopeAny(w) == att[w].error = "retryable" \/ w \in scopes

resolveExhaustedPdfScope(w) ==
  \/ att[w].error = "retryable"
  \/ att[w].error = "timeout" /\ w \in scopes

(* Mutation: failed is written over whatever the job says. *)
jobMarkedFailedBlind == "failed"

(* An existing job keeps its status; without one, failed is inserted. *)
jobMarkedFailed == IF job = "absent" THEN "failed" ELSE job

markFailed(w) ==
  /\ att[w].at = "finalizing" /\ resolveExhaustedPdfScope(w)
  /\ job' = jobMarkedFailed
  /\ scopes' = scopes \ {w}
  /\ att' = [att EXCEPT ![w] = NoAttempt]
  /\ UNCHANGED <<delivery, file, object, zombies, countVars, exhausted>>

(* Without a scope, or when markFailed fails, only a log line is left. *)
notFinalized(w) ==
  /\ att[w].at = "finalizing"
  /\ ~resolveExhaustedPdfScope(w) \/ "bookkeeping" \in Failures
  /\ att' = [att EXCEPT ![w] = NoAttempt]
  /\ UNCHANGED <<delivery, job, file, object, scopes, zombies, countVars, exhausted>>

replayDeadDeliveries ==
  /\ delivery.status = "dead" /\ replays < MaxReplays
  /\ replays' = replays + 1
  /\ delivery' = [status |-> "pending", attempts |-> 0, owner |-> None]
  /\ UNCHANGED <<job, file, object, scopes, att, zombies, renders, exhausted>>

(* The process dies with its memory; a put under way may still land. *)
crash(w) ==
  /\ Crashes /\ att[w].at # "idle"
  /\ zombies' = IF att[w].at = "putting" THEN zombies \cup {att[w].version} ELSE zombies
  /\ scopes' = scopes \ {w}
  /\ att' = [att EXCEPT ![w] = NoAttempt]
  /\ UNCHANGED <<delivery, job, file, object, countVars, exhausted>>

-----------------------------------------------------------------------------
deliver(w) ==
  \/ claim(w) \/ claimThrows(w) \/ deferred(w)
  \/ getForGeneration(w) \/ rendered(w) \/ markJobFailed(w)
  \/ putGeneratedPdf(w) \/ markJobReady(w)
  \/ retryableFailure(w) \/ timeoutFailure(w) \/ earlyFailure(w)
  \/ recordDeliveryFailure(w) \/ failureOfAnother(w)
  \/ markFailed(w) \/ notFinalized(w)

Next ==
  \/ \E w \in Workers : deliver(w) \/ crash(w)
  \/ \E v \in zombies : zombiePuts(v) \/ zombieEnds(v)
  \/ replayDeadDeliveries

Spec == Init /\ [][Next]_vars

-----------------------------------------------------------------------------
(* A ready document stays ready and keeps its file, whatever a late         *)
(* bookkeeping of an exhausted delivery, a replay or a takeover does.       *)
ReadyIsFinal ==
  [][job = "ready" => job' = "ready" /\ file' = file]_vars

(* A document is failed only after its delivery was exhausted or its        *)
(* renderer gave up for good: neither a claim that throws, which answers    *)
(* with the same null retryAt, nor a scope left over from an earlier        *)
(* attempt marks a document whose delivery will still be retried.           *)
FailedIsExhausted ==
  job = "failed" => exhausted \/ delivery.status = "processed"

(* Exhausted retries are finalized: when the delivery is dead and no worker *)
(* is at work on it, the document is failed or ready, not left pending.     *)
ExhaustedIsFinalized ==
  delivery.status = "dead" /\ (\A w \in Workers : att[w].at = "idle") => job # "absent"

(* Attempts fail inside the renderer or by timeout, and processes live.     *)
FailsInScope == ~Crashes /\ Failures \subseteq {"retryable", "timeout"}

(* What holds of a document's PDF at every moment.                          *)
PdfSound ==
  /\ TypeOK /\ FailedIsExhausted
  /\ FailsInScope => ExhaustedIsFinalized

=============================================================================
