-------------------------- MODULE ProcessesProofs --------------------------
(***************************************************************************)
(* What single processes promise: of the PDF of a document, that a ready   *)
(* one is final and that failed means exhausted (DocumentPdf); of the tick *)
(* loop and its LISTEN connection, that no wake-up is lost, no delivery    *)
(* executes outside the tick and no connection is left open or dead        *)
(* (WorkerLoop); of the pool of Sho workers, that open calls are held and  *)
(* no thread is left behind (ShoPool).  The three share no state; each     *)
(* part has its own inductive invariant, PInv, LInv and NInv.              *)
(***************************************************************************)
EXTENDS DocumentPdf, WorkerLoop, ShoPool, WellFoundedInduction, TLAPS

-----------------------------------------------------------------------------
(* The PDF of a document.                                                  *)

(* The inductive invariant.                                                *)

(* One transaction at a time renders, its worker owns the delivery, and    *)
(* the job is not ready yet.                                               *)
RendersAlone ==
  \A w \in Workers : att[w].at \in InTransaction =>
    owns(w) /\ job # "ready" /\ att[w].version \in Versions

(* A worker finalizes after the delivery was exhausted, or else after a    *)
(* claim that threw, whose error names no scope.                           *)
FinalizesExhausted ==
  \A w \in Workers : att[w].at = "finalizing" => exhausted \/ att[w].error = "other"

(* When attempts fail in scope, one that has failed can name it.           *)
ScopeKept ==
  FailsInScope =>
    \A w \in Workers :
      /\ att[w].at \in InTransaction => w \in scopes
      /\ att[w].at = "failed" => resolveExhaustedPdfScope(w)

(* Then a dead delivery leaves a job, or somebody who will write one.      *)
DeadIsFinalized ==
  FailsInScope /\ delivery.status = "dead" /\ job = "absent" =>
    \E w \in Workers : att[w].at = "finalizing" /\ resolveExhaustedPdfScope(w)

PInv ==
  /\ TypeOK /\ RendersAlone /\ FinalizesExhausted /\ ScopeKept /\ DeadIsFinalized
  /\ FailedIsExhausted

-----------------------------------------------------------------------------
Attempts == [at : {"idle", "claimed", "failed", "finalizing"} \cup InTransaction,
             version : Versions \cup {None},
             found : {"absent", "failed", None},
             error : {"retryable", "timeout", "other", None}]

LEMMA InitPInv == PdfAssumption /\ Init => PInv
<1> SUFFICES ASSUME PdfAssumption, Init PROVE PInv
  OBVIOUS
<1>1. TypeOK
  <2>1. NoAttempt \in Attempts
    BY DEF NoAttempt, Attempts
  <2>2. att \in [Workers -> Attempts]
    BY <2>1 DEF Init
  <2>3. /\ 0 \in 0..MaxClaims /\ 0 \in 0..MaxRenders /\ 0 \in 0..MaxReplays
    BY DEF PdfAssumption
  <2>4. delivery \in [status : {"pending", "processing", "processed", "dead"},
                      attempts : 0..MaxClaims, owner : Workers \cup {None}]
    BY <2>3 DEF Init
  <2> QED BY <2>2, <2>3, <2>4 DEF Init, TypeOK, Attempts
<1>2. \A w \in Workers : att[w].at = "idle"
  BY DEF Init, NoAttempt
<1> QED BY <1>1, <1>2
        DEF Init, PInv, RendersAlone, FinalizesExhausted, ScopeKept, DeadIsFinalized,
            FailedIsExhausted, InTransaction

(* Types.                                                                  *)
LEMMA StepTypes ==
  ASSUME PdfAssumption, PInv, NEW w \in Workers, deliver(w) \/ crash(w)
  PROVE  TypeOK'
<1> USE DEF PInv
<1>0. /\ NoAttempt \in Attempts /\ None \notin Workers
      /\ MaxClaims \in Nat /\ MaxRenders \in Nat
      /\ att \in [Workers -> Attempts] /\ att[w] \in Attempts
  BY DEF NoAttempt, Attempts, PdfAssumption, TypeOK
<1>1. ASSUME NEW a \in Attempts, att' = [att EXCEPT ![w] = a]
      PROVE  att' \in [Workers -> Attempts]
  BY <1>0, <1>1
<1>2. ASSUME att' \in [Workers -> Attempts],
             UNCHANGED <<delivery, job, file, object, countVars, exhausted>>,
             scopes' \subseteq Workers, zombies' \subseteq Versions
      PROVE  TypeOK'
  BY <1>2 DEF TypeOK, Attempts, countVars
<1>3. ASSUME att' = [att EXCEPT ![w] = NoAttempt] PROVE att' \in [Workers -> Attempts]
  BY <1>0, <1>1, <1>3
<1>4. CASE claim(w)
  <2>1. [NoAttempt EXCEPT !.at = "claimed"] \in Attempts
    BY DEF NoAttempt, Attempts
  <2>2. att' \in [Workers -> Attempts]
    BY <1>1, <1>4, <2>1 DEF claim
  <2>3. delivery' \in [status : {"pending", "processing", "processed", "dead"},
                       attempts : 0..MaxClaims, owner : Workers \cup {None}]
    BY <1>0, <1>4 DEF claim, TypeOK
  <2> QED BY <1>4, <2>2, <2>3 DEF claim, TypeOK, Attempts, countVars
<1>5. CASE claimThrows(w)
  <2>1. [NoAttempt EXCEPT !.at = "finalizing", !.error = "other"] \in Attempts
    BY DEF NoAttempt, Attempts
  <2>2. att' \in [Workers -> Attempts]
    BY <1>1, <1>5, <2>1 DEF claimThrows
  <2> QED BY <1>2, <1>5, <2>2 DEF claimThrows, TypeOK
<1>6. CASE deferred(w) \/ failureOfAnother(w) \/ notFinalized(w)
  BY <1>2, <1>3, <1>6 DEF deferred, failureOfAnother, notFinalized, TypeOK
<1>7. CASE getForGeneration(w)
  <2>0. renders \in Nat /\ renders + 1 \in Versions /\ job \in {"absent", "failed"}
    BY <1>0, <1>7 DEF getForGeneration, TypeOK, Versions
  <2>1. [at |-> "rendering", version |-> renders + 1, found |-> job, error |-> None]
           \in Attempts
    BY <2>0 DEF Attempts, InTransaction
  <2>2. att' \in [Workers -> Attempts]
    BY <1>1, <1>7, <2>1 DEF getForGeneration
  <2>3. renders' \in 0..MaxRenders /\ scopes' \subseteq Workers
    BY <1>0, <1>7 DEF getForGeneration, TypeOK
  <2> QED BY <1>7, <2>2, <2>3 DEF getForGeneration, TypeOK, Attempts
<1>8. CASE rendered(w)
  <2>1. att' \in [Workers -> Attempts]
    BY <1>0, <1>8 DEF rendered, Attempts, InTransaction
  <2> QED BY <1>2, <1>8, <2>1 DEF rendered, TypeOK
<1>9. CASE markJobFailed(w)
  <2>1. att' \in [Workers -> Attempts]
    BY <1>3, <1>9 DEF markJobFailed
  <2> QED BY <1>9, <2>1 DEF markJobFailed, TypeOK, Attempts, countVars
<1>10. CASE putGeneratedPdf(w)
  <2>1. att' \in [Workers -> Attempts]
    BY <1>0, <1>10 DEF putGeneratedPdf, Attempts, InTransaction
  <2>2. object' \in Versions
    BY <1>10 DEF putGeneratedPdf, RendersAlone, InTransaction
  <2> QED BY <1>10, <2>1, <2>2 DEF putGeneratedPdf, TypeOK, Attempts, countVars
<1>11. CASE markJobReady(w)
  <2>1. att' \in [Workers -> Attempts]
    BY <1>3, <1>11 DEF markJobReady
  <2>2. file' \in Versions
    BY <1>11 DEF markJobReady, RendersAlone, InTransaction
  <2> QED BY <1>11, <2>1, <2>2 DEF markJobReady, TypeOK, Attempts, countVars
<1>12. ASSUME NEW error \in {"retryable", "timeout", "other"}, failWith(w, error)
       PROVE  att' \in [Workers -> Attempts]
  <2>1. [att[w] EXCEPT !.at = "failed", !.error = error] \in Attempts
    BY <1>0 DEF Attempts
  <2>2. att' = [att EXCEPT ![w] = [att[w] EXCEPT !.at = "failed", !.error = error]]
    BY <1>0, <1>12 DEF failWith
  <2> QED BY <1>1, <2>1, <2>2
<1>13. CASE retryableFailure(w) \/ earlyFailure(w)
  <2>1. att' \in [Workers -> Attempts]
    BY <1>12, <1>13 DEF retryableFailure, earlyFailure
  <2> QED BY <1>2, <1>13, <2>1 DEF retryableFailure, earlyFailure, TypeOK
<1>14. CASE timeoutFailure(w)
  <2>1. att' \in [Workers -> Attempts]
    BY <1>12, <1>14 DEF timeoutFailure
  <2>2. zombies' \subseteq Versions /\ scopes' \subseteq Workers
    BY <1>14 DEF timeoutFailure, scopesAfterTimeout, TypeOK, RendersAlone
  <2> QED BY <1>2, <1>14, <2>1, <2>2 DEF timeoutFailure
<1>15. CASE recordDeliveryFailure(w)
  <2>1. att' \in [Workers -> Attempts]
    BY <1>0, <1>3, <1>15 DEF recordDeliveryFailure, Attempts
  <2>2. delivery' \in [status : {"pending", "processing", "processed", "dead"},
                       attempts : 0..MaxClaims, owner : Workers \cup {None}]
    BY <1>15 DEF recordDeliveryFailure, TypeOK
  <2> QED BY <1>15, <2>1, <2>2 DEF recordDeliveryFailure, TypeOK, Attempts, countVars
<1>16. CASE markFailed(w)
  <2>1. att' \in [Workers -> Attempts]
    BY <1>3, <1>16 DEF markFailed
  <2> QED BY <1>16, <2>1 DEF markFailed, jobMarkedFailed, TypeOK, Attempts, countVars
<1>17. CASE crash(w)
  <2>1. att' \in [Workers -> Attempts]
    BY <1>3, <1>17 DEF crash
  <2>2. zombies' \subseteq Versions /\ scopes' \subseteq Workers
    BY <1>17 DEF crash, TypeOK, RendersAlone, InTransaction
  <2> QED BY <1>2, <1>17, <2>1, <2>2 DEF crash
<1> QED BY <1>4, <1>5, <1>6, <1>7, <1>8, <1>9, <1>10, <1>11, <1>13, <1>14, <1>15,
           <1>16, <1>17 DEF deliver

LEMMA OtherTypes ==
  ASSUME TypeOK,
         replayDeadDeliveries \/ (\E v \in zombies : zombiePuts(v) \/ zombieEnds(v)),
         PdfAssumption
  PROVE  TypeOK'
<1>1. CASE replayDeadDeliveries
  BY <1>1 DEF replayDeadDeliveries, TypeOK, PdfAssumption
<1>2. ASSUME NEW v \in zombies, zombiePuts(v) \/ zombieEnds(v) PROVE TypeOK'
  BY <1>2 DEF zombiePuts, zombieEnds, TypeOK, countVars
<1> QED BY <1>1, <1>2

-----------------------------------------------------------------------------
(* The worker in a transaction is the only one there.                      *)
LEMMA OneRenders ==
  ASSUME PInv, NEW w \in Workers, owns(w)
  PROVE  \A u \in Workers : u # w => att[u].at \notin InTransaction
BY DEF PInv, RendersAlone, owns

(* A worker's step that leaves the delivery and the job alone, goes into   *)
(* no transaction and loses no scope of another worker.                    *)
LEMMA QuietKeepsPInv ==
  ASSUME PInv, TypeOK', NEW w \in Workers,
         \A u \in Workers : u # w => att'[u] = att[u],
         UNCHANGED <<delivery, job, exhausted>>,
         \A u \in Workers : u # w => (u \in scopes' <=> u \in scopes),
         \/ att'[w].at \notin InTransaction
         \/ att[w].at \in InTransaction /\ att'[w].version = att[w].version,
         att'[w].at = "finalizing" => att'[w].error = "other",
         FailsInScope => /\ att'[w].at \in InTransaction => w \in scopes'
                         /\ att'[w].at = "failed" => resolveExhaustedPdfScope(w)'
                         /\ (att[w].at = "finalizing" /\ delivery.status = "dead")
                              => ~resolveExhaustedPdfScope(w)
  PROVE  PInv'
<1> USE DEF PInv
<1>1. RendersAlone'
  BY DEF RendersAlone, owns
<1>2. FinalizesExhausted' /\ FailedIsExhausted'
  BY DEF FinalizesExhausted, FailedIsExhausted
<1>3. ScopeKept'
  BY DEF ScopeKept, resolveExhaustedPdfScope, FailsInScope
<1>4. DeadIsFinalized'
  <2> SUFFICES ASSUME FailsInScope, delivery.status = "dead", job = "absent"
               PROVE  \E u \in Workers : att'[u].at = "finalizing" /\ resolveExhaustedPdfScope(u)'
    BY DEF DeadIsFinalized, FailsInScope
  <2>1. PICK u \in Workers : att[u].at = "finalizing" /\ resolveExhaustedPdfScope(u)
    BY DEF DeadIsFinalized
  <2>2. u # w
    BY <2>1
  <2> QED BY <2>1, <2>2 DEF resolveExhaustedPdfScope
<1> QED BY <1>1, <1>2, <1>3, <1>4

(* Claims, refusals and failures of attempts are such steps.               *)
LEMMA AttemptsKeepPInv ==
  ASSUME PdfAssumption, PInv, TypeOK', NEW w \in Workers,
         \/ claimThrows(w) \/ deferred(w) \/ rendered(w) \/ putGeneratedPdf(w)
         \/ retryableFailure(w) \/ timeoutFailure(w) \/ earlyFailure(w)
         \/ failureOfAnother(w) \/ notFinalized(w) \/ crash(w)
  PROVE  PInv'
<1> USE DEF PInv
<1>1. /\ \A u \in Workers : u # w => att'[u] = att[u]
      /\ UNCHANGED <<delivery, job, exhausted>>
      /\ \A u \in Workers : u # w => (u \in scopes' <=> u \in scopes)
  BY DEF claimThrows, deferred, rendered, putGeneratedPdf, retryableFailure,
         timeoutFailure, scopesAfterTimeout, earlyFailure, failureOfAnother,
         notFinalized, crash, failWith, TypeOK
<1>2. CASE claimThrows(w)
  <2>1. att[w].at = "idle" /\ att'[w].at = "finalizing" /\ att'[w].error = "other"
    BY <1>2 DEF claimThrows, NoAttempt, TypeOK
  <2> QED BY <1>1, <2>1, QuietKeepsPInv DEF InTransaction
<1>3. CASE deferred(w) \/ failureOfAnother(w)
  <2>1. att[w].at \in {"claimed", "failed"} /\ att'[w].at = "idle"
    BY <1>3 DEF deferred, failureOfAnother, NoAttempt, TypeOK
  <2> QED BY <1>1, <2>1, QuietKeepsPInv DEF InTransaction
<1>4. CASE rendered(w) \/ putGeneratedPdf(w)
  <2>1. /\ att[w].at \in InTransaction /\ att'[w].at \in InTransaction
        /\ att'[w].version = att[w].version /\ UNCHANGED scopes
    BY <1>4 DEF rendered, putGeneratedPdf, InTransaction, TypeOK
  <2>2. FailsInScope => w \in scopes'
    BY <2>1 DEF ScopeKept
  <2> QED BY <1>1, <2>1, <2>2, QuietKeepsPInv DEF InTransaction
<1>5. CASE retryableFailure(w)
  <2>1. /\ att[w].at \in InTransaction
        /\ att'[w].at = "failed" /\ att'[w].error = "retryable"
    BY <1>5 DEF retryableFailure, failWith, TypeOK
  <2> QED BY <1>1, <2>1, QuietKeepsPInv DEF InTransaction, resolveExhaustedPdfScope
<1>6. CASE timeoutFailure(w)
  <2>1. /\ att[w].at \in InTransaction /\ UNCHANGED scopes
        /\ att'[w].at = "failed" /\ att'[w].error = "timeout"
    BY <1>6 DEF timeoutFailure, scopesAfterTimeout, failWith, TypeOK
  <2>2. FailsInScope => w \in scopes'
    BY <2>1 DEF ScopeKept
  <2> QED BY <1>1, <2>1, <2>2, QuietKeepsPInv DEF InTransaction, resolveExhaustedPdfScope
<1>7. CASE earlyFailure(w)
  <2>1. att[w].at \in {"claimed", "recording"} /\ att'[w].at = "failed" /\ ~FailsInScope
    BY <1>7 DEF earlyFailure, failWith, FailsInScope, TypeOK
  <2> QED BY <1>1, <2>1, QuietKeepsPInv DEF InTransaction
<1>8. CASE notFinalized(w)
  <2>1. /\ att[w].at = "finalizing" /\ att'[w].at = "idle"
        /\ FailsInScope => ~resolveExhaustedPdfScope(w)
    BY <1>8 DEF notFinalized, NoAttempt, FailsInScope, TypeOK
  <2> QED BY <1>1, <2>1, QuietKeepsPInv DEF InTransaction
<1>9. CASE crash(w)
  <2>1. att'[w].at = "idle" /\ ~FailsInScope
    BY <1>9 DEF crash, NoAttempt, FailsInScope, TypeOK
  <2> QED BY <1>1, <2>1, QuietKeepsPInv DEF InTransaction
<1> QED BY <1>2, <1>3, <1>4, <1>5, <1>6, <1>7, <1>8, <1>9

LEMMA ClaimKeepsPInv ==
  ASSUME PInv, TypeOK', NEW w \in Workers, claim(w)
  PROVE  PInv'
<1> USE DEF PInv
<1>1. /\ att[w].at = "idle" /\ att'[w].at = "claimed"
      /\ \A u \in Workers : u # w => att'[u] = att[u]
      /\ delivery'.status = "processing" /\ UNCHANGED <<job, scopes, exhausted>>
  BY DEF claim, NoAttempt, TypeOK
<1>2. \A u \in Workers : att[u].at \notin InTransaction
  BY DEF claim, claimable, RendersAlone, owns
<1>3. RendersAlone' /\ FinalizesExhausted' /\ DeadIsFinalized'
  BY <1>1, <1>2 DEF RendersAlone, FinalizesExhausted, DeadIsFinalized, InTransaction
<1>4. ScopeKept'
  BY <1>1 DEF ScopeKept, resolveExhaustedPdfScope, InTransaction, FailsInScope
<1>5. FailedIsExhausted'
  BY <1>1 DEF FailedIsExhausted, claim, claimable
<1> QED BY <1>3, <1>4, <1>5

LEMMA RenderKeepsPInv ==
  ASSUME PdfAssumption, PInv, TypeOK', NEW w \in Workers, getForGeneration(w)
  PROVE  PInv'
<1> USE DEF PInv
<1>1. /\ owns(w) /\ job # "ready" /\ att'[w].at = "rendering"
      /\ att'[w].version = renders + 1 /\ w \in scopes' /\ scopes \subseteq scopes'
      /\ att[w].at = "claimed"
      /\ \A u \in Workers : u # w => att'[u] = att[u]
      /\ \A u \in Workers : u # w => (u \in scopes' <=> u \in scopes)
      /\ UNCHANGED <<delivery, job, exhausted>>
  BY DEF getForGeneration, TypeOK
<1>2. renders + 1 \in Versions
  BY DEF getForGeneration, TypeOK, Versions, PdfAssumption
<1>3. RendersAlone' /\ FinalizesExhausted' /\ FailedIsExhausted'
  BY <1>1, <1>2 DEF RendersAlone, FinalizesExhausted, FailedIsExhausted, owns
<1>4. ScopeKept'
  BY <1>1 DEF ScopeKept, resolveExhaustedPdfScope, InTransaction, FailsInScope
<1>5. DeadIsFinalized'
  BY <1>1 DEF DeadIsFinalized, owns
<1> QED BY <1>3, <1>4, <1>5

(* The transaction commits: the delivery is processed, for good.           *)
LEMMA CommitKeepsPInv ==
  ASSUME PInv, TypeOK', NEW w \in Workers, markJobFailed(w) \/ markJobReady(w)
  PROVE  PInv'
<1> USE DEF PInv
<1>1. /\ att[w].at \in InTransaction /\ att'[w].at = "idle"
      /\ \A u \in Workers : u # w => att'[u] = att[u]
      /\ \A u \in Workers : u # w => (u \in scopes' <=> u \in scopes)
      /\ delivery'.status = "processed" /\ job' # "absent" /\ UNCHANGED exhausted
  <2>1. /\ att' = [att EXCEPT ![w] = NoAttempt]
        /\ delivery' = [delivery EXCEPT !.status = "processed", !.owner = None]
        /\ att[w].at \in InTransaction /\ job' # "absent" /\ UNCHANGED exhausted
        /\ scopes' = scopes \/ scopes' = scopes \ {w}
    BY DEF markJobFailed, markJobReady, InTransaction
  <2>2. att'[w].at = "idle" /\ \A u \in Workers : u # w => att'[u] = att[u]
    BY <2>1 DEF NoAttempt, TypeOK
  <2>3. delivery'.status = "processed"
    BY <2>1 DEF TypeOK
  <2>4. \A u \in Workers : u # w => (u \in scopes' <=> u \in scopes)
    BY <2>1
  <2> QED BY <2>1, <2>2, <2>3, <2>4
<1>2. \A u \in Workers : att'[u].at \notin InTransaction
  BY <1>1, OneRenders DEF RendersAlone, InTransaction
<1>3. RendersAlone' /\ FinalizesExhausted' /\ FailedIsExhausted' /\ DeadIsFinalized'
  BY <1>1, <1>2 DEF RendersAlone, FinalizesExhausted, FailedIsExhausted, DeadIsFinalized
<1>4. ScopeKept'
  BY <1>1, <1>2 DEF ScopeKept, resolveExhaustedPdfScope, FailsInScope
<1> QED BY <1>3, <1>4

LEMMA FailureKeepsPInv ==
  ASSUME PInv, TypeOK', NEW w \in Workers, recordDeliveryFailure(w)
  PROVE  PInv'
<1> USE DEF PInv
<1>1. /\ att[w].at = "failed" /\ owns(w)
      /\ \A u \in Workers : u # w => att'[u] = att[u]
      /\ UNCHANGED <<job, scopes>>
  BY DEF recordDeliveryFailure, TypeOK
<1>2. \A u \in Workers : att[u].at \notin InTransaction
  BY <1>1, OneRenders DEF InTransaction
<1>3. FailsInScope => resolveExhaustedPdfScope(w)
  BY <1>1 DEF ScopeKept
<1>4. \/ /\ delivery'.status = "dead" /\ exhausted'
         /\ att'[w].at = "finalizing" /\ att'[w].error = att[w].error
      \/ /\ delivery'.status = "pending" /\ exhausted' = exhausted
         /\ att'[w].at = "idle"
  <2>1. CASE delivery.attempts >= MaxAttempts
    <3>1. /\ delivery' = [delivery EXCEPT !.status = "dead", !.owner = None]
          /\ att' = [att EXCEPT ![w].at = "finalizing"] /\ exhausted'
      BY <2>1 DEF recordDeliveryFailure
    <3>2. delivery'.status = "dead"
      BY <3>1 DEF TypeOK
    <3>3. att'[w].at = "finalizing" /\ att'[w].error = att[w].error
      BY <3>1 DEF TypeOK
    <3> QED BY <3>1, <3>2, <3>3
  <2>2. CASE ~(delivery.attempts >= MaxAttempts)
    <3>1. /\ delivery' = [delivery EXCEPT !.status = "pending", !.owner = None]
          /\ att' = [att EXCEPT ![w] = NoAttempt] /\ exhausted' = exhausted
      BY <2>2 DEF recordDeliveryFailure
    <3>2. delivery'.status = "pending"
      BY <3>1 DEF TypeOK
    <3>3. att'[w].at = "idle"
      BY <3>1 DEF TypeOK, NoAttempt
    <3> QED BY <3>1, <3>2, <3>3
  <2> QED BY <2>1, <2>2
<1>5. RendersAlone' /\ FinalizesExhausted'
  BY <1>1, <1>2, <1>4 DEF RendersAlone, FinalizesExhausted, InTransaction
<1>6. FailedIsExhausted'
  BY <1>1, <1>4 DEF FailedIsExhausted, owns
<1>7. ScopeKept'
  BY <1>1, <1>2, <1>4 DEF ScopeKept, resolveExhaustedPdfScope, InTransaction, FailsInScope
<1>8. DeadIsFinalized'
  BY <1>1, <1>3, <1>4 DEF DeadIsFinalized, resolveExhaustedPdfScope, FailsInScope
<1> QED BY <1>5, <1>6, <1>7, <1>8

LEMMA MarkFailedKeepsPInv ==
  ASSUME PInv, TypeOK', NEW w \in Workers, markFailed(w)
  PROVE  PInv'
<1> USE DEF PInv
<1>1. /\ att[w].at = "finalizing" /\ resolveExhaustedPdfScope(w) /\ att'[w].at = "idle"
      /\ \A u \in Workers : u # w => att'[u] = att[u]
      /\ \A u \in Workers : u # w => (u \in scopes' <=> u \in scopes)
      /\ UNCHANGED <<delivery, exhausted>>
      /\ (job = "absent" /\ job' = "failed") \/ (job # "absent" /\ job' = job)
  BY DEF markFailed, jobMarkedFailed, NoAttempt, TypeOK
<1>2. exhausted
  BY <1>1 DEF FinalizesExhausted, resolveExhaustedPdfScope
<1>3. RendersAlone' /\ FinalizesExhausted'
  BY <1>1 DEF RendersAlone, FinalizesExhausted, owns, InTransaction
<1>4. FailedIsExhausted' /\ DeadIsFinalized'
  BY <1>1, <1>2 DEF FailedIsExhausted, DeadIsFinalized
<1>5. ScopeKept'
  BY <1>1 DEF ScopeKept, resolveExhaustedPdfScope, InTransaction, FailsInScope
<1> QED BY <1>3, <1>4, <1>5

LEMMA NextKeepsPInv ==
  ASSUME PdfAssumption, PInv, [Next]_vars
  PROVE  PInv'
<1>0. TypeOK
  BY DEF PInv
<1>1. ASSUME NEW w \in Workers, deliver(w) \/ crash(w) PROVE PInv'
  <2>1. TypeOK'
    BY <1>1, StepTypes
  <2> QED BY <1>1, <2>1, AttemptsKeepPInv, ClaimKeepsPInv, RenderKeepsPInv,
             CommitKeepsPInv, FailureKeepsPInv, MarkFailedKeepsPInv DEF deliver
<1>2. ASSUME NEW v \in zombies, zombiePuts(v) \/ zombieEnds(v) PROVE PInv'
  <2>1. TypeOK'
    BY <1>0, <1>2, OtherTypes
  <2>2. UNCHANGED <<delivery, job, scopes, att, exhausted>>
    BY <1>2 DEF zombiePuts, zombieEnds
  <2> QED BY <2>1, <2>2
          DEF PInv, RendersAlone, FinalizesExhausted, ScopeKept, DeadIsFinalized,
              FailedIsExhausted, owns, resolveExhaustedPdfScope
<1>3. CASE replayDeadDeliveries
  <2>1. TypeOK'
    BY <1>0, <1>3, OtherTypes
  <2>2. /\ UNCHANGED <<job, scopes, att, exhausted>>
        /\ delivery.status = "dead" /\ delivery'.status = "pending"
    BY <1>3 DEF replayDeadDeliveries
  <2> QED BY <2>1, <2>2
          DEF PInv, RendersAlone, FinalizesExhausted, ScopeKept, DeadIsFinalized,
              FailedIsExhausted, owns, resolveExhaustedPdfScope
<1>4. CASE UNCHANGED vars
  BY <1>4 DEF vars, PInv, TypeOK, RendersAlone, FinalizesExhausted, ScopeKept,
              DeadIsFinalized, FailedIsExhausted, owns, resolveExhaustedPdfScope
<1> QED BY <1>1, <1>2, <1>3, <1>4 DEF Next

LEMMA PInvAlways == PdfAssumption => (Spec => []PInv)
<1> SUFFICES ASSUME PdfAssumption PROVE Spec => []PInv
  OBVIOUS
<1>1. Init => PInv
  BY InitPInv
<1>2. PInv /\ [Next]_vars => PInv'
  BY NextKeepsPInv
<1> QED BY <1>1, <1>2, PTL DEF Spec

(* A document is failed only after its delivery was exhausted or its       *)
(* renderer gave up, and when attempts fail in scope and processes live    *)
(* no exhausted delivery leaves its document pending                       *)
(* (maybeFinalizeDeadPdfGeneration, resolveExhaustedPdfScope).             *)
THEOREM PdfIsSound == PdfAssumption => (Spec => []PdfSound)
<1> SUFFICES ASSUME PdfAssumption PROVE Spec => []PdfSound
  OBVIOUS
<1>1. PInv => PdfSound
  BY DEF PInv, PdfSound, DeadIsFinalized, ExhaustedIsFinalized
<1> QED BY <1>1, PInvAlways, PTL

(* A ready document stays ready and keeps its file, whatever late          *)
(* bookkeeping, replays, takeovers and crashes do (markJobReady,           *)
(* markFailed).                                                            *)
THEOREM ReadyStays == PdfAssumption => (Spec => ReadyIsFinal)
<1> SUFFICES ASSUME PdfAssumption PROVE Spec => ReadyIsFinal
  OBVIOUS
<1>1. PInv /\ [Next]_vars => [job = "ready" => job' = "ready" /\ file' = file]_vars
  <2> SUFFICES ASSUME PInv, Next, job = "ready" PROVE job' = "ready" /\ file' = file
    OBVIOUS
  <2>1. \A w \in Workers : ~markJobReady(w) /\ ~markJobFailed(w)
    BY DEF PInv, RendersAlone, markJobReady, markJobFailed, InTransaction
  <2>2. ASSUME NEW w \in Workers, deliver(w) \/ crash(w)
        PROVE  job' = "ready" /\ file' = file
    BY <2>1, <2>2
       DEF deliver, crash, claim, claimThrows, deferred, getForGeneration, rendered,
           putGeneratedPdf, retryableFailure, timeoutFailure, earlyFailure,
           recordDeliveryFailure, failureOfAnother, markFailed, jobMarkedFailed,
           notFinalized
  <2>3. CASE replayDeadDeliveries \/ \E v \in zombies : zombiePuts(v) \/ zombieEnds(v)
    BY <2>3 DEF replayDeadDeliveries, zombiePuts, zombieEnds
  <2> QED BY <2>2, <2>3 DEF Next
<1> QED BY <1>1, PInvAlways, PTL DEF Spec, ReadyIsFinal

-----------------------------------------------------------------------------
(* The loop and its listener.                                              *)

(* The tick that runs is the one that is marked, a backoff follows a       *)
(* failure, and deliveries that are taken have rows.                       *)
Ticking ==
    /\ loop.ticking <=> run # "none"
    /\ loop.backoff => loop.failures = 1
    /\ exec > 0 \/ todo > 0 => run = "lanes"
    /\ todo + exec <= rows

(* A wake-up after the read of a tick is remembered while the tick runs.   *)
Remembered == unseen /\ run \in {"find", "lanes"} => loop.wakes

(* The connection that is being made, the first one and the one that stop  *)
(* has found, and the state before start.                                  *)
Connecting ==
    /\ fresh.at = "connect" => fresh.cl \in Client
    /\ fresh.by = "start" /\ fresh.at \in {"connect", "failed"} => client = 0
    /\ stopping /\ fresh.at = "connect" => fresh.cl = caught
    /\ life = "idle" => /\ fresh.at = "none" /\ ~reconnecting /\ client = 0
                        /\ \A c \in Client : conn[c] = "new"

(* A worker that has stopped has no tick on its chain.                     *)
Drained == life = "stopped" => ChainDrained

(* What concerns the ticks, and what concerns the listener.                *)
TickInv == Ticking /\ Remembered /\ Drained /\ WakesNotLost
ListenInv == Connecting /\ NoStrayClients /\ DownIsRepaired

LInv == LoopTypeOK /\ TickInv /\ ListenInv

-----------------------------------------------------------------------------
LEMMA TickKeeps ==
  ASSUME LoopAssumption, NEW S \in LoopStates, S.works < MaxWorks
  PROVE  /\ tick(S) \in LoopStates
         /\ tick(S).ticking = S.ticking /\ tick(S).failures = S.failures
         /\ tick(S).backoff = S.backoff /\ (S.wakes => tick(S).wakes)
         /\ tick(S).works >= S.works
         /\ stopping => tick(S) = S
         /\ ~(stopping \/ S.backoff \/ S.ticking) => tick(S).works > 0
<1>1. /\ S.works \in Nat /\ MaxWorks \in Nat /\ S.works + 1 \in 0 .. MaxWorks
  BY DEF LoopStates, LoopAssumption
<1>2. CASE stopping \/ S.backoff
  BY <1>1, <1>2 DEF tick
<1>3. CASE ~(stopping \/ S.backoff) /\ S.ticking
  <2>1. tick(S) = [S EXCEPT !.wakes = TRUE]
    BY <1>3 DEF tick
  <2>2. [S EXCEPT !.wakes = TRUE] \in LoopStates
    BY DEF LoopStates
  <2>3. LET R == [S EXCEPT !.wakes = TRUE] IN
        /\ R.wakes /\ R.ticking = S.ticking /\ R.failures = S.failures
        /\ R.backoff = S.backoff /\ R.works = S.works
    BY DEF LoopStates
  <2>4. tick(S).works = S.works /\ tick(S).works >= S.works
    BY <1>1, <2>1, <2>3
  <2> QED BY <1>3, <2>1, <2>2, <2>3, <2>4
<1>4. CASE ~(stopping \/ S.backoff) /\ ~S.ticking
  <2>1. tick(S) = [S EXCEPT !.works = S.works + 1]
    BY <1>4 DEF tick
  <2> QED BY <1>1, <1>4, <2>1 DEF LoopStates
<1> QED BY <1>2, <1>3, <1>4

LEMMA RequestKeeps ==
  ASSUME LoopAssumption, NEW S \in LoopStates, S.works < MaxWorks
  PROVE  /\ requestTick(S) \in LoopStates
         /\ requestTick(S).ticking = S.ticking /\ requestTick(S).failures = S.failures
         /\ requestTick(S).backoff = S.backoff /\ requestTick(S).wakes
         /\ requestTick(S).works >= S.works
         /\ stopping => requestTick(S).works = S.works
         /\ ~(stopping \/ S.backoff \/ S.ticking) => requestTick(S).works > 0
<1> DEFINE R == [S EXCEPT !.wakes = TRUE]
<1>1. /\ R \in LoopStates /\ R.works = S.works /\ R.ticking = S.ticking
      /\ R.failures = S.failures /\ R.backoff = S.backoff /\ R.wakes
  BY DEF LoopStates
<1>2. requestTick(S) = tick(R)
  BY DEF requestTick
<1> HIDE DEF R
<1> QED BY <1>1, <1>2, TickKeeps

LEMMA NextRunKeeps ==
  ASSUME NEW S \in LoopStates
  PROVE  LET n == NextRun(S) IN
         /\ n.S \in LoopStates /\ n.at \in {"none", "dispatch"}
         /\ n.S.ticking <=> n.at # "none"
         /\ n.S.failures = S.failures /\ n.S.backoff = S.backoff
         /\ n.S.works = S.works
         /\ ~stopping => n.at = "dispatch"
BY DEF NextRun, LoopStates

LEMMA QuietTicks ==
  LInv /\ UNCHANGED <<life, loopVars, dbVars>> => TickInv'
BY DEF LInv, loopVars, dbVars, TickInv, Ticking, Remembered, Drained, ChainDrained,
       WakesNotLost, stopping

LEMMA QuietListener ==
  LInv /\ UNCHANGED <<life, listenVars>> => ListenInv'
BY DEF LInv, listenVars, ListenInv, Connecting, NoStrayClients, DownIsRepaired, Open,
       stopping

LEMMA ZeroTyped ==
  LoopAssumption => /\ 0 \in 0 .. MaxClients /\ 0 \in 0 .. MaxWorks /\ 0 \in 0 .. MaxFails
                    /\ 0 \in 0 .. MaxEvents /\ 0 \in 0 .. Concurrency
                    /\ 0 \notin Client
BY DEF LoopAssumption, Client

(* What the bound on failures leaves typed.                                *)
LEMMA FailsTyped ==
  LoopAssumption /\ LoopTypeOK /\ Fails => fails' \in 0 .. MaxFails
BY DEF LoopAssumption, LoopTypeOK, Fails

-----------------------------------------------------------------------------
(* The ticks.                                                              *)

LEMMA PollKeeps == LoopAssumption /\ LInv /\ poll => LInv'
<1> SUFFICES ASSUME LoopAssumption, LInv, poll PROVE LInv'
  OBVIOUS
<1>1. loop \in LoopStates /\ loop.works < MaxWorks /\ loop' = requestTick(loop) /\ ~stopping
  BY DEF LInv, LoopTypeOK, poll, stopping
<1>2. /\ loop' \in LoopStates /\ loop'.ticking = loop.ticking
      /\ loop'.failures = loop.failures /\ loop'.backoff = loop.backoff /\ loop'.wakes
      /\ loop'.works >= loop.works
      /\ ~(loop.backoff \/ loop.ticking) => loop'.works > 0
  BY <1>1, RequestKeeps
<1>3. LoopTypeOK'
  BY <1>2 DEF LInv, LoopTypeOK, poll, listenVars
<1>4. /\ Ticking' /\ Remembered' /\ Drained'
  BY <1>1, <1>2 DEF LInv, poll, TickInv, Ticking, Remembered, Drained, ChainDrained, stopping
<1>6. WakesNotLost'
  BY <1>1, <1>2 DEF LInv, LoopStates, poll, TickInv, Ticking, WakesNotLost, stopping
<1>5. ListenInv'
  BY QuietListener DEF poll
<1> QED BY <1>3, <1>4, <1>5, <1>6 DEF LInv, TickInv

LEMMA CommitKeeps == LoopAssumption /\ LInv /\ commitEvent => LInv'
<1> SUFFICES ASSUME LoopAssumption, LInv, commitEvent PROVE LInv'
  OBVIOUS
<1>1. /\ loop \in LoopStates /\ loop.works < MaxWorks
      /\ \/ loop' = loop
         \/ loop' = requestTick(loop) /\ ~stopping
  BY DEF LInv, LoopTypeOK, commitEvent, Notified
<1>2. /\ loop' \in LoopStates /\ loop'.ticking = loop.ticking
      /\ loop'.failures = loop.failures /\ loop'.backoff = loop.backoff
      /\ \/ loop' = loop
         \/ /\ loop'.wakes /\ ~stopping
            /\ loop'.works >= loop.works
            /\ ~(loop.backoff \/ loop.ticking) => loop'.works > 0
  BY <1>1, RequestKeeps
<1>3. LoopTypeOK'
  BY <1>2 DEF LInv, LoopTypeOK, commitEvent, listenVars, LoopAssumption
<1>4. unseen' => unseen \/ loop' # loop
  BY DEF commitEvent
<1>5. /\ Ticking' /\ Remembered' /\ Drained'
  BY <1>2, <1>4 DEF LInv, commitEvent, TickInv, Ticking, Remembered, Drained, ChainDrained, stopping
<1>6. WakesNotLost'
  BY <1>1, <1>2, <1>4 DEF LInv, LoopStates, commitEvent, TickInv, Ticking, WakesNotLost, stopping
<1>7. ListenInv'
  BY QuietListener DEF commitEvent
<1> QED BY <1>3, <1>5, <1>6, <1>7 DEF LInv, TickInv

LEMMA StartWorkKeeps == LoopAssumption /\ LInv /\ startWork => LInv'
<1> SUFFICES ASSUME LoopAssumption, LInv, startWork PROVE LInv'
  OBVIOUS
<1> DEFINE S == [loop EXCEPT !.works = loop.works - 1]
<1>1. /\ S \in LoopStates /\ S.works = loop.works - 1 /\ S.failures = loop.failures
      /\ S.backoff = loop.backoff
  <2>1. loop \in LoopStates /\ loop.works > 0
    BY DEF LInv, LoopTypeOK, startWork
  <2>2. loop.works - 1 \in 0 .. MaxWorks
    BY <2>1 DEF LoopStates, LoopAssumption
  <2> QED BY <2>1, <2>2 DEF LoopStates
<1>2. loop' = NextRun(S).S /\ run' = NextRun(S).at /\ run = "none" /\ loop.works > 0
  BY DEF startWork, ChainFree
<1> HIDE DEF S
<1>3. /\ loop' \in LoopStates /\ run' \in {"none", "dispatch"}
      /\ loop'.ticking <=> run' # "none"
      /\ loop'.failures = loop.failures /\ loop'.backoff = loop.backoff
      /\ ~stopping => run' = "dispatch"
  BY <1>1, <1>2, NextRunKeeps
<1>4. LoopTypeOK'
  BY <1>3 DEF LInv, LoopTypeOK, startWork, dbVars, listenVars
<1>5. TickInv'
  BY <1>2, <1>3 DEF LInv, LoopTypeOK, LoopStates, startWork, dbVars, TickInv, Ticking, Remembered, Drained, ChainDrained,
                    WakesNotLost, stopping
<1>6. ListenInv'
  BY QuietListener DEF startWork
<1> QED BY <1>4, <1>5, <1>6 DEF LInv

LEMMA EndRunKeeps == LoopAssumption /\ LInv /\ endRun => LInv'
<1> SUFFICES ASSUME LoopAssumption, LInv, endRun PROVE LInv'
  OBVIOUS
<1> DEFINE S == [loop EXCEPT !.failures = 0, !.backoff = FALSE]
           n == IF loop.wakes THEN NextRun(S)
                ELSE [S |-> [S EXCEPT !.ticking = FALSE], at |-> "none"]
<1>1. S \in LoopStates /\ S.works = loop.works /\ S.failures = 0 /\ ~S.backoff
  BY DEF LInv, LoopTypeOK, LoopStates
<1>2. loop' = n.S /\ run' = n.at /\ run = "lanes" /\ exec = 0 /\ todo' = 0
  BY DEF endRun
<1> HIDE DEF S
<1>3. /\ n.S \in LoopStates /\ n.at \in {"none", "dispatch"}
      /\ n.S.ticking <=> n.at # "none"
      /\ n.S.failures = 0 /\ ~n.S.backoff
      /\ ~stopping /\ loop.wakes => n.at = "dispatch"
  <2>1. CASE loop.wakes
    BY <1>1, <2>1, NextRunKeeps
  <2>2. CASE ~loop.wakes
    BY <1>1, <2>2 DEF LoopStates
  <2> QED BY <2>1, <2>2
<1> HIDE DEF n
<1>4. LoopTypeOK'
  BY <1>2, <1>3 DEF LInv, LoopTypeOK, endRun, dbVars, listenVars
<1>5. TickInv'
  BY <1>2, <1>3 DEF LInv, LoopTypeOK, LoopStates, endRun, dbVars, TickInv, Ticking, Remembered, Drained, ChainDrained,
                    WakesNotLost, stopping
<1>6. ListenInv'
  BY QuietListener DEF endRun
<1> QED BY <1>4, <1>5, <1>6 DEF LInv

LEMMA FailTickKeeps == LoopAssumption /\ LInv /\ failTick => LInv'
<1> SUFFICES ASSUME LoopAssumption, LInv, failTick PROVE LInv'
  OBVIOUS
<1>1. /\ loop' \in LoopStates /\ ~loop'.ticking /\ loop'.failures = 1
      /\ loop'.works = loop.works
  BY DEF LInv, LoopTypeOK, LoopStates, failTick, Catch
<1>2. LoopTypeOK'
  BY <1>1, FailsTyped DEF LInv, LoopTypeOK, failTick, dbVars, listenVars
<1>3. TickInv'
  BY <1>1 DEF LInv, failTick, dbVars, TickInv, Ticking, Remembered, Drained, ChainDrained, WakesNotLost, stopping
<1>4. ListenInv'
  BY QuietListener DEF failTick
<1> QED BY <1>2, <1>3, <1>4 DEF LInv

LEMMA DispatchKeeps == LoopAssumption /\ LInv /\ dispatch => LInv'
<1> SUFFICES ASSUME LoopAssumption, LInv, dispatch PROVE LInv'
  OBVIOUS
<1>1. Min2(events, BatchLimit) \in Nat /\ Min2(events, BatchLimit) <= events
  BY DEF LInv, LoopTypeOK, LoopAssumption, Min2
<1>2. events' \in Nat /\ rows' \in Nat /\ rows' >= rows
  BY <1>1 DEF LInv, LoopTypeOK, dispatch
<1>3. LoopTypeOK'
  BY <1>2 DEF LInv, LoopTypeOK, dispatch, listenVars
<1>4. TickInv'
  BY <1>2 DEF LInv, LoopTypeOK, LoopAssumption, dispatch, TickInv, Ticking, Remembered, Drained, ChainDrained,
              WakesNotLost, stopping
<1>5. ListenInv'
  BY QuietListener DEF dispatch
<1> QED BY <1>3, <1>4, <1>5 DEF LInv

LEMMA LanesKeep ==
  LoopAssumption /\ LInv /\ (backoffEnds \/ findDue \/ laneTakes \/ laneDone) => LInv'
<1> SUFFICES ASSUME LoopAssumption, LInv, backoffEnds \/ findDue \/ laneTakes \/ laneDone
             PROVE  LInv'
  OBVIOUS
<1> USE DEF LInv, LoopTypeOK, LoopAssumption, dbVars, listenVars
<1>1. CASE backoffEnds
  <2>1. /\ loop' \in LoopStates /\ loop'.ticking = loop.ticking /\ ~loop'.backoff
        /\ loop'.failures = loop.failures /\ loop'.wakes = loop.wakes
        /\ loop'.works = loop.works
    BY <1>1 DEF LoopStates, backoffEnds
  <2> QED BY <1>1, <2>1, QuietListener DEF backoffEnds, TickInv, Ticking, Remembered, Drained,
                                  ChainDrained, WakesNotLost, stopping
<1>2. CASE findDue
  <2>1. exec = 0 /\ todo' \in Nat /\ todo' <= rows
    BY <1>2 DEF findDue, TickInv, Ticking
  <2> QED BY <1>2, <2>1, QuietListener DEF findDue, TickInv, Ticking, Remembered, Drained,
                                  ChainDrained, WakesNotLost, stopping
<1>3. CASE laneTakes
  <2>1. todo' \in Nat /\ exec' \in 0 .. Concurrency /\ todo' + exec' = todo + exec
    BY <1>3 DEF laneTakes, LaneFree
  <2> QED BY <1>3, <2>1, QuietListener DEF laneTakes, TickInv, Ticking, Remembered, Drained,
                                  ChainDrained, WakesNotLost, stopping
<1>4. CASE laneDone
  <2>1. exec' \in 0 .. Concurrency /\ rows' \in Nat /\ todo + exec' <= rows'
    BY <1>4 DEF laneDone, TickInv, Ticking
  <2>2. fails' \in 0 .. MaxFails
    BY <1>4, FailsTyped DEF laneDone
  <2>3. exec > 0 /\ run = "lanes"
    BY <1>4 DEF laneDone, TickInv, Ticking
  <2> QED BY <1>4, <2>1, <2>2, <2>3, QuietListener DEF laneDone, TickInv, Ticking, Remembered, Drained,
                                  ChainDrained, WakesNotLost, stopping
<1> QED BY <1>1, <1>2, <1>3, <1>4

-----------------------------------------------------------------------------
(* The listener.                                                           *)

LEMMA StartKeeps == LoopAssumption /\ LInv /\ (start \/ started) => LInv'
<1> SUFFICES ASSUME LoopAssumption, LInv, start \/ started PROVE LInv'
  OBVIOUS
<1>1. CASE start
  <2>1. PICK c \in Unused :
          /\ fresh' = [at |-> "connect", cl |-> c, old |-> 0, by |-> "start"]
          /\ conn' = [conn EXCEPT ![c] = "connecting"]
    BY <1>1 DEF start, Begin
  <2>2. c \in Client /\ c \in 0 .. MaxClients /\ 0 \in 0 .. MaxClients
    BY DEF Unused, Client, LoopAssumption
  <2>3. LoopTypeOK'
    BY <1>1, <2>1, <2>2 DEF start, LInv, LoopTypeOK, loopVars, dbVars
  <2>4. TickInv'
    BY <1>1 DEF start, LInv, TickInv, Ticking, Remembered, Drained, ChainDrained, WakesNotLost,
                stopping, loopVars, dbVars
  <2>5. Connecting' /\ NoStrayClients'
    BY <1>1, <2>1, <2>2 DEF start, LInv, LoopTypeOK, ListenInv, Connecting, NoStrayClients, stopping, Open
  <2>6. DownIsRepaired'
    BY <1>1, <2>1, <2>2 DEF start, LInv, LoopTypeOK, ListenInv, DownIsRepaired, stopping, Client
  <2> QED BY <2>3, <2>4, <2>5, <2>6 DEF LInv, ListenInv
<1>2. CASE started
  <2>1. /\ loop' \in LoopStates /\ loop'.ticking = loop.ticking
        /\ loop'.failures = loop.failures /\ loop'.backoff = loop.backoff
        /\ loop.wakes => loop'.wakes
        /\ loop'.works >= loop.works
    <3>1. loop \in LoopStates /\ loop.works < MaxWorks
      BY <1>2 DEF LInv, LoopTypeOK, started
    <3>2. CASE fresh.at = "done"
      BY <1>2, <3>1, <3>2, TickKeeps DEF started
    <3>3. CASE fresh.at # "done"
      BY <1>2, <3>1, <3>3 DEF started, LoopStates
    <3> QED BY <3>2, <3>3
  <2>2. life = "starting" /\ life' \in {"running", "stopping"}
    BY <1>2 DEF started
  <2>3. LoopTypeOK'
    BY <1>2, <2>1, <2>2 DEF started, LInv, LoopTypeOK, NoFresh, dbVars, LoopAssumption
  <2>4. /\ Ticking' /\ Remembered' /\ Drained'
    BY <1>2, <2>1, <2>2 DEF started, LInv, TickInv, Ticking, Remembered, Drained, dbVars
  <2>5. WakesNotLost'
    BY <1>2, <2>1, <2>2 DEF started, LInv, LoopTypeOK, LoopStates, TickInv, WakesNotLost, stopping, dbVars
  <2>6. ListenInv'
    <3>1. CASE fresh.at = "done"
      BY <1>2, <2>2, <3>1 DEF started, LInv, ListenInv, NoFresh, Connecting, NoStrayClients,
                              Open, DownIsRepaired, stopping
    <3>2. CASE fresh.at = "failed"
      <4>1. client = 0 /\ life' = "stopping" /\ fresh' = NoFresh /\ UNCHANGED <<client, conn>>
        BY <1>2, <3>2 DEF started, LInv, ListenInv, Connecting
      <4>2. \A c \in Client : ~Open(c)
        BY <2>2, <3>2, <4>1 DEF LInv, ListenInv, NoStrayClients, stopping, Client
      <4>3. NoStrayClients'
        BY <4>1, <4>2 DEF NoStrayClients, Open
      <4> QED BY <4>1, <4>3 DEF ListenInv, Connecting, DownIsRepaired, NoFresh, stopping
    <3> QED BY <1>2, <3>1, <3>2 DEF started
  <2> QED BY <2>3, <2>4, <2>5, <2>6 DEF LInv, TickInv
<1> QED BY <1>1, <1>2

LEMMA ConnectKeeps ==
  LoopAssumption /\ LInv /\ (connected \/ closed \/ connectFails) => LInv'
<1> SUFFICES ASSUME LoopAssumption, LInv, connected \/ closed \/ connectFails PROVE LInv'
  OBVIOUS
<1>1. TickInv'
  BY QuietTicks DEF connected, closed, connectFails
<1>2. CASE connected
  <2>1. fresh.cl \in Client /\ fresh.cl # 0
    BY <1>2 DEF connected, LInv, ListenInv, Connecting, Client
  <2>2. LoopTypeOK'
    BY <1>2, <2>1 DEF connected, LInv, LoopTypeOK, loopVars, dbVars
  <2>3. Connecting'
    BY <1>2, <2>1 DEF connected, LInv, LoopTypeOK, ListenInv, Connecting
  <2>4. NoStrayClients'
    <3>0. stopping' => fresh.cl = caught'
      BY <1>2 DEF connected, LInv, ListenInv, Connecting, stopping
    <3> SUFFICES ASSUME NEW d \in Client, Open(d)', d # fresh.cl
                 PROVE  d = fresh'.old /\ fresh'.at = "close"
      BY <1>2, <3>0 DEF connected, NoStrayClients
    <3>1. Open(d)
      BY <1>2 DEF connected, LInv, LoopTypeOK, Open
    <3>2. d = client /\ client # 0
      BY <1>2, <3>0, <3>1, ZeroTyped DEF connected, LInv, ListenInv, NoStrayClients, stopping
    <3> QED BY <1>2, <3>2 DEF connected, LInv, LoopTypeOK
  <2>5. DownIsRepaired'
    BY <1>2, <2>1 DEF connected, LInv, LoopTypeOK, ListenInv, DownIsRepaired, stopping
  <2> QED BY <1>1, <2>2, <2>3, <2>4, <2>5 DEF LInv, ListenInv
<1>3. CASE closed
  <2>1. LoopTypeOK'
    BY <1>3 DEF closed, LInv, LoopTypeOK, loopVars, dbVars
  <2>2. ListenInv'
    BY <1>3 DEF closed, LInv, LoopTypeOK, ListenInv, Connecting, NoStrayClients, Open,
                DownIsRepaired, stopping, Client
  <2> QED BY <1>1, <2>1, <2>2 DEF LInv
<1>4. CASE connectFails
  <2>1. LoopTypeOK'
    BY <1>4, FailsTyped DEF connectFails, DropClient, LInv, LoopTypeOK, loopVars, dbVars
  <2>2. ListenInv'
    BY <1>4 DEF connectFails, DropClient, LInv, LoopTypeOK, ListenInv, Connecting, NoStrayClients,
                Open, DownIsRepaired, stopping, Client
  <2> QED BY <1>1, <2>1, <2>2 DEF LInv
<1> QED BY <1>2, <1>3, <1>4

LEMMA LossKeeps ==
  ASSUME LoopAssumption, LInv, NEW c \in Client, loseConnection(c) \/ onError(c)
  PROVE  LInv'
<1>1. TickInv'
  BY QuietTicks DEF loseConnection, onError
<1>2. LoopTypeOK'
  BY FailsTyped DEF loseConnection, onError, LInv, LoopTypeOK, loopVars, dbVars
<1>3. ListenInv'
  <2>1. Connecting'
    BY DEF loseConnection, onError, LInv, LoopTypeOK, ListenInv, Connecting, stopping
  <2>2. NoStrayClients'
    BY DEF loseConnection, onError, LInv, LoopTypeOK, ListenInv, NoStrayClients, stopping, Open
  <2>3. DownIsRepaired'
    <3> USE DEF LInv, LoopTypeOK, ListenInv, DownIsRepaired, stopping
    <3>1. CASE loseConnection(c)
      BY <3>1 DEF loseConnection
    <3>2. CASE onError(c) /\ c = client
      BY <3>2 DEF onError
    <3>3. CASE onError(c) /\ c # client
      BY <3>3 DEF onError
    <3> QED BY <3>1, <3>2, <3>3
  <2> QED BY <2>1, <2>2, <2>3 DEF ListenInv
<1> QED BY <1>1, <1>2, <1>3 DEF LInv

LEMMA ReconnectKeeps == LoopAssumption /\ LInv /\ reconnect => LInv'
<1> SUFFICES ASSUME LoopAssumption, LInv, reconnect PROVE LInv'
  OBVIOUS
<1>1. TickInv'
  BY QuietTicks DEF reconnect
<1>2. CASE MustReconnect
  <2>1. PICK c \in Unused :
          /\ fresh' = [at |-> "connect", cl |-> c, old |-> 0, by |-> "reconnect"]
          /\ conn' = [conn EXCEPT ![c] = "connecting"]
    BY <1>2 DEF reconnect, Begin
  <2>2. c \in Client /\ c \in 0 .. MaxClients /\ 0 \in 0 .. MaxClients /\ conn[c] = "new"
    BY DEF Unused, Client, LoopAssumption
  <2>3. LoopTypeOK'
    BY <1>2, <2>1, <2>2 DEF reconnect, LInv, LoopTypeOK, loopVars, dbVars
  <2>4. Connecting'
    BY <1>2, <2>1, <2>2 DEF reconnect, MustReconnect, LInv, LoopTypeOK, ListenInv, Connecting,
                            stopping
  <2>5. NoStrayClients'
    <3> SUFFICES ASSUME NEW d \in Client, Open(d)', d # c PROVE d = client /\ ~stopping
      BY <1>2, <2>1 DEF reconnect, MustReconnect, NoStrayClients, stopping
    <3>1. Open(d)
      BY <2>1 DEF LInv, LoopTypeOK, Open
    <3> QED BY <1>2, <3>1 DEF reconnect, MustReconnect, LInv, ListenInv, NoStrayClients
  <2>6. DownIsRepaired'
    BY <1>2, <2>1, <2>2 DEF reconnect, LInv, LoopTypeOK, ListenInv, DownIsRepaired, stopping,
                            Client
  <2> QED BY <1>1, <2>3, <2>4, <2>5, <2>6 DEF LInv, ListenInv
<1>3. CASE ~MustReconnect
  <2>1. LoopTypeOK'
    <3>1. reconnecting' = FALSE /\ fresh' = NoFresh /\ UNCHANGED conn
      BY <1>3 DEF reconnect
    <3> QED BY <3>1, ZeroTyped DEF reconnect, LInv, LoopTypeOK, NoFresh, loopVars, dbVars
  <2>2. Connecting'
    BY <1>3 DEF reconnect, NoFresh, LInv, ListenInv, Connecting
  <2>3. NoStrayClients'
    BY <1>3 DEF reconnect, NoFresh, LInv, ListenInv, NoStrayClients, stopping, Open
  <2>4. DownIsRepaired'
    BY <1>3 DEF reconnect, MustReconnect, LInv, ListenInv, DownIsRepaired, stopping
  <2> QED BY <1>1, <2>1, <2>2, <2>3, <2>4 DEF LInv, ListenInv
<1> QED BY <1>2, <1>3

LEMMA StopKeeps == LoopAssumption /\ LInv /\ (stop \/ stopListener \/ drained) => LInv'
<1> SUFFICES ASSUME LoopAssumption, LInv, stop \/ stopListener \/ drained PROVE LInv'
  OBVIOUS
<1>1. LoopTypeOK'
  <2> USE DEF LInv, LoopTypeOK, loopVars, dbVars, listenVars
  <2>1. CASE stop
    <3>1. conn' \in [Client -> {"new", "connecting", "listening", "lost", "dead", "ended"}]
      BY <2>1 DEF stop
    <3> QED BY <2>1, <3>1, ZeroTyped DEF stop
  <2>2. CASE stopListener
    BY <2>2 DEF stopListener
  <2>3. CASE drained
    BY <2>3 DEF drained
  <2> QED BY <2>1, <2>2, <2>3
<1>2. TickInv'
  BY DEF stop, stopListener, drained, LInv, TickInv, Ticking, Remembered, Drained, ChainDrained,
         WakesNotLost, stopping, loopVars, dbVars
<1>3. ListenInv'
  <2>1. Connecting'
    BY DEF stop, stopListener, drained, LInv, LoopTypeOK, ListenInv, Connecting, stopping, listenVars
  <2>2. NoStrayClients'
    BY ZeroTyped DEF stop, stopListener, drained, LInv, LoopTypeOK, ListenInv, NoStrayClients, stopping, Open, listenVars
  <2>3. DownIsRepaired'
    BY DEF stop, stopListener, drained, DownIsRepaired, stopping
  <2> QED BY <2>1, <2>2, <2>3 DEF ListenInv
<1> QED BY <1>1, <1>2, <1>3 DEF LInv

LEMMA InitLInv == LoopAssumption /\ LoopInit => LInv
<1> SUFFICES ASSUME LoopAssumption, LoopInit PROVE LInv
  OBVIOUS
<1>1. LoopTypeOK
  BY ZeroTyped DEF LoopInit, LoopTypeOK, LoopStates, NoFresh
<1>2. TickInv
  BY DEF LoopInit, TickInv, Ticking, Remembered, Drained, WakesNotLost
<1>3. ListenInv
  BY DEF LoopInit, ListenInv, Connecting, NoStrayClients, Open, DownIsRepaired, NoFresh
<1> QED BY <1>1, <1>2, <1>3 DEF LInv

(* No wake-up is left to the poll timer, no delivery executes outside the  *)
(* tick, and the listener neither keeps a connection too many nor trusts a *)
(* dead one, whatever fails and whenever the process stops (requestTick,   *)
(* serialized, stop, connectFresh, reconnect).                             *)
THEOREM LoopIsSound == LoopAssumption => (LoopSpec => []LoopSound)
<1> SUFFICES ASSUME LoopAssumption PROVE LoopSpec => []LoopSound
  OBVIOUS
<1>1. LoopInit => LInv
  BY InitLInv
<1>2. LInv /\ [LoopNext]_workerVars => LInv'
  <2> SUFFICES ASSUME LInv, [LoopNext]_workerVars PROVE LInv'
    OBVIOUS
  <2>1. CASE UNCHANGED workerVars
    <3>1. TickInv' /\ ListenInv'
      BY <2>1, QuietTicks, QuietListener DEF workerVars
    <3> QED BY <2>1, <3>1 DEF workerVars, loopVars, dbVars, listenVars, LInv, LoopTypeOK
  <2> QED BY <2>1, StartKeeps, PollKeeps, LanesKeep, StartWorkKeeps, FailTickKeeps, DispatchKeeps,
             EndRunKeeps, CommitKeeps, ConnectKeeps, LossKeeps, ReconnectKeeps, StopKeeps
          DEF LoopNext, TickStep, ListenStep
<1>3. LInv => LoopSound
  <2> SUFFICES ASSUME LInv PROVE LoopSound
    OBVIOUS
  <2>1. DeliveriesInsideTick
    BY DEF LInv, LoopTypeOK, TickInv, Ticking, Drained, ChainDrained, DeliveriesInsideTick
  <2> QED BY <2>1 DEF LInv, TickInv, ListenInv, LoopSound
<1> QED BY <1>1, <1>2, <1>3, PTL DEF LoopSpec

-----------------------------------------------------------------------------
(* The pool of Sho workers.                                                *)

(* The inductive invariant of the pool.  What concerns a slot is about its *)
(* record S, the calls C and the threads T: the helpers compute new ones.  *)

(* What waits is open, distinct, has its deadline and no hang timer.       *)
Waits(s, S, C) ==
    /\ \A i \in DOMAIN S.queue :
          /\ Home[S.queue[i]] = s /\ C[S.queue[i]].state = "open"
          /\ C[S.queue[i]].timer /\ ~C[S.queue[i]].hang
    /\ \A i, j \in DOMAIN S.queue : S.queue[i] = S.queue[j] => i = j

(* What runs has its hang timer, and its deadline until it is answered.    *)
Runs(s, S, C) ==
    S.running # NoCall =>
       /\ Home[S.running] = s /\ C[S.running].hang
       /\ C[S.running].state # "new"
       /\ C[S.running].state = "open" => C[S.running].timer

(* Nothing else of this slot is open or has a hang timer.                  *)
Held(s, S, C) ==
    \A c \in Call : Home[c] = s =>
       /\ C[c].hang => S.running = c
       /\ C[c].state = "open" => S.running = c \/ \E i \in DOMAIN S.queue : S.queue[i] = c

(* Only a ready worker has calls; only a slot without one awaits a respawn. *)
Serves(S) ==
    /\ S.running # NoCall \/ Len(S.queue) > 0 => S.ready
    /\ S.ready => S.worker # 0
    /\ S.worker # 0 \/ S.respawn => S.failures <= RespawnLimit
    /\ S.respawn => S.worker = 0

SlotInv(s, S, C) == S \in SlotRecord /\ Waits(s, S, C) /\ Runs(s, S, C) /\ Held(s, S, C) /\ Serves(S)

(* No call waits for an idle worker.                                       *)
Pumped(S) == S.ready /\ S.running = NoCall => S.queue = <<>>

(* The slot's worker is one of its threads, no other one lives unless it   *)
(* is ending, and the last thing a thread posts is that it is gone.        *)
ThreadsInv(S, T) ==
    /\ T \in Seq(ThreadRecord) /\ Len(T) <= MaxSpawns
    /\ S.worker <= Len(T)
    /\ \A w \in 1 .. Len(T) :
          /\ T[w].state \in {"loading", "serving"} => S.worker = w
          /\ \A i \in DOMAIN T[w].out : T[w].out[i] = "gone" => T[w].state = "dead"

(* Of the threads that are waited for, one at a time ends.                 *)
OnlyAwaitedEnds ==
    \A s \in Slot : \A w \in 1 .. Len(proc[s]) :
       proc[s][w].state = "ending" => s = turnOf.slot /\ w = turnOf.worker
NoneEnds == \A s \in Slot : \A w \in 1 .. Len(proc[s]) : proc[s][w].state # "ending"

(* Every thread was told to end, or has ended.                             *)
Told(T) == \A w \in 1 .. Len(T) : T[w].state \notin {"loading", "serving"}

(* Slots are closed in turn; a closed one gets no worker any more.         *)
Disposal ==
    /\ OnlyAwaitedEnds
    /\ phase \in {"boot", "up"} => turnOf.slot = 0
    /\ phase \in {"disposing", "disposed"} =>
          /\ turnOf.slot \in Slot
          /\ \A s \in Slot : s <= turnOf.slot => slot[s].worker = 0 /\ ~slot[s].respawn
    /\ phase \in {"failed", "aborted"} =>
          \A s \in Slot : s <= turnOf.slot => Told(proc[s])
    /\ phase \in {"disposed", "aborted"} => turnOf.slot = Size /\ NoneEnds

SlotsInv == \A s \in Slot : SlotInv(s, slot[s], call) /\ Pumped(slot[s]) /\ ThreadsInv(slot[s], proc[s])

NInv == PoolTypeOK /\ SlotsInv /\ Disposal
-----------------------------------------------------------------------------
(* The helpers.                                                            *)

Replies == {"none", "busy", "deadline", "result"}

(* settle answers what is open and clears both timers.                     *)
LEMMA Settles ==
  ASSUME NEW C \in [Call -> CallRecord], NEW cs \in SUBSET Call, NEW reply \in Replies
  PROVE  LET D == settle(C, cs, reply) IN
         /\ D \in [Call -> CallRecord]
         /\ \A c \in Call : c \notin cs => D[c] = C[c]
         /\ \A c \in cs : /\ D[c].state # "open" /\ ~D[c].timer /\ ~D[c].hang
                          /\ C[c].state # "new" => D[c].state # "new"
<1> DEFINE D == settle(C, cs, reply)
<1>1. \A c \in Call : C[c] \in CallRecord
  OBVIOUS
<1>2. \A c \in Call : c \notin cs => D[c] = C[c]
  BY DEF settle
<1>3. ASSUME NEW c \in cs
      PROVE  /\ D[c] \in CallRecord
             /\ D[c].state # "open" /\ ~D[c].timer /\ ~D[c].hang
             /\ C[c].state # "new" => D[c].state # "new"
  <2>1. D[c] = [Answered(C[c], reply) EXCEPT !.timer = FALSE, !.hang = FALSE]
    BY DEF settle
  <2>2. CASE C[c].state = "open"
    BY <1>1, <2>1, <2>2 DEF Answered, CallRecord, Replies
  <2>3. CASE C[c].state # "open"
    BY <1>1, <2>1, <2>3 DEF Answered, CallRecord, Replies
  <2> QED BY <2>2, <2>3
<1>4. D \in [Call -> CallRecord]
  <2>1. \A c \in Call : D[c] \in CallRecord
    BY <1>1, <1>2, <1>3
  <2>2. D = [c \in Call |-> D[c]]
    BY DEF settle
  <2> QED BY <2>1, <2>2
<1> QED BY <1>2, <1>3, <1>4

(* The least element of a set of naturals.                                 *)
LEMMA MinIn ==
  ASSUME NEW S \in SUBSET Nat, S # {}
  PROVE  Min(S) \in S
<1>1. PICK n \in S : \A k \in S : ~(<<k, n>> \in OpToRel(<, Nat))
  BY WFMin, NatLessThanWellFounded
<1>2. \A k \in S : ~(k < n)
  BY <1>1 DEF OpToRel
<1>3. \A k \in S : n <= k
  BY <1>2
<1> QED BY <1>3 DEF Min

LEMMA OverdueBound ==
  ASSUME NEW q \in Seq(Call), NEW C
  PROVE  Overdue(q, C) \in 0 .. Len(q)
<1> DEFINE live == {i \in 1 .. Len(q) : ~C[q[i]].expired}
<1>1. CASE live = {}
  BY <1>1 DEF Overdue
<1>2. CASE live # {}
  <2>1. live \in SUBSET Nat
    OBVIOUS
  <2>2. Min(live) \in live
    BY <1>2, <2>1, MinIn
  <2>3. Overdue(q, C) = Min(live) - 1
    BY <1>2 DEF Overdue
  <2> QED BY <2>2, <2>3
<1> QED BY <1>1, <1>2

(* The rest of a queue.                                                    *)
LEMMA RestOf ==
  ASSUME NEW q \in Seq(Call), NEW n \in 0 .. Len(q)
  PROVE  LET r == SubSeq(q, n + 1, Len(q)) IN
         /\ r \in Seq(Call) /\ Len(r) = Len(q) - n
         /\ \A i \in 1 .. Len(r) : r[i] = q[i + n]
OBVIOUS

(* A queue without one of its calls.                                       *)
LEMMA WithoutOne ==
  ASSUME NEW q \in Seq(Call), NEW c \in Call,
         \A i, j \in DOMAIN q : q[i] = q[j] => i = j
  PROVE  LET r == Without(q, c) IN
         /\ r \in Seq(Call)
         /\ \A i, j \in DOMAIN r : r[i] = r[j] => i = j
         /\ \A i \in DOMAIN r : r[i] # c /\ \E j \in DOMAIN q : r[i] = q[j]
         /\ \A j \in DOMAIN q : q[j] # c => \E i \in DOMAIN r : r[i] = q[j]
         /\ Len(r) > 0 => Len(q) > 0
<1>1. CASE ~ \E i \in DOMAIN q : q[i] = c
  BY <1>1 DEF Without
<1>2. CASE \E i \in DOMAIN q : q[i] = c
  <2> DEFINE at == CHOOSE i \in DOMAIN q : q[i] = c
             r == [i \in 1 .. Len(q) - 1 |-> IF i < at THEN q[i] ELSE q[i + 1]]
  <2>1. at \in DOMAIN q /\ q[at] = c
    BY <1>2
  <2>2. Without(q, c) = r
    BY <1>2 DEF Without
  <2> HIDE DEF at
  <2>3. Len(q) \in Nat /\ DOMAIN q = 1 .. Len(q) /\ at \in 1 .. Len(q)
    BY <2>1
  <2>4. r \in Seq(Call) /\ DOMAIN r = 1 .. Len(q) - 1
    <3>1. \A i \in 1 .. Len(q) - 1 : r[i] \in Call
      BY <2>3
    <3>2. r \in [1 .. Len(q) - 1 -> Call]
      BY <3>1
    <3>3. Len(q) - 1 \in Nat
      BY <2>3
    <3> QED BY <3>2, <3>3
  <2>5. \A i \in DOMAIN r : \E j \in DOMAIN q : j # at /\ r[i] = q[j] /\ (IF i < at THEN j = i ELSE j = i + 1)
    BY <2>3, <2>4
  <2>6. \A j \in DOMAIN q : j # at => \E i \in DOMAIN r : r[i] = q[j]
    <3> SUFFICES ASSUME NEW j \in DOMAIN q, j # at PROVE \E i \in DOMAIN r : r[i] = q[j]
      OBVIOUS
    <3>1. CASE j < at
      BY <2>3, <2>4, <3>1
    <3>2. CASE j > at
      <4>1. j - 1 \in DOMAIN r /\ r[j - 1] = q[j]
        BY <2>3, <2>4, <3>2
      <4> QED BY <4>1
    <3> QED BY <2>3, <3>1, <3>2
  <2>7. \A i, j \in DOMAIN r : r[i] = r[j] => i = j
    BY <2>3, <2>4, <2>5
  <2> HIDE DEF r
  <2> QED BY <2>1, <2>2, <2>3, <2>4, <2>5, <2>6, <2>7
<1> QED BY <1>1, <1>2

-----------------------------------------------------------------------------
(* What the helpers do to a slot.                                          *)

(* The calls of other slots are left alone.                                *)
Elsewhere(s, C, D) == \A c \in Call : Home[c] # s => D[c] = C[c]

LEMMA Fields ==
  ASSUME NEW S \in SlotRecord
  PROVE  /\ S.worker \in 0 .. MaxSpawns /\ S.ready \in BOOLEAN
         /\ S.failures \in 0 .. RespawnLimit + 1 /\ S.respawn \in BOOLEAN
         /\ S.running \in Call \cup {NoCall} /\ S.queue \in Seq(Call)
BY DEF SlotRecord

(* pump settles what is late and posts the first call that is not.         *)
LEMMA PumpKeeps ==
  ASSUME PoolAssumption, NEW s \in Slot, NEW C \in [Call -> CallRecord], NEW S, SlotInv(s, S, C)
  PROVE  LET r == pump(S, C) IN
         /\ r.C \in [Call -> CallRecord] /\ Elsewhere(s, C, r.C)
         /\ SlotInv(s, r.S, r.C) /\ Pumped(r.S)
         /\ r.S.worker = S.worker /\ r.S.respawn = S.respawn
         /\ r.S.running \notin {NoCall, S.running} => S.worker # 0
<1>1. S \in SlotRecord
  BY DEF SlotInv
<1>2. CASE S.worker = 0 \/ ~S.ready \/ S.running # NoCall
  <2>1. pump(S, C) = [S |-> S, C |-> C]
    BY <1>2 DEF pump
  <2>2. Pumped(S)
    BY <1>2 DEF SlotInv, Serves, Pumped
  <2> QED BY <2>1, <2>2 DEF Elsewhere
<1>3. CASE ~(S.worker = 0 \/ ~S.ready \/ S.running # NoCall)
  <2> DEFINE n == Overdue(S.queue, C)
             cs == {S.queue[i] : i \in 1 .. n}
             D == settle(C, cs, "deadline")
             q == SubSeq(S.queue, n + 1, Len(S.queue))
  <2>1. S.queue \in Seq(Call) /\ Len(S.queue) \in Nat /\ DOMAIN S.queue = 1 .. Len(S.queue)
    BY <1>1, Fields
  <2>2. n \in 0 .. Len(S.queue)
    BY <2>1, OverdueBound
  <2>3. q \in Seq(Call) /\ Len(q) = Len(S.queue) - n /\ DOMAIN q = 1 .. Len(q)
        /\ \A i \in 1 .. Len(q) : q[i] = S.queue[i + n]
    <3> HIDE DEF n
    <3>1. /\ q \in Seq(Call) /\ Len(q) = Len(S.queue) - n
          /\ \A i \in 1 .. Len(q) : q[i] = S.queue[i + n]
      BY <2>1, <2>2, RestOf
    <3> HIDE DEF q
    <3> QED BY <3>1
  <2>4. pump(S, C) = IF q = <<>> THEN [S |-> [S EXCEPT !.queue = q], C |-> D]
                     ELSE [S |-> [S EXCEPT !.queue = Tail(q), !.running = Head(q)],
                           C |-> [D EXCEPT ![Head(q)].hang = TRUE]]
    BY <1>3 DEF pump
  <2> HIDE DEF n
  <2>5. cs \in SUBSET Call /\ \A c \in cs : Home[c] = s
    BY <2>1, <2>2 DEF SlotInv, Waits
  <2>6. /\ D \in [Call -> CallRecord]
        /\ \A c \in Call : c \notin cs => D[c] = C[c]
        /\ \A c \in cs : D[c].state # "open" /\ ~D[c].hang
    BY <2>5, Settles DEF Replies
  <2>7. Elsewhere(s, C, D)
    BY <2>5, <2>6 DEF Elsewhere
  (* An open call of this slot is one of q, and none has a hang timer.     *)
  <2>8. ASSUME NEW c \in Call, Home[c] = s
        PROVE  ~D[c].hang /\ (D[c].state = "open" => \E i \in DOMAIN q : q[i] = c)
    <3>1. CASE c \in cs
      BY <2>6, <3>1
    <3>2. CASE c \notin cs
      <4>1. D[c] = C[c]
        BY <2>6, <3>2
      <4>2. ~C[c].hang
        BY <1>3, <2>8 DEF SlotInv, Held, PoolAssumption
      <4>3. ASSUME C[c].state = "open" PROVE \E i \in DOMAIN q : q[i] = c
        <5>1. PICK i \in DOMAIN S.queue : S.queue[i] = c
          BY <1>3, <2>8, <4>3 DEF SlotInv, Held, PoolAssumption
        <5>2. i > n
          BY <2>1, <2>2, <3>2, <5>1
        <5>3. i - n \in DOMAIN q /\ q[i - n] = c
          BY <2>1, <2>2, <2>3, <5>1, <5>2
        <5> QED BY <5>3
      <4> QED BY <4>1, <4>2, <4>3
    <3> QED BY <3>1, <3>2
  (* What is left of the queue is as it was.                               *)
  <2>12. \A c \in cs : \E k \in 1 .. n : S.queue[k] = c
    OBVIOUS
  <2> HIDE DEF cs, D, q
  <2>9. /\ \A i \in DOMAIN q : /\ q[i] \in Call /\ q[i] \notin cs /\ D[q[i]] = C[q[i]]
                               /\ Home[q[i]] = s /\ D[q[i]].state = "open"
                               /\ D[q[i]].timer /\ ~D[q[i]].hang
        /\ \A i, j \in DOMAIN q : q[i] = q[j] => i = j
    <3>1. \A i \in DOMAIN q : i + n \in DOMAIN S.queue /\ q[i] = S.queue[i + n]
      BY <2>1, <2>2, <2>3
    <3>2. \A i, j \in DOMAIN S.queue : S.queue[i] = S.queue[j] => i = j
      BY DEF SlotInv, Waits
    <3>3. \A i, j \in DOMAIN q : q[i] = q[j] => i = j
      BY <2>2, <2>3, <3>1, <3>2
    <3>6. \A i \in DOMAIN q : q[i] \in Call
      BY <2>3
    <3>4. \A i \in DOMAIN q : q[i] \notin cs
      <4> SUFFICES ASSUME NEW i \in DOMAIN q, q[i] \in cs PROVE FALSE
        BY <2>3
      <4>1. PICK k \in 1 .. n : S.queue[k] = q[i]
        BY <2>12
      <4>2. k \in DOMAIN S.queue
        BY <2>1, <2>2
      <4>3. i + n \in DOMAIN S.queue /\ S.queue[i + n] = q[i]
        BY <3>1
      <4>4. i + n = k
        BY <3>2, <4>1, <4>2, <4>3
      <4> QED BY <2>2, <2>3, <4>1, <4>4
    <3>5. ASSUME NEW i \in DOMAIN q
          PROVE  /\ Home[q[i]] = s /\ C[q[i]].state = "open"
                 /\ C[q[i]].timer /\ ~C[q[i]].hang
      <4>1. i + n \in DOMAIN S.queue /\ q[i] = S.queue[i + n]
        BY <3>1
      <4> QED BY <4>1 DEF SlotInv, Waits
    <3> QED BY <2>6, <3>3, <3>4, <3>5, <3>6
  <2>10. CASE q = <<>>
    <3> DEFINE R == [S EXCEPT !.queue = q]
    <3>1. R \in SlotRecord /\ R.queue = <<>> /\ R.running = NoCall /\ R.worker = S.worker
          /\ R.ready = S.ready /\ R.failures = S.failures /\ R.respawn = S.respawn
      BY <1>1, <1>3, <2>10, <2>3 DEF SlotRecord
    <3>2. SlotInv(s, R, D)
      BY <2>8, <2>9, <2>10, <3>1 DEF SlotInv, Waits, Runs, Held, Serves
    <3>3. pump(S, C) = [S |-> R, C |-> D]
      BY <2>4, <2>10
    <3>4. Pumped(R)
      BY <3>1 DEF Pumped
    <3> HIDE DEF R
    <3> QED BY <1>3, <2>6, <2>7, <3>1, <3>2, <3>3, <3>4
  <2>11. CASE q # <<>>
    <3> DEFINE h == Head(q)
               R == [S EXCEPT !.queue = Tail(q), !.running = h]
               E == [D EXCEPT ![h].hang = TRUE]
    <3>1. /\ Len(q) > 0 /\ h = q[1] /\ h \in Call /\ Tail(q) \in Seq(Call)
          /\ DOMAIN Tail(q) = 1 .. Len(q) - 1
          /\ \A i \in DOMAIN Tail(q) : i + 1 \in DOMAIN q /\ Tail(q)[i] = q[i + 1]
      BY <2>3, <2>11
    <3>2. R \in SlotRecord /\ R.queue = Tail(q) /\ R.running = h /\ R.worker = S.worker
          /\ R.ready = S.ready /\ R.failures = S.failures /\ R.respawn = S.respawn
      BY <1>1, <1>3, <3>1 DEF SlotRecord
    <3>3. /\ E \in [Call -> CallRecord] /\ E[h].hang
          /\ E[h].state = D[h].state /\ E[h].timer = D[h].timer
          /\ \A c \in Call : c # h => E[c] = D[c]
      <4>1. D[h] \in CallRecord
        BY <2>6, <3>1
      <4>2. [D[h] EXCEPT !.hang = TRUE] \in CallRecord
        BY <4>1 DEF CallRecord
      <4> QED BY <2>6, <3>1, <4>1, <4>2 DEF CallRecord
    <3> HIDE DEF h, R, E
    <3>4. 1 \in DOMAIN q
      BY <2>3, <3>1
    <3>5. /\ \A i \in DOMAIN Tail(q) : Tail(q)[i] # h
          /\ \A i, j \in DOMAIN Tail(q) : Tail(q)[i] = Tail(q)[j] => i = j
      BY <2>9, <3>1, <3>4
    <3>6. Waits(s, R, E)
      BY <2>9, <3>1, <3>2, <3>3, <3>5 DEF Waits
    <3>7. Runs(s, R, E)
      BY <2>9, <3>1, <3>2, <3>3, <3>4 DEF Runs
    <3>8. Held(s, R, E)
      <4>1. \A i \in DOMAIN q : 
               i # 1 => i - 1 \in DOMAIN Tail(q) /\ Tail(q)[i - 1] = q[i]
        BY <2>3, <3>1
      <4>2. ASSUME NEW c \in Call, Home[c] = s, E[c].state = "open"
            PROVE  R.running = c \/ \E i \in DOMAIN Tail(q) : Tail(q)[i] = c
        <5>1. PICK i \in DOMAIN q : q[i] = c
          BY <2>8, <3>3, <4>2
        <5>2. CASE i = 1
          BY <3>1, <3>2, <5>1, <5>2
        <5>3. CASE i # 1
          BY <4>1, <5>1, <5>3
        <5> QED BY <5>2, <5>3
      <4>3. \A c \in Call : Home[c] = s /\ E[c].hang => R.running = c
        BY <2>8, <3>2, <3>3
      <4> QED BY <3>2, <4>2, <4>3 DEF Held
    <3>9. Serves(R)
      BY <1>3, <3>2 DEF Serves, SlotInv
    <3>10. Elsewhere(s, C, E)
      BY <2>7, <2>9, <3>1, <3>3, <3>4 DEF Elsewhere
    <3>11. Pumped(R)
      BY <3>1, <3>2 DEF Pumped, PoolAssumption
    <3>12. pump(S, C) = [S |-> R, C |-> E]
      BY <2>4, <2>11 DEF h, R, E
    <3> QED BY <1>3, <3>2, <3>3, <3>6, <3>7, <3>8, <3>9, <3>10, <3>11, <3>12 DEF SlotInv
  <2> QED BY <2>10, <2>11
<1> QED BY <1>2, <1>3

(* A slot without calls, for the rest.                                     *)
LEMMA EmptySlot ==
  ASSUME PoolAssumption, NEW s \in Slot, NEW S \in SlotRecord, NEW C \in [Call -> CallRecord],
         S.running = NoCall, S.queue = <<>>, Serves(S),
         \A c \in Call : Home[c] = s => C[c].state # "open" /\ ~C[c].hang
  PROVE  SlotInv(s, S, C) /\ Pumped(S)
<1>1. Waits(s, S, C)
  BY DEF Waits
<1>2. Runs(s, S, C) /\ Held(s, S, C)
  BY DEF Runs, Held
<1> QED BY <1>1, <1>2 DEF SlotInv, Pumped

(* drain answers what runs and what waits.                                 *)
LEMMA Drains ==
  ASSUME PoolAssumption, NEW s \in Slot, NEW C \in [Call -> CallRecord], NEW S \in SlotRecord,
         Waits(s, S, C), Held(s, S, C), S.running # NoCall => Home[S.running] = s,
         NEW reply \in Replies
  PROVE  LET d == drain(S, C, reply) IN
         /\ d.C \in [Call -> CallRecord] /\ Elsewhere(s, C, d.C)
         /\ \A c \in Call : Home[c] = s => d.C[c].state # "open" /\ ~d.C[c].hang
         /\ d.S \in SlotRecord
         /\ d.S.worker = 0 /\ ~d.S.ready /\ d.S.running = NoCall /\ d.S.queue = <<>>
         /\ d.S.failures = S.failures /\ d.S.respawn = S.respawn
<1> DEFINE R == {S.running} \cap Call
           Q == ToSet(S.queue)
           D == settle(C, R, reply)
           E == settle(D, Q, "busy")
           F == [S EXCEPT !.worker = 0, !.ready = FALSE, !.running = NoCall, !.queue = <<>>]
<1>1. drain(S, C, reply) = [S |-> F, C |-> E]
  BY DEF drain
<1>2. S.queue \in Seq(Call) /\ \A i \in DOMAIN S.queue : S.queue[i] \in Call
  BY Fields
<1>3. R \in SUBSET Call /\ Q \in SUBSET Call /\ \A c \in R \cup Q : Home[c] = s
  BY <1>2 DEF Waits, ToSet, PoolAssumption
<1>4. \A c \in Call : Home[c] = s /\ (C[c].state = "open" \/ C[c].hang) => c \in R \cup Q
  BY <1>2 DEF Held, ToSet
<1> HIDE DEF R, Q
<1>5. /\ D \in [Call -> CallRecord]
      /\ \A c \in Call : c \notin R => D[c] = C[c]
      /\ \A c \in R : D[c].state # "open" /\ ~D[c].hang
  BY <1>3, Settles
<1> HIDE DEF D
<1>6. /\ E \in [Call -> CallRecord]
      /\ \A c \in Call : c \notin Q => E[c] = D[c]
      /\ \A c \in Q : E[c].state # "open" /\ ~E[c].hang
  BY <1>3, <1>5, Settles DEF Replies
<1> HIDE DEF E
<1>7. Elsewhere(s, C, E)
  BY <1>3, <1>5, <1>6 DEF Elsewhere
<1>8. \A c \in Call : Home[c] = s => E[c].state # "open" /\ ~E[c].hang
  BY <1>3, <1>4, <1>5, <1>6
<1>9. F \in SlotRecord /\ F.worker = 0 /\ ~F.ready /\ F.running = NoCall /\ F.queue = <<>>
      /\ F.failures = S.failures /\ F.respawn = S.respawn
  <2>1. 0 \in 0 .. MaxSpawns /\ <<>> \in Seq(Call)
    BY DEF PoolAssumption
  <2> QED BY <2>1 DEF SlotRecord
<1> HIDE DEF F
<1> QED BY <1>1, <1>6, <1>7, <1>8, <1>9

(* lose leaves the slot empty; it may ask for a respawn.                   *)
LEMMA LoseKeeps ==
  ASSUME PoolAssumption, NEW s \in Slot, NEW C \in [Call -> CallRecord], NEW S \in SlotRecord,
         Waits(s, S, C), Held(s, S, C), Serves(S), S.running # NoCall => Home[S.running] = s,
         S.worker # 0, NEW loss
  PROVE  LET r == lose(S, C, loss) IN
         /\ r.C \in [Call -> CallRecord] /\ Elsewhere(s, C, r.C)
         /\ SlotInv(s, r.S, r.C) /\ Pumped(r.S)
         /\ r.S.worker = 0 /\ r.S.running = NoCall
         /\ stopped => ~r.S.respawn
<1> DEFINE reply == IF loss = "hung" THEN "deadline" ELSE "busy"
           d == drain(S, C, reply)
           R == IF stopped \/ booting THEN d.S
                ELSE [d.S EXCEPT !.failures = S.failures + 1, !.respawn = respawns(S.failures + 1)]
<1>1. lose(S, C, loss) = [S |-> R, C |-> d.C]
  BY DEF lose
<1>2. reply \in Replies
  BY DEF Replies
<1> HIDE DEF reply
<1>3. /\ d.C \in [Call -> CallRecord] /\ Elsewhere(s, C, d.C)
      /\ \A c \in Call : Home[c] = s => d.C[c].state # "open" /\ ~d.C[c].hang
      /\ d.S \in SlotRecord
      /\ d.S.worker = 0 /\ ~d.S.ready /\ d.S.running = NoCall /\ d.S.queue = <<>>
      /\ d.S.failures = S.failures /\ d.S.respawn = S.respawn
  BY <1>2, Drains
<1>4. S.failures \in Nat /\ S.failures <= RespawnLimit /\ RespawnLimit \in Nat /\ ~S.respawn
  BY Fields DEF Serves, PoolAssumption
<1> HIDE DEF d
<1>5. /\ R \in SlotRecord /\ R.worker = 0 /\ ~R.ready /\ R.running = NoCall /\ R.queue = <<>>
      /\ R.respawn => R.failures <= RespawnLimit
      /\ stopped => ~R.respawn
  <2>1. CASE stopped \/ booting
    BY <1>3, <1>4, <2>1
  <2>2. CASE ~(stopped \/ booting)
    <3>1. R = [d.S EXCEPT !.failures = S.failures + 1, !.respawn = respawns(S.failures + 1)]
      BY <2>2
    <3>2. S.failures + 1 \in 0 .. RespawnLimit + 1
      BY <1>4
    <3>3. respawns(S.failures + 1) \in BOOLEAN
          /\ (respawns(S.failures + 1) => S.failures + 1 <= RespawnLimit)
      BY DEF respawns
    <3> QED BY <1>3, <2>2, <3>1, <3>2, <3>3 DEF SlotRecord
  <2> QED BY <2>1, <2>2
<1> HIDE DEF R
<1>6. Serves(R)
  BY <1>5 DEF Serves
<1>7. SlotInv(s, R, d.C) /\ Pumped(R)
  BY <1>3, <1>5, <1>6, EmptySlot
<1> QED BY <1>1, <1>3, <1>5, <1>7

(* A slot does not notice what is done to the calls of another.            *)
LEMMA OtherSlot ==
  ASSUME PoolAssumption, NEW s \in Slot, NEW t \in Slot, s # t, NEW S, NEW C, NEW D,
         SlotInv(t, S, C), Elsewhere(s, C, D)
  PROVE  SlotInv(t, S, D)
<1>1. S \in SlotRecord /\ \A i \in DOMAIN S.queue : S.queue[i] \in Call
  BY Fields DEF SlotInv
<1>2. \A c \in Call : Home[c] = t => D[c] = C[c]
  BY DEF Elsewhere
<1>3. Waits(t, S, D)
  BY <1>1, <1>2 DEF SlotInv, Waits
<1>4. Runs(t, S, D)
  <2>1. S.running # NoCall => S.running \in Call
    BY <1>1, Fields
  <2> QED BY <1>2, <2>1 DEF SlotInv, Runs
<1>5. Held(t, S, D)
  BY <1>2 DEF SlotInv, Held
<1> QED BY <1>1, <1>3, <1>4, <1>5 DEF SlotInv

(* Storing what a helper returns keeps what holds of every slot.           *)
LEMMA PutKeeps ==
  ASSUME PoolAssumption, PoolTypeOK, SlotsInv, NEW s \in Slot, NEW r, NEW threads, Put(s, r, threads),
         r.C \in [Call -> CallRecord], Elsewhere(s, call, r.C), SlotInv(s, r.S, r.C), Pumped(r.S),
         ThreadsInv(r.S, threads)
  PROVE  /\ slot' \in [Slot -> SlotRecord] /\ call' \in [Call -> CallRecord]
         /\ proc' \in [Slot -> Seq(ThreadRecord)]
         /\ SlotsInv'
         /\ slot'[s] = r.S /\ \A t \in Slot : t # s => slot'[t] = slot[t] /\ proc'[t] = proc[t]
         /\ Len(proc'[s]) = Len(threads)
         /\ \A w \in 1 .. Len(threads) : proc'[s][w].state = threads[w].state
<1>1. slot' = [slot EXCEPT ![s] = r.S] /\ call' = r.C
  BY DEF Put
<1>2. r.S \in SlotRecord
  BY DEF SlotInv
<1>3. slot' \in [Slot -> SlotRecord] /\ slot'[s] = r.S /\ \A t \in Slot : t # s => slot'[t] = slot[t]
  BY <1>1, <1>2 DEF PoolTypeOK
<1> DEFINE T == IF r.S.running \notin {NoCall, slot[s].running}
                THEN [threads EXCEPT ![r.S.worker].cmd = r.S.running] ELSE threads
<1>4. proc' = [proc EXCEPT ![s] = T]
  BY DEF Put
<1>5. /\ T \in Seq(ThreadRecord) /\ Len(T) = Len(threads)
      /\ \A w \in 1 .. Len(threads) : T[w].state = threads[w].state /\ T[w].out = threads[w].out
  <2>1. threads \in Seq(ThreadRecord) /\ \A w \in 1 .. Len(threads) : threads[w] \in ThreadRecord
    BY DEF ThreadsInv
  <2>2. CASE r.S.running \notin {NoCall, slot[s].running}
    <3>1. r.S.worker \in 1 .. Len(threads) /\ r.S.running \in Call
      <4>1. r.S.worker \in Nat /\ r.S.worker # 0 /\ r.S.running \in Call
        BY <1>2, <2>2, Fields DEF SlotInv, Serves
      <4> QED BY <2>1, <4>1 DEF ThreadsInv
    <3> DEFINE w == r.S.worker
    <3>2. [threads[w] EXCEPT !.cmd = r.S.running] \in ThreadRecord
          /\ [threads[w] EXCEPT !.cmd = r.S.running].state = threads[w].state
          /\ [threads[w] EXCEPT !.cmd = r.S.running].out = threads[w].out
      BY <2>1, <3>1 DEF ThreadRecord
    <3>3. T = [threads EXCEPT ![w] = [threads[w] EXCEPT !.cmd = r.S.running]]
      BY <2>1, <2>2, <3>1
    <3> HIDE DEF w, T
    <3>4. w \in 1 .. Len(threads)
      BY <3>1 DEF w
    <3> QED BY <2>1, <3>2, <3>3, <3>4
  <2>3. CASE ~(r.S.running \notin {NoCall, slot[s].running})
    BY <2>1, <2>3
  <2> QED BY <2>2, <2>3
<1> HIDE DEF T
<1>6. proc' \in [Slot -> Seq(ThreadRecord)] /\ proc'[s] = T
      /\ \A t \in Slot : t # s => proc'[t] = proc[t]
  BY <1>4, <1>5 DEF PoolTypeOK
<1>7. ThreadsInv(r.S, T)
  BY <1>5 DEF ThreadsInv
<1>8. SlotsInv'
  <2> SUFFICES ASSUME NEW t \in Slot
               PROVE  SlotInv(t, slot'[t], call') /\ Pumped(slot'[t]) /\ ThreadsInv(slot'[t], proc'[t])
    BY DEF SlotsInv, SlotInv, Waits, Runs, Held, Serves, Pumped, ThreadsInv
  <2>1. CASE t = s
    BY <1>1, <1>3, <1>6, <1>7, <2>1
  <2>2. CASE t # s
    <3>1. SlotInv(t, slot[t], call) /\ Pumped(slot[t]) /\ ThreadsInv(slot[t], proc[t])
      BY DEF SlotsInv
    <3>2. SlotInv(t, slot[t], r.C)
      BY <2>2, <3>1, OtherSlot
    <3> QED BY <1>1, <1>3, <1>6, <2>2, <3>1, <3>2
  <2> QED BY <2>1, <2>2
<1> QED BY <1>1, <1>3, <1>5, <1>6, <1>8

-----------------------------------------------------------------------------
(* The steps.                                                              *)

(* The counters and the boot keep their types.                             *)
Rest == <<booted, phase, turnOf, crashes>>

(* A pool that closes does not notice a step that gives no closed slot a   *)
(* worker, brings nothing to life and lets it wait for nothing new.        *)
LEMMA DisposalKept ==
  ASSUME PoolAssumption, PoolTypeOK, Disposal, UNCHANGED turnOf,
         phase' = phase \/ (phase = "boot" /\ phase' \in {"up", "failed"}),
         \A s \in Slot :
            /\ slot[s].worker = 0 /\ ~slot[s].respawn /\ stopped =>
                  slot'[s].worker = 0 /\ ~slot'[s].respawn
            /\ \A w \in 1 .. Len(proc'[s]) :
                  /\ proc'[s][w].state = "ending" =>
                        w \in 1 .. Len(proc[s]) /\ proc[s][w].state = "ending"
                  /\ stopped /\ proc'[s][w].state \in {"loading", "serving"} =>
                        w \in 1 .. Len(proc[s]) /\ proc[s][w].state \in {"loading", "serving"}
  PROVE  Disposal'
<1>1. OnlyAwaitedEnds'
  BY DEF Disposal, OnlyAwaitedEnds
<1>2. NoneEnds => NoneEnds'
  BY DEF NoneEnds
<1>3. CASE phase' = phase
  <2>1. phase \in {"disposing", "disposed"} =>
          \A s \in Slot : s <= turnOf.slot => slot'[s].worker = 0 /\ ~slot'[s].respawn
    BY DEF Disposal, stopped
  <2>2. ASSUME phase \in {"failed", "aborted"}, NEW s \in Slot, s <= turnOf.slot
        PROVE  Told(proc'[s])
    BY <2>2 DEF Disposal, Told, stopped
  <2> QED BY <1>1, <1>2, <1>3, <2>1, <2>2 DEF Disposal, Told
<1>4. CASE phase = "boot" /\ phase' \in {"up", "failed"}
  <2>1. turnOf.slot = 0 /\ \A s \in Slot : ~(s <= 0)
    BY <1>4 DEF Disposal, Slot, PoolAssumption
  <2> QED BY <1>1, <1>4, <2>1 DEF Disposal
<1> QED BY <1>3, <1>4

(* What a slot with a worker does keeps the invariant.                     *)
LEMMA StoreKeeps ==
  ASSUME PoolAssumption, NInv, NEW s \in Slot, slot[s].worker # 0, NEW r, NEW threads,
         Put(s, r, threads),
         r.C \in [Call -> CallRecord], Elsewhere(s, call, r.C), SlotInv(s, r.S, r.C), Pumped(r.S),
         ThreadsInv(r.S, threads), Len(threads) = Len(proc[s]),
         \A w \in 1 .. Len(threads) :
            /\ threads[w].state = "ending" => proc[s][w].state = "ending"
            /\ threads[w].state \in {"loading", "serving"} =>
                  proc[s][w].state \in {"loading", "serving"},
         booted' \subseteq Slot, UNCHANGED <<turnOf, crashes>>,
         phase' = phase \/ (phase = "boot" /\ phase' \in {"up", "failed"})
  PROVE  NInv'
<1>1. /\ slot' \in [Slot -> SlotRecord] /\ call' \in [Call -> CallRecord]
      /\ proc' \in [Slot -> Seq(ThreadRecord)] /\ SlotsInv'
      /\ \A t \in Slot : t # s => slot'[t] = slot[t] /\ proc'[t] = proc[t]
      /\ Len(proc'[s]) = Len(threads)
      /\ \A w \in 1 .. Len(threads) : proc'[s][w].state = threads[w].state
  BY PutKeeps DEF NInv
<1>2. Disposal'
  <2>1. \A t \in Slot : slot[t].worker = 0 => slot'[t] = slot[t]
    BY <1>1
  <2>2. ASSUME NEW t \in Slot, NEW w \in 1 .. Len(proc'[t])
        PROVE  /\ w \in 1 .. Len(proc[t])
               /\ proc'[t][w].state = "ending" => proc[t][w].state = "ending"
               /\ proc'[t][w].state \in {"loading", "serving"} =>
                     proc[t][w].state \in {"loading", "serving"}
    <3>1. CASE t = s
      BY <1>1, <3>1
    <3>2. CASE t # s
      BY <1>1, <3>2
    <3> QED BY <3>1, <3>2
  <2> QED BY <2>1, <2>2, DisposalKept DEF NInv
<1> QED BY <1>1, <1>2 DEF NInv, PoolTypeOK

(* A call is refused, or waits in its slot.                                *)
LEMMA SendKeeps == ASSUME PoolAssumption, NInv, NEW c \in Call, send(c) PROVE NInv'
<1> DEFINE s == Home[c]
<1>1. s \in Slot /\ slot[s] \in SlotRecord /\ call[c].state = "new"
  BY DEF PoolAssumption, NInv, PoolTypeOK, send
<1>2. SlotInv(s, slot[s], call) /\ Pumped(slot[s]) /\ ThreadsInv(slot[s], proc[s])
  BY <1>1 DEF NInv, SlotsInv
<1> HIDE DEF s
<1>3. c # slot[s].running /\ \A i \in DOMAIN slot[s].queue : slot[s].queue[i] # c
  BY <1>1, <1>2 DEF SlotInv, Waits, Runs, PoolAssumption
<1>4. ~call[c].hang
  BY <1>1, <1>2, <1>3 DEF SlotInv, Held, s
<1>5. CASE refuse(c)
  <2>1. call' \in [Call -> CallRecord] /\ call'[c].state = "answered" /\ ~call'[c].hang
        /\ \A d \in Call : d # c => call'[d] = call[d]
    BY <1>4, <1>5 DEF refuse, NInv, PoolTypeOK, CallRecord
  <2>2. UNCHANGED <<slot, proc, booted, phase, turnOf, crashes>>
    BY <1>5 DEF refuse, send
  <2>3. PoolTypeOK'
    BY <2>1, <2>2 DEF NInv, PoolTypeOK
  <2>4. SlotInv(s, slot[s], call')
    <3>1. slot[s].running \in Call \cup {NoCall} /\ slot[s].queue \in Seq(Call)
      BY <1>1, Fields
    <3>2. \A i \in DOMAIN slot[s].queue : slot[s].queue[i] \in Call
      BY <3>1
    <3>3. Waits(s, slot[s], call')
      BY <1>2, <1>3, <2>1, <3>2 DEF SlotInv, Waits
    <3>4. Runs(s, slot[s], call')
      BY <1>2, <1>3, <2>1, <3>1 DEF SlotInv, Runs
    <3>5. Held(s, slot[s], call')
      BY <1>2, <2>1 DEF SlotInv, Held
    <3> QED BY <1>2, <3>3, <3>4, <3>5 DEF SlotInv
  <2>5. \A t \in Slot : SlotInv(t, slot[t], call')
    <3> SUFFICES ASSUME NEW t \in Slot, t # s PROVE SlotInv(t, slot[t], call')
      BY <2>4
    <3>1. SlotInv(t, slot[t], call)
      BY DEF NInv, SlotsInv
    <3>2. Elsewhere(s, call, call')
      BY <2>1 DEF Elsewhere, s
    <3> QED BY <1>1, <3>1, <3>2, OtherSlot
  <2>6. SlotsInv'
    BY <2>2, <2>5 DEF NInv, SlotsInv
  <2>7. Disposal'
    BY <2>2 DEF NInv, Disposal, OnlyAwaitedEnds, NoneEnds, Told
  <2> QED BY <2>3, <2>6, <2>7 DEF NInv
<1>6. ASSUME NEW late \in BOOLEAN, ~stopped, slot[s].ready,
             Put(s, pump([slot[s] EXCEPT !.queue = Append(@, c)],
                         [call EXCEPT ![c].state = "open", ![c].timer = TRUE, ![c].expired = late]),
                 proc[s])
      PROVE  NInv'
  <2> DEFINE S == [slot[s] EXCEPT !.queue = Append(@, c)]
             C == [call EXCEPT ![c].state = "open", ![c].timer = TRUE, ![c].expired = late]
             r == pump(S, C)
  <2>1. /\ C \in [Call -> CallRecord] /\ C[c].state = "open" /\ C[c].timer /\ ~C[c].hang
        /\ \A d \in Call : d # c => C[d] = call[d]
    <3> DEFINE p == [call[c] EXCEPT !.state = "open", !.timer = TRUE, !.expired = late]
    <3>1. call \in [Call -> CallRecord] /\ call[c] \in CallRecord
      BY DEF NInv, PoolTypeOK
    <3>2. p \in CallRecord /\ p.state = "open" /\ p.timer /\ p.hang = call[c].hang
      BY <3>1 DEF CallRecord
    <3>3. C = [call EXCEPT ![c] = p]
      BY <3>1
    <3> HIDE DEF C, p
    <3> QED BY <1>4, <3>1, <3>2, <3>3
  <2>2. slot[s].queue \in Seq(Call)
    BY <1>1, Fields
  <2>3. /\ S \in SlotRecord /\ S.queue = Append(slot[s].queue, c) /\ S.running = slot[s].running
        /\ S.worker = slot[s].worker /\ S.ready = slot[s].ready /\ S.failures = slot[s].failures
        /\ S.respawn = slot[s].respawn
    <3>1. Append(slot[s].queue, c) \in Seq(Call)
      BY <2>2
    <3> QED BY <1>1, <3>1 DEF SlotRecord
  <2> HIDE DEF S, C
  <2>4. /\ DOMAIN S.queue = 1 .. Len(slot[s].queue) + 1 /\ S.queue[Len(slot[s].queue) + 1] = c
        /\ \A i \in DOMAIN slot[s].queue : i \in DOMAIN S.queue /\ S.queue[i] = slot[s].queue[i]
        /\ \A i \in DOMAIN S.queue :
              i \in DOMAIN slot[s].queue \/ i = Len(slot[s].queue) + 1
    BY <2>2, <2>3
  <2>5. Waits(s, S, C)
    <3>1. \A i \in DOMAIN slot[s].queue : slot[s].queue[i] \in Call
      BY <2>2
    <3>2. \A i \in DOMAIN slot[s].queue :
             LET d == slot[s].queue[i] IN
             d # c /\ Home[d] = s /\ C[d].state = "open" /\ C[d].timer /\ ~C[d].hang
      BY <1>2, <1>3, <2>1, <3>1 DEF SlotInv, Waits
    <3>3. \A i \in DOMAIN S.queue :
             /\ Home[S.queue[i]] = s /\ C[S.queue[i]].state = "open"
             /\ C[S.queue[i]].timer /\ ~C[S.queue[i]].hang
      BY <2>1, <2>4, <3>2 DEF s
    <3>4. \A i, j \in DOMAIN slot[s].queue : slot[s].queue[i] = slot[s].queue[j] => i = j
      BY <1>2 DEF SlotInv, Waits
    <3>5. \A i, j \in DOMAIN S.queue : S.queue[i] = S.queue[j] => i = j
      BY <2>4, <3>2, <3>4
    <3> QED BY <3>3, <3>5 DEF Waits
  <2>6. Runs(s, S, C)
    BY <1>1, <1>2, <1>3, <2>1, <2>3, Fields DEF SlotInv, Runs
  <2>7. Held(s, S, C)
    <3>1. ASSUME NEW d \in Call, Home[d] = s, C[d].state = "open"
          PROVE  S.running = d \/ \E i \in DOMAIN S.queue : S.queue[i] = d
      <4>1. CASE d = c
        <5>1. Len(slot[s].queue) + 1 \in DOMAIN S.queue
          BY <2>2, <2>4
        <5> QED BY <2>4, <4>1, <5>1
      <4>2. CASE d # c
        BY <1>2, <2>1, <2>3, <2>4, <3>1, <4>2 DEF SlotInv, Held
      <4> QED BY <4>1, <4>2
    <3>2. \A d \in Call : Home[d] = s /\ C[d].hang => S.running = d
      BY <1>2, <2>1, <2>3 DEF SlotInv, Held
    <3> QED BY <3>1, <3>2 DEF Held
  <2>8. Serves(S)
    BY <1>2, <1>6, <2>3 DEF SlotInv, Serves
  <2>9. SlotInv(s, S, C)
    BY <2>3, <2>5, <2>6, <2>7, <2>8 DEF SlotInv
  <2>10. /\ r.C \in [Call -> CallRecord] /\ Elsewhere(s, C, r.C)
         /\ SlotInv(s, r.S, r.C) /\ Pumped(r.S)
         /\ r.S.worker = S.worker /\ r.S.respawn = S.respawn
    BY <1>1, <2>1, <2>9, PumpKeeps
  <2>11. Put(s, r, proc[s])
    BY <1>6 DEF S, C
  <2> HIDE DEF r
  <2>12. Elsewhere(s, call, r.C)
    BY <2>1, <2>10 DEF Elsewhere, s
  <2>13. ThreadsInv(r.S, proc[s])
    BY <1>2, <2>3, <2>10 DEF ThreadsInv
  <2>14. UNCHANGED Rest /\ slot[s].worker # 0 /\ booted \subseteq Slot
    BY <1>2, <1>6 DEF send, Rest, SlotInv, Serves, NInv, PoolTypeOK
  <2> QED BY <1>1, <2>10, <2>11, <2>12, <2>13, <2>14, StoreKeeps DEF Rest
<1> QED BY <1>5, <1>6 DEF send, s

(* The clock passes a deadline.                                            *)
LEMMA ExpireKeeps == ASSUME PoolAssumption, NInv, NEW c \in Call, expire(c) PROVE NInv'
<1>1. /\ call' \in [Call -> CallRecord]
      /\ \A d \in Call : /\ call'[d].state = call[d].state /\ call'[d].timer = call[d].timer
                         /\ call'[d].hang = call[d].hang
  <2> DEFINE p == [call[c] EXCEPT !.expired = TRUE]
  <2>1. call \in [Call -> CallRecord] /\ call[c] \in CallRecord
    BY DEF NInv, PoolTypeOK
  <2>2. p \in CallRecord /\ p.state = call[c].state /\ p.timer = call[c].timer /\ p.hang = call[c].hang
    BY <2>1 DEF CallRecord
  <2>3. call' = [call EXCEPT ![c] = p]
    BY <2>1 DEF expire
  <2> HIDE DEF p
  <2> QED BY <2>1, <2>2, <2>3
<1>2. UNCHANGED <<slot, proc, booted, phase, turnOf, crashes>>
  BY DEF expire
<1>3. ASSUME NEW t \in Slot PROVE SlotInv(t, slot[t], call')
  <2>1. SlotInv(t, slot[t], call) /\ slot[t] \in SlotRecord
    BY DEF NInv, SlotsInv, SlotInv
  <2>2. slot[t].running \in Call \cup {NoCall} /\ \A i \in DOMAIN slot[t].queue : slot[t].queue[i] \in Call
    BY <2>1, Fields
  <2>3. Waits(t, slot[t], call')
    BY <1>1, <2>1, <2>2 DEF SlotInv, Waits
  <2>4. Runs(t, slot[t], call')
    BY <1>1, <2>1, <2>2 DEF SlotInv, Runs
  <2>5. Held(t, slot[t], call')
    BY <1>1, <2>1 DEF SlotInv, Held
  <2> QED BY <2>1, <2>3, <2>4, <2>5 DEF SlotInv
<1>4. SlotsInv'
  BY <1>2, <1>3 DEF NInv, SlotsInv
<1>5. Disposal'
  BY <1>2 DEF NInv, Disposal, OnlyAwaitedEnds, NoneEnds, Told
<1> QED BY <1>1, <1>2, <1>4, <1>5 DEF NInv, PoolTypeOK

(* A call is answered at its deadline and leaves the queue.                *)
LEMMA DeadlineKeeps == ASSUME PoolAssumption, NInv, NEW c \in Call, deadline(c) PROVE NInv'
<1> DEFINE s == Home[c]
           q == slot[s].queue
           S == [slot[s] EXCEPT !.queue = Without(q, c)]
<1>1. s \in Slot /\ slot[s] \in SlotRecord /\ call \in [Call -> CallRecord] /\ call[c] \in CallRecord
  BY DEF PoolAssumption, NInv, PoolTypeOK
<1>2. SlotInv(s, slot[s], call) /\ Pumped(slot[s]) /\ ThreadsInv(slot[s], proc[s])
  BY <1>1 DEF NInv, SlotsInv
<1>3. UNCHANGED <<proc, booted, phase, turnOf, crashes>>
  BY DEF deadline
<1>4. slot' = [slot EXCEPT ![s] = S]
  BY <1>1 DEF deadline, NInv, PoolTypeOK
<1> HIDE DEF s
<1>5. /\ call' \in [Call -> CallRecord]
      /\ call'[c].state # "open" /\ call'[c].hang = call[c].hang
      /\ call[c].state # "new" => call'[c].state # "new"
      /\ \A d \in Call : d # c => call'[d] = call[d]
  <2> DEFINE p == [Answered(call[c], "deadline") EXCEPT !.timer = FALSE]
  <2>1. /\ p \in CallRecord /\ p.state # "open" /\ p.hang = call[c].hang
        /\ call[c].state # "new" => p.state # "new"
    <3>1. CASE call[c].state = "open"
      BY <1>1, <3>1 DEF Answered, CallRecord
    <3>2. CASE call[c].state # "open"
      BY <1>1, <3>2 DEF Answered, CallRecord
    <3> QED BY <3>1, <3>2
  <2>2. call' = [call EXCEPT ![c] = p]
    BY <1>1 DEF deadline
  <2> HIDE DEF p
  <2> QED BY <1>1, <2>1, <2>2
<1> DEFINE r == Without(q, c)
<1>6. q \in Seq(Call) /\ slot[s].running \in Call \cup {NoCall}
  BY <1>1, Fields
<1>7. /\ r \in Seq(Call)
      /\ \A i, j \in DOMAIN r : r[i] = r[j] => i = j
      /\ \A i \in DOMAIN r : r[i] # c /\ \E j \in DOMAIN q : r[i] = q[j]
      /\ \A j \in DOMAIN q : q[j] # c => \E i \in DOMAIN r : r[i] = q[j]
      /\ Len(r) > 0 => Len(q) > 0
  BY <1>2, <1>6, WithoutOne DEF SlotInv, Waits
<1>8. /\ S \in SlotRecord /\ S.queue = r /\ S.running = slot[s].running
      /\ S.worker = slot[s].worker /\ S.ready = slot[s].ready /\ S.failures = slot[s].failures
      /\ S.respawn = slot[s].respawn
  BY <1>1, <1>7 DEF SlotRecord
<1> HIDE DEF S, r
<1>9. \A i \in DOMAIN q : q[i] \in Call
  BY <1>6
<1>10. Waits(s, S, call')
  <2>1. \A i \in DOMAIN r : /\ r[i] \in Call /\ Home[r[i]] = s /\ call[r[i]].state = "open"
                            /\ call[r[i]].timer /\ ~call[r[i]].hang
    BY <1>2, <1>7, <1>9 DEF SlotInv, Waits
  <2> QED BY <1>5, <1>7, <1>8, <2>1 DEF Waits
<1>11. Runs(s, S, call')
  <2>1. CASE slot[s].running = c
    BY <1>2, <1>5, <1>8, <2>1 DEF SlotInv, Runs
  <2>2. CASE slot[s].running # c
    BY <1>2, <1>5, <1>6, <1>8, <2>2 DEF SlotInv, Runs
  <2> QED BY <2>1, <2>2
<1>12. Held(s, S, call')
  <2>1. ASSUME NEW d \in Call, Home[d] = s, call'[d].state = "open"
        PROVE  S.running = d \/ \E i \in DOMAIN S.queue : S.queue[i] = d
    BY <1>2, <1>5, <1>7, <1>8, <2>1 DEF SlotInv, Held
  <2>2. \A d \in Call : Home[d] = s /\ call'[d].hang => S.running = d
    BY <1>2, <1>5, <1>8 DEF SlotInv, Held
  <2> QED BY <2>1, <2>2 DEF Held
<1>13. Serves(S) /\ Pumped(S)
  <2>1. Serves(S)
    BY <1>2, <1>7, <1>8 DEF SlotInv, Serves
  <2>2. S.ready /\ S.running = NoCall => Len(r) = 0
    <3>1. slot[s].ready /\ slot[s].running = NoCall => Len(q) = 0
      BY <1>2 DEF Pumped
    <3> QED BY <1>6, <1>7, <1>8, <3>1
  <2>3. Len(r) = 0 => r = <<>>
    BY <1>7
  <2> QED BY <1>8, <2>1, <2>2, <2>3 DEF Pumped
<1>14. SlotInv(s, S, call')
  BY <1>8, <1>10, <1>11, <1>12, <1>13 DEF SlotInv
<1>15. slot' \in [Slot -> SlotRecord] /\ slot'[s] = S /\ \A t \in Slot : t # s => slot'[t] = slot[t]
  BY <1>1, <1>4, <1>8 DEF NInv, PoolTypeOK, S, r
<1>16. SlotsInv'
  <2> SUFFICES ASSUME NEW t \in Slot
               PROVE  SlotInv(t, slot'[t], call') /\ Pumped(slot'[t]) /\ ThreadsInv(slot'[t], proc[t])
    BY <1>3 DEF SlotsInv
  <2>1. CASE t = s
    BY <1>2, <1>8, <1>13, <1>14, <1>15, <2>1 DEF ThreadsInv
  <2>2. CASE t # s
    <3>1. SlotInv(t, slot[t], call) /\ Pumped(slot[t]) /\ ThreadsInv(slot[t], proc[t])
      BY DEF NInv, SlotsInv
    <3>2. Elsewhere(s, call, call')
      BY <1>5 DEF Elsewhere, s
    <3> QED BY <1>1, <1>15, <2>2, <3>1, <3>2, OtherSlot
  <2> QED BY <2>1, <2>2
<1>17. Disposal'
  <2>1. \A t \in Slot : slot'[t].worker = slot[t].worker /\ slot'[t].respawn = slot[t].respawn
    BY <1>8, <1>15
  <2> QED BY <1>3, <2>1 DEF NInv, Disposal, OnlyAwaitedEnds, NoneEnds, Told
<1> QED BY <1>3, <1>5, <1>15, <1>16, <1>17 DEF NInv, PoolTypeOK

(* One thread moves on; nothing comes to life or is told to end.           *)
LEMMA ThreadKeeps ==
  ASSUME PoolAssumption, NInv, NEW s \in Slot, NEW w \in Worker(s), NEW t \in ThreadRecord,
         proc' = [proc EXCEPT ![s][w] = t],
         UNCHANGED <<slot, call, booted, phase, turnOf>>, crashes' \in 0 .. MaxCrashes,
         t.state \in {"loading", "serving"} => proc[s][w].state \in {"loading", "serving"},
         t.state = "ending" => proc[s][w].state = "ending",
         \A i \in DOMAIN t.out : t.out[i] = "gone" => t.state = "dead"
  PROVE  NInv'
<1>1. proc \in [Slot -> Seq(ThreadRecord)] /\ proc[s] \in Seq(ThreadRecord) /\ w \in 1 .. Len(proc[s])
  BY DEF NInv, PoolTypeOK, Worker
<1> DEFINE T == [proc[s] EXCEPT ![w] = t]
<1>2. proc' = [proc EXCEPT ![s] = T]
  BY <1>1
<1>3. /\ T \in Seq(ThreadRecord) /\ Len(T) = Len(proc[s]) /\ T[w] = t
      /\ \A x \in 1 .. Len(proc[s]) : x # w => T[x] = proc[s][x]
  BY <1>1
<1> HIDE DEF T
<1>4. /\ proc' \in [Slot -> Seq(ThreadRecord)] /\ proc'[s] = T
      /\ \A u \in Slot : u # s => proc'[u] = proc[u]
  BY <1>1, <1>2, <1>3
<1>5. ThreadsInv(slot[s], T)
  BY <1>3 DEF NInv, SlotsInv, ThreadsInv
<1>6. SlotsInv'
  <2> SUFFICES ASSUME NEW u \in Slot
               PROVE  SlotInv(u, slot[u], call) /\ Pumped(slot[u]) /\ ThreadsInv(slot[u], proc'[u])
    BY DEF SlotsInv
  <2>1. SlotInv(u, slot[u], call) /\ Pumped(slot[u]) /\ ThreadsInv(slot[u], proc[u])
    BY DEF NInv, SlotsInv
  <2> QED BY <1>4, <1>5, <2>1
<1>7. ASSUME NEW u \in Slot, NEW x \in 1 .. Len(proc'[u])
      PROVE  /\ x \in 1 .. Len(proc[u])
             /\ proc'[u][x].state = "ending" => proc[u][x].state = "ending"
             /\ proc'[u][x].state \in {"loading", "serving"} =>
                   proc[u][x].state \in {"loading", "serving"}
  <2>1. CASE u = s
    BY <1>1, <1>3, <1>4, <2>1
  <2>2. CASE u # s
    BY <1>4, <2>2
  <2> QED BY <2>1, <2>2
<1>8. Disposal'
  <2>1. phase' = phase /\ turnOf' = turnOf /\ slot' = slot
    OBVIOUS
  <2> QED BY <1>7, <2>1, DisposalKept DEF NInv
<1> QED BY <1>4, <1>6, <1>8 DEF NInv, PoolTypeOK

(* An event that was received.                                             *)
LEMMA ReceivedEvent ==
  ASSUME PoolAssumption, NInv, NEW s \in Slot, NEW w, Inbox(s, w)
  PROVE  /\ w \in 1 .. Len(proc[s]) /\ proc[s] \in Seq(ThreadRecord)
         /\ Event(s, w) \in Call \cup {"ready", "gone"}
         /\ Event(s, w) = "gone" => proc[s][w].state = "dead"
         /\ LET T == Received(s, w) IN
            /\ T \in Seq(ThreadRecord) /\ Len(T) = Len(proc[s])
            /\ T = [proc[s] EXCEPT ![w] = T[w]]
            /\ \A x \in 1 .. Len(T) : /\ T[x].state = proc[s][x].state
                                      /\ \A i \in DOMAIN T[x].out : T[x].out[i] = "gone" => T[x].state = "dead"
<1>1. w \in 1 .. Len(proc[s]) /\ proc[s][w].out # <<>>
  BY DEF Inbox
<1>2. proc[s] \in Seq(ThreadRecord) /\ proc[s][w] \in ThreadRecord
  BY <1>1 DEF NInv, PoolTypeOK
<1>3. \A x \in 1 .. Len(proc[s]) : \A i \in DOMAIN proc[s][x].out :
         proc[s][x].out[i] = "gone" => proc[s][x].state = "dead"
  BY DEF NInv, SlotsInv, ThreadsInv
<1>4. proc[s][w].out \in Seq(Call \cup {"ready", "gone"})
  BY <1>2 DEF ThreadRecord
<1>5. Event(s, w) = proc[s][w].out[1] /\ 1 \in DOMAIN proc[s][w].out
      /\ Event(s, w) \in Call \cup {"ready", "gone"}
  BY <1>1, <1>4 DEF Event
<1> DEFINE t == [proc[s][w] EXCEPT !.out = Tail(@)]
           T == Received(s, w)
<1>6. /\ Tail(proc[s][w].out) \in Seq(Call \cup {"ready", "gone"})
      /\ \A i \in DOMAIN Tail(proc[s][w].out) :
            i + 1 \in DOMAIN proc[s][w].out /\ Tail(proc[s][w].out)[i] = proc[s][w].out[i + 1]
  BY <1>1, <1>4
<1>7. t \in ThreadRecord /\ t.state = proc[s][w].state /\ t.out = Tail(proc[s][w].out)
  BY <1>2, <1>6 DEF ThreadRecord
<1>8. T = [proc[s] EXCEPT ![w] = t]
  BY <1>1, <1>2 DEF Received
<1> HIDE DEF t, T
<1>9. /\ T \in Seq(ThreadRecord) /\ Len(T) = Len(proc[s]) /\ T[w] = t
      /\ \A x \in 1 .. Len(proc[s]) : x # w => T[x] = proc[s][x]
  BY <1>1, <1>2, <1>7, <1>8
<1>10. \A i \in DOMAIN t.out : t.out[i] = "gone" => t.state = "dead"
  BY <1>1, <1>3, <1>6, <1>7
<1>11. /\ T \in Seq(ThreadRecord) /\ Len(T) = Len(proc[s]) /\ T = [proc[s] EXCEPT ![w] = T[w]]
       /\ \A x \in 1 .. Len(T) : /\ T[x].state = proc[s][x].state
                                 /\ \A i \in DOMAIN T[x].out : T[x].out[i] = "gone" => T[x].state = "dead"
  <2> SUFFICES ASSUME NEW x \in 1 .. Len(proc[s])
               PROVE  /\ T[x].state = proc[s][x].state
                      /\ \A i \in DOMAIN T[x].out : T[x].out[i] = "gone" => T[x].state = "dead"
    BY <1>8, <1>9
  <2>1. CASE x = w
    BY <1>7, <1>9, <1>10, <2>1
  <2>2. CASE x # w
    BY <1>3, <1>9, <2>2
  <2> QED BY <2>1, <2>2
<1>12. T = Received(s, w)
  BY DEF T
<1>13. Event(s, w) = "gone" => proc[s][w].state = "dead"
  BY <1>1, <1>3, <1>5
<1> QED BY <1>1, <1>2, <1>5, <1>11, <1>12, <1>13

(* An event that is dropped, from another worker or for another command.   *)
LEMMA DroppedKeeps ==
  ASSUME PoolAssumption, NInv, NEW s \in Slot, NEW w, Inbox(s, w),
         proc' = [proc EXCEPT ![s] = Received(s, w)],
         UNCHANGED <<slot, call, booted, phase, turnOf, crashes>>
  PROVE  NInv'
<1> DEFINE T == Received(s, w)
<1>1. /\ w \in 1 .. Len(proc[s]) /\ proc[s] \in Seq(ThreadRecord)
      /\ T \in Seq(ThreadRecord) /\ Len(T) = Len(proc[s]) /\ T = [proc[s] EXCEPT ![w] = T[w]]
      /\ \A x \in 1 .. Len(T) : /\ T[x].state = proc[s][x].state
                                /\ \A i \in DOMAIN T[x].out : T[x].out[i] = "gone" => T[x].state = "dead"
  BY ReceivedEvent
<1>2. proc' = [proc EXCEPT ![s] = T]
  OBVIOUS
<1> HIDE DEF T
<1>3. T[w] \in ThreadRecord /\ w \in Worker(s)
  BY <1>1 DEF Worker
<1>4. proc \in [Slot -> Seq(ThreadRecord)] /\ crashes \in 0 .. MaxCrashes
  BY DEF NInv, PoolTypeOK
<1>5. proc' = [proc EXCEPT ![s][w] = T[w]]
  BY <1>1, <1>2, <1>4
<1>6. /\ T[w].state = proc[s][w].state
      /\ \A i \in DOMAIN T[w].out : T[w].out[i] = "gone" => T[w].state = "dead"
  BY <1>1
<1> QED BY <1>3, <1>4, <1>5, <1>6, ThreadKeeps

(* The worker of a slot is told to end.                                    *)
LEMMA Terminated ==
  ASSUME PoolAssumption, NInv, NEW s \in Slot, NEW e \in {"hung", "ending"}
  PROVE  LET T == Terminate(proc[s], slot[s].worker, e) IN
         /\ T \in Seq(ThreadRecord) /\ Len(T) = Len(proc[s])
         /\ \A x \in 1 .. Len(T) :
               /\ T[x].state \notin {"loading", "serving"}
               /\ T[x].state = "ending" =>
                     proc[s][x].state = "ending" \/ (e = "ending" /\ x = slot[s].worker)
               /\ \A i \in DOMAIN T[x].out : T[x].out[i] = "gone" => T[x].state = "dead"
<1> DEFINE w == slot[s].worker
           T == Terminate(proc[s], w, e)
<1>1. proc[s] \in Seq(ThreadRecord) /\ ThreadsInv(slot[s], proc[s]) /\ w \in 0 .. MaxSpawns
  BY Fields DEF NInv, PoolTypeOK, SlotsInv
<1>2. \A x \in 1 .. Len(proc[s]) :
         /\ proc[s][x] \in ThreadRecord
         /\ proc[s][x].state \in {"loading", "serving"} => w = x
         /\ \A i \in DOMAIN proc[s][x].out : proc[s][x].out[i] = "gone" => proc[s][x].state = "dead"
  BY <1>1 DEF ThreadsInv
<1>3. CASE w = 0
  <2>1. T = proc[s] /\ \A x \in 1 .. Len(proc[s]) : x # w
    BY <1>1, <1>3 DEF Terminate
  <2> QED BY <1>1, <1>2, <2>1
<1>4. CASE w # 0
  <2>1. w \in 1 .. Len(proc[s])
    BY <1>1, <1>4 DEF ThreadsInv
  <2>2. CASE proc[s][w].state = "dead"
    <3>1. T = proc[s]
      BY <2>2 DEF Terminate
    <3> HIDE DEF T
    <3>2. \A x \in 1 .. Len(proc[s]) : proc[s][x].state \notin {"loading", "serving"}
      BY <1>2, <2>2
    <3> QED BY <1>1, <1>2, <3>1, <3>2 DEF T
  <2>3. CASE proc[s][w].state # "dead"
    <3> DEFINE t == [proc[s][w] EXCEPT !.state = e]
    <3>1. t \in ThreadRecord /\ t.state = e /\ t.out = proc[s][w].out
      BY <1>2, <2>1 DEF ThreadRecord
    <3>2. T = [proc[s] EXCEPT ![w] = t]
      BY <1>1, <1>4, <2>1, <2>3 DEF Terminate
    <3> HIDE DEF t, T
    <3>3. /\ T \in Seq(ThreadRecord) /\ Len(T) = Len(proc[s]) /\ T[w] = t
          /\ \A x \in 1 .. Len(proc[s]) : x # w => T[x] = proc[s][x]
      BY <1>1, <2>1, <3>1, <3>2
    <3>4. ASSUME NEW x \in 1 .. Len(T)
          PROVE  /\ T[x].state \notin {"loading", "serving"}
                 /\ T[x].state = "ending" => proc[s][x].state = "ending" \/ (e = "ending" /\ x = w)
                 /\ \A i \in DOMAIN T[x].out : T[x].out[i] = "gone" => T[x].state = "dead"
      <4>1. CASE x = w
        BY <1>2, <2>1, <2>3, <3>1, <3>3, <4>1
      <4>2. CASE x # w
        BY <1>2, <3>3, <4>2
      <4> QED BY <4>1, <4>2
    <3> QED BY <3>3, <3>4 DEF T
  <2> QED BY <2>2, <2>3
<1> QED BY <1>3, <1>4

(* A worker that hangs is terminated and lost.                             *)
LEMMA HungKeeps == ASSUME PoolAssumption, NInv, NEW c \in Call, hung(c) PROVE NInv'
<1> DEFINE s == Home[c]
           C == [call EXCEPT ![c].hang = FALSE]
           r == lose(slot[s], C, "hung")
           T == Terminate(proc[s], slot[s].worker, "hung")
<1>1. s \in Slot /\ slot[s] \in SlotRecord /\ call \in [Call -> CallRecord] /\ call[c] \in CallRecord
  BY DEF PoolAssumption, NInv, PoolTypeOK
<1>2. SlotInv(s, slot[s], call) /\ ThreadsInv(slot[s], proc[s])
  BY <1>1 DEF NInv, SlotsInv
<1>3. Put(s, r, T) /\ UNCHANGED Rest
  BY DEF hung, Rest
<1>4. call[c].hang
  BY DEF hung
<1> HIDE DEF s
<1>5. slot[s].running = c /\ Home[c] = s
  BY <1>2, <1>4 DEF SlotInv, Held, s
<1>6. slot[s].worker # 0
  BY <1>2, <1>5 DEF SlotInv, Serves, PoolAssumption
<1>7. /\ C \in [Call -> CallRecord]
      /\ \A d \in Call : C[d].state = call[d].state /\ C[d].timer = call[d].timer
      /\ \A d \in Call : C[d].hang => call[d].hang
      /\ \A d \in Call : d # c => C[d] = call[d]
  <2> DEFINE p == [call[c] EXCEPT !.hang = FALSE]
  <2>1. p \in CallRecord /\ p.state = call[c].state /\ p.timer = call[c].timer /\ ~p.hang
    BY <1>1 DEF CallRecord
  <2>2. C = [call EXCEPT ![c] = p]
    BY <1>1
  <2> HIDE DEF C, p
  <2> QED BY <1>1, <2>1, <2>2
<1> HIDE DEF C
<1>8. Waits(s, slot[s], C)
  <2>1. \A i \in DOMAIN slot[s].queue : slot[s].queue[i] \in Call
    BY <1>1, Fields
  <2> QED BY <1>2, <1>7, <2>1 DEF SlotInv, Waits
<1>9. Held(s, slot[s], C)
  BY <1>2, <1>7 DEF SlotInv, Held
<1>10. Serves(slot[s])
  BY <1>2 DEF SlotInv
<1>11. /\ r.C \in [Call -> CallRecord] /\ Elsewhere(s, C, r.C)
       /\ SlotInv(s, r.S, r.C) /\ Pumped(r.S) /\ r.S.worker = 0
  BY <1>1, <1>5, <1>6, <1>7, <1>8, <1>9, <1>10, LoseKeeps
<1> HIDE DEF r
<1>12. Elsewhere(s, call, r.C)
  BY <1>5, <1>7, <1>11 DEF Elsewhere
<1>13. /\ ThreadsInv(r.S, T) /\ Len(T) = Len(proc[s])
       /\ \A x \in 1 .. Len(T) :
             /\ T[x].state = "ending" => proc[s][x].state = "ending"
             /\ T[x].state \notin {"loading", "serving"}
  <2>1. /\ T \in Seq(ThreadRecord) /\ Len(T) = Len(proc[s])
        /\ \A x \in 1 .. Len(T) :
              /\ T[x].state \notin {"loading", "serving"}
              /\ T[x].state = "ending" => proc[s][x].state = "ending"
              /\ \A i \in DOMAIN T[x].out : T[x].out[i] = "gone" => T[x].state = "dead"
    BY <1>1, Terminated
  <2> HIDE DEF T
  <2>2. Len(T) \in Nat /\ Len(T) <= MaxSpawns
    BY <1>2, <2>1 DEF ThreadsInv
  <2> QED BY <1>11, <2>1, <2>2 DEF ThreadsInv
<1> HIDE DEF T
<1>14. booted' \subseteq Slot /\ UNCHANGED <<turnOf, crashes>> /\ phase' = phase
  BY <1>3 DEF Rest, NInv, PoolTypeOK
<1>15. Put(s, r, T)
  BY <1>3
<1> QED BY <1>1, <1>6, <1>11, <1>12, <1>13, <1>14, <1>15, StoreKeeps

(* A lost worker is replaced.                                              *)
LEMMA RespawnKeeps == ASSUME PoolAssumption, NInv, NEW s \in Slot, respawn(s) PROVE NInv'
<1>1. /\ slot \in [Slot -> SlotRecord] /\ slot[s] \in SlotRecord
      /\ proc \in [Slot -> Seq(ThreadRecord)] /\ proc[s] \in Seq(ThreadRecord)
      /\ call \in [Call -> CallRecord]
  BY DEF NInv, PoolTypeOK
<1>2. SlotInv(s, slot[s], call) /\ Pumped(slot[s]) /\ ThreadsInv(slot[s], proc[s])
  BY DEF NInv, SlotsInv
<1>3. slot[s].respawn /\ Len(proc[s]) < MaxSpawns /\ UNCHANGED <<call, booted, phase, turnOf, crashes>>
  BY DEF respawn
<1>4. /\ slot[s].worker = 0 /\ ~slot[s].ready /\ slot[s].running = NoCall
      /\ slot[s].failures <= RespawnLimit /\ slot[s].queue = <<>>
  <2>1. slot[s].worker = 0 /\ ~slot[s].ready /\ slot[s].running = NoCall
        /\ slot[s].failures <= RespawnLimit /\ ~(Len(slot[s].queue) > 0)
    BY <1>2, <1>3 DEF SlotInv, Serves
  <2>2. slot[s].queue \in Seq(Call)
    BY <1>1, Fields
  <2>3. Len(slot[s].queue) = 0
    BY <2>1, <2>2
  <2> QED BY <2>1, <2>2, <2>3
<1>5. \A c \in Call : Home[c] = s => call[c].state # "open" /\ ~call[c].hang
  BY <1>2, <1>4 DEF SlotInv, Held, PoolAssumption
<1> DEFINE S == IF stopped THEN [slot[s] EXCEPT !.respawn = FALSE]
                ELSE [slot[s] EXCEPT !.respawn = FALSE, !.ready = FALSE, !.worker = Len(proc[s]) + 1]
           T == IF stopped THEN proc[s] ELSE Append(proc[s], Thread)
<1>6. slot' = [slot EXCEPT ![s] = S] /\ proc' = [proc EXCEPT ![s] = T]
  <2>1. CASE stopped
    BY <1>1, <2>1 DEF respawn
  <2>2. CASE ~stopped
    BY <1>1, <2>2 DEF respawn
  <2> QED BY <2>1, <2>2
<1>7. Thread \in ThreadRecord /\ Thread.out = <<>>
  <2>1. <<>> \in Seq(Call \cup {"ready", "gone"})
    OBVIOUS
  <2> QED BY <2>1 DEF Thread, ThreadRecord
<1>8. /\ T \in Seq(ThreadRecord) /\ Len(T) = Len(proc[s]) + (IF stopped THEN 0 ELSE 1)
      /\ \A x \in 1 .. Len(proc[s]) : T[x] = proc[s][x]
      /\ ~stopped => T[Len(proc[s]) + 1] = Thread
  BY <1>1, <1>7
<1>9. /\ S \in SlotRecord /\ ~S.ready /\ ~S.respawn /\ S.running = NoCall /\ S.queue = <<>>
      /\ S.failures = slot[s].failures
      /\ S.worker = IF stopped THEN 0 ELSE Len(proc[s]) + 1
  <2>1. Len(proc[s]) + 1 \in 0 .. MaxSpawns
    BY <1>1, <1>3 DEF PoolAssumption
  <2>2. CASE stopped
    BY <1>1, <1>4, <2>2 DEF SlotRecord
  <2>3. CASE ~stopped
    BY <1>1, <1>4, <2>1, <2>3 DEF SlotRecord
  <2> QED BY <2>2, <2>3
<1> HIDE DEF S, T
<1>10. SlotInv(s, S, call) /\ Pumped(S)
  <2>1. Serves(S)
    BY <1>4, <1>9 DEF Serves
  <2> QED BY <1>1, <1>5, <1>9, <2>1, EmptySlot
<1>11. ThreadsInv(S, T)
  <2>1. \A x \in 1 .. Len(proc[s]) :
           /\ T[x].state \notin {"loading", "serving"}
           /\ \A i \in DOMAIN T[x].out : T[x].out[i] = "gone" => T[x].state = "dead"
    <3> SUFFICES ASSUME NEW x \in 1 .. Len(proc[s])
                 PROVE  /\ T[x].state \notin {"loading", "serving"}
                        /\ \A i \in DOMAIN T[x].out : T[x].out[i] = "gone" => T[x].state = "dead"
      OBVIOUS
    <3>1. T[x] = proc[s][x]
      BY <1>8
    <3>2. /\ proc[s][x].state \in {"loading", "serving"} => 0 = x
          /\ \A i \in DOMAIN proc[s][x].out : proc[s][x].out[i] = "gone" => proc[s][x].state = "dead"
      BY <1>2, <1>4 DEF ThreadsInv
    <3>3. x # 0
      BY <1>1
    <3> QED BY <3>1, <3>2, <3>3
  <2>2. CASE stopped
    <3>1. Len(T) = Len(proc[s]) /\ Len(T) \in Nat /\ Len(T) <= MaxSpawns /\ S.worker = 0
      BY <1>1, <1>3, <1>8, <1>9, <2>2 DEF PoolAssumption
    <3>2. \A x \in 1 .. Len(T) :
             /\ T[x].state \in {"loading", "serving"} => S.worker = x
             /\ \A i \in DOMAIN T[x].out : T[x].out[i] = "gone" => T[x].state = "dead"
      BY <2>1, <3>1
    <3>3. S.worker <= Len(T)
      BY <3>1
    <3> QED BY <1>8, <3>1, <3>2, <3>3 DEF ThreadsInv
  <2>3. CASE ~stopped
    <3>1. Len(T) = Len(proc[s]) + 1 /\ Len(T) <= MaxSpawns /\ S.worker = Len(T) /\ Len(proc[s]) \in Nat
      BY <1>1, <1>3, <1>8, <1>9, <2>3 DEF PoolAssumption
    <3>2. \A x \in 1 .. Len(T) : x \in 1 .. Len(proc[s]) \/ x = Len(T)
      BY <3>1
    <3>3. T[Len(T)].out = <<>>
      BY <1>7, <1>8, <2>3, <3>1
    <3>4. \A x \in 1 .. Len(T) :
             /\ T[x].state \in {"loading", "serving"} => S.worker = x
             /\ \A i \in DOMAIN T[x].out : T[x].out[i] = "gone" => T[x].state = "dead"
      BY <2>1, <3>1, <3>2, <3>3
    <3>5. S.worker <= Len(T)
      BY <3>1
    <3> QED BY <1>8, <3>1, <3>4, <3>5 DEF ThreadsInv
  <2> QED BY <2>2, <2>3
<1>12. /\ slot' \in [Slot -> SlotRecord] /\ slot'[s] = S /\ \A t \in Slot : t # s => slot'[t] = slot[t]
       /\ proc' \in [Slot -> Seq(ThreadRecord)] /\ proc'[s] = T
       /\ \A t \in Slot : t # s => proc'[t] = proc[t]
  BY <1>1, <1>6, <1>8, <1>9
<1>13. SlotsInv'
  <2> SUFFICES ASSUME NEW t \in Slot
               PROVE  SlotInv(t, slot'[t], call) /\ Pumped(slot'[t]) /\ ThreadsInv(slot'[t], proc'[t])
    BY <1>3 DEF SlotsInv
  <2>1. SlotInv(t, slot[t], call) /\ Pumped(slot[t]) /\ ThreadsInv(slot[t], proc[t])
    BY DEF NInv, SlotsInv
  <2> QED BY <1>10, <1>11, <1>12, <2>1
<1>14. Disposal'
  <2>1. \A t \in Slot : slot[t].worker = 0 /\ ~slot[t].respawn => slot'[t] = slot[t]
    BY <1>3, <1>12
  <2>2. ASSUME NEW t \in Slot, NEW x \in 1 .. Len(proc'[t])
        PROVE  /\ proc'[t][x].state = "ending" =>
                     x \in 1 .. Len(proc[t]) /\ proc[t][x].state = "ending"
               /\ stopped /\ proc'[t][x].state \in {"loading", "serving"} =>
                     x \in 1 .. Len(proc[t]) /\ proc[t][x].state \in {"loading", "serving"}
    <3>1. CASE t # s
      BY <1>12, <3>1
    <3>2. CASE t = s /\ x \in 1 .. Len(proc[s])
      BY <1>8, <1>12, <3>2
    <3>3. CASE t = s /\ x \notin 1 .. Len(proc[s])
      <4>1. ~stopped /\ x = Len(proc[s]) + 1
        BY <1>1, <1>8, <1>12, <3>3
      <4>2. proc'[t][x].state = "loading"
        BY <1>8, <1>12, <3>3, <4>1 DEF Thread
      <4> QED BY <4>1, <4>2
    <3> QED BY <3>1, <3>2, <3>3
  <2>3. \A t \in Slot : slot[t].worker = 0 /\ ~slot[t].respawn =>
                          slot'[t].worker = 0 /\ ~slot'[t].respawn
    BY <2>1
  <2>4. phase' = phase /\ turnOf' = turnOf
    BY <1>3
  <2> QED BY <2>2, <2>3, <2>4, DisposalKept DEF NInv
<1> QED BY <1>3, <1>12, <1>13, <1>14 DEF NInv, PoolTypeOK

(* The events of a slot's worker.                                          *)
LEMMA EventKeeps ==
  ASSUME PoolAssumption, NInv, NEW s \in Slot, NEW w \in Worker(s), Events(s, w)
  PROVE  NInv'
<1> DEFINE T == Received(s, w)
<1>1. Inbox(s, w)
  BY DEF Events, foreign, onReady, onAnswer, onGone
<1>2. /\ slot[s] \in SlotRecord /\ call \in [Call -> CallRecord]
      /\ SlotInv(s, slot[s], call) /\ Pumped(slot[s]) /\ ThreadsInv(slot[s], proc[s])
  BY DEF NInv, PoolTypeOK, SlotsInv
<1>3. /\ w \in 1 .. Len(proc[s]) /\ proc[s] \in Seq(ThreadRecord)
      /\ Event(s, w) = "gone" => proc[s][w].state = "dead"
      /\ T \in Seq(ThreadRecord) /\ Len(T) = Len(proc[s])
      /\ \A x \in 1 .. Len(T) : /\ T[x].state = proc[s][x].state
                                /\ \A i \in DOMAIN T[x].out : T[x].out[i] = "gone" => T[x].state = "dead"
  BY <1>1, ReceivedEvent
<1> HIDE DEF T
<1>4. ThreadsInv(slot[s], T)
  <2>1. \A x \in 1 .. Len(T) : T[x].state \in {"loading", "serving"} => slot[s].worker = x
    BY <1>2, <1>3 DEF ThreadsInv
  <2> QED BY <1>2, <1>3, <2>1 DEF ThreadsInv
<1>5. booted \subseteq Slot /\ crashes \in 0 .. MaxCrashes
  BY DEF NInv, PoolTypeOK
<1>6. CASE foreign(s, w)
  BY <1>1, <1>6, DroppedKeeps DEF foreign
<1>7. CASE onReady(s, w)
  <2> DEFINE S == [slot[s] EXCEPT !.ready = TRUE, !.failures = 0]
             r == pump(S, call)
  <2>1. slot[s].worker = w /\ w # 0
    BY <1>3, <1>7 DEF onReady
  <2>2. /\ S \in SlotRecord /\ S.ready /\ S.failures = 0 /\ S.worker = w
        /\ S.queue = slot[s].queue /\ S.running = slot[s].running /\ S.respawn = slot[s].respawn
    <3>1. 0 \in 0 .. RespawnLimit + 1
      BY DEF PoolAssumption
    <3> QED BY <1>2, <2>1, <3>1 DEF SlotRecord
  <2> HIDE DEF S
  <2>3. SlotInv(s, S, call)
    <3>1. Serves(S)
      BY <1>2, <2>1, <2>2 DEF SlotInv, Serves, PoolAssumption
    <3> QED BY <1>2, <2>2, <3>1 DEF SlotInv, Waits, Runs, Held
  <2>4. /\ r.C \in [Call -> CallRecord] /\ Elsewhere(s, call, r.C)
        /\ SlotInv(s, r.S, r.C) /\ Pumped(r.S) /\ r.S.worker = S.worker
    BY <1>2, <2>3, PumpKeeps
  <2>5. Put(s, r, T)
    BY <1>7 DEF onReady, T, S
  <2> HIDE DEF r
  <2>6. ThreadsInv(r.S, T)
    BY <1>4, <2>1, <2>2, <2>4 DEF ThreadsInv
  <2>7. booted' \subseteq Slot /\ UNCHANGED <<turnOf, crashes>>
        /\ (phase' = phase \/ (phase = "boot" /\ phase' \in {"up", "failed"}))
    <3>1. phase' = (IF phase = "boot" /\ booted' = Slot THEN "up" ELSE phase)
      BY <1>7 DEF onReady, booting
    <3> QED BY <1>5, <1>7, <3>1 DEF onReady
  <2> QED BY <1>3, <2>1, <2>4, <2>5, <2>6, <2>7, StoreKeeps
<1>8. CASE onAnswer(s, w)
  <2> DEFINE c == Event(s, w)
  <2>1. slot[s].worker = w /\ w # 0 /\ c \in Call /\ UNCHANGED <<booted, phase, turnOf, crashes>>
    BY <1>3, <1>8 DEF onAnswer
  <2>2. CASE slot[s].running # c
    BY <1>1, <1>8, <2>1, <2>2, DroppedKeeps DEF onAnswer
  <2>3. CASE slot[s].running = c
    <3> DEFINE S == [slot[s] EXCEPT !.running = NoCall]
               C == settle(call, {c}, "result")
               r == pump(S, C)
    <3>1. Put(s, r, T)
      BY <1>8, <2>3 DEF onAnswer, T
    <3> HIDE DEF c
    <3>2. /\ S \in SlotRecord /\ S.running = NoCall /\ S.worker = slot[s].worker
          /\ S.queue = slot[s].queue /\ S.ready = slot[s].ready /\ S.respawn = slot[s].respawn
          /\ S.failures = slot[s].failures
      BY <1>2 DEF SlotRecord
    <3>3. {c} \in SUBSET Call
      BY <2>1
    <3>4. /\ C \in [Call -> CallRecord]
          /\ \A d \in Call : d # c => C[d] = call[d]
          /\ C[c].state # "open" /\ ~C[c].hang
      BY <1>2, <3>3, Settles DEF Replies
    <3> HIDE DEF S, C
    <3>5. Home[c] = s /\ call[c].hang
      BY <1>2, <2>1, <2>3 DEF SlotInv, Runs, PoolAssumption
    <3>6. Waits(s, S, C)
      <4>1. slot[s].queue \in Seq(Call)
        BY <1>2, Fields
      <4>2. \A i \in DOMAIN slot[s].queue : slot[s].queue[i] \in Call /\ slot[s].queue[i] # c
        BY <1>2, <3>5, <4>1 DEF SlotInv, Waits
      <4> QED BY <1>2, <3>2, <3>4, <4>2 DEF SlotInv, Waits
    <3>7. Runs(s, S, C)
      BY <3>2 DEF Runs
    <3>8. Held(s, S, C)
      <4>1. ASSUME NEW d \in Call, Home[d] = s
            PROVE  /\ C[d].hang => S.running = d
                   /\ C[d].state = "open" => S.running = d \/ \E i \in DOMAIN S.queue : S.queue[i] = d
        <5>1. CASE d = c
          BY <3>4, <5>1
        <5>2. CASE d # c
          <6>1. C[d] = call[d] /\ slot[s].running # d
            BY <2>3, <3>4, <5>2
          <6> QED BY <1>2, <3>2, <4>1, <6>1 DEF SlotInv, Held
        <5> QED BY <5>1, <5>2
      <4> QED BY <4>1 DEF Held
    <3>9. Serves(S)
      BY <1>2, <3>2 DEF SlotInv, Serves
    <3>10. SlotInv(s, S, C)
      BY <3>2, <3>6, <3>7, <3>8, <3>9 DEF SlotInv
    <3>11. /\ r.C \in [Call -> CallRecord] /\ Elsewhere(s, C, r.C)
           /\ SlotInv(s, r.S, r.C) /\ Pumped(r.S) /\ r.S.worker = S.worker
      BY <3>4, <3>10, PumpKeeps
    <3> HIDE DEF r
    <3>12. Elsewhere(s, call, r.C)
      BY <3>4, <3>5, <3>11 DEF Elsewhere
    <3>13. ThreadsInv(r.S, T)
      BY <1>4, <3>2, <3>11 DEF ThreadsInv
    <3>14. booted' \subseteq Slot /\ UNCHANGED <<turnOf, crashes>> /\ phase' = phase
      BY <1>5, <2>1
    <3> QED BY <1>3, <2>1, <3>1, <3>11, <3>12, <3>13, <3>14, StoreKeeps
  <2> QED BY <2>2, <2>3
<1>9. CASE onGone(s, w)
  <2> DEFINE r == lose(slot[s], call, "crashed")
  <2>1. slot[s].worker = w /\ w # 0 /\ Event(s, w) = "gone" /\ Put(s, r, T)
    BY <1>3, <1>9 DEF onGone, T
  <2>2. /\ Waits(s, slot[s], call) /\ Held(s, slot[s], call) /\ Serves(slot[s])
        /\ slot[s].running # NoCall => Home[slot[s].running] = s
    BY <1>2 DEF SlotInv, Runs
  <2>3. /\ r.C \in [Call -> CallRecord] /\ Elsewhere(s, call, r.C)
        /\ SlotInv(s, r.S, r.C) /\ Pumped(r.S) /\ r.S.worker = 0
    BY <1>2, <2>1, <2>2, LoseKeeps
  <2> HIDE DEF r
  <2>4. ThreadsInv(r.S, T)
    <3>1. \A x \in 1 .. Len(T) : T[x].state \notin {"loading", "serving"}
      BY <1>3, <1>4, <2>1 DEF ThreadsInv
    <3>2. Len(T) \in Nat /\ 0 <= Len(T)
      BY <1>3
    <3> QED BY <1>3, <1>4, <2>3, <3>1, <3>2 DEF ThreadsInv
  <2>5. booted' \subseteq Slot /\ UNCHANGED <<turnOf, crashes>>
        /\ (phase' = phase \/ (phase = "boot" /\ phase' \in {"up", "failed"}))
    <3>1. phase' = (IF phase = "boot" /\ s \notin booted THEN "failed" ELSE phase)
      BY <1>9 DEF onGone, booting
    <3> QED BY <1>5, <1>9, <3>1 DEF onGone
  <2> QED BY <1>3, <2>1, <2>3, <2>4, <2>5, StoreKeeps
<1> QED BY <1>6, <1>7, <1>8, <1>9 DEF Events

(* A slot is closed after those before it, when no thread is waited for.   *)
LEMMA CloseKeeps ==
  ASSUME PoolAssumption, NInv, NEW s \in Slot, CloseSlot(s), phase' = "disposing",
         UNCHANGED <<booted, crashes>>,
         NoneEnds, \A t \in Slot : t < s => slot[t].worker = 0 /\ ~slot[t].respawn
  PROVE  NInv'
<1> DEFINE S == [slot[s] EXCEPT !.respawn = FALSE]
           r == drain(S, call, "busy")
           T == Terminate(proc[s], slot[s].worker, "ending")
<1>1. /\ slot[s] \in SlotRecord /\ call \in [Call -> CallRecord]
      /\ SlotInv(s, slot[s], call) /\ ThreadsInv(slot[s], proc[s])
  BY DEF NInv, PoolTypeOK, SlotsInv
<1>2. Put(s, r, T) /\ turnOf' = [slot |-> s, worker |-> slot[s].worker]
  BY DEF CloseSlot, awaits
<1>3. /\ S \in SlotRecord /\ ~S.respawn /\ S.queue = slot[s].queue /\ S.running = slot[s].running
      /\ S.worker = slot[s].worker
  BY <1>1 DEF SlotRecord
<1> HIDE DEF S
<1>4. /\ Waits(s, S, call) /\ Held(s, S, call)
      /\ S.running # NoCall => Home[S.running] = s
  BY <1>1, <1>3 DEF SlotInv, Waits, Held, Runs
<1>5. /\ r.C \in [Call -> CallRecord] /\ Elsewhere(s, call, r.C)
      /\ \A c \in Call : Home[c] = s => r.C[c].state # "open" /\ ~r.C[c].hang
      /\ r.S \in SlotRecord
      /\ r.S.worker = 0 /\ ~r.S.ready /\ r.S.running = NoCall /\ r.S.queue = <<>> /\ ~r.S.respawn
  BY <1>1, <1>3, <1>4, Drains DEF Replies
<1> HIDE DEF r
<1>6. Serves(r.S)
  BY <1>5 DEF Serves
<1>7. SlotInv(s, r.S, r.C) /\ Pumped(r.S)
  BY <1>5, <1>6, EmptySlot
<1>8. /\ ThreadsInv(r.S, T) /\ Len(T) = Len(proc[s])
      /\ \A x \in 1 .. Len(T) :
            T[x].state = "ending" => proc[s][x].state = "ending" \/ x = slot[s].worker
  <2>1. /\ T \in Seq(ThreadRecord) /\ Len(T) = Len(proc[s])
        /\ \A x \in 1 .. Len(T) :
              /\ T[x].state \notin {"loading", "serving"}
              /\ T[x].state = "ending" => proc[s][x].state = "ending" \/ x = slot[s].worker
              /\ \A i \in DOMAIN T[x].out : T[x].out[i] = "gone" => T[x].state = "dead"
    BY Terminated
  <2> HIDE DEF T
  <2>2. Len(T) \in Nat /\ 0 <= Len(T) /\ Len(T) <= MaxSpawns
    BY <1>1, <2>1 DEF ThreadsInv
  <2> QED BY <1>5, <2>1, <2>2 DEF ThreadsInv
<1> HIDE DEF T
<1>9. /\ slot' \in [Slot -> SlotRecord] /\ call' \in [Call -> CallRecord]
      /\ proc' \in [Slot -> Seq(ThreadRecord)] /\ SlotsInv'
      /\ slot'[s] = r.S /\ \A t \in Slot : t # s => slot'[t] = slot[t] /\ proc'[t] = proc[t]
      /\ Len(proc'[s]) = Len(T)
      /\ \A w \in 1 .. Len(T) : proc'[s][w].state = T[w].state
  BY <1>2, <1>5, <1>7, <1>8, PutKeeps DEF NInv
<1>10. Disposal'
  <2>1. s \in 1 .. Size /\ \A t \in Slot : t \in Nat
    BY DEF Slot
  <2>2. \A t \in Slot : t <= s => slot'[t].worker = 0 /\ ~slot'[t].respawn
    BY <1>5, <1>9, <2>1
  <2>3. OnlyAwaitedEnds'
    <3> SUFFICES ASSUME NEW t \in Slot, NEW w \in 1 .. Len(proc'[t]),
                        proc'[t][w].state = "ending"
                 PROVE  t = s /\ w = slot[s].worker
      BY <1>2 DEF OnlyAwaitedEnds
    <3>1. t = s
      BY <1>9 DEF NoneEnds
    <3> QED BY <1>8, <1>9, <3>1 DEF NoneEnds
  <2> QED BY <1>2, <2>2, <2>3 DEF Disposal
<1>11. turnOf' \in [slot : 0 .. Size, worker : 0 .. MaxSpawns]
  BY <1>1, <1>2, Fields DEF Slot, PoolAssumption
<1> QED BY <1>9, <1>10, <1>11 DEF NInv, PoolTypeOK

(* While a pool that closes waits for no thread, none is ending.           *)
LEMMA NoneEndsNow == NInv /\ ~Awaited => NoneEnds
BY DEF NInv, Disposal, OnlyAwaitedEnds, NoneEnds, Awaited, Slot

LEMMA DisposeKeeps == ASSUME PoolAssumption, NInv, dispose \/ disposeNext PROVE NInv'
<1>1. CASE dispose
  <2>1. 1 \in Slot /\ \A t \in Slot : ~(t < 1)
    BY DEF Slot, PoolAssumption
  <2>2. NoneEnds
    BY <1>1 DEF dispose, NInv, Disposal, OnlyAwaitedEnds, NoneEnds, Slot
  <2> QED BY <1>1, <2>1, <2>2, CloseKeeps DEF dispose
<1>2. CASE disposeNext
  <2>1. /\ phase = "disposing" /\ turnOf.slot \in Slot /\ NoneEnds
        /\ \A s \in Slot : s <= turnOf.slot => slot[s].worker = 0 /\ ~slot[s].respawn
    BY <1>2, NoneEndsNow DEF disposeNext, NInv, Disposal
  <2>2. CASE turnOf.slot < Size
    <3>1. /\ turnOf.slot + 1 \in Slot
          /\ \A t \in Slot : t < turnOf.slot + 1 => t <= turnOf.slot
      BY <2>1, <2>2 DEF Slot, PoolAssumption
    <3> QED BY <1>2, <2>1, <2>2, <3>1, CloseKeeps DEF disposeNext
  <2>3. CASE ~(turnOf.slot < Size)
    <3>1. turnOf.slot = Size
      BY <2>1, <2>3 DEF Slot, PoolAssumption
    <3>2. phase' = "disposed" /\ UNCHANGED <<slot, call, proc, turnOf, booted, crashes>>
      BY <1>2, <2>3 DEF disposeNext
    <3>3. Disposal'
      BY <2>1, <3>1, <3>2 DEF NInv, Disposal, OnlyAwaitedEnds, NoneEnds
    <3>4. SlotsInv'
      BY <3>2 DEF NInv, SlotsInv
    <3> QED BY <3>2, <3>3, <3>4 DEF NInv, PoolTypeOK
  <2> QED BY <2>2, <2>3
<1> QED BY <1>1, <1>2

(* The workers of a boot that has failed are ended one after the other.    *)
LEMMA AbortKeeps == ASSUME PoolAssumption, NInv, abortBoot PROVE NInv'
<1>1. /\ phase = "failed" /\ NoneEnds /\ turnOf.slot \in 0 .. Size
      /\ \A s \in Slot : s <= turnOf.slot => Told(proc[s])
      /\ UNCHANGED <<slot, call, booted, crashes>>
  BY NoneEndsNow DEF abortBoot, NInv, Disposal, PoolTypeOK
<1>2. CASE turnOf.slot < Size
  <2> DEFINE s == turnOf.slot + 1
             T == Terminate(proc[s], slot[s].worker, "ending")
  <2>1. /\ s \in Slot /\ phase' = phase
        /\ proc' = [proc EXCEPT ![s] = T]
        /\ turnOf' = [slot |-> s, worker |-> slot[s].worker]
    BY <1>1, <1>2 DEF abortBoot, awaits, Slot, PoolAssumption
  <2>2. \A t \in Slot : t <= s => t = s \/ t <= turnOf.slot
    BY <1>1 DEF Slot
  <2> HIDE DEF s
  <2>3. /\ T \in Seq(ThreadRecord) /\ Len(T) = Len(proc[s])
        /\ \A x \in 1 .. Len(T) :
              /\ T[x].state \notin {"loading", "serving"}
              /\ T[x].state = "ending" => proc[s][x].state = "ending" \/ x = slot[s].worker
              /\ \A i \in DOMAIN T[x].out : T[x].out[i] = "gone" => T[x].state = "dead"
    BY <2>1, Terminated
  <2> HIDE DEF T
  <2>4. /\ proc' \in [Slot -> Seq(ThreadRecord)] /\ proc'[s] = T
        /\ \A t \in Slot : t # s => proc'[t] = proc[t]
    BY <2>1, <2>3 DEF NInv, PoolTypeOK
  <2>5. ThreadsInv(slot[s], T)
    BY <2>1, <2>3 DEF NInv, SlotsInv, ThreadsInv
  <2>6. SlotsInv'
    <3> SUFFICES ASSUME NEW t \in Slot
                 PROVE  SlotInv(t, slot[t], call) /\ Pumped(slot[t]) /\ ThreadsInv(slot[t], proc'[t])
      BY <1>1 DEF SlotsInv
    <3>1. SlotInv(t, slot[t], call) /\ Pumped(slot[t]) /\ ThreadsInv(slot[t], proc[t])
      BY DEF NInv, SlotsInv
    <3> QED BY <2>4, <2>5, <3>1
  <2>7. OnlyAwaitedEnds'
    <3> SUFFICES ASSUME NEW t \in Slot, NEW w \in 1 .. Len(proc'[t]),
                        proc'[t][w].state = "ending"
                 PROVE  t = s /\ w = slot[s].worker
      BY <2>1 DEF OnlyAwaitedEnds
    <3>1. t = s
      BY <1>1, <2>4 DEF NoneEnds
    <3> QED BY <1>1, <2>3, <2>4, <3>1 DEF NoneEnds
  <2>8. \A t \in Slot : t <= s => Told(proc'[t])
    BY <1>1, <2>2, <2>3, <2>4 DEF Told
  <2>9. Disposal'
    BY <1>1, <2>1, <2>7, <2>8 DEF Disposal, Told
  <2>10. turnOf' \in [slot : 0 .. Size, worker : 0 .. MaxSpawns]
    <3>1. slot[s].worker \in 0 .. MaxSpawns
      BY <2>1, Fields DEF NInv, PoolTypeOK
    <3> QED BY <2>1, <3>1 DEF Slot, PoolAssumption
  <2> QED BY <1>1, <2>1, <2>4, <2>6, <2>9, <2>10 DEF NInv, PoolTypeOK
<1>3. CASE ~(turnOf.slot < Size)
  <2>1. phase' = "aborted" /\ turnOf.slot = Size /\ UNCHANGED <<proc, turnOf>>
    BY <1>1, <1>3 DEF abortBoot, PoolAssumption
  <2>2. Disposal'
    BY <1>1, <2>1 DEF NInv, Disposal, OnlyAwaitedEnds, NoneEnds, Told
  <2>3. SlotsInv'
    BY <1>1, <2>1 DEF NInv, SlotsInv
  <2> QED BY <1>1, <2>1, <2>2, <2>3 DEF NInv, PoolTypeOK
<1> QED BY <1>2, <1>3

(* The steps of a thread.                                                  *)
LEMMA ThreadStepKeeps ==
  ASSUME PoolAssumption, NInv, NEW s \in Slot, NEW w \in Worker(s),
         threadReady(s, w) \/ threadAnswers(s, w) \/ threadDies(s, w)
  PROVE  NInv'
<1> DEFINE t == proc[s][w]
<1>1. t \in ThreadRecord /\ crashes \in 0 .. MaxCrashes
  BY DEF NInv, PoolTypeOK, Worker
<1>2. \A i \in DOMAIN t.out : t.out[i] = "gone" => t.state = "dead"
  BY DEF NInv, SlotsInv, ThreadsInv, Worker
<1> HIDE DEF t
<1>3. t.out \in Seq(Call \cup {"ready", "gone"}) /\ t.cmd \in Call \cup {NoCall}
  BY <1>1 DEF ThreadRecord
<1>4. ASSUME NEW e \in Call \cup {"ready", "gone"}
      PROVE  /\ Append(t.out, e) \in Seq(Call \cup {"ready", "gone"})
             /\ \A i \in DOMAIN Append(t.out, e) :
                   Append(t.out, e)[i] # e => i \in DOMAIN t.out /\ Append(t.out, e)[i] = t.out[i]
  BY <1>3
<1>5. CASE threadReady(s, w)
  <2> DEFINE u == [t EXCEPT !.state = "serving", !.out = Append(@, "ready")]
  <2>1. t.state = "loading" /\ proc' = [proc EXCEPT ![s][w] = u]
        /\ UNCHANGED <<slot, call, booted, phase, turnOf, crashes>>
    BY <1>5 DEF threadReady, Step, t
  <2>2. u \in ThreadRecord /\ u.state = "serving" /\ u.out = Append(t.out, "ready")
    BY <1>1, <1>4 DEF ThreadRecord
  <2>3. \A i \in DOMAIN u.out : u.out[i] # "gone"
    BY <1>2, <1>4, <2>1, <2>2
  <2> HIDE DEF u
  <2> QED BY <1>1, <2>1, <2>2, <2>3, ThreadKeeps DEF t
<1>6. CASE threadAnswers(s, w)
  <2> DEFINE u == [t EXCEPT !.cmd = NoCall, !.out = Append(@, t.cmd)]
  <2>1. t.state = "serving" /\ t.cmd \in Call /\ proc' = [proc EXCEPT ![s][w] = u]
        /\ UNCHANGED <<slot, call, booted, phase, turnOf, crashes>>
    BY <1>3, <1>6 DEF threadAnswers, Step, t
  <2>2. u \in ThreadRecord /\ u.state = "serving" /\ u.out = Append(t.out, t.cmd)
    BY <1>1, <1>4, <2>1 DEF ThreadRecord
  <2>3. \A i \in DOMAIN u.out : u.out[i] # "gone"
    BY <1>2, <1>4, <2>1, <2>2 DEF PoolAssumption
  <2> HIDE DEF u
  <2> QED BY <1>1, <2>1, <2>2, <2>3, ThreadKeeps DEF t
<1>7. CASE threadDies(s, w)
  <2> DEFINE u == [t EXCEPT !.state = "dead", !.cmd = NoCall, !.out = Append(@, "gone")]
  <2>1. proc' = [proc EXCEPT ![s][w] = u] /\ UNCHANGED <<slot, call, booted, phase, turnOf>>
    BY <1>7 DEF threadDies, Step, t
  <2>2. crashes' \in 0 .. MaxCrashes
    BY <1>1, <1>7 DEF threadDies, PoolAssumption
  <2>3. u \in ThreadRecord /\ u.state = "dead"
    BY <1>1, <1>4 DEF ThreadRecord
  <2> HIDE DEF u
  <2> QED BY <2>1, <2>2, <2>3, ThreadKeeps
<1> QED BY <1>5, <1>6, <1>7

LEMMA InitNInv == PoolAssumption /\ PoolInit => NInv
<1> SUFFICES ASSUME PoolAssumption, PoolInit PROVE NInv
  OBVIOUS
<1>1. <<>> \in Seq(Call) /\ <<>> \in Seq(Call \cup {"ready", "gone"})
      /\ 1 \in 0 .. MaxSpawns /\ 0 \in 0 .. RespawnLimit + 1 /\ 0 <= RespawnLimit
  BY DEF PoolAssumption
<1>2. Thread \in ThreadRecord /\ Thread.out = <<>>
  BY <1>1 DEF Thread, ThreadRecord
<1>3. ASSUME NEW s \in Slot
      PROVE  /\ slot[s] \in SlotRecord /\ slot[s].queue = <<>> /\ slot[s].running = NoCall
             /\ ~slot[s].ready /\ ~slot[s].respawn /\ slot[s].failures = 0 /\ slot[s].worker = 1
             /\ proc[s] = <<Thread>>
  BY <1>1 DEF PoolInit, SlotRecord
<1>4. ASSUME NEW c \in Call
      PROVE  call[c] \in CallRecord /\ call[c].state # "open" /\ ~call[c].hang
  BY DEF PoolInit, CallRecord
<1>5. call \in [Call -> CallRecord] /\ slot \in [Slot -> SlotRecord]
  BY <1>3, <1>4 DEF PoolInit
<1>6. proc \in [Slot -> Seq(ThreadRecord)]
  <2>1. <<Thread>> \in Seq(ThreadRecord)
    BY <1>2
  <2> QED BY <2>1 DEF PoolInit
<1>7. PoolTypeOK
  <2>1. /\ booted = {} /\ phase = "boot" /\ turnOf = [slot |-> 0, worker |-> 0] /\ crashes = 0
        /\ 0 \in 0 .. Size /\ 0 \in 0 .. MaxSpawns /\ 0 \in 0 .. MaxCrashes
    BY DEF PoolInit, PoolAssumption
  <2> QED BY <1>5, <1>6, <2>1 DEF PoolTypeOK
<1>8. ASSUME NEW s \in Slot
      PROVE  SlotInv(s, slot[s], call) /\ Pumped(slot[s]) /\ ThreadsInv(slot[s], proc[s])
  <2>1. Serves(slot[s])
    BY <1>1, <1>3 DEF Serves
  <2>2. SlotInv(s, slot[s], call) /\ Pumped(slot[s])
    BY <1>3, <1>4, <1>5, <2>1, EmptySlot
  <2>3. ThreadsInv(slot[s], proc[s])
    <3>1. <<Thread>> \in Seq(ThreadRecord) /\ Len(<<Thread>>) = 1 /\ <<Thread>>[1] = Thread
      BY <1>2
    <3>2. 1 <= MaxSpawns
      BY DEF PoolAssumption
    <3>3. \A x \in 1 .. 1 : x = 1
      OBVIOUS
    <3>4. /\ proc[s] \in Seq(ThreadRecord) /\ Len(proc[s]) = 1 /\ proc[s][1].out = <<>>
          /\ slot[s].worker = 1
      BY <1>2, <1>3, <3>1
    <3>5. \A x \in 1 .. Len(proc[s]) : x = 1
      BY <3>3, <3>4
    <3> QED BY <3>2, <3>4, <3>5 DEF ThreadsInv
  <2> QED BY <2>2, <2>3
<1>9. SlotsInv
  BY <1>8 DEF SlotsInv
<1>10. Disposal
  BY <1>3 DEF PoolInit, Disposal, OnlyAwaitedEnds, Thread
<1> QED BY <1>7, <1>9, <1>10 DEF NInv

(* Whatever calls, deadlines, crashes, hangs and a dispose interleave, an  *)
(* open call waits or runs in its slot with its deadline armed, only a     *)
(* wedged worker is terminated, every live thread is its slot's worker,    *)
(* and a pool that is disposed, or whose boot has failed, has no thread    *)
(* left but those its hang timers have terminated (pool.ts).               *)
THEOREM PoolIsSound == PoolAssumption => (PoolSpec => []PoolSound)
<1> SUFFICES ASSUME PoolAssumption PROVE PoolSpec => []PoolSound
  OBVIOUS
<1>1. PoolInit => NInv
  BY InitNInv
<1>2. NInv /\ [PoolNext]_poolVars => NInv'
  <2> SUFFICES ASSUME NInv, [PoolNext]_poolVars PROVE NInv'
    OBVIOUS
  <2>1. ASSUME NEW c \in Call, send(c) \/ expire(c) \/ deadline(c) \/ hung(c)
        PROVE  NInv'
    BY <2>1, SendKeeps, ExpireKeeps, DeadlineKeeps, HungKeeps
  <2>2. ASSUME NEW s \in Slot, respawn(s) PROVE NInv'
    BY <2>2, RespawnKeeps
  <2>3. ASSUME NEW s \in Slot, NEW w \in Worker(s),
               Events(s, w) \/ threadReady(s, w) \/ threadAnswers(s, w) \/ threadDies(s, w)
        PROVE  NInv'
    BY <2>3, EventKeeps, ThreadStepKeeps
  <2>4. CASE dispose \/ disposeNext \/ abortBoot
    BY <2>4, DisposeKeeps, AbortKeeps
  <2>5. CASE UNCHANGED poolVars
    BY <2>5 DEF poolVars, NInv, PoolTypeOK, SlotsInv, SlotInv, Waits, Runs, Held, Serves, Pumped,
       ThreadsInv, Disposal, OnlyAwaitedEnds, NoneEnds, Told
  <2> QED BY <2>1, <2>2, <2>3, <2>4, <2>5 DEF PoolNext
<1>3. NInv => PoolSound
  <2> SUFFICES ASSUME NInv PROVE PoolSound
    OBVIOUS
  <2>1. \A s \in Slot : SlotInv(s, slot[s], call) /\ Pumped(slot[s]) /\ ThreadsInv(slot[s], proc[s])
    BY DEF NInv, SlotsInv
  <2>2. \A c \in Call : Home[c] \in Slot /\ c # NoCall
    BY DEF PoolAssumption
  <2>3. OnlyWedgedIsLost
    BY <2>1, <2>2 DEF SlotInv, Held, Serves, OnlyWedgedIsLost
  <2>4. OpenCallsAreHeld
    <3>1. ASSUME NEW c \in Call, call[c].state = "open"
          PROVE  /\ call[c].timer
                 /\ slot[Home[c]].running = c \/ c \in ToSet(slot[Home[c]].queue)
      <4>1. SlotInv(Home[c], slot[Home[c]], call)
        BY <2>1, <2>2
      <4>2. slot[Home[c]].running = c \/ \E i \in DOMAIN slot[Home[c]].queue : slot[Home[c]].queue[i] = c
        BY <3>1, <4>1 DEF SlotInv, Held
      <4>3. call[c].timer
        BY <2>2, <3>1, <4>1, <4>2 DEF SlotInv, Waits, Runs
      <4> QED BY <4>2, <4>3 DEF ToSet
    <3> QED BY <2>1, <3>1 DEF Pumped, OpenCallsAreHeld
  <2>5. NoOrphans
    BY <2>1 DEF ThreadsInv, Worker, NoOrphans
  <2>6. DisposedIsEmpty
    <3>1. ASSUME phase \in {"aborted", "disposed"}, NEW s \in Slot, NEW w \in Worker(s)
          PROVE  proc[s][w].state \in {"hung", "dead"}
      <4>1. s <= turnOf.slot /\ proc[s][w].state # "ending" /\ w \in 1 .. Len(proc[s])
        BY <3>1 DEF NInv, Disposal, NoneEnds, Slot, PoolAssumption, Worker
      <4>2. proc[s][w] \in ThreadRecord
        BY <4>1 DEF NInv, PoolTypeOK
      <4>3. proc[s][w].state \notin {"loading", "serving"}
        <5>1. CASE phase = "aborted"
          BY <4>1, <5>1 DEF NInv, Disposal, Told
        <5>2. CASE phase = "disposed"
          <6>1. slot[s].worker = 0 /\ w # 0
            BY <4>1, <5>2 DEF NInv, Disposal
          <6> QED BY <2>1, <4>1, <6>1 DEF ThreadsInv
        <5> QED BY <3>1, <5>1, <5>2
      <4> QED BY <4>1, <4>2, <4>3 DEF ThreadRecord
    <3>2. phase = "disposed" => \A s \in Slot : slot[s].worker = 0 /\ ~slot[s].respawn
      BY DEF NInv, Disposal, Slot, PoolAssumption
    <3>3. ASSUME phase = "disposed", NEW c \in Call, call[c].state = "open" PROVE FALSE
      <4>1. SlotInv(Home[c], slot[Home[c]], call) /\ slot[Home[c]].worker = 0
        BY <2>1, <2>2, <3>2, <3>3
      <4>2. slot[Home[c]].queue \in Seq(Call) /\ slot[Home[c]].running # c
        BY <2>2, <4>1, Fields DEF SlotInv, Serves
      <4>3. Len(slot[Home[c]].queue) > 0
        BY <3>3, <4>1, <4>2 DEF SlotInv, Held
      <4> QED BY <4>1, <4>3 DEF SlotInv, Serves
    <3> QED BY <3>1, <3>2, <3>3 DEF DisposedIsEmpty
  <2> QED BY <2>3, <2>4, <2>5, <2>6 DEF NInv, PoolSound
<1> QED BY <1>1, <1>2, <1>3, PTL DEF PoolSpec

=============================================================================
