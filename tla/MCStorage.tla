------------------------------ MODULE MCStorage ------------------------------
(***************************************************************************)
(* The flush of events, catalog images and the rate limiter on small       *)
(* instances, given by the .cfg file, and in the same run of TLC instances *)
(* of other components through which work reaches Postgres, Redis and the  *)
(* object store: signed documents, their PDFs, images and a limiter with   *)
(* faults, and turns without faults.  They share no state: a behaviour is  *)
(* one of the component that part names, and the others rest in their      *)
(* initial states.  Two instances of a component have two sets of bounds.  *)
(***************************************************************************)
EXTENDS EmitFlush, CatalogUpload, RateLimit, TLC

CONSTANTS x1, x2

Actors == {x1, x2}  \* transactions, processes, completers, ...
Symmetric == Permutations(Actors)
TwoRenditions == <<"thumb", "full">>

VARIABLES
    part,
    time, ahead, asking, tokens, spent, told, passed,
    doc, wish, signature, signRow, staging, durable, lastPut, docLock,
    fileLock, proc, signSweep, late, strays, purged,
    delivery, job, file, pdf, scopes, att, orphans, renders, replays, exhausted,
    image, objects, imageLock, uploads, cleanup, refill, ghosts,
    turn, msg, log, history, card, turnJob, letter, body, listed, rec, released,
    req, faults

faultyVars == <<time, ahead, asking, tokens, spent, told, passed>>
signingVars == <<doc, wish, signature, signRow, staging, durable, lastPut, docLock,
                 fileLock, proc, signSweep, late, strays, purged>>
pdfVars == <<delivery, job, file, pdf, scopes, att, orphans, renders, replays,
             exhausted>>
lateVars == <<image, objects, imageLock, uploads, cleanup, refill, ghosts>>
turnVars == <<turn, msg, log, history, card, turnJob, letter, body, listed, rec,
              released, req, faults>>
otherVars == <<faultyVars, signingVars, pdfVars, lateVars, turnVars>>
allVars == <<part, vars, uploadVars, rateVars, otherVars>>

(* Processes whose clocks differ, a store that fails.                      *)
Faulty == INSTANCE RateLimit WITH
    Limit <- 1, Seconds <- 1, PerSec <- 2, Rotation <- 2, MaxTime <- 1,
    MaxSkew <- 1, MaxDelay <- 0, now <- time, skew <- ahead, request <- asking,
    bucket <- tokens, grants <- spent, hint <- told, admitted <- passed

Rewriting == INSTANCE DocumentSigning WITH
    Completers <- Actors, Files <- {"f1"}, Contents <- {"k1", "k2", "junk"},
    Valid <- {"k1", "k2"}, SweepFails <- FALSE, Zombies <- FALSE,
    request <- wish, row <- signRow, sweep <- signSweep

(* Handlers and sweeps that outlive their transactions.                    *)
Cutoff == INSTANCE DocumentSigning WITH
    Completers <- Actors, Files <- {"f1"}, Contents <- {"k1", "junk"},
    Valid <- {"k1"}, SweepFails <- TRUE, Zombies <- TRUE,
    request <- wish, row <- signRow, sweep <- signSweep

(* Attempts fail inside the renderer or at its deadline.                   *)
ScopedPdf == INSTANCE DocumentPdf WITH
    Workers <- Actors, MaxAttempts <- 2, MaxClaims <- 3, MaxRenders <- 3,
    MaxReplays <- 1, Crashes <- FALSE, object <- pdf, zombies <- orphans,
    Failures <- {"retryable", "timeout"}

(* Handlers that outlive their transactions.                               *)
LateImages == INSTANCE CatalogUpload WITH
    Files <- {"f1"}, Legacy <- {}, Undecodable <- {}, Zombies <- TRUE, row <- image,
    object <- objects, lock <- imageLock, fin <- uploads, sweep <- cleanup,
    backfill <- refill, zombies <- ghosts

(* Two turns of two requests, a note, no fault; ...                        *)
Turns == INSTANCE AssistantTurn WITH
    Command <- {"c1", "c2"}, Request <- Actors, MaxCards <- 0, MaxRuns <- 1,
    MaxNotes <- 1, Fault <- {}, MaxFaults <- 0, job <- turnJob, exhausted <- letter

(* ... a chain of three turns.                                             *)
Chain == INSTANCE AssistantTurn WITH
    Command <- {"c1", "c2", "c3"}, Request <- Actors \cup {"r3"}, MaxCards <- 0,
    MaxRuns <- 0, MaxNotes <- 0, Fault <- {}, MaxFaults <- 0, job <- turnJob,
    exhausted <- letter

ASSUME EmitAssumption
ASSUME UploadAssumption /\ LateImages!UploadAssumption
ASSUME RateAssumption /\ Faulty!RateAssumption
ASSUME Rewriting!SigningAssumption /\ Cutoff!SigningAssumption
ASSUME ScopedPdf!PdfAssumption
ASSUME Turns!TurnAssumption /\ Chain!TurnAssumption

Parts == {"emit", "images", "timely", "faulty", "rewriting", "cutoff", "scopedPdf",
          "lateImages", "turns", "chain"}

MCInit ==
    /\ part \in Parts
    /\ Init /\ UploadInit /\ RateInit
    /\ Faulty!RateInit
    /\ Cutoff!Init
    /\ ScopedPdf!Init
    /\ LateImages!UploadInit
    /\ IF part = "chain" THEN Chain!Init ELSE Turns!Init

Others(resting) == UNCHANGED <<part, vars, uploadVars, rateVars, resting>>

MCNext ==
    \/ part = "emit" /\ Next /\ UNCHANGED <<part, uploadVars, rateVars, otherVars>>
    \/ /\ part = "images" /\ UploadNext
       /\ UNCHANGED <<part, vars, rateVars, otherVars>>
    \/ part = "timely" /\ RateNext /\ UNCHANGED <<part, vars, uploadVars, otherVars>>
    \/ /\ part = "faulty" /\ Faulty!RateNext
       /\ Others(<<signingVars, pdfVars, lateVars, turnVars>>)
    \/ /\ \/ part = "rewriting" /\ Rewriting!Next
          \/ part = "cutoff" /\ Cutoff!Next
       /\ Others(<<faultyVars, pdfVars, lateVars, turnVars>>)
    \/ /\ part = "scopedPdf" /\ ScopedPdf!Next
       /\ Others(<<faultyVars, signingVars, lateVars, turnVars>>)
    \/ /\ part = "lateImages" /\ LateImages!UploadNext
       /\ Others(<<faultyVars, signingVars, pdfVars, turnVars>>)
    \/ /\ \/ part = "turns" /\ Turns!Next
          \/ part = "chain" /\ Chain!Next
       /\ Others(<<faultyVars, signingVars, pdfVars, lateVars>>)

MCSpec == MCInit /\ [][MCNext]_allVars

(* A bound on the requests that the faulty limiter lets through.           *)
Bounded ==
    \A k \in DOMAIN spent : Len(spent[k]) <= 2 /\ passed[k] <= 2

-----------------------------------------------------------------------------
(* What is checked of the other components.                                *)

(* What failures leave intact.  Documents: two valid containers and an     *)
(* invalid one are written over each other, with and without sweeps that   *)
(* roll back, and all attempts at a PDF fail in scope.  Images: handlers   *)
(* that outlive their transactions serve declared bytes only.  Limiter: no *)
(* mutation passes unmetered with a skewed clock or a failed store         *)
(* (recordSigningObject, resolveExhaustedPdfScope, promoted, failsOpen).   *)
FailuresContained ==
    /\ part = "rewriting" => Rewriting!SigningSound
    /\ part = "cutoff" => Cutoff!SigningSound
    /\ part = "scopedPdf" => ScopedPdf!PdfSound
    /\ part = "lateImages" => LateImages!UploadSound
    /\ part = "faulty" => Faulty!RequestsMetered

(* Turns without faults: no text streams after everybody has finished, and *)
(* the continuations of a chain keep its first turn as their root          *)
(* (settlePlaceholder, RootOf).                                            *)
QuietTurnsSound ==
    /\ part = "turns" => Turns!TurnsSound
    /\ part = "chain" => Chain!TurnsSound
=============================================================================
