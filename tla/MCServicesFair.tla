---------------------------- MODULE MCServicesFair ----------------------------
(***************************************************************************)
(* Execution transactions on a small instance, given by the .cfg file, and *)
(* what the services must get done in the end: with fairness, the          *)
(* invocations, the flush of events, the upload of images, the worker's    *)
(* loop and the pool of Sho workers.  A behaviour is one of the component  *)
(* that part names; the others rest in their initial states.               *)
(***************************************************************************)
EXTENDS ExecutionTx, Sequences, Integers

CONSTANTS c1, c2, c3, p1, None, Sweep

VARIABLES
    part,
    stage, buffered, sealed, used, todo, rows, locked, last, outbox,
    image, object, lock, fin, cleanup, backfill, zombies,
    life, loop, run, due, exec, events, deliveries, emitted, unseen, fails,
    client, conn, fresh, reconnecting, listenUp, caught,
    slot, call, threads, booted, phase, turnOf, crashes

emitVars == <<stage, buffered, sealed, used, todo, rows, locked, last, outbox>>
imageVars == <<image, object, lock, fin, cleanup, backfill, zombies>>
loopVars == <<life, loop, run, due, exec, events, deliveries, emitted, unseen,
              fails, client, conn, fresh, reconnecting, listenUp, caught>>
poolVars == <<slot, call, threads, booted, phase, turnOf, crashes>>
allVars == <<part, vars, emitVars, imageVars, loopVars, poolVars>>

Emit == INSTANCE EmitFlush WITH
    Tx <- {"t1", "t2"}, Aggregates <- {"a", "b"}, MaxEmits <- 1

(* Images from before renditions existed, the second one undecodable; ...  *)
Filling == INSTANCE CatalogUpload WITH
    Finalizers <- {"p1", "p2"}, Files <- {"f1", "f2"}, Legacy <- {"f1", "f2"},
    Undecodable <- {"f2"}, Zombies <- FALSE,
    Renditions <- <<"thumb", "full">>, row <- image, sweep <- cleanup

(* ... one that is uploaded now, ...                                       *)
Settling == INSTANCE CatalogUpload WITH
    Finalizers <- {"p1", "p2"}, Files <- {"f1"}, Legacy <- {}, Undecodable <- {},
    Zombies <- FALSE, Renditions <- <<"thumb", "full">>, row <- image, sweep <- cleanup

(* ... and one that is no image.                                           *)
Refusing == INSTANCE CatalogUpload WITH
    Finalizers <- {"p1"}, Files <- {"f1"}, Legacy <- {}, Undecodable <- {"f1"},
    Zombies <- FALSE, Renditions <- <<"thumb", "full">>, row <- image, sweep <- cleanup

(* Events and failures, with few connections; ...                          *)
Polling == INSTANCE WorkerLoop WITH
    BatchLimit <- 1, Concurrency <- 2, MaxEvents <- 2, MaxWorks <- 2, MaxFails <- 2,
    MaxClients <- 1, todo <- due, rows <- deliveries

(* ... connections that fail and are lost.                                 *)
Listening == INSTANCE WorkerLoop WITH
    BatchLimit <- 1, Concurrency <- 1, MaxEvents <- 0, MaxWorks <- 2, MaxFails <- 3,
    MaxClients <- 4, todo <- due, rows <- deliveries

(* Calls of one slot whose worker may never answer; ...                    *)
Answering == INSTANCE ShoPool WITH
    Size <- 1, Call <- {"c1", "c2"}, Home <- [c \in {"c1", "c2"} |-> 1], QueueLimit <- 2,
    RespawnLimit <- 1, MaxCrashes <- 1, MaxSpawns <- 2, BootLoss <- TRUE,
    NoCall <- None, proc <- threads

(* ... workers that are lost once the pool is up.                          *)
Respawning == INSTANCE ShoPool WITH
    Size <- 1, Call <- {"c1", "c2"}, Home <- [c \in {"c1", "c2"} |-> 1], QueueLimit <- 1,
    RespawnLimit <- 1, MaxCrashes <- 1, MaxSpawns <- 4, BootLoss <- FALSE,
    NoCall <- None, proc <- threads

ASSUME TxAssumption
ASSUME Emit!EmitAssumption
ASSUME Filling!UploadAssumption /\ Settling!UploadAssumption
ASSUME Refusing!UploadAssumption
ASSUME Polling!LoopAssumption /\ Listening!LoopAssumption
ASSUME Answering!PoolAssumption /\ Respawning!PoolAssumption

MCInit ==
    /\ part \in {"execution", "emit", "filling", "settling", "refusing", "polling",
                 "listening", "answering", "respawning"}
    /\ Init
    /\ Emit!Init
    /\ CASE part = "filling" -> Filling!UploadInit
         [] part = "refusing" -> Refusing!UploadInit
         [] OTHER -> Settling!UploadInit
    /\ IF part = "listening" THEN Listening!LoopInit ELSE Polling!LoopInit
    /\ IF part = "respawning" THEN Respawning!PoolInit ELSE Answering!PoolInit

InEmit == part = "emit" /\ UNCHANGED <<part, vars, imageVars, loopVars, poolVars>>
InExecution ==
    part = "execution" /\ UNCHANGED <<part, emitVars, imageVars, loopVars, poolVars>>
InFilling == part = "filling" /\ UNCHANGED <<part, vars, emitVars, loopVars, poolVars>>
InSettling == part = "settling" /\ UNCHANGED <<part, vars, emitVars, loopVars, poolVars>>
InRefusing == part = "refusing" /\ UNCHANGED <<part, vars, emitVars, loopVars, poolVars>>
InPolling == part = "polling" /\ UNCHANGED <<part, vars, emitVars, imageVars, poolVars>>
InListening == part = "listening" /\ UNCHANGED <<part, vars, emitVars, imageVars, poolVars>>
InAnswering == part = "answering" /\ UNCHANGED <<part, vars, emitVars, imageVars, loopVars>>
InRespawning == part = "respawning" /\ UNCHANGED <<part, vars, emitVars, imageVars, loopVars>>

MCNext ==
    \/ InEmit /\ Emit!Next
    \/ InExecution /\ Next
    \/ InFilling /\ Filling!UploadNext
    \/ InSettling /\ Settling!UploadNext
    \/ InRefusing /\ Refusing!UploadNext
    \/ InPolling /\ Polling!LoopNext
    \/ InListening /\ Listening!LoopNext
    \/ InAnswering /\ Answering!PoolNext
    \/ InRespawning /\ Respawning!PoolNext

(* Fairness.  A behaviour stays in one part, so that weak fairness of a    *)
(* disjunction with one step of each part is that of each of the steps.    *)
(*   emit: a started transaction goes on, and a deadlock is detected;      *)
(*   execution: timers fire, statements are answered, clients handed out;  *)
(*   filling, settling, refusing: the scheduler keeps calling the maintenance        *)
(*     actions, requests end, time passes, and the object store does not   *)
(*     fail for ever;                                                      *)
(*   polling: the poll timer fires, the backoff passes and a tick goes on, *)
(*     but nothing is assumed of LISTEN; listening: the listener goes on;  *)
(*   answering: the timers fire, but nothing is assumed of the workers;    *)
(*   respawning: a respawn's timer fires, events are delivered, and a      *)
(*     thread that loads gets ready or dies.                               *)
Fair1 ==
    \/ InEmit /\ Emit!Progress("t1")
    \/ InExecution /\ Answers(c1)
    \/ InFilling /\ Filling!backfillPuts
    \/ InSettling /\ Settling!passesCutoff("f1")
    \/ InRefusing /\ Refusing!passesCutoff("f1")
    \/ InPolling /\ Polling!poll
    \/ InListening /\ Listening!ListenerGoesOn
    \/ InAnswering /\ Answering!Timers("c1")
Fair2 ==
    \/ InEmit /\ Emit!Progress("t2")
    \/ InExecution /\ Answers(c2)
    \/ InSettling /\ Settling!sweepDeletes
    \/ InRefusing /\ Refusing!sweepDeletes
    \/ InPolling /\ Polling!backoffEnds
    \/ InAnswering /\ Answering!Timers("c2")
    \/ InRespawning /\ Respawning!Respawned
Fair3 ==
    \/ InEmit /\ Emit!deadlockVictim("t1")
    \/ InExecution /\ Answers(c3)
    \/ InSettling /\ Settling!sweepCommits
    \/ InRefusing /\ Refusing!sweepCommits
    \/ InPolling /\ Polling!TickGoesOn
    \/ InRespawning /\ Respawning!Delivered
Fair4 ==
    \/ InEmit /\ Emit!deadlockVictim("t2")
    \/ InExecution /\ Opens(c1)
    \/ InSettling /\ Settling!rollBack("p1")
    \/ InRefusing /\ Refusing!rollBack("p1")
    \/ InRespawning /\ Respawning!Loaded
Fair5 ==
    \/ InExecution /\ Opens(c2)
    \/ InSettling /\ Settling!rollBack("p2")
Fair6 == InExecution /\ Opens(c3)

Scheduled ==
    \/ InFilling /\ Filling!backfillInspects("f1")
    \/ InSettling /\ Settling!sweepSelects("f1")
    \/ InRefusing /\ Refusing!sweepSelects("f1")
StoreFails ==
    \/ InFilling /\ Filling!backfillFails
    \/ InSettling /\ Settling!sweepRollsBack
    \/ InRefusing /\ Refusing!sweepRollsBack

FairSpec ==
    /\ MCInit /\ [][MCNext]_allVars
    /\ WF_allVars(Fair1) /\ WF_allVars(Fair2) /\ WF_allVars(Fair3)
    /\ WF_allVars(Fair4) /\ WF_allVars(Fair5) /\ WF_allVars(Fair6)
    /\ SF_allVars(Scheduled) /\ <>[][~StoreFails]_allVars

-----------------------------------------------------------------------------
(* A transaction that has started ends, though two of them may wait for    *)
(* each other's sequence rows (advanceAggregateSequence in first-emission  *)
(* order).                                                                 *)
EveryFlushEnds == part = "emit" => Emit!EveryFlushEnds

(* An image that was ready before renditions existed gets all of them,     *)
(* though backfills fail between two of them (backfillRenditions).         *)
LegacyIsFilled == part = "filling" => Filling!LegacyIsFilled

(* An upload does not stay pending for ever: its row is deleted, or ready  *)
(* with its staging object looked at (the sweep of abandoned uploads).     *)
RowsSettle ==
    /\ part = "settling" => Settling!RowsSettle
    /\ part = "refusing" => Refusing!RowsSettle

(* Every committed event is read although LISTEN may be down and ticks     *)
(* fail, unless the process stops (the poll timer, tick's catch).          *)
EventuallyRead == part = "polling" => Polling!EventuallyRead

(* A listener that lost its connection listens again (reconnect).          *)
EventuallyListens == part = "listening" => Listening!EventuallyListens

(* Every call of the pool is answered, whatever its worker does (the       *)
(* deadline of send, drain).                                               *)
CallsAnswered == part = "answering" => Answering!CallsAnswered

(* A slot below its failure limit becomes ready again (lose, respawns).    *)
SlotRecovers == part = "respawning" => Respawning!SlotRecovers

-----------------------------------------------------------------------------
(* Whatever was started in the database ends: every flush, every           *)
(* invocation, though handlers never return and the pool is smaller than   *)
(* the number of calls (runWithDeadline), and every upload.                *)
RequestsEnd ==
    /\ EveryFlushEnds /\ LegacyIsFilled /\ RowsSettle
    /\ part = "execution" => EveryCallAnswered

(* The worker's loop gets to every event and its listener listens again;   *)
(* the pool answers its calls and recovers its slots.                      *)
ProcessesLive == EventuallyRead /\ EventuallyListens /\ CallsAnswered /\ SlotRecovers
=============================================================================
