----------------------------- MODULE MCProcesses -----------------------------
(***************************************************************************)
(* The PDF of a document, the worker's loop with its LISTEN connection,    *)
(* the pool of Sho workers and the thread on the phone on small instances, *)
(* given by the .cfg file, and in the same run of TLC further instances of *)
(* the thread and the event streams of the API.  Components share no       *)
(* state: a behaviour is one of the component that part names, and the     *)
(* others rest in their initial states.  The part phone is the instance of *)
(* the .cfg file, where the phone answers the question of another device's *)
(* turn; the other threads use its variables with bounds of their own.     *)
(***************************************************************************)
EXTENDS DocumentPdf, WorkerLoop, ShoPool, AssistantThread, TLC

CONSTANTS x1, x2

Actors == {x1, x2}  \* streams; workers; calls of the pool
Symmetric == Permutations(Actors)

VARIABLES
    part,
    db, due, published, hub, st, lease, presence, session, shutdown, dropped, faults

streamVars == <<db, due, published, hub, st, lease, presence, session, shutdown,
                dropped, faults>>
otherVars == <<streamVars, threadVars, workerVars, poolVars>>
allVars == <<part, vars, otherVars>>

(* One stream: writes, a lost connection, a failed request.                *)
Writes == INSTANCE AssistantStream WITH
    Streams <- {"s1"}, Limit <- 2, PendingMax <- 2, Ttl <- 3, SlowStores <- FALSE,
    MaxWrites <- 3, MaxLosses <- 1, MaxFaults <- 1, Happens <- {"leave"},
    slot <- lease

(* Two streams of one channel.                                             *)
Channel == INSTANCE AssistantStream WITH
    Streams <- Actors, Limit <- 2, PendingMax <- 1, Ttl <- 3, SlowStores <- FALSE,
    MaxWrites <- 1, MaxLosses <- 1, MaxFaults <- 0, Happens <- {"leave"},
    slot <- lease

(* Stores that are slower than a heartbeat.                                *)
Leases == INSTANCE AssistantStream WITH
    Streams <- Actors, Limit <- 2, PendingMax <- 1, Ttl <- 1, SlowStores <- TRUE,
    MaxWrites <- 0, MaxLosses <- 0, MaxFaults <- 1, Happens <- {"heartbeat", "idle"},
    slot <- lease

(* More streams than a person may have.                                    *)
Limited == INSTANCE AssistantStream WITH
    Streams <- Actors, Limit <- 1, PendingMax <- 1, Ttl <- 3, SlowStores <- FALSE,
    MaxWrites <- 0, MaxLosses <- 0, MaxFaults <- 0, Happens <- {"heartbeat", "idle"},
    slot <- lease

(* Lost connections and answers, failed reads and publications.            *)
Losses == INSTANCE AssistantThread WITH
    MaxMessages <- 2, MaxRevision <- 2, MaxLosses <- 1, MaxCommands <- 1, MaxOther <- 0,
    Commands <- {"send"}, OtherCommands <- {}, Recovery <- TRUE,
    Unreliable <- TRUE

(* The phone dismisses it; a connection is lost, recovery may end the turn.*)
Question == INSTANCE AssistantThread WITH
    MaxMessages <- 2, MaxRevision <- 2, MaxLosses <- 1, MaxCommands <- 1, MaxOther <- 1,
    Commands <- {"dismiss"}, OtherCommands <- {"send"}, Recovery <- TRUE,
    Unreliable <- FALSE

(* A phone that only watches two turns of another device.                  *)
Watcher == INSTANCE AssistantThread WITH
    MaxMessages <- 2, MaxRevision <- 1, MaxLosses <- 0, MaxCommands <- 0, MaxOther <- 2,
    Commands <- {}, OtherCommands <- {"send"}, Recovery <- FALSE, Unreliable <- FALSE

(* Three calls of one slot; another slot has none.                         *)
Calls == Actors \cup {"c3"}
OneHome == [c \in Calls |-> 1]

ASSUME PdfAssumption
ASSUME Writes!StreamAssumption /\ Channel!StreamAssumption
ASSUME Leases!StreamAssumption /\ Limited!StreamAssumption
ASSUME ThreadAssumption /\ Losses!ThreadAssumption
ASSUME Question!ThreadAssumption /\ Watcher!ThreadAssumption
ASSUME LoopAssumption
ASSUME PoolAssumption

StreamParts == {"events", "channel", "leases", "limited"}
ThreadParts == {"phone", "losses", "question", "watcher"}

MCInit ==
    /\ part \in StreamParts \cup ThreadParts \cup {"pdf", "loop", "pool"}
    /\ Init
    /\ IF part \in {"channel", "leases", "limited"} THEN Channel!Init ELSE Writes!Init
    /\ CASE part = "losses" -> Losses!ThreadInit
         [] part = "question" -> Question!ThreadInit
         [] part = "watcher" -> Watcher!ThreadInit
         [] OTHER -> ThreadInit
    /\ LoopInit
    /\ PoolInit

PdfNext == part = "pdf" /\ Next /\ UNCHANGED <<part, otherVars>>

StreamNext ==
    /\ \/ part = "events" /\ Writes!Next
       \/ part = "channel" /\ Channel!Next
       \/ part = "leases" /\ Leases!Next
       \/ part = "limited" /\ Limited!Next
    /\ UNCHANGED <<part, vars, threadVars, workerVars, poolVars>>

ThreadsNext ==
    /\ \/ part = "phone" /\ ThreadNext
       \/ part = "losses" /\ Losses!ThreadNext
       \/ part = "question" /\ Question!ThreadNext
       \/ part = "watcher" /\ Watcher!ThreadNext
    /\ UNCHANGED <<part, vars, streamVars, workerVars, poolVars>>

WorkerNext ==
    part = "loop" /\ LoopNext /\ UNCHANGED <<part, vars, streamVars, threadVars, poolVars>>

ShoNext ==
    part = "pool" /\ PoolNext /\ UNCHANGED <<part, vars, streamVars, threadVars, workerVars>>

MCNext == PdfNext \/ StreamNext \/ ThreadsNext \/ WorkerNext \/ ShoNext

MCSpec == MCInit /\ [][MCNext]_allVars

-----------------------------------------------------------------------------
(* Every variable of a stream has its type, the bounds of its queues among *)
(* them.                                                                   *)
Typed ==
    CASE part = "events" -> Writes!TypeOK
      [] part = "channel" -> Channel!TypeOK
      [] part = "leases" -> Leases!TypeOK
      [] part = "limited" -> Limited!TypeOK

(* A stream that has its snapshot has, or is about to get, every published *)
(* event the snapshot lacks, through losses of the subscriber (subscribe   *)
(* before read, release of a replaced channel entry).                      *)
NoGap ==
    CASE part = "events" -> Writes!NoGap
      [] part = "channel" -> Channel!NoGap
      [] OTHER -> TRUE

(* A client reads one snapshot, then events, each once and in order        *)
(* (what handleAssistantKitEvents holds back until the stream opens).      *)
SnapshotThenEvents ==
    CASE part = "events" -> Writes!SnapshotThenEvents
      [] part = "channel" -> Channel!SnapshotThenEvents
      [] OTHER -> TRUE

(* A stream that is over leaves no lease in Redis, though a heartbeat was  *)
(* in flight when it ended, unless the release itself failed.              *)
LeavesNothing == part = "leases" => Leases!LeavesNothing

(* While stores answer within a heartbeat, no slot lapses under an open    *)
(* stream, and a person stays within the limit (heartbeat and refresh).    *)
WithinLimit == part = "limited" => Limited!WithinLimit

(* When nothing is under way, the phone shows the question that was open   *)
(* when the last turn ended, or one of what is open since                  *)
(* (applyTurnFinished).                                                    *)
QuestionShown == part = "question" => Question!QuietShowsQuestion

-----------------------------------------------------------------------------
(* What is checked of these instances, named parts of one invariant.       *)

(* Streams: one snapshot and then every event once, in order; nothing left *)
(* in Redis; no more streams than the limit.  The thread: its question at  *)
(* rest.                                                                   *)
ConnectionsSound ==
    /\ part \in StreamParts =>
         Typed /\ NoGap /\ SnapshotThenEvents /\ LeavesNothing /\ WithinLimit
    /\ QuestionShown
=============================================================================
