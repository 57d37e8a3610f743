---------------------------- MODULE WorkerLoop ----------------------------
(***************************************************************************)
(* The outbox worker's process: the tick loop (apps/worker/src/loop.ts)    *)
(* with its coalesced wake-ups, backoff and stop, and the connection that  *)
(* LISTENs for domain_events (listen.ts) with its reconnects.  What a tick *)
(* does to the outbox is modelled in Outbox; here events and deliveries    *)
(* are only counted.                                                       *)
(*                                                                         *)
(* One event-loop turn of the process, up to the next await, is one        *)
(* action.                                                                 *)
(***************************************************************************)
EXTENDS Integers, FiniteSets

CONSTANTS
    BatchLimit,   \* events one dispatch takes
    Concurrency,  \* DELIVERY_CONCURRENCY
    MaxEvents,    \* bound on the events that are committed
    MaxWorks,     \* bound on the ticks waiting on the chain
    MaxFails,     \* bound on failed queries and deliveries
    MaxClients    \* bound on the connections that are opened

LoopAssumption ==
    /\ BatchLimit \in Nat \ {0} /\ Concurrency \in Nat \ {0}
    /\ MaxEvents \in Nat /\ MaxWorks \in Nat \ {0}
    /\ MaxFails \in Nat /\ MaxClients \in Nat \ {0}

Client == 1 .. MaxClients

VARIABLES
    life,       \* of the process: "idle", "starting", "running", "stopping",
                \* "draining" or "stopped"
    loop,       \* its state, pendingWakes and the length of the chain
    run,        \* where the tick that runs is
    todo,       \* deliveries of this tick that no lane has taken
    exec,       \* deliveries that execute
    events,     \* committed events that no dispatch has read
    rows,       \* deliveries that are not done
    emitted,    \* how many events were committed
    unseen,     \* has a wake-up arrived since the last dispatch read?
    fails,      \* how many failures have happened
    client,     \* the listener's client, 0 for undefined
    conn,       \* [Client -> state of that connection]
    fresh,      \* connectFresh: its step, its client, and who awaits it
    reconnecting, listenUp,
    caught      \* history: the connection that was being made when stop was
                \* called, 0 for none

loopVars == <<loop, run, todo, exec>>
dbVars == <<events, rows, emitted, unseen>>
listenVars == <<client, conn, fresh, reconnecting, listenUp, caught>>
workerVars == <<life, loopVars, dbVars, fails, listenVars>>

NoFresh == [at |-> "none", cl |-> 0, old |-> 0, by |-> "start"]

LoopInit ==
    /\ life = "idle"
    /\ loop = [ticking |-> FALSE, failures |-> 0, backoff |-> FALSE,
                wakes |-> FALSE, works |-> 0]
    /\ run = "none" /\ todo = 0 /\ exec = 0
    /\ events = 0 /\ rows = 0 /\ emitted = 0 /\ unseen = FALSE
    /\ fails = 0
    /\ client = 0 /\ conn = [c \in Client |-> "new"] /\ fresh = NoFresh
    /\ reconnecting = FALSE /\ listenUp = FALSE /\ caught = 0

stopping == life \in {"stopping", "draining", "stopped"}

Fails == fails < MaxFails /\ fails' = fails + 1

----------------------------------------------------------------------------
(* tick() up to its first await, and requestTick().                        *)

tick(S) ==
    IF stopping \/ S.backoff THEN S
    ELSE IF S.ticking THEN [S EXCEPT !.wakes = TRUE]
    ELSE [S EXCEPT !.works = @ + 1]

requestTick(S) == tick([S EXCEPT !.wakes = TRUE])

poll ==
    /\ life = "running"
    /\ loop.works < MaxWorks
    /\ loop' = requestTick(loop)
    /\ unseen' = TRUE
    /\ UNCHANGED <<life, run, todo, exec, events, rows, emitted, fails, listenVars>>

backoffEnds ==
    /\ loop.backoff
    /\ loop' = [loop EXCEPT !.backoff = FALSE]
    /\ UNCHANGED <<life, run, todo, exec, dbVars, fails, listenVars>>

(* The head of the loop of a serialized tick. *)

(* Mutation: wake-ups are forgotten when a run ends, not when it begins. *)
NextRunForgets(S) ==
    IF stopping THEN [S |-> [S EXCEPT !.ticking = FALSE, !.wakes = FALSE],
                      at |-> "none"]
    ELSE IF run = "none" THEN [S |-> [S EXCEPT !.ticking = TRUE], at |-> "dispatch"]
    ELSE [S |-> [S EXCEPT !.ticking = FALSE, !.wakes = FALSE], at |-> "none"]

NextRun(S) ==
    IF stopping THEN [S |-> [S EXCEPT !.ticking = FALSE, !.wakes = FALSE],
                      at |-> "none"]
    ELSE [S |-> [S EXCEPT !.ticking = TRUE, !.wakes = FALSE], at |-> "dispatch"]

(* serialized: a tick starts when the one before it is over. *)
ChainFree == run = "none"

startWork ==
    LET n == NextRun([loop EXCEPT !.works = @ - 1]) IN
    /\ loop.works > 0 /\ ChainFree
    /\ loop' = n.S /\ run' = n.at
    /\ UNCHANGED <<life, todo, exec, dbVars, fails, listenVars>>

(* The catch: back off, and leave the rest to the poll timer.  How long    *)
(* the backoff lasts is not modelled, so one failure stands for several.   *)

(* Mutation: a tick that failed is still marked as running. *)
CatchKeepsTicking ==
    loop' = [loop EXCEPT !.failures = 1, !.backoff = TRUE]

Catch ==
    loop' = [loop EXCEPT !.ticking = FALSE, !.failures = 1, !.backoff = TRUE]

failTick ==
    /\ run \in {"dispatch", "find"} /\ Fails
    /\ Catch
    /\ run' = "none"
    /\ UNCHANGED <<life, todo, exec, dbVars, listenVars>>

Min2(a, b) == IF a < b THEN a ELSE b

dispatch ==
    /\ run = "dispatch"
    /\ events' = events - Min2(events, BatchLimit)
    /\ rows' = rows + Min2(events, BatchLimit)
    /\ unseen' = FALSE
    /\ run' = "find"
    /\ UNCHANGED <<life, loop, todo, exec, emitted, fails, listenVars>>

findDue ==
    /\ run = "find"
    /\ todo' = IF stopping THEN 0 ELSE rows
    /\ run' = "lanes"
    /\ UNCHANGED <<life, loop, exec, dbVars, fails, listenVars>>

LaneFree == exec < Concurrency

laneTakes ==
    /\ run = "lanes" /\ todo > 0 /\ LaneFree /\ ~stopping
    /\ todo' = todo - 1 /\ exec' = exec + 1
    /\ UNCHANGED <<life, loop, run, dbVars, fails, listenVars>>

(* executeOne never throws; a failed delivery stays for a later tick. *)
laneDone ==
    /\ exec > 0
    /\ exec' = exec - 1
    /\ \/ rows' = rows - 1 /\ UNCHANGED fails
       \/ Fails /\ UNCHANGED rows
    /\ UNCHANGED <<life, loop, run, todo, events, emitted, unseen, listenVars>>

endRun ==
    LET S == [loop EXCEPT !.failures = 0, !.backoff = FALSE]
        n == IF loop.wakes THEN NextRun(S)
             ELSE [S |-> [S EXCEPT !.ticking = FALSE], at |-> "none"]
    IN
    /\ run = "lanes" /\ exec = 0 /\ (todo = 0 \/ stopping)
    /\ todo' = 0
    /\ loop' = n.S /\ run' = n.at
    /\ UNCHANGED <<life, exec, dbVars, fails, listenVars>>

----------------------------------------------------------------------------
(* The database commits an event and notifies the connections that listen. *)

Notified(S, c) == IF c # 0 /\ c = client /\ conn[c] = "listening" /\ ~stopping
                  THEN requestTick(S) ELSE S

commitEvent ==
    /\ emitted < MaxEvents
    /\ loop.works < MaxWorks
    /\ emitted' = emitted + 1 /\ events' = events + 1
    /\ loop' = Notified(loop, client)
    /\ unseen' = (unseen \/ loop' # loop)
    /\ UNCHANGED <<life, run, todo, exec, rows, fails, listenVars>>

----------------------------------------------------------------------------
(* The listener.                                                           *)

Open(c) == conn[c] \in {"connecting", "listening", "lost"}
Unused == {c \in Client : conn[c] = "new"}

Begin(by) ==
    \E c \in Unused :
       /\ \A d \in Unused : c <= d
       /\ fresh' = [at |-> "connect", cl |-> c, old |-> 0, by |-> by]
       /\ conn' = [conn EXCEPT ![c] = "connecting"]

(* start: loop.start awaits connectFresh, then ticks and arms the timer.   *)
start ==
    /\ life = "idle"
    /\ life' = "starting"
    /\ Begin("start")
    /\ UNCHANGED <<loopVars, dbVars, fails, client, reconnecting, listenUp, caught>>

(* connectFresh: connect and LISTEN succeed; the client is replaced in the *)
(* same turn, whether or not the listener was stopped meanwhile.           *)
connected ==
    LET c == fresh.cl IN
    /\ fresh.at = "connect"
    /\ conn' = [conn EXCEPT ![c] = "listening"]
    /\ client' = c /\ listenUp' = TRUE
    /\ fresh' = [fresh EXCEPT !.at = IF client = 0 THEN "done" ELSE "close",
                              !.old = client]
    /\ UNCHANGED <<life, loopVars, dbVars, fails, reconnecting, caught>>

closed ==
    /\ fresh.at = "close"
    /\ conn' = [conn EXCEPT ![fresh.old] = "ended"]
    /\ fresh' = [fresh EXCEPT !.at = "done"]
    /\ UNCHANGED <<life, loopVars, dbVars, fails, client, reconnecting, listenUp, caught>>

DropClient(c) == [conn EXCEPT ![c] = "ended"]

connectFails ==
    /\ fresh.at = "connect" /\ Fails
    /\ conn' = DropClient(fresh.cl)
    /\ fresh' = [fresh EXCEPT !.at = "failed"]
    /\ UNCHANGED <<life, loopVars, dbVars, client, reconnecting, listenUp, caught>>

(* loop.start goes on, or rejects and the process releases everything.     *)
started ==
    /\ fresh.by = "start" /\ fresh.at \in {"done", "failed"} /\ life = "starting"
    /\ loop.works < MaxWorks
    /\ fresh' = NoFresh
    /\ IF fresh.at = "done"
       THEN life' = "running" /\ loop' = tick(loop)
       ELSE life' = "stopping" /\ UNCHANGED loop
    /\ UNCHANGED <<run, todo, exec, dbVars, fails, client, conn, reconnecting,
                   listenUp, caught>>

(* A connection is lost; its error reaches the handler in a later turn. *)
loseConnection(c) ==
    /\ conn[c] = "listening" /\ Fails
    /\ conn' = [conn EXCEPT ![c] = "lost"]
    /\ UNCHANGED <<life, loopVars, dbVars, client, fresh, reconnecting, listenUp, caught>>

(* onError: markDown and reconnect, which returns when one is under way. *)
onError(c) ==
    /\ conn[c] = "lost"
    /\ conn' = [conn EXCEPT ![c] = "dead"]
    /\ IF stopping \/ c # client THEN UNCHANGED <<listenUp, reconnecting>>
       ELSE listenUp' = FALSE /\ reconnecting' = TRUE
    /\ UNCHANGED <<life, loopVars, dbVars, fails, client, fresh, caught>>

(* The loop of reconnect: another attempt, after the delay if one failed.  *)
MustReconnect == ~listenUp /\ ~stopping

reconnect ==
    /\ reconnecting /\ fresh.at \in {"none", "done", "failed"}
    /\ fresh.by = "reconnect" \/ fresh.at = "none"
    /\ IF MustReconnect
       THEN Unused # {} /\ Begin("reconnect") /\ UNCHANGED reconnecting
       ELSE reconnecting' = FALSE /\ fresh' = NoFresh /\ UNCHANGED conn
    /\ UNCHANGED <<life, loopVars, dbVars, fails, client, listenUp, caught>>

----------------------------------------------------------------------------
(* stop: the loop and the listener in one turn, then the chain.  A         *)
(* connection that is being made meanwhile is nobody's to close: it        *)
(* becomes the client of a listener that has stopped.                      *)

stop ==
    /\ life = "running"
    /\ life' = "stopping"
    /\ client' = 0 /\ listenUp' = FALSE
    /\ conn' = IF client = 0 THEN conn ELSE [conn EXCEPT ![client] = "ended"]
    /\ caught' = IF fresh.at = "connect" THEN fresh.cl ELSE 0
    /\ UNCHANGED <<loopVars, dbVars, fails, fresh, reconnecting>>

(* UNLISTEN and end have settled. *)
stopListener ==
    /\ life = "stopping"
    /\ life' = "draining"
    /\ UNCHANGED <<loopVars, dbVars, fails, listenVars>>

ChainDrained == run = "none" /\ loop.works = 0

drained ==
    /\ life = "draining" /\ ChainDrained
    /\ life' = "stopped"
    /\ UNCHANGED <<loopVars, dbVars, fails, listenVars>>

----------------------------------------------------------------------------
TickStep ==
    startWork \/ failTick \/ dispatch \/ findDue \/ laneTakes \/ laneDone \/ endRun

ListenStep ==
    \/ connected \/ closed \/ connectFails \/ started \/ reconnect
    \/ \E c \in Client : loseConnection(c) \/ onError(c)

LoopNext ==
    \/ start \/ poll \/ backoffEnds \/ TickStep \/ commitEvent \/ ListenStep
    \/ stop \/ stopListener \/ drained

LoopSpec == LoopInit /\ [][LoopNext]_workerVars

(* The steps that fairness is assumed of, besides poll and backoffEnds:    *)
(* queries and deliveries of a tick end, ...                               *)
TickGoesOn == startWork \/ dispatch \/ findDue \/ laneTakes \/ laneDone \/ endRun

(* ... connection attempts end and errors are delivered.                   *)
ListenerGoesOn ==
    \/ connected \/ connectFails \/ closed \/ reconnect
    \/ \E c \in Client : onError(c)

----------------------------------------------------------------------------
(* Properties.                                                             *)

LoopStates ==
    [ticking : BOOLEAN, failures : {0, 1}, backoff : BOOLEAN, wakes : BOOLEAN,
     works : 0 .. MaxWorks]

LoopTypeOK ==
    /\ life \in {"idle", "starting", "running", "stopping", "draining", "stopped"}
    /\ loop \in LoopStates
    /\ run \in {"none", "dispatch", "find", "lanes"}
    /\ todo \in Nat /\ exec \in 0 .. Concurrency
    /\ events \in Nat /\ rows \in Nat /\ emitted \in 0 .. MaxEvents
    /\ unseen \in BOOLEAN /\ fails \in 0 .. MaxFails
    /\ client \in 0 .. MaxClients
    /\ conn \in [Client -> {"new", "connecting", "listening", "lost", "dead", "ended"}]
    /\ fresh \in [at : {"none", "connect", "close", "done", "failed"},
                  cl : 0 .. MaxClients, old : 0 .. MaxClients,
                  by : {"start", "reconnect"}]
    /\ reconnecting \in BOOLEAN /\ listenUp \in BOOLEAN
    /\ caught \in 0 .. MaxClients

(* A wake-up that arrived after the last read of the outbox is never left  *)
(* to the poll timer: a tick is queued, is about to read, or will go round *)
(* again.  The exception is the backoff after a failed tick.               *)
WakesNotLost ==
    unseen /\ ~stopping /\ loop.failures = 0 =>
       \/ loop.works > 0
       \/ run = "dispatch"
       \/ run # "none" /\ loop.wakes

(* No delivery executes outside the one tick that runs, so never after     *)
(* stop has resolved and the pools are closed.                             *)
DeliveriesInsideTick ==
    /\ exec > 0 => run = "lanes" /\ loop.ticking
    /\ life = "stopped" => run = "none" /\ exec = 0

(* A connection that is open is the client of a listener that runs, the    *)
(* one that is being connected, or one that is about to be closed.  After  *)
(* stop, one more may be left open for good: the one that a reconnect was  *)
(* making when stop was called; no other is.                               *)
NoStrayClients ==
    \A c \in Client : Open(c) => \/ c = client /\ ~stopping
                                 \/ c = fresh.cl /\ fresh.at = "connect"
                                 \/ c = fresh.old /\ fresh.at = "close"
                                 \/ c = caught /\ stopping

(* The listener never believes a dead connection for good: when its client *)
(* is dead a reconnect is under way.                                       *)
DownIsRepaired ==
    ~stopping =>
       /\ client # 0 /\ conn[client] = "dead" => reconnecting
       /\ listenUp => client # 0 /\ conn[client] # "dead"

(* What is checked of the loop: no wake-up is lost, nothing executes       *)
(* outside its tick, no connection is left dead, and stop leaves none open *)
(* but one that was being made (requestTick, serialized, stop,             *)
(* connectFresh, reconnect).                                               *)
LoopSound ==
    /\ LoopTypeOK
    /\ WakesNotLost /\ DeliveriesInsideTick /\ NoStrayClients /\ DownIsRepaired

(* Every committed event is read by a dispatch although LISTEN may be down *)
(* and ticks may fail, unless the process stops (policy.ts, "Polling       *)
(* fallback when LISTEN is quiet").                                        *)
EventuallyRead ==
    life = "running" /\ events > 0 ~> events = 0 \/ stopping

(* A listener that lost its connection listens again.                      *)
EventuallyListens ==
    life = "running" /\ ~listenUp ~> listenUp \/ stopping

============================================================================
