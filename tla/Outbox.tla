------------------------------- MODULE Outbox -------------------------------
(***************************************************************************)
(* Transactional outbox and per-consumer event delivery: the tables        *)
(* domain_events, event_aggregate_sequences and event_deliveries           *)
(* (PostgreSQL), the libraries of packages/core/src/runtime/events that    *)
(* read and write them, and the tick of the apps/worker processes that     *)
(* calls those libraries.                                                  *)
(*                                                                         *)
(* A step is one database transaction, or the stretch of one between two   *)
(* points where it can wait for a lock.  Time is kept as ticks that remain *)
(* until a stored deadline, so the state space is finite without a clock.  *)
(***************************************************************************)
EXTENDS Integers, FiniteSets

CONSTANTS
    Workers,              \* worker processes
    NoWorker,             \* claimed_by IS NULL
    Gone,                 \* claimed_by of a process that no longer exists
    Consumers,            \* stable consumer ids
    Aggregates,           \* (aggregateType, aggregateId) pairs
    Names,                \* event names
    Subscribers,          \* Names -> the consumers bound to that event
    EventIds,             \* UUIDv7 values, as naturals: only their order matters
    NoEvent,              \* an id with no committed domain_events row
    NoCause,              \* an event emitted by a request, not by a delivery
    DELIVERY_MAX_ATTEMPTS,
    DELIVERY_RETRY_BASE,  \* DELIVERY_RETRY_BASE_MS, in ticks
    LeaseTicks,           \* action timeout + DELIVERY_CLAIM_MARGIN_MS, in ticks
    MaxLockWait,          \* longest wait of a claim for the advisory lock
    DispatchBatch,        \* LIMIT of the dispatch query
    DiscoveryBatch,       \* LIMIT of the discovery query
    DeliveryConcurrency,  \* lanes of one tick
    MaxGroup,             \* bound: emissions of one action invocation
    MaxFaults,            \* bound: crashes, failed queries and stalls
    MaxReplays            \* bound: operator replays

Deliveries == Consumers \X EventIds

(* deliveryRetryDelayMs: exponential schedule after failed attempt k >= 1. *)
deliveryRetryDelayMs(attempt) == DELIVERY_RETRY_BASE * 2^(attempt - 1)

ASSUME IdAssumption ==
    /\ EventIds \subseteq Nat
    /\ IsFiniteSet(EventIds)
    /\ Subscribers \in [Names -> SUBSET Consumers]

ASSUME OwnerAssumption ==
    /\ NoWorker \notin Workers /\ Gone \notin Workers /\ NoWorker # Gone
    /\ NoCause \notin Deliveries

ASSUME BoundAssumption ==
    /\ DELIVERY_MAX_ATTEMPTS \in Nat \ {0}
    /\ LeaseTicks \in Nat
    /\ MaxLockWait \in Nat
    /\ MaxLockWait < LeaseTicks
    /\ DispatchBatch \in Nat \ {0}
    /\ DiscoveryBatch \in Nat \ {0}
    /\ DeliveryConcurrency \in Nat \ {0}
    /\ MaxGroup \in Nat \ {0}
    /\ MaxFaults \in Nat
    /\ MaxReplays \in Nat

ASSUME RetryAssumption ==
    \A k \in 1 .. DELIVERY_MAX_ATTEMPTS : deliveryRetryDelayMs(k) \in Nat

-----------------------------------------------------------------------------
VARIABLES
    event,         \* domain_events by id: aggregate, sequence, name, cause
    lastSequence,  \* event_aggregate_sequences
    dispatched,    \* ids whose dispatched_at is set
    delivery,      \* event_deliveries by (consumer, id)
    stage,         \* where the tick of a worker is
    locked,        \* domain_events rows its dispatch transaction holds
    work,          \* work[w][d]: where worker w is with delivery d
    effects,       \* history: committed runs of the bound action
    spent,         \* history: attempts that failed or lost their claim
    faults,        \* faults so far
    replays        \* replays so far

vars == <<event, lastSequence, dispatched, delivery, stage, locked, work,
          effects, spent, faults, replays>>

Statuses == {"absent", "pending", "processing", "processed", "dead"}

(* What a lane of a tick is doing with one delivery:                       *)
(*   queued    discovered, not yet claimed                                 *)
(*   claimed   the claim transaction committed                             *)
(*   locked    the delivery transaction holds the row, waits for the       *)
(*             (consumer, aggregate) advisory lock                         *)
(*   invoking  holds both locks, the bound action runs                     *)
(*   failed    the delivery transaction rolled back, not yet recorded      *)
Phases == {"none", "queued", "claimed", "locked", "invoking", "failed"}

(* One event_deliveries row.  timer counts down to nextAttemptAt while     *)
(* pending, and to the end of the claim while processing.                  *)
Row(status, attempts, timer, claimedBy) ==
    [status |-> status, attempts |-> attempts, timer |-> timer,
     claimedBy |-> claimedBy]

Absent == Row("absent", 0, 0, NoWorker)

RowType == [status : Statuses, attempts : Nat, timer : Nat,
            claimedBy : Workers \cup {NoWorker, Gone}]

EventType == [agg : Aggregates, seq : Nat, name : Names,
              cause : Deliveries \cup {NoCause}]

TypeOK ==
    /\ event \in [EventIds -> EventType \cup {NoEvent}]
    /\ lastSequence \in [Aggregates -> Nat]
    /\ dispatched \in SUBSET EventIds
    /\ delivery \in [Deliveries -> RowType]
    /\ stage \in [Workers -> {"idle", "dispatching", "dispatched"}]
    /\ locked \in [Workers -> SUBSET EventIds]
    /\ work \in [Workers -> [Deliveries -> Phases]]
    /\ effects \in [Deliveries -> Nat]
    /\ spent \in [Deliveries -> Nat]
    /\ faults \in Nat
    /\ replays \in Nat

Init ==
    /\ event = [i \in EventIds |-> NoEvent]
    /\ lastSequence = [a \in Aggregates |-> 0]
    /\ dispatched = {}
    /\ delivery = [d \in Deliveries |-> Absent]
    /\ stage = [w \in Workers |-> "idle"]
    /\ locked = [w \in Workers |-> {}]
    /\ work = [w \in Workers |-> [d \in Deliveries |-> "none"]]
    /\ effects = [d \in Deliveries |-> 0]
    /\ spent = [d \in Deliveries |-> 0]
    /\ faults = 0
    /\ replays = 0

-----------------------------------------------------------------------------
(* Emission: the step-9 flush of an action's transaction, at its commit.   *)

Committed == {i \in EventIds : event[i] # NoEvent}

Emission == [agg : Aggregates, name : Names]

(* ids minted by uuidv7 at the ctx.emit calls: fresh, in any order         *)
MintedIds(n) ==
    {f \in [1 .. n -> EventIds \ Committed] :
        \A j, k \in 1 .. n : f[j] = f[k] => j = k}

(* How many of the first k emissions go to aggregate a.                    *)
CountFor(ems, a, k) == Cardinality({j \in 1 .. k : ems[j].agg = a})

(* One upsert per aggregate adds the size of its group.                    *)
advanceAggregateSequence(n, ems) ==
    [a \in Aggregates |-> lastSequence[a] + CountFor(ems, a, n)]

(* groupByAggregate + advanceAggregateSequence + the outbox insert: each   *)
(* aggregate's group occupies lastSequence + 1 .. lastSequence + count.    *)
flush(n, ems, ids, cause) ==
    /\ event' = [i \in EventIds |->
                    IF \E k \in 1 .. n : ids[k] = i
                    THEN LET k == CHOOSE k \in 1 .. n : ids[k] = i
                         IN  [agg   |-> ems[k].agg,
                              seq   |-> lastSequence[ems[k].agg]
                                          + CountFor(ems, ems[k].agg, k),
                              name  |-> ems[k].name,
                              cause |-> cause]
                    ELSE event[i]]
    /\ lastSequence' = advanceAggregateSequence(n, ems)

(* An action invoked over HTTP, by a job or by the assistant commits.      *)
EmitFromRequest ==
    /\ \E n \in 1 .. MaxGroup :
         \E ems \in [1 .. n -> Emission], ids \in MintedIds(n) :
             flush(n, ems, ids, NoCause)
    /\ UNCHANGED <<dispatched, delivery, stage, locked, work, effects, spent,
                   faults, replays>>

-----------------------------------------------------------------------------
(* The worker's tick, first half: dispatch.                                *)

Idle(w) == stage[w] = "idle" /\ \A d \in Deliveries : work[w][d] = "none"

(* Undispatched rows that no other dispatcher holds (SKIP LOCKED).         *)
Undispatched ==
    {i \in Committed \ dispatched : \A w \in Workers : i \notin locked[w]}

(* ORDER BY id LIMIT batchSize.                                            *)
LowestIds(S, B) ==
    /\ B \subseteq S
    /\ Cardinality(B) <= DispatchBatch
    /\ \A i \in B, j \in S \ B : i < j
    /\ B = S \/ Cardinality(B) = DispatchBatch

dispatchSelect(w) ==
    /\ Idle(w)
    /\ \E B \in SUBSET EventIds :
         /\ LowestIds(Undispatched, B)
         /\ locked' = [locked EXCEPT ![w] = B]
    /\ stage' = [stage EXCEPT ![w] = "dispatching"]
    /\ UNCHANGED <<event, lastSequence, dispatched, delivery, work, effects,
                   spent, faults, replays>>

(* Fan-out of one locked event: ON CONFLICT DO NOTHING keeps a row.        *)
Materialised(w, d) ==
    IF /\ d[2] \in locked[w]
       /\ d[1] \in Subscribers[event[d[2]].name]
       /\ delivery[d].status = "absent"
    THEN Row("pending", 0, 0, NoWorker)
    ELSE delivery[d]

(* Every event of the batch gets dispatched_at, bound or not.              *)
Marked(w) == locked[w]

dispatchCommit(w) ==
    /\ stage[w] = "dispatching"
    /\ delivery' = [d \in Deliveries |-> Materialised(w, d)]
    /\ dispatched' = dispatched \cup Marked(w)
    /\ locked' = [locked EXCEPT ![w] = {}]
    /\ stage' = [stage EXCEPT ![w] = "dispatched"]
    /\ UNCHANGED <<event, lastSequence, work, effects, spent, faults, replays>>

(* dispatch() or findDue() throws: the tick ends, its transaction rolls    *)
(* back, the poll timer starts another one later.                          *)
tickFails(w) ==
    /\ faults < MaxFaults
    /\ faults' = faults + 1
    /\ stage[w] # "idle"
    /\ stage' = [stage EXCEPT ![w] = "idle"]
    /\ locked' = [locked EXCEPT ![w] = {}]
    /\ UNCHANGED <<event, lastSequence, dispatched, delivery, work, effects,
                   spent, replays>>

-----------------------------------------------------------------------------
(* Shared delivery predicates (delivery-shared.ts).                        *)

SameStream(d, e) ==
    /\ d[1] = e[1]
    /\ event[d[2]] # NoEvent
    /\ event[e[2]] # NoEvent
    /\ event[d[2]].agg = event[e[2]].agg

(* Mutation: a dead predecessor no longer blocks the aggregate.            *)
hasEarlierPendingDelivery(d) ==
    \E e \in Deliveries :
        /\ SameStream(d, e)
        /\ event[e[2]].seq < event[d[2]].seq
        /\ delivery[e].status \notin {"absent", "processed", "dead"}

(* Only rows that exist count: an event that is committed but not yet      *)
(* materialised does not hold its successors back.                         *)
hasEarlierUnprocessedDelivery(d) ==
    \E e \in Deliveries :
        /\ SameStream(d, e)
        /\ event[e[2]].seq < event[d[2]].seq
        /\ delivery[e].status \notin {"absent", "processed"}

ownedProcessingDelivery(w, d) ==
    delivery[d].status = "processing" /\ delivery[d].claimedBy = w

(* Mutation: the delivery transaction reads the row without FOR UPDATE.    *)
RowNeverLocked(d) == FALSE

(* FOR UPDATE on the row, and pg_advisory_xact_lock(consumer, aggregate).  *)
RowLocked(d) ==
    \E w \in Workers : work[w][d] \in {"locked", "invoking"}

AdvisoryLocked(d) ==
    \E w \in Workers, e \in Deliveries :
        SameStream(d, e) /\ work[w][e] = "invoking"

(* Mutation: the age of a processing claim is not looked at.               *)
ClaimableAnyAge(d) ==
    \/ delivery[d].status = "pending" /\ delivery[d].timer = 0
    \/ delivery[d].status = "processing"

(* Pending and due, or processing under a claim that has expired.          *)
Claimable(d) ==
    delivery[d].status \in {"pending", "processing"} /\ delivery[d].timer = 0

-----------------------------------------------------------------------------
(* The worker's tick, second half: discovery and the lanes.                *)

(* Mutation: LIMIT is applied before predecessors are looked at.           *)
DueRows == {d \in Deliveries : Claimable(d)}

(* Due aggregate heads, a plain read; LIMIT keeps some batch of them.      *)
DueHeads ==
    {d \in Deliveries : Claimable(d) /\ ~ hasEarlierUnprocessedDelivery(d)}

findClaimableDeliveries(w) ==
    /\ stage[w] = "dispatched"
    /\ \E B \in SUBSET DueHeads :
         /\ Cardinality(B) <= DiscoveryBatch
         /\ B = DueHeads \/ Cardinality(B) = DiscoveryBatch
         /\ work' = [work EXCEPT ![w] = [d \in Deliveries |->
                                  IF d \in B THEN "queued" ELSE "none"]]
    /\ stage' = [stage EXCEPT ![w] = "idle"]
    /\ UNCHANGED <<event, lastSequence, dispatched, delivery, locked, effects,
                   spent, faults, replays>>

LaneFree(w) ==
    Cardinality({d \in Deliveries : work[w][d] \notin {"none", "queued"}})
        < DeliveryConcurrency

Goto(w, d, phase) == work' = [work EXCEPT ![w][d] = phase]

(* claimDelivery answers alreadyProcessed or deferred.                     *)
claimDeferred(w, d) ==
    /\ work[w][d] = "queued"
    /\ LaneFree(w)
    /\ ~ RowLocked(d)
    /\ \/ ~ Claimable(d)
       \/ ~ AdvisoryLocked(d) /\ hasEarlierUnprocessedDelivery(d)
    /\ Goto(w, d, "none")
    /\ UNCHANGED <<event, lastSequence, dispatched, delivery, stage, locked,
                   effects, spent, faults, replays>>

(* The claim transaction throws: executeDelivery reports it, nothing is    *)
(* written.                                                                *)
claimThrows(w, d) ==
    /\ faults < MaxFaults
    /\ faults' = faults + 1
    /\ work[w][d] = "queued"
    /\ LaneFree(w)
    /\ Goto(w, d, "none")
    /\ UNCHANGED <<event, lastSequence, dispatched, delivery, stage, locked,
                   effects, spent, replays>>

(* claimDelivery takes the row.  claimedAt is the time read before the     *)
(* wait for the advisory lock, so the claim is shorter by that wait.       *)
claimDelivery(w, d) ==
    /\ work[w][d] = "queued"
    /\ LaneFree(w)
    /\ ~ RowLocked(d)
    /\ Claimable(d)
    /\ ~ AdvisoryLocked(d)
    /\ ~ hasEarlierUnprocessedDelivery(d)
    /\ \E waited \in 0 .. MaxLockWait :
         delivery' = [delivery EXCEPT ![d] =
             Row("processing", @.attempts + 1, LeaseTicks - waited, w)]
    /\ spent' = [spent EXCEPT ![d] =
           IF delivery[d].status = "processing" THEN @ + 1 ELSE @]
    /\ Goto(w, d, "claimed")
    /\ UNCHANGED <<event, lastSequence, dispatched, stage, locked, effects,
                   faults, replays>>

(* The delivery transaction locks the row and finds a newer claim.         *)
executeStale(w, d) ==
    /\ work[w][d] = "claimed"
    /\ ~ RowLocked(d)
    /\ ~ ownedProcessingDelivery(w, d)
    /\ Goto(w, d, "none")
    /\ UNCHANGED <<event, lastSequence, dispatched, delivery, stage, locked,
                   effects, spent, faults, replays>>

(* ... or finds its own.                                                   *)
executeLock(w, d) ==
    /\ work[w][d] = "claimed"
    /\ ~ RowLocked(d)
    /\ ownedProcessingDelivery(w, d)
    /\ Goto(w, d, "locked")
    /\ UNCHANGED <<event, lastSequence, dispatched, delivery, stage, locked,
                   effects, spent, faults, replays>>

(* Mutation: the release forgets to give the attempt back.                 *)
ReleasedCharged(r) == Row("pending", r.attempts, 0, NoWorker)

(* Mutation: the claim and the release both give the attempt back.         *)
ReleasedTwice(r) == Row("pending", r.attempts - 2, 0, NoWorker)

(* Release of a claim whose predecessor was materialised after it.         *)
Released(r) ==
    Row("pending", IF r.attempts > 0 THEN r.attempts - 1 ELSE 0, 0, NoWorker)

executeBlocked(w, d) ==
    /\ work[w][d] = "locked"
    /\ ~ AdvisoryLocked(d)
    /\ hasEarlierUnprocessedDelivery(d)
    /\ delivery' = [delivery EXCEPT ![d] =
           IF ownedProcessingDelivery(w, d) THEN Released(@) ELSE @]
    /\ Goto(w, d, "none")
    /\ UNCHANGED <<event, lastSequence, dispatched, stage, locked, effects,
                   spent, faults, replays>>

executeInvoke(w, d) ==
    /\ work[w][d] = "locked"
    /\ ~ AdvisoryLocked(d)
    /\ ~ hasEarlierUnprocessedDelivery(d)
    /\ Goto(w, d, "invoking")
    /\ UNCHANGED <<event, lastSequence, dispatched, delivery, stage, locked,
                   effects, spent, faults, replays>>

(* The bound action succeeds: its effects, the events it emits, and the    *)
(* reservation hook's finalize commit together.                            *)
finalize(w, d) ==
    /\ work[w][d] = "invoking"
    /\ ownedProcessingDelivery(w, d)
    /\ \E n \in 0 .. MaxGroup :
         \E ems \in [1 .. n -> Emission], ids \in MintedIds(n) :
             flush(n, ems, ids, d)
    /\ delivery' = [delivery EXCEPT ![d] =
                        Row("processed", @.attempts, 0, NoWorker)]
    /\ effects' = [effects EXCEPT ![d] = @ + 1]
    /\ Goto(w, d, "none")
    /\ UNCHANGED <<dispatched, stage, locked, spent, faults, replays>>

(* Mutation: events are written outside the delivery transaction.          *)
executeThrowsAfterEmit(w, d) ==
    /\ work[w][d] \in {"claimed", "locked", "invoking"}
    /\ \E n \in 0 .. MaxGroup :
         \E ems \in [1 .. n -> Emission], ids \in MintedIds(n) :
             flush(n, ems, ids, d)
    /\ Goto(w, d, "failed")
    /\ UNCHANGED <<dispatched, delivery, stage, locked, effects, spent, faults,
                   replays>>

(* The delivery transaction rolls back: the bound action failed, ran past  *)
(* its deadline, or a statement failed (finalize without a row included).  *)
executeThrows(w, d) ==
    /\ work[w][d] \in {"claimed", "locked", "invoking"}
    /\ Goto(w, d, "failed")
    /\ UNCHANGED <<event, lastSequence, dispatched, delivery, stage, locked,
                   effects, spent, faults, replays>>

(* Row after a recorded failure: retry with backoff, or parked dead.       *)
AfterFailure(r) ==
    IF r.attempts >= DELIVERY_MAX_ATTEMPTS
    THEN Row("dead", r.attempts, 0, NoWorker)
    ELSE Row("pending", r.attempts, deliveryRetryDelayMs(r.attempts), NoWorker)

recordDeliveryFailure(w, d) ==
    /\ work[w][d] = "failed"
    /\ IF ownedProcessingDelivery(w, d)
       THEN /\ delivery' = [delivery EXCEPT ![d] = AfterFailure(@)]
            /\ spent' = [spent EXCEPT ![d] = @ + 1]
       ELSE UNCHANGED <<delivery, spent>>
    /\ Goto(w, d, "none")
    /\ UNCHANGED <<event, lastSequence, dispatched, stage, locked, effects,
                   faults, replays>>

(* recordDeliveryFailure itself throws; executeOne logs it and the row     *)
(* stays processing until the claim expires.                               *)
recordThrows(w, d) ==
    /\ faults < MaxFaults
    /\ faults' = faults + 1
    /\ work[w][d] = "failed"
    /\ Goto(w, d, "none")
    /\ UNCHANGED <<event, lastSequence, dispatched, delivery, stage, locked,
                   effects, spent, replays>>

-----------------------------------------------------------------------------
(* Environment: crashes, operator replay, time.                            *)

Orphaned(r) == Row(r.status, r.attempts, r.timer, Gone)

(* The process dies and is restarted under a new workerId (randomUUID):    *)
(* its transactions roll back, rows keep the name of the dead process.     *)
Crash(w) ==
    /\ faults < MaxFaults
    /\ faults' = faults + 1
    /\ stage[w] # "idle" \/ \E d \in Deliveries : work[w][d] # "none"
    /\ stage' = [stage EXCEPT ![w] = "idle"]
    /\ locked' = [locked EXCEPT ![w] = {}]
    /\ work' = [work EXCEPT ![w] = [d \in Deliveries |-> "none"]]
    /\ delivery' = [d \in Deliveries |->
           IF delivery[d].claimedBy = w THEN Orphaned(delivery[d])
                                        ELSE delivery[d]]
    /\ UNCHANGED <<event, lastSequence, dispatched, effects, spent, replays>>

(* Mutation: replay without the status = 'dead' predicate.                 *)
ReplayableAny(d) == delivery[d].status \in {"dead", "processed"}

Replayable(d) == delivery[d].status = "dead"

(* replayDeadDeliveries for a consumer, restricted to one event or not.    *)
replayDeadDeliveries(c, ids) ==
    /\ replays < MaxReplays
    /\ \E i \in ids : Replayable(<<c, i>>)
    /\ replays' = replays + 1
    /\ delivery' = [d \in Deliveries |->
           IF d[1] = c /\ d[2] \in ids /\ Replayable(d)
           THEN Row("pending", 0, 0, NoWorker) ELSE delivery[d]]
    /\ spent' = [d \in Deliveries |->
           IF d[1] = c /\ d[2] \in ids /\ Replayable(d) THEN 0 ELSE spent[d]]
    /\ UNCHANGED <<event, lastSequence, dispatched, stage, locked, work,
                   effects, faults>>

(* A live process outlasting its own claim is a stall: a fault.            *)
Stall ==
    \E w \in Workers, d \in Deliveries :
        /\ ownedProcessingDelivery(w, d)
        /\ work[w][d] # "none"
        /\ delivery[d].timer = 1

(* Remaining ticks after one tick.                                         *)
Aged(timer) == IF timer > 0 THEN timer - 1 ELSE 0

Later(r) == Row(r.status, r.attempts, Aged(r.timer), r.claimedBy)

Tick ==
    /\ \E d \in Deliveries : delivery[d].timer > 0
    /\ Stall => faults < MaxFaults
    /\ faults' = IF Stall THEN faults + 1 ELSE faults
    /\ delivery' = [d \in Deliveries |-> Later(delivery[d])]
    /\ UNCHANGED <<event, lastSequence, dispatched, stage, locked, work,
                   effects, spent, replays>>

-----------------------------------------------------------------------------
(* Steps of worker w with delivery d.                                      *)
Lane(w, d) ==
    \/ claimDeferred(w, d)
    \/ claimThrows(w, d)
    \/ claimDelivery(w, d)
    \/ executeStale(w, d)
    \/ executeLock(w, d)
    \/ executeBlocked(w, d)
    \/ executeInvoke(w, d)
    \/ finalize(w, d)
    \/ executeThrows(w, d)
    \/ recordDeliveryFailure(w, d)
    \/ recordThrows(w, d)

Next ==
    \/ EmitFromRequest
    \/ \E w \in Workers :
          \/ dispatchSelect(w)
          \/ dispatchCommit(w)
          \/ tickFails(w)
          \/ findClaimableDeliveries(w)
          \/ Crash(w)
          \/ \E d \in Deliveries : Lane(w, d)
    \/ \E c \in Consumers :
          \/ replayDeadDeliveries(c, EventIds)
          \/ \E i \in EventIds : replayDeadDeliveries(c, {i})
    \/ Tick

Spec == Init /\ [][Next]_vars

(* The poll timer keeps every process ticking, lock queues are served, a   *)
(* running action ends at its deadline at the latest, time passes.         *)
Fairness ==
    /\ \A w \in Workers :
         /\ WF_vars(dispatchSelect(w))
         /\ WF_vars(dispatchCommit(w))
         /\ WF_vars(findClaimableDeliveries(w))
         /\ \A d \in Deliveries : WF_vars(Lane(w, d))
    /\ WF_vars(Tick)

FairSpec == Spec /\ Fairness

-----------------------------------------------------------------------------
(* Safety.                                                                 *)

(* The bound action of a delivery commits at most once, and exactly when   *)
(* its row is processed, whatever crashes, takeovers, retries and replays  *)
(* happen: redelivery is a consumer no-op.                                 *)
EffectsExactlyOnce ==
    \A d \in Deliveries :
        effects[d] = IF delivery[d].status = "processed" THEN 1 ELSE 0

(* The CoreInvariantErrors of the delivery path are unreachable: a         *)
(* processing row has an owner, a delivery in a lane has a row, and the    *)
(* worker that holds the row's lock still owns the claim when it           *)
(* finalizes.                                                              *)
NoInvariantError ==
    \A d \in Deliveries :
        /\ delivery[d].status = "processing" => delivery[d].claimedBy # NoWorker
        /\ \A w \in Workers :
             /\ work[w][d] # "none" => delivery[d].status # "absent"
             /\ work[w][d] \in {"locked", "invoking"}
                    => ownedProcessingDelivery(w, d)

(* Events a consumer emits exist only if the delivery that caused them is  *)
(* processed: a failed or superseded run leaves no event behind.           *)
CausedByProcessed ==
    \A i \in Committed :
        event[i].cause \in Deliveries =>
            delivery[event[i].cause].status = "processed"

(* attempts counts every claim since creation or replay that ran: those    *)
(* that failed or were lost, plus the current or the successful one.  A    *)
(* claim released because a predecessor appeared is not charged.           *)
AttemptAccounting ==
    \A d \in Deliveries :
        delivery[d].attempts = spent[d] +
            IF delivery[d].status \in {"processing", "processed"} THEN 1 ELSE 0

(* A consumer has processed a prefix of every aggregate it is bound to.    *)
ProcessedInSequence ==
    \A d, e \in Deliveries :
        (/\ SameStream(d, e)
         /\ d[1] \in Subscribers[event[d[2]].name]
         /\ event[d[2]].seq < event[e[2]].seq
         /\ delivery[e].status = "processed")
            => delivery[d].status = "processed"

ClaimKept ==
    \A w \in Workers, d \in Deliveries :
        (/\ ownedProcessingDelivery(w, d)
         /\ work[w][d] # "none"
         /\ delivery[d].timer > 0 \/ work[w][d] \in {"locked", "invoking"}
         /\ ~ ownedProcessingDelivery(w, d)')
            => work'[w][d] = "none"

(* A claim that has not expired, or whose delivery transaction holds the   *)
(* row, is ended only by its owner (or by the owner's death): no other     *)
(* worker takes it over, releases it or records a failure on it.           *)
ClaimEndsByOwner == [][ClaimKept]_vars

-----------------------------------------------------------------------------
(* Liveness.                                                               *)

(* Every committed event is eventually fanned out, including the ones no   *)
(* consumer is bound to.                                                   *)
EventuallyDispatched ==
    \A i \in EventIds : event[i] # NoEvent ~> i \in dispatched

(* Processed, or parked behind a dead delivery of its own stream.          *)
Settled(d) ==
    \/ delivery[d].status = "processed"
    \/ \E e \in Deliveries :
          /\ e = d \/ (SameStream(d, e) /\ event[e[2]].seq < event[d[2]].seq)
          /\ delivery[e].status = "dead"

(* Every materialised delivery settles: nothing but a dead predecessor of  *)
(* the same consumer and aggregate holds it back for ever.                 *)
EventuallySettled ==
    \A d \in Deliveries : delivery[d].status # "absent" ~> Settled(d)

(* Every committed event is dispatched and every delivery of it settles.   *)
EventuallyDelivered == EventuallyDispatched /\ EventuallySettled

=============================================================================
