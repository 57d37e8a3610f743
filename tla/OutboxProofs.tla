---------------------------- MODULE OutboxProofs ----------------------------
(* Theorems about Outbox, for every set of workers, consumers, aggregates  *)
(* and events and every value of the bounds.                               *)
EXTENDS Outbox, FiniteSetTheorems, TLAPS

(* A row built from well-typed columns is a row.                           *)
LEMMA RowTyped ==
    ASSUME NEW s \in Statuses, NEW n \in Nat, NEW t \in Nat,
           NEW w \in Workers \cup {NoWorker, Gone}
    PROVE  /\ Row(s, n, t, w) \in RowType
           /\ Row(s, n, t, w).status = s
           /\ Row(s, n, t, w).attempts = n
           /\ Row(s, n, t, w).timer = t
           /\ Row(s, n, t, w).claimedBy = w
    BY DEF Row, RowType

(* The number of emissions for one aggregate is a natural number.          *)
LEMMA CountTyped ==
    ASSUME NEW ems, NEW a, NEW k \in Nat
    PROVE  CountFor(ems, a, k) \in Nat
  <1>1. IsFiniteSet(1 .. k)
    BY FS_Interval
  <1>2. {j \in 1 .. k : ems[j].agg = a} \subseteq 1 .. k
    OBVIOUS
  <1>3. IsFiniteSet({j \in 1 .. k : ems[j].agg = a})
    BY <1>1, <1>2, FS_Subset
  <1> QED
    BY <1>3, FS_CardinalityType DEF CountFor

(* flush writes well-typed outbox rows and sequences; a row it adds        *)
(* carries the given cause, every other row stays as it was.               *)
LEMMA FlushTyped ==
    ASSUME TypeOK,
           NEW n \in Nat, NEW ems \in [1 .. n -> Emission],
           NEW ids \in MintedIds(n),
           NEW cause \in Deliveries \cup {NoCause},
           flush(n, ems, ids, cause)
    PROVE  /\ event' \in [EventIds -> EventType \cup {NoEvent}]
           /\ lastSequence' \in [Aggregates -> Nat]
           /\ \A i \in EventIds :
                event'[i] = event[i] \/ event'[i].cause = cause
  <1>1. lastSequence' \in [Aggregates -> Nat]
    <2>1. \A a \in Aggregates :
             lastSequence[a] \in Nat /\ CountFor(ems, a, n) \in Nat
      BY CountTyped DEF TypeOK
    <2> QED
      BY <2>1 DEF flush, advanceAggregateSequence
  <1>2. ASSUME NEW i \in EventIds
        PROVE  /\ event'[i] \in EventType \cup {NoEvent}
               /\ event'[i] = event[i] \/ event'[i].cause = cause
    <2>1. CASE \E k \in 1 .. n : ids[k] = i
      <3> DEFINE k == CHOOSE k \in 1 .. n : ids[k] = i
      <3>1. k \in 1 .. n
        BY <2>1
      <3>2. ems[k] \in Emission /\ k \in Nat
        BY <3>1
      <3>3. /\ ems[k].agg \in Aggregates
            /\ ems[k].name \in Names
        BY <3>2 DEF Emission
      <3>4. lastSequence[ems[k].agg] + CountFor(ems, ems[k].agg, k) \in Nat
        BY <3>2, <3>3, CountTyped DEF TypeOK
      <3>5. event'[i] = [agg   |-> ems[k].agg,
                         seq   |-> lastSequence[ems[k].agg]
                                     + CountFor(ems, ems[k].agg, k),
                         name  |-> ems[k].name,
                         cause |-> cause]
        BY <2>1 DEF flush
      <3> HIDE DEF k
      <3> QED
        BY <3>3, <3>4, <3>5 DEF EventType
    <2>2. CASE ~ \E k \in 1 .. n : ids[k] = i
      BY <2>2 DEF flush, TypeOK
    <2> QED
      BY <2>1, <2>2
  <1>3. event' = [i \in EventIds |-> event'[i]]
    BY DEF flush
  <1> QED
    BY <1>1, <1>2, <1>3

-----------------------------------------------------------------------------
(* Type correctness.                                                       *)

(* The rows the delivery path writes are well typed.                       *)
LEMMA WrittenRowsTyped ==
    ASSUME NEW r \in RowType
    PROVE  /\ Released(r) \in RowType
           /\ r.attempts > 0 => AfterFailure(r) \in RowType
           /\ Later(r) \in RowType
           /\ Orphaned(r) \in RowType
  <1>1. r.attempts \in Nat /\ r.timer \in Nat
    BY DEF RowType
  <1>2. Released(r) \in RowType
    BY <1>1 DEF Released, Row, RowType, Statuses
  <1>3. ASSUME r.attempts > 0 PROVE AfterFailure(r) \in RowType
    <2>1. CASE r.attempts >= DELIVERY_MAX_ATTEMPTS
      BY <1>1, <2>1 DEF AfterFailure, Row, RowType, Statuses
    <2>2. CASE ~ (r.attempts >= DELIVERY_MAX_ATTEMPTS)
      <3>1. r.attempts \in 1 .. DELIVERY_MAX_ATTEMPTS
        BY <1>1, <1>3, <2>2, BoundAssumption
      <3>2. deliveryRetryDelayMs(r.attempts) \in Nat
        BY <3>1, RetryAssumption
      <3> QED
        BY <1>1, <2>2, <3>2 DEF AfterFailure, Row, RowType, Statuses
    <2> QED
      BY <2>1, <2>2
  <1>4. Later(r) \in RowType
    BY <1>1 DEF Later, Aged, Row, RowType
  <1>5. Orphaned(r) \in RowType
    BY <1>1 DEF Orphaned, Row, RowType
  <1> QED
    BY <1>2, <1>3, <1>4, <1>5

(* attempts is positive while a row is processing, and zero before the     *)
(* row exists: what the typing of the retry delay rests on.                *)
AttemptsPositive ==
    \A d \in Deliveries :
        /\ delivery[d].status = "processing" => delivery[d].attempts > 0
        /\ delivery[d].status = "absent" => delivery[d].attempts = 0

(* The steps of a lane keep the types: claim, execution and the recording  *)
(* of a failure.                                                           *)
LEMMA LaneKeepsTypes ==
    ASSUME TypeOK, AttemptsPositive, NEW w \in Workers, NEW d \in Deliveries,
           Lane(w, d)
    PROVE  TypeOK' /\ AttemptsPositive'
  <1> USE DEF TypeOK
  <1>0. delivery[d] \in RowType
    OBVIOUS
  <1>1. delivery[d].attempts \in Nat
    BY <1>0 DEF RowType
  <1>2. ASSUME NEW p \in Phases, Goto(w, d, p)
        PROVE  work' \in [Workers -> [Deliveries -> Phases]]
    BY <1>2 DEF Goto
  <1>3. CASE claimDeferred(w, d) \/ executeStale(w, d) \/ executeLock(w, d)
               \/ executeInvoke(w, d) \/ executeThrows(w, d)
    <2>1. work' \in [Workers -> [Deliveries -> Phases]]
      BY <1>2, <1>3 DEF claimDeferred, executeStale, executeLock,
                        executeInvoke, executeThrows, Phases
    <2> QED
      BY <1>3, <2>1 DEF claimDeferred, executeStale, executeLock,
                        executeInvoke, executeThrows, AttemptsPositive
  <1>4. CASE claimThrows(w, d) \/ recordThrows(w, d)
    <2>1. work' \in [Workers -> [Deliveries -> Phases]]
      BY <1>2, <1>4 DEF claimThrows, recordThrows, Phases
    <2> QED
      BY <1>4, <2>1, BoundAssumption
         DEF claimThrows, recordThrows, AttemptsPositive
  <1>5. CASE claimDelivery(w, d)
    <2>1. work' \in [Workers -> [Deliveries -> Phases]]
      BY <1>2, <1>5 DEF claimDelivery, Phases
    <2>2. PICK waited \in 0 .. MaxLockWait :
             delivery' = [delivery EXCEPT ![d] =
                 Row("processing", @.attempts + 1, LeaseTicks - waited, w)]
      BY <1>5 DEF claimDelivery
    <2>3. LeaseTicks - waited \in Nat
      BY <2>2, BoundAssumption
    <2>4. /\ Row("processing", delivery[d].attempts + 1,
                 LeaseTicks - waited, w) \in RowType
          /\ Row("processing", delivery[d].attempts + 1,
                 LeaseTicks - waited, w).status = "processing"
          /\ Row("processing", delivery[d].attempts + 1,
                 LeaseTicks - waited, w).attempts = delivery[d].attempts + 1
      BY <1>1, <2>3 DEF Row, RowType, Statuses
    <2>5. delivery' \in [Deliveries -> RowType] /\ AttemptsPositive'
      BY <1>1, <2>2, <2>4 DEF AttemptsPositive
    <2>6. spent' \in [Deliveries -> Nat]
      BY <1>5 DEF claimDelivery
    <2> QED
      BY <1>5, <2>1, <2>5, <2>6 DEF claimDelivery
  <1>6. CASE executeBlocked(w, d)
    <2>1. work' \in [Workers -> [Deliveries -> Phases]]
      BY <1>2, <1>6 DEF executeBlocked, Phases
    <2>2. Released(delivery[d]) \in RowType
             /\ Released(delivery[d]).status = "pending"
      BY <1>0, WrittenRowsTyped DEF Released, Row
    <2>3. delivery' \in [Deliveries -> RowType] /\ AttemptsPositive'
      BY <1>6, <2>2 DEF executeBlocked, AttemptsPositive
    <2> QED
      BY <1>6, <2>1, <2>3 DEF executeBlocked
  <1>7. CASE finalize(w, d)
    <2>1. work' \in [Workers -> [Deliveries -> Phases]]
      BY <1>2, <1>7 DEF finalize, Phases
    <2>2. PICK n \in 0 .. MaxGroup :
             \E ems \in [1 .. n -> Emission], ids \in MintedIds(n) :
                 flush(n, ems, ids, d)
      BY <1>7 DEF finalize
    <2>3. n \in Nat
      BY <2>2, BoundAssumption
    <2>4. /\ event' \in [EventIds -> EventType \cup {NoEvent}]
          /\ lastSequence' \in [Aggregates -> Nat]
      BY <2>2, <2>3, FlushTyped
    <2>5. /\ Row("processed", delivery[d].attempts, 0, NoWorker) \in RowType
          /\ Row("processed", delivery[d].attempts, 0, NoWorker).status
                = "processed"
      BY <1>1, RowTyped DEF Statuses
    <2>6. delivery' \in [Deliveries -> RowType] /\ AttemptsPositive'
      BY <1>7, <2>5 DEF finalize, AttemptsPositive
    <2>7. effects' \in [Deliveries -> Nat]
      BY <1>7 DEF finalize
    <2> QED
      BY <1>7, <2>1, <2>4, <2>6, <2>7 DEF finalize
  <1>8. CASE recordDeliveryFailure(w, d)
    <2>1. work' \in [Workers -> [Deliveries -> Phases]]
      BY <1>2, <1>8 DEF recordDeliveryFailure, Phases
    <2>2. CASE ownedProcessingDelivery(w, d)
      <3>1. /\ AfterFailure(delivery[d]) \in RowType
            /\ AfterFailure(delivery[d]).status \in {"dead", "pending"}
        BY <1>0, <2>2, WrittenRowsTyped
           DEF AttemptsPositive, ownedProcessingDelivery, AfterFailure, Row
      <3>2. delivery' \in [Deliveries -> RowType] /\ AttemptsPositive'
        BY <1>8, <2>2, <3>1 DEF recordDeliveryFailure, AttemptsPositive
      <3>3. spent' \in [Deliveries -> Nat]
        BY <1>8, <2>2 DEF recordDeliveryFailure
      <3> QED
        BY <1>8, <2>1, <3>2, <3>3 DEF recordDeliveryFailure
    <2>3. CASE ~ ownedProcessingDelivery(w, d)
      BY <1>8, <2>1, <2>3 DEF recordDeliveryFailure, AttemptsPositive
    <2> QED
      BY <2>2, <2>3
  <1> QED
    BY <1>3, <1>4, <1>5, <1>6, <1>7, <1>8 DEF Lane

(* Every step of the system keeps the types.                               *)
LEMMA NextKeepsTypes ==
    ASSUME TypeOK, AttemptsPositive, [Next]_vars
    PROVE  TypeOK' /\ AttemptsPositive'
  <1> USE DEF TypeOK
  <1>0. \A d \in Deliveries : delivery[d] \in RowType
    OBVIOUS
  <1>1. CASE EmitFromRequest
    <2>1. PICK n \in 1 .. MaxGroup :
             \E ems \in [1 .. n -> Emission], ids \in MintedIds(n) :
                 flush(n, ems, ids, NoCause)
      BY <1>1 DEF EmitFromRequest
    <2>2. n \in Nat
      BY <2>1, BoundAssumption
    <2>3. /\ event' \in [EventIds -> EventType \cup {NoEvent}]
          /\ lastSequence' \in [Aggregates -> Nat]
      BY <2>1, <2>2, FlushTyped
    <2> QED
      BY <1>1, <2>3 DEF EmitFromRequest, AttemptsPositive
  <1>2. ASSUME NEW w \in Workers, dispatchSelect(w)
        PROVE  TypeOK' /\ AttemptsPositive'
    BY <1>2 DEF dispatchSelect, AttemptsPositive
  <1>3. ASSUME NEW w \in Workers, dispatchCommit(w)
        PROVE  TypeOK' /\ AttemptsPositive'
    <2>1. /\ Row("pending", 0, 0, NoWorker) \in RowType
          /\ Row("pending", 0, 0, NoWorker).status = "pending"
      BY RowTyped DEF Statuses
    <2>2. \A d \in Deliveries :
             \/ Materialised(w, d) = delivery[d]
             \/ Materialised(w, d) = Row("pending", 0, 0, NoWorker)
      BY DEF Materialised
    <2>3. delivery' \in [Deliveries -> RowType] /\ AttemptsPositive'
      BY <1>0, <1>3, <2>1, <2>2 DEF dispatchCommit, AttemptsPositive
    <2> QED
      BY <1>3, <2>3 DEF dispatchCommit, Marked
  <1>4. ASSUME NEW w \in Workers, tickFails(w)
        PROVE  TypeOK' /\ AttemptsPositive'
    BY <1>4, BoundAssumption DEF tickFails, AttemptsPositive
  <1>5. ASSUME NEW w \in Workers, findClaimableDeliveries(w)
        PROVE  TypeOK' /\ AttemptsPositive'
    <2>1. work' \in [Workers -> [Deliveries -> Phases]]
      BY <1>5 DEF findClaimableDeliveries, Phases
    <2> QED
      BY <1>5, <2>1 DEF findClaimableDeliveries, AttemptsPositive
  <1>6. ASSUME NEW w \in Workers, Crash(w)
        PROVE  TypeOK' /\ AttemptsPositive'
    <2>1. \A d \in Deliveries :
             /\ Orphaned(delivery[d]) \in RowType
             /\ Orphaned(delivery[d]).status
                   = delivery[d].status
             /\ Orphaned(delivery[d]).attempts
                   = delivery[d].attempts
      BY <1>0, WrittenRowsTyped DEF Orphaned, Row
    <2>2. delivery' \in [Deliveries -> RowType] /\ AttemptsPositive'
      BY <1>0, <1>6, <2>1 DEF Crash, AttemptsPositive
    <2>3. work' \in [Workers -> [Deliveries -> Phases]]
      BY <1>6 DEF Crash, Phases
    <2> QED
      BY <1>6, <2>2, <2>3, BoundAssumption DEF Crash
  <1>7. ASSUME NEW w \in Workers, NEW d \in Deliveries, Lane(w, d)
        PROVE  TypeOK' /\ AttemptsPositive'
    BY <1>7, LaneKeepsTypes
  <1>8. ASSUME NEW c \in Consumers, NEW ids, replayDeadDeliveries(c, ids)
        PROVE  TypeOK' /\ AttemptsPositive'
    <2>1. /\ Row("pending", 0, 0, NoWorker) \in RowType
          /\ Row("pending", 0, 0, NoWorker).status = "pending"
      BY RowTyped DEF Statuses
    <2>2. delivery' \in [Deliveries -> RowType] /\ AttemptsPositive'
      BY <1>0, <1>8, <2>1 DEF replayDeadDeliveries, AttemptsPositive
    <2>3. spent' \in [Deliveries -> Nat]
      BY <1>8 DEF replayDeadDeliveries
    <2> QED
      BY <1>8, <2>2, <2>3, BoundAssumption DEF replayDeadDeliveries
  <1>9. CASE Tick
    <2>1. \A d \in Deliveries :
             /\ Later(delivery[d]) \in RowType
             /\ Later(delivery[d]).status
                   = delivery[d].status
             /\ Later(delivery[d]).attempts
                   = delivery[d].attempts
      BY <1>0, WrittenRowsTyped DEF Later, Row
    <2>2. delivery' \in [Deliveries -> RowType] /\ AttemptsPositive'
      BY <1>9, <2>1 DEF Tick, AttemptsPositive
    <2> QED
      BY <1>9, <2>2, BoundAssumption DEF Tick
  <1>10. CASE UNCHANGED vars
    BY <1>10 DEF vars, AttemptsPositive
  <1> QED
    BY <1>1, <1>2, <1>3, <1>4, <1>5, <1>6, <1>7, <1>8, <1>9, <1>10 DEF Next

(* The types, and that a claimed row has been charged, hold in every       *)
(* reachable state.                                                        *)
LEMMA TypeInvariant == Spec => [](TypeOK /\ AttemptsPositive)
  <1>1. Init => TypeOK /\ AttemptsPositive
    BY DEF Init, TypeOK, AttemptsPositive, Absent, Row, RowType, Statuses,
           Phases
  <1>2. TypeOK /\ AttemptsPositive /\ [Next]_vars
            => TypeOK' /\ AttemptsPositive'
    BY NextKeepsTypes
  <1> QED
    BY <1>1, <1>2, PTL DEF Spec

(* Every reachable state of the outbox is well typed: TypeOK, the type     *)
(* invariant of the tables and of the worker processes.                    *)
THEOREM TypeCorrect == Spec => []TypeOK
  BY TypeInvariant, PTL

-----------------------------------------------------------------------------
(* The life of a delivery row.                                             *)

(* What one step may do to a row, with the effects and the spent attempts  *)
(* that go with it.                                                        *)
RowKept(d) ==
    /\ delivery'[d].status = delivery[d].status
    /\ delivery'[d].attempts = delivery[d].attempts
    /\ effects'[d] = effects[d] /\ spent'[d] = spent[d]

RowCreated(d) ==
    /\ delivery[d].status = "absent" /\ delivery'[d].status = "pending"
    /\ delivery'[d].attempts = 0
    /\ effects'[d] = effects[d] /\ spent'[d] = spent[d]

RowClaimed(d) ==
    /\ delivery[d].status \in {"pending", "processing"}
    /\ delivery'[d].status = "processing"
    /\ delivery'[d].attempts = delivery[d].attempts + 1
    /\ effects'[d] = effects[d]
    /\ spent'[d] = IF delivery[d].status = "processing" THEN spent[d] + 1
                                                       ELSE spent[d]

RowReleased(d) ==
    /\ delivery[d].status = "processing" /\ delivery'[d].status = "pending"
    /\ delivery'[d].attempts = delivery[d].attempts - 1
    /\ effects'[d] = effects[d] /\ spent'[d] = spent[d]

RowFinalized(d) ==
    /\ delivery[d].status = "processing" /\ delivery'[d].status = "processed"
    /\ delivery'[d].attempts = delivery[d].attempts
    /\ effects'[d] = effects[d] + 1 /\ spent'[d] = spent[d]

RowFailed(d) ==
    /\ delivery[d].status = "processing"
    /\ delivery'[d].status \in {"pending", "dead"}
    /\ delivery'[d].attempts = delivery[d].attempts
    /\ effects'[d] = effects[d] /\ spent'[d] = spent[d] + 1

RowReplayed(d) ==
    /\ delivery[d].status = "dead" /\ delivery'[d].status = "pending"
    /\ delivery'[d].attempts = 0
    /\ effects'[d] = effects[d] /\ spent'[d] = 0

RowStep(d) ==
    \/ RowKept(d) \/ RowCreated(d) \/ RowClaimed(d) \/ RowReleased(d)
    \/ RowFinalized(d) \/ RowFailed(d) \/ RowReplayed(d)

(* A lane moves only its own row, along one of those transitions.          *)
LEMMA LaneRowStep ==
    ASSUME TypeOK, AttemptsPositive, NEW w \in Workers, NEW e \in Deliveries,
           Lane(w, e), NEW d \in Deliveries
    PROVE  RowStep(d)
  <1> USE DEF TypeOK
  <1>1. delivery[e] \in RowType /\ delivery[e].attempts \in Nat
    BY DEF RowType
  <1>2. ASSUME delivery'[d] = delivery[d], effects'[d] = effects[d],
               spent'[d] = spent[d]
        PROVE  RowStep(d)
    BY <1>2 DEF RowStep, RowKept
  <1>3. CASE claimDeferred(w, e) \/ executeStale(w, e) \/ executeLock(w, e)
               \/ executeInvoke(w, e) \/ executeThrows(w, e)
               \/ claimThrows(w, e) \/ recordThrows(w, e)
    BY <1>2, <1>3 DEF claimDeferred, executeStale, executeLock, executeInvoke,
                      executeThrows, claimThrows, recordThrows
  <1>4. CASE claimDelivery(w, e)
    <2>1. CASE d = e
      <3>1. RowClaimed(d)
        BY <1>1, <1>4, <2>1 DEF claimDelivery, RowClaimed, Claimable, Row
      <3> QED
        BY <3>1 DEF RowStep
    <2>2. CASE d # e
      BY <1>2, <1>4, <2>2 DEF claimDelivery
    <2> QED
      BY <2>1, <2>2
  <1>5. CASE executeBlocked(w, e)
    <2>1. CASE d = e /\ ownedProcessingDelivery(w, e)
      <3>1. delivery[e].attempts > 0
        BY <2>1 DEF AttemptsPositive, ownedProcessingDelivery
      <3>2. RowReleased(d)
        BY <1>1, <1>5, <2>1, <3>1
           DEF executeBlocked, RowReleased, Released, Row,
               ownedProcessingDelivery
      <3> QED
        BY <3>2 DEF RowStep
    <2>2. CASE ~ (d = e /\ ownedProcessingDelivery(w, e))
      BY <1>2, <1>5, <2>2 DEF executeBlocked
    <2> QED
      BY <2>1, <2>2
  <1>6. CASE finalize(w, e)
    <2>1. CASE d = e
      <3>1. RowFinalized(d)
        BY <1>1, <1>6, <2>1
           DEF finalize, RowFinalized, Row, ownedProcessingDelivery
      <3> QED
        BY <3>1 DEF RowStep
    <2>2. CASE d # e
      BY <1>2, <1>6, <2>2 DEF finalize
    <2> QED
      BY <2>1, <2>2
  <1>7. CASE recordDeliveryFailure(w, e)
    <2>1. CASE d = e /\ ownedProcessingDelivery(w, e)
      <3>1. RowFailed(d)
        BY <1>1, <1>7, <2>1
           DEF recordDeliveryFailure, RowFailed, AfterFailure, Row,
               ownedProcessingDelivery
      <3> QED
        BY <3>1 DEF RowStep
    <2>2. CASE ~ (d = e /\ ownedProcessingDelivery(w, e))
      BY <1>2, <1>7, <2>2 DEF recordDeliveryFailure
    <2> QED
      BY <2>1, <2>2
  <1> QED
    BY <1>3, <1>4, <1>5, <1>6, <1>7 DEF Lane

(* Every step of the system moves every row along the life cycle.          *)
LEMMA NextRowStep ==
    ASSUME TypeOK, AttemptsPositive, [Next]_vars, NEW d \in Deliveries
    PROVE  RowStep(d)
  <1> USE DEF TypeOK
  <1>1. CASE UNCHANGED <<delivery, effects, spent>>
    BY <1>1 DEF RowStep, RowKept
  <1>2. ASSUME NEW w \in Workers, dispatchCommit(w)
        PROVE  RowStep(d)
    <2>1. CASE delivery[d].status = "absent"
                 /\ Materialised(w, d) = Row("pending", 0, 0, NoWorker)
      <3>1. RowCreated(d)
        BY <1>2, <2>1 DEF dispatchCommit, RowCreated, Row
      <3> QED
        BY <3>1 DEF RowStep
    <2>2. CASE Materialised(w, d) = delivery[d]
      BY <1>2, <2>2 DEF dispatchCommit, RowStep, RowKept
    <2> QED
      BY <2>1, <2>2 DEF Materialised
  <1>3. ASSUME NEW w \in Workers, Crash(w)
        PROVE  RowStep(d)
    BY <1>3 DEF Crash, Orphaned, Row, RowStep, RowKept
  <1>4. ASSUME NEW w \in Workers, NEW e \in Deliveries, Lane(w, e)
        PROVE  RowStep(d)
    BY <1>4, LaneRowStep
  <1>5. ASSUME NEW c \in Consumers, NEW ids, replayDeadDeliveries(c, ids)
        PROVE  RowStep(d)
    <2>1. CASE d[1] = c /\ d[2] \in ids /\ Replayable(d)
      <3>1. RowReplayed(d)
        BY <1>5, <2>1 DEF replayDeadDeliveries, RowReplayed, Replayable, Row
      <3> QED
        BY <3>1 DEF RowStep
    <2>2. CASE ~ (d[1] = c /\ d[2] \in ids /\ Replayable(d))
      BY <1>5, <2>2 DEF replayDeadDeliveries, RowStep, RowKept
    <2> QED
      BY <2>1, <2>2
  <1>6. CASE Tick
    BY <1>6 DEF Tick, Later, Row, RowStep, RowKept
  <1> QED
    BY <1>1, <1>2, <1>3, <1>4, <1>5, <1>6
       DEF Next, vars, EmitFromRequest, dispatchSelect, tickFails,
           findClaimableDeliveries

-----------------------------------------------------------------------------
(* Exactly-once effects, and the accounting of attempts.                   *)

(* A move of a row along its life cycle keeps the effect count and the     *)
(* attempt accounting.                                                     *)
LEMMA AccountingStep ==
    ASSUME TypeOK, AttemptsPositive, TypeOK', [Next]_vars,
           EffectsExactlyOnce, AttemptAccounting
    PROVE  EffectsExactlyOnce' /\ AttemptAccounting'
  <1> SUFFICES ASSUME NEW d \in Deliveries
               PROVE  /\ effects'[d] = IF delivery'[d].status = "processed"
                                       THEN 1 ELSE 0
                      /\ delivery'[d].attempts = spent'[d] +
                           IF delivery'[d].status \in {"processing", "processed"}
                           THEN 1 ELSE 0
    BY DEF EffectsExactlyOnce, AttemptAccounting
  <1>1. /\ effects[d] = IF delivery[d].status = "processed" THEN 1 ELSE 0
        /\ delivery[d].attempts = spent[d] +
             IF delivery[d].status \in {"processing", "processed"}
             THEN 1 ELSE 0
        /\ delivery[d].status = "absent" => delivery[d].attempts = 0
        /\ delivery[d].attempts \in Nat /\ spent[d] \in Nat
    BY DEF EffectsExactlyOnce, AttemptAccounting, AttemptsPositive, TypeOK,
           RowType
  <1>2. RowStep(d)
    BY NextRowStep
  <1> QED
    BY <1>1, <1>2
       DEF RowStep, RowKept, RowCreated, RowClaimed, RowReleased,
           RowFinalized, RowFailed, RowReplayed

(* Exactly-once effects and attempt accounting hold in every reachable     *)
(* state.                                                                  *)
LEMMA AccountingInvariant == Spec => [](EffectsExactlyOnce /\ AttemptAccounting)
  <1>1. Init => EffectsExactlyOnce /\ AttemptAccounting
    BY DEF Init, EffectsExactlyOnce, AttemptAccounting, Absent, Row
  <1>2. ASSUME TypeOK, AttemptsPositive, TypeOK', [Next]_vars,
               EffectsExactlyOnce /\ AttemptAccounting
        PROVE  EffectsExactlyOnce' /\ AttemptAccounting'
    BY <1>2, AccountingStep
  <1> QED
    BY <1>1, <1>2, TypeInvariant, PTL DEF Spec

(* EffectsExactlyOnce: the bound action of a delivery commits at most      *)
(* once, exactly when the row is processed, under any interleaving of      *)
(* workers, crashes, expired claims, retries and operator replays.         *)
THEOREM ExactlyOnce == Spec => []EffectsExactlyOnce
  BY AccountingInvariant, PTL

(* AttemptAccounting: attempts counts the claims that failed or were lost  *)
(* since creation or replay, plus the running or the successful one.       *)
THEOREM AttemptsAccounted == Spec => []AttemptAccounting
  BY AccountingInvariant, PTL

-----------------------------------------------------------------------------
(* Ownership: the row lock and the owner check together.                   *)

(* NoInvariantError for one delivery.                                      *)
Owned(d) ==
    /\ delivery[d].status = "processing" => delivery[d].claimedBy # NoWorker
    /\ \A w \in Workers :
         /\ work[w][d] # "none" => delivery[d].status # "absent"
         /\ work[w][d] \in {"locked", "invoking"}
              => ownedProcessingDelivery(w, d)

(* A step of a lane keeps the ownership facts.                             *)
LEMMA LaneKeepsOwnership ==
    ASSUME TypeOK, AttemptsPositive, NoInvariantError,
           NEW v \in Workers, NEW e \in Deliveries, Lane(v, e),
           NEW d \in Deliveries
    PROVE  Owned(d)'
  <1> USE DEF TypeOK, Owned
  <1>1. /\ delivery[d].status = "processing" => delivery[d].claimedBy # NoWorker
        /\ \A w \in Workers :
             /\ work[w][d] # "none" => delivery[d].status # "absent"
             /\ work[w][d] \in {"locked", "invoking"}
                  => /\ delivery[d].status = "processing"
                     /\ delivery[d].claimedBy = w
    BY DEF NoInvariantError, ownedProcessingDelivery
  <1>2. \A w \in Workers : (w # v \/ d # e) => work'[w][d] = work[w][d]
    BY DEF Lane, claimDeferred, claimThrows, claimDelivery, executeStale,
           executeLock, executeBlocked, executeInvoke, finalize,
           executeThrows, recordDeliveryFailure, recordThrows, Goto
  <1>3. CASE d # e
    <2>1. delivery'[d] = delivery[d]
      BY <1>3 DEF Lane, claimDeferred, claimThrows, claimDelivery,
           executeStale, executeLock, executeBlocked, executeInvoke, finalize,
           executeThrows, recordDeliveryFailure, recordThrows
    <2> QED
      BY <1>1, <1>2, <1>3, <2>1 DEF ownedProcessingDelivery
  <1>4. CASE d = e
    <2>1. CASE claimDeferred(v, e) \/ claimThrows(v, e) \/ executeStale(v, e)
                 \/ executeThrows(v, e) \/ recordThrows(v, e)
      <3>1. /\ delivery' = delivery
            /\ work'[v][d] \in {"none", "failed"}
            /\ work'[v][d] # "none" => work[v][d] # "none"
        BY <1>4, <2>1 DEF claimDeferred, claimThrows, executeStale,
                          executeThrows, recordThrows, Goto
      <3> QED
        BY <1>1, <1>2, <3>1 DEF ownedProcessingDelivery
    <2>2. CASE executeLock(v, e) \/ executeInvoke(v, e)
      <3>1. /\ delivery' = delivery
            /\ work[v][d] # "none"
            /\ delivery[d].status = "processing" /\ delivery[d].claimedBy = v
        BY <1>1, <1>4, <2>2
           DEF executeLock, executeInvoke, ownedProcessingDelivery
      <3> QED
        BY <1>1, <1>2, <3>1 DEF ownedProcessingDelivery
    <2>3. CASE claimDelivery(v, e)
      <3>1. /\ delivery'[d].status = "processing"
            /\ delivery'[d].claimedBy = v
            /\ work'[v][d] = "claimed"
        BY <1>4, <2>3 DEF claimDelivery, Row, Goto
      <3>2. \A w \in Workers : work[w][d] \notin {"locked", "invoking"}
        BY <1>4, <2>3 DEF claimDelivery, RowLocked
      <3> QED
        BY <1>2, <3>1, <3>2, OwnerAssumption
    <2>4. CASE executeBlocked(v, e) \/ finalize(v, e)
      <3>1. /\ delivery[d].claimedBy = v
            /\ delivery'[d].status \in {"pending", "processed"}
            /\ work'[v][d] = "none"
        BY <1>1, <1>4, <2>4
           DEF executeBlocked, finalize, Goto, Released, Row,
               ownedProcessingDelivery
      <3> QED
        BY <1>1, <1>2, <3>1
    <2>5. CASE recordDeliveryFailure(v, e)
      <3>1. work[v][d] = "failed" /\ work'[v][d] = "none"
        BY <1>4, <2>5 DEF recordDeliveryFailure, Goto
      <3>2. CASE ownedProcessingDelivery(v, e)
        <4>1. /\ delivery[d].claimedBy = v
              /\ delivery'[d].status \in {"pending", "dead"}
          BY <1>4, <2>5, <3>2
             DEF recordDeliveryFailure, AfterFailure, Row,
                 ownedProcessingDelivery
        <4> QED
          BY <1>1, <1>2, <3>1, <4>1
      <3>3. CASE ~ ownedProcessingDelivery(v, e)
        <4>1. delivery' = delivery
          BY <2>5, <3>3 DEF recordDeliveryFailure
        <4> QED
          BY <1>1, <1>2, <3>1, <4>1 DEF ownedProcessingDelivery
      <3> QED
        BY <3>2, <3>3
    <2> QED
      BY <2>1, <2>2, <2>3, <2>4, <2>5 DEF Lane
  <1> QED
    BY <1>3, <1>4

(* Every step of the system keeps them.                                    *)
LEMMA NextKeepsOwnership ==
    ASSUME TypeOK, AttemptsPositive, NoInvariantError, [Next]_vars
    PROVE  NoInvariantError'
  <1> USE DEF TypeOK, Owned
  <1> SUFFICES ASSUME NEW d \in Deliveries PROVE Owned(d)'
    BY DEF NoInvariantError
  <1>1. /\ delivery[d].status = "processing" => delivery[d].claimedBy # NoWorker
        /\ \A w \in Workers :
             /\ work[w][d] # "none" => delivery[d].status # "absent"
             /\ work[w][d] \in {"locked", "invoking"}
                  => /\ delivery[d].status = "processing"
                     /\ delivery[d].claimedBy = w
    BY DEF NoInvariantError, ownedProcessingDelivery
  <1>2. CASE UNCHANGED <<delivery, work>>
    BY <1>1, <1>2 DEF ownedProcessingDelivery
  <1>3. ASSUME NEW v \in Workers, dispatchCommit(v)
        PROVE  Owned(d)'
    <2>1. \/ delivery'[d] = delivery[d]
          \/ /\ delivery[d].status = "absent"
             /\ delivery'[d].status = "pending"
      BY <1>3 DEF dispatchCommit, Materialised, Row
    <2> QED
      BY <1>1, <1>3, <2>1 DEF dispatchCommit, ownedProcessingDelivery
  <1>4. ASSUME NEW v \in Workers, findClaimableDeliveries(v)
        PROVE  Owned(d)'
    <2>1. \A w \in Workers :
             \/ work'[w][d] = work[w][d]
             \/ work'[w][d] = "none"
             \/ work'[w][d] = "queued" /\ Claimable(d)
      BY <1>4 DEF findClaimableDeliveries, DueHeads
    <2> QED
      BY <1>1, <1>4, <2>1
         DEF findClaimableDeliveries, Claimable, ownedProcessingDelivery
  <1>5. ASSUME NEW v \in Workers, Crash(v)
        PROVE  Owned(d)'
    <2>1. \A w \in Workers :
             work'[w][d] = IF w = v THEN "none" ELSE work[w][d]
      BY <1>5 DEF Crash
    <2>2. /\ delivery'[d].status = delivery[d].status
          /\ delivery'[d].claimedBy =
                IF delivery[d].claimedBy = v THEN Gone ELSE delivery[d].claimedBy
      BY <1>5 DEF Crash, Orphaned, Row
    <2> QED
      BY <1>1, <2>1, <2>2, OwnerAssumption DEF ownedProcessingDelivery
  <1>6. ASSUME NEW v \in Workers, NEW e \in Deliveries, Lane(v, e)
        PROVE  Owned(d)'
    BY <1>6, LaneKeepsOwnership
  <1>7. ASSUME NEW c \in Consumers, NEW ids, replayDeadDeliveries(c, ids)
        PROVE  Owned(d)'
    <2>1. \/ delivery'[d] = delivery[d]
          \/ delivery[d].status = "dead" /\ delivery'[d].status = "pending"
      BY <1>7 DEF replayDeadDeliveries, Replayable, Row
    <2> QED
      BY <1>1, <1>7, <2>1 DEF replayDeadDeliveries, ownedProcessingDelivery
  <1>8. CASE Tick
    <2>1. /\ delivery'[d].status = delivery[d].status
          /\ delivery'[d].claimedBy = delivery[d].claimedBy
      BY <1>8 DEF Tick, Later, Row
    <2> QED
      BY <1>1, <1>8, <2>1 DEF Tick, ownedProcessingDelivery
  <1> QED
    BY <1>2, <1>3, <1>4, <1>5, <1>6, <1>7, <1>8
       DEF Next, vars, EmitFromRequest, dispatchSelect, tickFails

(* NoInvariantError: the invariant errors of claimDelivery, lockDeliveryRow *)
(* and of the reservation hook's finalize are unreachable.                 *)
THEOREM OwnershipKept == Spec => []NoInvariantError
  <1>1. Init => NoInvariantError
    BY DEF Init, NoInvariantError, Absent, Row
  <1>2. ASSUME TypeOK, AttemptsPositive, NoInvariantError, [Next]_vars
        PROVE  NoInvariantError'
    BY <1>2, NextKeepsOwnership
  <1> QED
    BY <1>1, <1>2, TypeInvariant, PTL DEF Spec

-----------------------------------------------------------------------------
(* Events caused by a delivery.                                            *)

(* processed is final.                                                     *)
LEMMA ProcessedFinal ==
    ASSUME TypeOK, AttemptsPositive, [Next]_vars, NEW d \in Deliveries,
           delivery[d].status = "processed"
    PROVE  delivery'[d].status = "processed"
  BY NextRowStep
     DEF RowStep, RowKept, RowCreated, RowClaimed, RowReleased,
         RowFinalized, RowFailed, RowReplayed

(* Only a committing action changes domain_events rows.                    *)
LEMMA EventsByCommit ==
    ASSUME [Next]_vars
    PROVE  \/ event' = event
           \/ EmitFromRequest
           \/ \E w \in Workers, d \in Deliveries : finalize(w, d)
  <1>1. ASSUME NEW w \in Workers, NEW d \in Deliveries, Lane(w, d)
        PROVE  finalize(w, d) \/ event' = event
    BY <1>1 DEF Lane, claimDeferred, claimThrows, claimDelivery, executeStale,
                executeLock, executeBlocked, executeInvoke, executeThrows,
                recordDeliveryFailure, recordThrows
  <1>2. ASSUME NEW w \in Workers,
               \/ dispatchSelect(w) \/ dispatchCommit(w) \/ tickFails(w)
               \/ findClaimableDeliveries(w) \/ Crash(w)
        PROVE  event' = event
    BY <1>2 DEF dispatchSelect, dispatchCommit, tickFails,
                findClaimableDeliveries, Crash
  <1>3. ASSUME NEW c \in Consumers, NEW ids, replayDeadDeliveries(c, ids)
        PROVE  event' = event
    BY <1>3 DEF replayDeadDeliveries
  <1>4. CASE Tick \/ UNCHANGED vars
    BY <1>4 DEF Tick, vars
  <1> QED
    BY <1>1, <1>2, <1>3, <1>4 DEF Next

(* CausedByProcessed: events a consumer emitted exist only if the delivery *)
(* that caused them is processed; a failed or superseded run leaves none.  *)
THEOREM CausesProcessed == Spec => []CausedByProcessed
  <1>1. Init => CausedByProcessed
    BY DEF Init, CausedByProcessed, Committed
  <1>2. ASSUME TypeOK, AttemptsPositive, CausedByProcessed, [Next]_vars
        PROVE  CausedByProcessed'
    <2> SUFFICES ASSUME NEW i \in EventIds, event'[i] # NoEvent,
                        event'[i].cause \in Deliveries
                 PROVE  delivery'[event'[i].cause].status = "processed"
      BY DEF CausedByProcessed, Committed
    <2>1. CASE event'[i] = event[i]
      <3>1. delivery[event[i].cause].status = "processed"
        BY <1>2, <2>1 DEF CausedByProcessed, Committed
      <3> QED
        BY <1>2, <2>1, <3>1, ProcessedFinal
    <2>2. CASE EmitFromRequest
      <3>1. PICK n \in 1 .. MaxGroup :
               \E ems \in [1 .. n -> Emission], ids \in MintedIds(n) :
                   flush(n, ems, ids, NoCause)
        BY <2>2 DEF EmitFromRequest
      <3>2. n \in Nat
        BY <3>1, BoundAssumption
      <3>3. event'[i] = event[i] \/ event'[i].cause = NoCause
        BY <1>2, <3>1, <3>2, FlushTyped
      <3> QED
        BY <2>1, <3>3, OwnerAssumption
    <2>3. ASSUME NEW w \in Workers, NEW d \in Deliveries, finalize(w, d)
          PROVE  delivery'[event'[i].cause].status = "processed"
      <3>1. PICK n \in 0 .. MaxGroup :
               \E ems \in [1 .. n -> Emission], ids \in MintedIds(n) :
                   flush(n, ems, ids, d)
        BY <2>3 DEF finalize
      <3>2. n \in Nat
        BY <3>1, BoundAssumption
      <3>3. event'[i] = event[i] \/ event'[i].cause = d
        BY <1>2, <3>1, <3>2, FlushTyped
      <3>4. delivery'[d].status = "processed"
        BY <1>2, <2>3 DEF finalize, Row, TypeOK
      <3> QED
        BY <2>1, <3>3, <3>4
    <2> QED
      BY <1>2, <2>1, <2>2, <2>3, EventsByCommit
  <1> QED
    BY <1>1, <1>2, TypeInvariant, PTL DEF Spec

-----------------------------------------------------------------------------
(* A live claim belongs to its owner.                                      *)

(* No step of another process ends a live claim or one whose row is        *)
(* locked.                                                                 *)
LEMMA NextKeepsClaims ==
    ASSUME TypeOK, [Next]_vars
    PROVE  ClaimKept
  <1> USE DEF TypeOK
  <1> SUFFICES ASSUME NEW w \in Workers, NEW d \in Deliveries,
                      delivery[d].status = "processing",
                      delivery[d].claimedBy = w,
                      work[w][d] # "none",
                      \/ delivery[d].timer > 0
                      \/ work[w][d] \in {"locked", "invoking"},
                      ~ ownedProcessingDelivery(w, d)'
               PROVE  work'[w][d] = "none"
    BY DEF ClaimKept, ownedProcessingDelivery
  <1>1. CASE delivery'[d] = delivery[d]
    BY <1>1 DEF ownedProcessingDelivery
  <1>2. ASSUME NEW v \in Workers, dispatchCommit(v)
        PROVE  work'[w][d] = "none"
    BY <1>1, <1>2 DEF dispatchCommit, Materialised
  <1>3. ASSUME NEW v \in Workers, Crash(v)
        PROVE  work'[w][d] = "none"
    BY <1>1, <1>3 DEF Crash
  <1>4. ASSUME NEW v \in Workers, NEW e \in Deliveries, Lane(v, e)
        PROVE  work'[w][d] = "none"
    <2>1. CASE claimDelivery(v, e)
      <3>1. CASE d = e
        <4>1. delivery[d].timer = 0
          BY <2>1, <3>1 DEF claimDelivery, Claimable
        <4>2. work[w][d] \in {"locked", "invoking"}
          BY <4>1
        <4> QED
          BY <2>1, <3>1, <4>2 DEF claimDelivery, RowLocked
      <3>2. CASE d # e
        BY <1>1, <2>1, <3>2 DEF claimDelivery
      <3> QED
        BY <3>1, <3>2
    <2>2. CASE executeBlocked(v, e)
      BY <1>1, <2>2 DEF executeBlocked, ownedProcessingDelivery, Goto
    <2>3. CASE finalize(v, e)
      BY <1>1, <2>3 DEF finalize, ownedProcessingDelivery, Goto
    <2>4. CASE recordDeliveryFailure(v, e)
      BY <1>1, <2>4 DEF recordDeliveryFailure, ownedProcessingDelivery, Goto
    <2> QED
      BY <1>1, <1>4, <2>1, <2>2, <2>3, <2>4
         DEF Lane, claimDeferred, claimThrows, executeStale, executeLock,
             executeInvoke, executeThrows, recordThrows
  <1>5. ASSUME NEW c \in Consumers, NEW ids, replayDeadDeliveries(c, ids)
        PROVE  work'[w][d] = "none"
    BY <1>1, <1>5 DEF replayDeadDeliveries, Replayable
  <1>6. CASE Tick
    BY <1>6 DEF Tick, Later, Row, ownedProcessingDelivery
  <1> QED
    BY <1>1, <1>2, <1>3, <1>4, <1>5, <1>6
       DEF Next, vars, EmitFromRequest, dispatchSelect, tickFails,
           findClaimableDeliveries

(* ClaimEndsByOwner: until it expires, and for as long as the delivery     *)
(* transaction holds the row, a claim is ended by its owner alone.         *)
THEOREM ClaimsEndByOwner == Spec => ClaimEndsByOwner
  <1>1. TypeOK /\ [Next]_vars => [ClaimKept]_vars
    BY NextKeepsClaims
  <1> QED
    BY <1>1, TypeInvariant, PTL DEF Spec, ClaimEndsByOwner

-----------------------------------------------------------------------------
(* Order of processing, with one dispatcher.                               *)

(* i precedes j in the log of their aggregate.                             *)
Before(i, j) ==
    /\ i \in Committed /\ j \in Committed
    /\ event[i].agg = event[j].agg
    /\ event[i].seq < event[j].seq

(* No committed event lies beyond the counter of its aggregate.            *)
SequencesBelow ==
    \A i \in Committed : event[i].seq <= lastSequence[event[i].agg]

(* Only committed events are dispatched or locked, and only a dispatch     *)
(* transaction holds locks.                                                *)
DispatchedKnown ==
    /\ dispatched \subseteq Committed
    /\ \A w \in Workers :
         /\ locked[w] \subseteq Committed
         /\ stage[w] # "dispatching" => locked[w] = {}

(* What is dispatched, and what a dispatch transaction adds to it, is a    *)
(* prefix of every aggregate's log.                                        *)
PrefixDispatched ==
    \A i, j \in EventIds :
        Before(i, j) =>
            /\ j \in dispatched => i \in dispatched
            /\ \A w \in Workers :
                 j \in locked[w] => i \in dispatched \cup locked[w]

(* A dispatched event has its rows, and no other event has any.            *)
RowsMatch ==
    \A d \in Deliveries :
        /\ delivery[d].status # "absent" => d[2] \in dispatched
        /\ d[2] \in dispatched /\ d[1] \in Subscribers[event[d[2]].name]
             => delivery[d].status # "absent"

(* The bound action of e runs or has committed.                            *)
Reached(e) ==
    \/ delivery[e].status = "processed"
    \/ \E w \in Workers : work[w][e] = "invoking"

(* When the bound action of a delivery runs, its predecessors are done.    *)
PredecessorsProcessed ==
    \A d, e \in Deliveries :
        (/\ d[1] = e[1]
         /\ Before(d[2], e[2])
         /\ d[1] \in Subscribers[event[d[2]].name]
         /\ Reached(e))
            => delivery[d].status = "processed"

SInv ==
    /\ SequencesBelow
    /\ DispatchedKnown
    /\ PrefixDispatched
    /\ RowsMatch
    /\ PredecessorsProcessed

(* What the order of processing needs of the environment: one dispatcher;  *)
(* and a batch that LIMIT does not cut, or that is cut in the order of the *)
(* sequences, which is when ids are minted in the order of commits.        *)
SingleDispatcher == \A v, w \in Workers : v = w

IdsFollowSequence == \A i, j \in EventIds : Before(i, j) => i < j

BacklogFits == Cardinality(Committed \ dispatched) <= DispatchBatch

BatchesInOrder == IdsFollowSequence \/ BacklogFits

(* A longer stretch of the emissions has as many for an aggregate or more, *)
(* and one that ends with an emission for the aggregate has at least one.  *)
LEMMA CountGrows ==
    ASSUME NEW ems, NEW a, NEW n \in Nat, NEW k \in 1 .. n
    PROVE  /\ CountFor(ems, a, k) <= CountFor(ems, a, n)
           /\ ems[k].agg = a => CountFor(ems, a, k) >= 1
  <1> DEFINE S(m) == {j \in 1 .. m : ems[j].agg = a}
  <1>1. IsFiniteSet(1 .. n) /\ S(n) \subseteq 1 .. n
    BY FS_Interval
  <1>2. IsFiniteSet(S(n))
    BY <1>1, FS_Subset
  <1>3. S(k) \subseteq S(n)
    OBVIOUS
  <1>4. IsFiniteSet(S(k)) /\ Cardinality(S(k)) <= Cardinality(S(n))
    BY <1>2, <1>3, FS_Subset
  <1>5. ASSUME ems[k].agg = a PROVE Cardinality(S(k)) >= 1
    <2>1. k \in S(k)
      BY <1>5
    <2>2. Cardinality(S(k)) # 0
      BY <1>4, <2>1, FS_EmptySet
    <2> QED
      BY <1>4, <2>2, FS_CardinalityType
  <1> QED
    BY <1>4, <1>5 DEF CountFor

(* flush numbers what it adds above the counters it finds, and moves these *)
(* to the last number it gave.                                             *)
LEMMA FlushAppends ==
    ASSUME TypeOK,
           NEW n \in Nat, NEW ems \in [1 .. n -> Emission],
           NEW ids \in MintedIds(n),
           NEW cause \in Deliveries \cup {NoCause},
           flush(n, ems, ids, cause)
    PROVE  /\ \A a \in Aggregates : lastSequence[a] <= lastSequence'[a]
           /\ \A i \in EventIds :
                \/ event'[i] = event[i]
                \/ /\ event[i] = NoEvent
                   /\ event'[i].seq > lastSequence[event'[i].agg]
                   /\ event'[i].seq <= lastSequence'[event'[i].agg]
  <1>1. \A a \in Aggregates :
           lastSequence[a] \in Nat /\ CountFor(ems, a, n) \in Nat
    BY CountTyped DEF TypeOK
  <1>2. \A a \in Aggregates :
           lastSequence'[a] = lastSequence[a] + CountFor(ems, a, n)
    BY DEF flush, advanceAggregateSequence
  <1>3. ASSUME NEW i \in EventIds, \E k \in 1 .. n : ids[k] = i
        PROVE  /\ event[i] = NoEvent
               /\ event'[i].seq > lastSequence[event'[i].agg]
               /\ event'[i].seq <= lastSequence'[event'[i].agg]
    <2> DEFINE k == CHOOSE k \in 1 .. n : ids[k] = i
    <2>1. k \in 1 .. n /\ ids[k] = i
      BY <1>3
    <2>2. event[i] = NoEvent
      BY <2>1 DEF MintedIds, Committed
    <2>3. /\ event'[i].agg = ems[k].agg
          /\ event'[i].seq = lastSequence[ems[k].agg]
                               + CountFor(ems, ems[k].agg, k)
      BY <1>3 DEF flush
    <2> HIDE DEF k
    <2>4. ems[k].agg \in Aggregates
      BY <2>1 DEF Emission
    <2>5. /\ CountFor(ems, ems[k].agg, k) <= CountFor(ems, ems[k].agg, n)
          /\ CountFor(ems, ems[k].agg, k) >= 1
          /\ CountFor(ems, ems[k].agg, k) \in Nat
      BY <2>1, CountGrows, CountTyped
    <2> QED
      BY <1>1, <1>2, <2>2, <2>3, <2>4, <2>5
  <1>4. ASSUME NEW i \in EventIds, ~ \E k \in 1 .. n : ids[k] = i
        PROVE  event'[i] = event[i]
    BY <1>4 DEF flush
  <1> QED
    BY <1>1, <1>2, <1>3, <1>4

(* The log of every aggregate grows at its end only.                       *)
LogGrows ==
    /\ \A a \in Aggregates : lastSequence[a] <= lastSequence'[a]
    /\ \A i \in EventIds :
         \/ event'[i] = event[i]
         \/ /\ event[i] = NoEvent
            /\ event'[i].seq > lastSequence[event'[i].agg]
            /\ event'[i].seq <= lastSequence'[event'[i].agg]

LEMMA NextGrowsLog ==
    ASSUME TypeOK, [Next]_vars
    PROVE  LogGrows
  <1>1. CASE event' = event /\ lastSequence' = lastSequence
    BY <1>1 DEF LogGrows, TypeOK
  <1>2. CASE EmitFromRequest
    <2>1. PICK n \in 1 .. MaxGroup :
             \E ems \in [1 .. n -> Emission], ids \in MintedIds(n) :
                 flush(n, ems, ids, NoCause)
      BY <1>2 DEF EmitFromRequest
    <2>2. n \in Nat
      BY <2>1, BoundAssumption
    <2> QED
      BY <2>1, <2>2, FlushAppends DEF LogGrows
  <1>3. ASSUME NEW w \in Workers, NEW d \in Deliveries, finalize(w, d)
        PROVE  LogGrows
    <2>1. PICK n \in 0 .. MaxGroup :
             \E ems \in [1 .. n -> Emission], ids \in MintedIds(n) :
                 flush(n, ems, ids, d)
      BY <1>3 DEF finalize
    <2>2. n \in Nat
      BY <2>1, BoundAssumption
    <2> QED
      BY <2>1, <2>2, FlushAppends DEF LogGrows
  <1>4. ASSUME NEW w \in Workers, NEW d \in Deliveries, Lane(w, d)
        PROVE  finalize(w, d) \/ (event' = event /\ lastSequence' = lastSequence)
    BY <1>4 DEF Lane, claimDeferred, claimThrows, claimDelivery, executeStale,
                executeLock, executeBlocked, executeInvoke, executeThrows,
                recordDeliveryFailure, recordThrows
  <1>5. ASSUME NEW w \in Workers,
               \/ dispatchSelect(w) \/ dispatchCommit(w) \/ tickFails(w)
               \/ findClaimableDeliveries(w) \/ Crash(w)
        PROVE  event' = event /\ lastSequence' = lastSequence
    BY <1>5 DEF dispatchSelect, dispatchCommit, tickFails,
                findClaimableDeliveries, Crash
  <1>6. ASSUME NEW c \in Consumers, NEW ids, replayDeadDeliveries(c, ids)
        PROVE  event' = event /\ lastSequence' = lastSequence
    BY <1>6 DEF replayDeadDeliveries
  <1>7. CASE Tick \/ UNCHANGED vars
    BY <1>1, <1>7 DEF Tick, vars
  <1> QED
    BY <1>1, <1>2, <1>3, <1>4, <1>5, <1>6, <1>7 DEF Next

(* The order of committed events does not change: an event that is new     *)
(* precedes nothing that was there.                                        *)
LEMMA OrderKept ==
    ASSUME TypeOK, TypeOK', SequencesBelow, LogGrows
    PROVE  /\ SequencesBelow'
           /\ Committed \subseteq Committed'
           /\ \A i \in Committed : event'[i] = event[i]
           /\ \A i, j \in EventIds :
                Before(i, j)' /\ j \in Committed => Before(i, j)
  <1>1. ASSUME NEW i \in Committed PROVE event'[i] = event[i]
    BY DEF LogGrows, Committed
  <1>2. Committed \subseteq Committed'
    BY <1>1 DEF Committed
  <1>3. \A i \in EventIds : event'[i] # NoEvent =>
           event'[i].agg \in Aggregates /\ event'[i].seq \in Nat
    BY DEF TypeOK, EventType
  <1>4. \A a \in Aggregates : lastSequence[a] \in Nat /\ lastSequence'[a] \in Nat
    BY DEF TypeOK
  <1>5. SequencesBelow'
    <2> SUFFICES ASSUME NEW i \in EventIds, event'[i] # NoEvent
                 PROVE  event'[i].seq <= lastSequence'[event'[i].agg]
      BY DEF SequencesBelow, Committed
    <2>1. CASE event'[i] = event[i]
      <3>1. event[i].seq <= lastSequence[event[i].agg]
        BY <2>1 DEF SequencesBelow, Committed
      <3>2. lastSequence[event[i].agg] <= lastSequence'[event[i].agg]
        BY <1>3, <2>1 DEF LogGrows
      <3> QED
        BY <1>3, <1>4, <2>1, <3>1, <3>2
    <2> QED
      BY <2>1 DEF LogGrows
  <1>6. ASSUME NEW i \in EventIds, NEW j \in EventIds,
               Before(i, j)', j \in Committed
        PROVE  Before(i, j)
    <2>1. event'[j] = event[j]
      BY <1>1, <1>6
    <2>2. /\ event'[i] # NoEvent /\ event'[i].agg = event[j].agg
          /\ event'[i].seq < event[j].seq
      BY <1>6, <2>1 DEF Before, Committed
    <2>3. event[j].seq <= lastSequence[event[j].agg]
      BY <1>6 DEF SequencesBelow
    <2>4. event[j].agg \in Aggregates /\ event[j].seq \in Nat
      BY <1>3, <1>6, <2>1 DEF Committed
    <2>5. ~ (event'[i].seq > lastSequence[event'[i].agg])
      BY <1>3, <1>4, <2>2, <2>3, <2>4
    <2>6. event'[i] = event[i]
      BY <2>5 DEF LogGrows
    <2> QED
      BY <1>6, <2>2, <2>6 DEF Before, Committed
  <1> QED
    BY <1>1, <1>2, <1>5, <1>6

(* Only the commit of a dispatch creates rows, for the events it locked.   *)
LEMMA RowsByDispatch ==
    ASSUME TypeOK, [Next]_vars, NEW d \in Deliveries,
           delivery[d].status = "absent", delivery'[d].status # "absent"
    PROVE  \E w \in Workers : dispatchCommit(w) /\ d[2] \in locked[w]
  <1> USE DEF TypeOK
  <1>1. ASSUME NEW w \in Workers, NEW e \in Deliveries, Lane(w, e)
        PROVE  delivery'[d] = delivery[d]
    <2>1. delivery' = delivery
            \/ (claimDelivery(w, e) \/ executeBlocked(w, e) \/ finalize(w, e)
                  \/ recordDeliveryFailure(w, e))
      BY <1>1 DEF Lane, claimDeferred, claimThrows, executeStale, executeLock,
                  executeInvoke, executeThrows, recordThrows
    <2>2. CASE claimDelivery(w, e)
      BY <2>2 DEF claimDelivery, Claimable
    <2>3. CASE executeBlocked(w, e)
      BY <2>3 DEF executeBlocked, ownedProcessingDelivery
    <2>4. CASE finalize(w, e)
      BY <2>4 DEF finalize, ownedProcessingDelivery
    <2>5. CASE recordDeliveryFailure(w, e)
      BY <2>5 DEF recordDeliveryFailure, ownedProcessingDelivery
    <2> QED
      BY <2>1, <2>2, <2>3, <2>4, <2>5
  <1>2. ASSUME NEW w \in Workers, dispatchCommit(w)
        PROVE  d[2] \in locked[w]
    BY <1>2 DEF dispatchCommit, Materialised
  <1>3. ASSUME NEW w \in Workers, Crash(w)
        PROVE  FALSE
    BY <1>3 DEF Crash, Orphaned, Row
  <1>4. ASSUME NEW c \in Consumers, NEW ids, replayDeadDeliveries(c, ids)
        PROVE  FALSE
    BY <1>4 DEF replayDeadDeliveries, Replayable
  <1>5. ~ Tick
    BY DEF Tick, Later, Row
  <1> QED
    BY <1>1, <1>2, <1>3, <1>4, <1>5
       DEF Next, vars, EmitFromRequest, dispatchSelect, tickFails,
           findClaimableDeliveries

(* What a step may do to the dispatch transactions.                        *)
LEMMA DispatchStep ==
    ASSUME TypeOK, DispatchedKnown, [Next]_vars
    PROVE  \/ /\ dispatched' = dispatched
              /\ \A w \in Workers :
                   \/ locked'[w] = {}
                   \/ locked'[w] = locked[w] /\ stage'[w] = stage[w]
           \/ \E w \in Workers : dispatchSelect(w) \/ dispatchCommit(w)
  <1> USE DEF TypeOK
  <1>1. CASE UNCHANGED <<dispatched, locked, stage>>
    BY <1>1
  <1>2. ASSUME NEW w \in Workers, tickFails(w) \/ Crash(w)
        PROVE  /\ dispatched' = dispatched
               /\ \A v \in Workers :
                    \/ locked'[v] = {}
                    \/ locked'[v] = locked[v] /\ stage'[v] = stage[v]
    BY <1>2 DEF tickFails, Crash
  <1>3. ASSUME NEW w \in Workers, findClaimableDeliveries(w)
        PROVE  /\ dispatched' = dispatched
               /\ \A v \in Workers :
                    \/ locked'[v] = {}
                    \/ locked'[v] = locked[v] /\ stage'[v] = stage[v]
    BY <1>3 DEF findClaimableDeliveries, DispatchedKnown
  <1>4. ASSUME NEW w \in Workers, NEW d \in Deliveries, Lane(w, d)
        PROVE  UNCHANGED <<dispatched, locked, stage>>
    BY <1>4 DEF Lane, claimDeferred, claimThrows, claimDelivery, executeStale,
                executeLock, executeBlocked, executeInvoke, finalize,
                executeThrows, recordDeliveryFailure, recordThrows
  <1>5. ASSUME NEW c \in Consumers, NEW ids, replayDeadDeliveries(c, ids)
        PROVE  UNCHANGED <<dispatched, locked, stage>>
    BY <1>5 DEF replayDeadDeliveries
  <1>6. CASE EmitFromRequest \/ Tick \/ UNCHANGED vars
    BY <1>1, <1>6 DEF EmitFromRequest, Tick, vars
  <1> QED
    BY <1>1, <1>2, <1>3, <1>4, <1>5, <1>6 DEF Next

(* A batch taken by the only dispatcher leaves no predecessor behind.      *)
LEMMA BatchHasPredecessors ==
    ASSUME TypeOK, DispatchedKnown, SingleDispatcher, BatchesInOrder,
           NEW w \in Workers, Idle(w),
           NEW B \in SUBSET EventIds, LowestIds(Undispatched, B),
           NEW i \in EventIds, NEW j \in B, Before(i, j), i \notin dispatched
    PROVE  i \in B
  <1>1. Undispatched = Committed \ dispatched
    <2>1. \A v \in Workers : locked[v] = {}
      BY DEF SingleDispatcher, Idle, DispatchedKnown
    <2> QED
      BY <2>1 DEF Undispatched
  <1>2. i \in Undispatched
    BY <1>1 DEF Before
  <1>3. CASE IdsFollowSequence
    <2>1. j \in EventIds /\ i < j
      BY <1>3 DEF IdsFollowSequence
    <2>2. i \in Nat /\ j \in Nat
      BY <2>1, IdAssumption
    <2>3. ~ (j < i)
      BY <2>1, <2>2
    <2> QED
      BY <1>2, <2>3 DEF LowestIds
  <1>4. CASE BacklogFits
    <2>1. IsFiniteSet(Undispatched)
      BY <1>1, IdAssumption, FS_Subset DEF Committed
    <2>2. CASE B = Undispatched
      BY <1>2, <2>2
    <2>3. CASE Cardinality(B) = DispatchBatch
      <3>1. B \subseteq Undispatched /\ Cardinality(Undispatched) <= Cardinality(B)
        BY <1>1, <1>4, <2>3 DEF BacklogFits, LowestIds
      <3>2. IsFiniteSet(B) /\ Cardinality(B) <= Cardinality(Undispatched)
        BY <2>1, <3>1, FS_Subset
      <3>3. Cardinality(B) = Cardinality(Undispatched)
        BY <2>1, <3>1, <3>2, FS_CardinalityType
      <3>4. B = Undispatched
        BY <2>1, <3>1, <3>3, FS_Subset
      <3> QED
        BY <1>2, <3>4
    <2> QED
      BY <2>2, <2>3 DEF LowestIds
  <1> QED
    BY <1>3, <1>4 DEF BatchesInOrder

(* Every step keeps what is dispatched a prefix of the logs.               *)
LEMMA NextKeepsPrefix ==
    ASSUME TypeOK, TypeOK', SequencesBelow, DispatchedKnown, PrefixDispatched,
           SingleDispatcher, BatchesInOrder, [Next]_vars
    PROVE  DispatchedKnown' /\ PrefixDispatched'
  <1> USE DEF TypeOK
  <1>1. /\ Committed \subseteq Committed'
        /\ \A i, j \in EventIds :
             Before(i, j)' /\ j \in Committed => Before(i, j)
    BY NextGrowsLog, OrderKept
  <1>2. CASE /\ dispatched' = dispatched
             /\ \A w \in Workers :
                  \/ locked'[w] = {}
                  \/ locked'[w] = locked[w] /\ stage'[w] = stage[w]
    <2>1. DispatchedKnown'
      BY <1>1, <1>2 DEF DispatchedKnown
    <2>2. PrefixDispatched'
      BY <1>1, <1>2 DEF DispatchedKnown, PrefixDispatched
    <2> QED
      BY <2>1, <2>2
  <1>3. ASSUME NEW w \in Workers, dispatchSelect(w)
        PROVE  DispatchedKnown' /\ PrefixDispatched'
    <2>1. PICK B \in SUBSET EventIds :
             LowestIds(Undispatched, B) /\ locked' = [locked EXCEPT ![w] = B]
      BY <1>3 DEF dispatchSelect
    <2>2. /\ Idle(w) /\ stage' = [stage EXCEPT ![w] = "dispatching"]
          /\ event' = event /\ dispatched' = dispatched
      BY <1>3 DEF dispatchSelect
    <2>3. DispatchedKnown'
      BY <2>1, <2>2 DEF DispatchedKnown, Committed, LowestIds, Undispatched
    <2>4. \A i, j \in EventIds : Before(i, j)' = Before(i, j)
      BY <2>2 DEF Before, Committed
    <2>5. \A i, j \in EventIds :
             Before(i, j) /\ j \in B => i \in dispatched \cup B
      BY <2>1, <2>2, BatchHasPredecessors
    <2>6. PrefixDispatched'
      BY <2>1, <2>2, <2>4, <2>5 DEF PrefixDispatched
    <2> QED
      BY <2>3, <2>6
  <1>4. ASSUME NEW w \in Workers, dispatchCommit(w)
        PROVE  DispatchedKnown' /\ PrefixDispatched'
    <2>1. /\ dispatched' = dispatched \cup locked[w]
          /\ locked' = [locked EXCEPT ![w] = {}]
          /\ stage' = [stage EXCEPT ![w] = "dispatched"]
          /\ event' = event
      BY <1>4 DEF dispatchCommit, Marked
    <2>2. \A i, j \in EventIds : Before(i, j)' = Before(i, j)
      BY <2>1 DEF Before, Committed
    <2>3. DispatchedKnown'
      BY <2>1 DEF DispatchedKnown, Committed
    <2>4. PrefixDispatched'
      BY <2>1, <2>2 DEF PrefixDispatched
    <2> QED
      BY <2>3, <2>4
  <1> QED
    BY <1>2, <1>3, <1>4, DispatchStep

(* Every step keeps the rows of dispatched events.                         *)
LEMMA NextKeepsRows ==
    ASSUME TypeOK, TypeOK', AttemptsPositive, SequencesBelow, DispatchedKnown,
           RowsMatch, [Next]_vars
    PROVE  RowsMatch'
  <1> USE DEF TypeOK
  <1> SUFFICES ASSUME NEW d \in Deliveries
               PROVE  /\ delivery'[d].status # "absent" => d[2] \in dispatched'
                      /\ d[2] \in dispatched'
                         /\ d[1] \in Subscribers[event'[d[2]].name]
                           => delivery'[d].status # "absent"
    BY DEF RowsMatch
  <1>1. delivery[d].status # "absent" => delivery'[d].status # "absent"
    BY NextRowStep
       DEF RowStep, RowKept, RowCreated, RowClaimed, RowReleased,
           RowFinalized, RowFailed, RowReplayed
  <1>2. \A i \in Committed : event'[i] = event[i]
    BY NextGrowsLog, OrderKept
  <1>3. dispatched \subseteq dispatched'
    BY DispatchStep DEF dispatchSelect, dispatchCommit
  <1>4. delivery'[d].status # "absent" => d[2] \in dispatched'
    <2>1. CASE delivery[d].status = "absent"
      BY <2>1, RowsByDispatch DEF dispatchCommit, Marked
    <2> QED
      BY <1>3, <2>1 DEF RowsMatch
  <1>5. ASSUME d[2] \in dispatched', d[1] \in Subscribers[event'[d[2]].name]
        PROVE  delivery'[d].status # "absent"
    <2>1. CASE d[2] \in dispatched
      BY <1>1, <1>2, <1>5, <2>1 DEF RowsMatch, DispatchedKnown
    <2>2. CASE d[2] \notin dispatched
      <3>1. PICK w \in Workers : dispatchCommit(w)
        BY <1>5, <2>2, DispatchStep DEF dispatchSelect
      <3>2. d[2] \in locked[w] /\ event' = event
        BY <1>5, <2>2, <3>1 DEF dispatchCommit, Marked
      <3>3. CASE delivery[d].status = "absent"
        BY <1>5, <3>1, <3>2, <3>3 DEF dispatchCommit, Materialised, Row
      <3> QED
        BY <1>1, <3>3
    <2> QED
      BY <2>1, <2>2
  <1> QED
    BY <1>4, <1>5

(* A bound action starts only in executeInvoke.                            *)
LEMMA ReachedByInvoke ==
    ASSUME TypeOK, [Next]_vars, NEW e \in Deliveries, ~ Reached(e), Reached(e)'
    PROVE  \E w \in Workers : executeInvoke(w, e)
  <1> USE DEF TypeOK
  <1>1. CASE UNCHANGED <<delivery, work>>
    BY <1>1 DEF Reached
  <1>2. ASSUME NEW w \in Workers, dispatchCommit(w)
        PROVE  FALSE
    BY <1>2 DEF dispatchCommit, Materialised, Row, Reached
  <1>3. ASSUME NEW w \in Workers, findClaimableDeliveries(w)
        PROVE  FALSE
    BY <1>3 DEF findClaimableDeliveries, Reached
  <1>4. ASSUME NEW w \in Workers, Crash(w)
        PROVE  FALSE
    BY <1>4 DEF Crash, Orphaned, Row, Reached
  <1>5. ASSUME NEW c \in Consumers, NEW ids, replayDeadDeliveries(c, ids)
        PROVE  FALSE
    BY <1>5 DEF replayDeadDeliveries, Row, Reached
  <1>6. ~ Tick
    BY DEF Tick, Later, Row, Reached
  <1>7. ASSUME NEW w \in Workers, NEW d \in Deliveries, Lane(w, d)
        PROVE  executeInvoke(w, e)
    <2>1. CASE claimDelivery(w, d)
      BY <2>1 DEF claimDelivery, Goto, Row, Reached
    <2>2. CASE executeBlocked(w, d)
      BY <2>2 DEF executeBlocked, Released, Goto, Row, Reached
    <2>3. CASE finalize(w, d)
      BY <2>3 DEF finalize, Goto, Row, Reached
    <2>4. CASE recordDeliveryFailure(w, d)
      BY <2>4 DEF recordDeliveryFailure, AfterFailure, Goto, Row, Reached
    <2>5. CASE executeInvoke(w, d)
      BY <2>5 DEF executeInvoke, Goto, Reached
    <2>6. CASE \/ claimDeferred(w, d) \/ claimThrows(w, d)
               \/ executeStale(w, d) \/ executeLock(w, d)
               \/ executeThrows(w, d) \/ recordThrows(w, d)
      BY <2>6 DEF claimDeferred, claimThrows, executeStale, executeLock,
                  executeThrows, recordThrows, Goto, Reached
    <2> QED
      BY <1>7, <2>1, <2>2, <2>3, <2>4, <2>5, <2>6 DEF Lane
  <1> QED
    BY <1>1, <1>2, <1>3, <1>4, <1>5, <1>6, <1>7
       DEF Next, vars, EmitFromRequest, dispatchSelect, tickFails

(* When a bound action starts, every predecessor has a row, by the prefix, *)
(* and the guard has found that row processed.                             *)
LEMMA NextKeepsPredecessors ==
    ASSUME TypeOK, TypeOK', AttemptsPositive, NoInvariantError, SInv,
           [Next]_vars
    PROVE  PredecessorsProcessed'
  <1> USE DEF SInv
  <1> SUFFICES ASSUME NEW d \in Deliveries, NEW e \in Deliveries,
                      d[1] = e[1], Before(d[2], e[2])',
                      d[1] \in Subscribers[event'[d[2]].name], Reached(e)'
               PROVE  delivery'[d].status = "processed"
    BY DEF PredecessorsProcessed
  <1>1. d[2] \in EventIds /\ e[2] \in EventIds
    BY DEF Deliveries
  <1>2. ASSUME delivery[e].status # "absent"
        PROVE  /\ e[2] \in dispatched /\ Before(d[2], e[2])
               /\ d[1] \in Subscribers[event[d[2]].name]
    <2>1. e[2] \in dispatched /\ e[2] \in Committed
      BY <1>2 DEF RowsMatch, DispatchedKnown
    <2>2. Before(d[2], e[2])
      BY <1>1, <2>1, NextGrowsLog, OrderKept
    <2>3. event'[d[2]] = event[d[2]]
      BY <2>2, NextGrowsLog, OrderKept DEF Before
    <2> QED
      BY <2>1, <2>2, <2>3
  <1>3. CASE Reached(e)
    <2>1. delivery[e].status # "absent"
      BY <1>3 DEF Reached, NoInvariantError
    <2>2. delivery[d].status = "processed"
      BY <1>2, <1>3, <2>1 DEF PredecessorsProcessed
    <2> QED
      BY <2>2, ProcessedFinal
  <1>4. CASE ~ Reached(e)
    <2>1. PICK w \in Workers : executeInvoke(w, e)
      BY <1>4, ReachedByInvoke
    <2>2. /\ delivery' = delivery /\ work[w][e] = "locked"
          /\ ~ hasEarlierUnprocessedDelivery(e)
      BY <2>1 DEF executeInvoke
    <2>3. delivery[e].status # "absent"
      BY <2>2 DEF NoInvariantError
    <2>4. delivery[d].status \in {"absent", "processed"}
      BY <1>2, <2>2, <2>3
         DEF hasEarlierUnprocessedDelivery, SameStream, Before, Committed
    <2>5. d[2] \in dispatched
      BY <1>1, <1>2, <2>3 DEF PrefixDispatched
    <2>6. delivery[d].status # "absent"
      BY <1>2, <2>3, <2>5 DEF RowsMatch
    <2> QED
      BY <2>2, <2>4, <2>6
  <1> QED
    BY <1>3, <1>4

(* ProcessedInSequence: with one dispatcher whose batches are whole or cut *)
(* in sequence order, a consumer processes the log of every aggregate it   *)
(* is bound to in order.  MCOutbox_concurrent_dispatch.cfg shows that two  *)
(* dispatchers do not.                                                     *)
THEOREM InSequence ==
    ASSUME SingleDispatcher
    PROVE  Spec /\ []BatchesInOrder => []ProcessedInSequence
  <1>1. Init => SInv
    BY DEF Init, SInv, SequencesBelow, DispatchedKnown, PrefixDispatched,
           RowsMatch, PredecessorsProcessed, Before, Committed, Absent, Row,
           Deliveries
  <1>2. ASSUME TypeOK, TypeOK', AttemptsPositive, NoInvariantError,
               BatchesInOrder, SInv, [Next]_vars
        PROVE  SInv'
    <2>1. SequencesBelow'
      BY <1>2, NextGrowsLog, OrderKept DEF SInv
    <2>2. DispatchedKnown' /\ PrefixDispatched'
      BY <1>2, NextKeepsPrefix DEF SInv
    <2>3. RowsMatch'
      BY <1>2, NextKeepsRows DEF SInv
    <2>4. PredecessorsProcessed'
      BY <1>2, NextKeepsPredecessors
    <2> QED
      BY <2>1, <2>2, <2>3, <2>4 DEF SInv
  <1>3. SInv => ProcessedInSequence
    BY DEF SInv, PredecessorsProcessed, ProcessedInSequence, Reached,
           SameStream, Before, Committed, Deliveries
  <1> QED
    BY <1>1, <1>2, <1>3, TypeInvariant, OwnershipKept, PTL DEF Spec

=============================================================================
