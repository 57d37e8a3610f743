---------------------------- MODULE EmitFlush ----------------------------
(***************************************************************************)
(* How events get into the outbox: the emission buffers of a root action   *)
(* and of the one atomic callee it may have (events/emit.ts,               *)
(* pipeline/ctx-call-atomic.ts), flushed into one execution transaction    *)
(* that races with others for the aggregates' sequence rows.  Outbox takes *)
(* a flush as one step; this module is that step in detail.                *)
(*                                                                         *)
(* A statement of a transaction is one action.  An event is named by its   *)
(* transaction, its buffer and its place there; its payload, envelope and  *)
(* company are left out.                                                   *)
(***************************************************************************)
EXTENDS Naturals, Sequences, FiniteSets

CONSTANTS
    Tx,          \* execution transactions
    Aggregates,
    MaxEmits     \* bound on the emissions of one buffer

EmitAssumption == MaxEmits \in Nat

Buffers == {"root", "callee"}
Event == Tx \X Buffers \X (1 .. MaxEmits)
Row == [agg : Aggregates, n : Nat, ev : Event]

VARIABLES
    stage,    \* [Tx -> where its invocation is]
    buffered, \* [Tx -> [Buffers -> the aggregates of the emissions, in order]]
    sealed,   \* [Tx -> the buffers that were flushed]
    used,     \* [Tx -> was ctx.callAtomic called?]
    todo,     \* [Tx -> places of the flushing buffer with no number yet]
    rows,     \* [Tx -> its numbered rows, invisible to others until it commits]
    locked,   \* [Tx -> [Aggregates -> the lastSequence it wrote, 0 for none]]
    last,     \* [Aggregates -> lastSequence as committed, 0 for no row]
    outbox    \* the committed rows of domain_events

vars == <<stage, buffered, sealed, used, todo, rows, locked, last, outbox>>

Stages == {"idle", "handler", "callee", "calleeFlush", "rootFlush", "tail",
           "committed", "aborted"}
Open == Stages \ {"idle", "committed", "aborted"}
Flushing == {"calleeFlush", "rootFlush"}

Init ==
    /\ stage = [t \in Tx |-> "idle"]
    /\ buffered = [t \in Tx |-> [b \in Buffers |-> <<>>]]
    /\ sealed = [t \in Tx |-> {}]
    /\ used = [t \in Tx |-> FALSE]
    /\ todo = [t \in Tx |-> {}]
    /\ rows = [t \in Tx |-> {}]
    /\ locked = [t \in Tx |-> [a \in Aggregates |-> 0]]
    /\ last = [a \in Aggregates |-> 0]
    /\ outbox = {}

(* The buffer that a flushing transaction flushes.                         *)
buffer(t) == IF stage[t] = "calleeFlush" THEN "callee" ELSE "root"

----------------------------------------------------------------------------
(* The handlers.                                                           *)

(* Mutation: an invocation that has committed is run once more. *)
beginAgain(t) ==
    /\ stage[t] \in {"idle", "committed"}
    /\ stage' = [stage EXCEPT ![t] = "handler"]
    /\ UNCHANGED <<buffered, sealed, used, todo, rows, locked, last, outbox>>

(* executeAction opens the execution transaction and runs the handler.     *)
begin(t) ==
    /\ stage[t] = "idle"
    /\ stage' = [stage EXCEPT ![t] = "handler"]
    /\ UNCHANGED <<buffered, sealed, used, todo, rows, locked, last, outbox>>

(* Mutation: an emission after the flush is buffered all the same. *)
acceptsUnsealed(t, b) ==
    CASE b = "root" -> stage[t] \in Open
      [] b = "callee" -> stage[t] \in Open /\ used[t]

(* emit throws once its buffer is sealed.  The callee's buffer exists from *)
(* the call on.  Whatever the handler left running may still call emit.    *)
accepts(t, b) ==
    /\ stage[t] \in Open
    /\ b = "callee" => used[t]
    /\ b \notin sealed[t]

(* ctx.emit buffers the emission; nothing reaches the database.            *)
emit(t, b, a) ==
    /\ accepts(t, b)
    /\ Len(buffered[t][b]) < MaxEmits
    /\ buffered' = [buffered EXCEPT ![t][b] = Append(@, a)]
    /\ UNCHANGED <<stage, sealed, used, todo, rows, locked, last, outbox>>

(* The root's handler awaits its one ctx.callAtomic: same transaction, no  *)
(* savepoint, a buffer of its own.                                         *)
callAtomic(t) ==
    /\ stage[t] = "handler"
    /\ ~used[t]
    /\ used' = [used EXCEPT ![t] = TRUE]
    /\ stage' = [stage EXCEPT ![t] = "callee"]
    /\ UNCHANGED <<buffered, sealed, todo, rows, locked, last, outbox>>

(* flush: seal the buffer; every emission in it is to be numbered.         *)
seal(t, b) ==
    /\ sealed' = [sealed EXCEPT ![t] = @ \cup {b}]
    /\ todo' = [todo EXCEPT ![t] = 1 .. Len(buffered[t][b])]

(* The callee's handler returns and its output parses.                     *)
calleeReturns(t) ==
    /\ stage[t] = "callee"
    /\ stage' = [stage EXCEPT ![t] = "calleeFlush"]
    /\ seal(t, "callee")
    /\ UNCHANGED <<buffered, used, rows, locked, last, outbox>>

(* The callee throws before its flush has written anything and the root's  *)
(* handler goes on without it.  Nothing flushes its buffer: what is in it, *)
(* and what the callee left running still emits, is lost.                  *)
calleeFails(t) ==
    /\ stage[t] = "callee"
    /\ stage' = [stage EXCEPT ![t] = "handler"]
    /\ buffered' = [buffered EXCEPT ![t]["callee"] = <<>>]
    /\ sealed' = [sealed EXCEPT ![t] = @ \cup {"callee"}]
    /\ UNCHANGED <<used, todo, rows, locked, last, outbox>>

(* The root's handler returns and its output parses.                       *)
rootReturns(t) ==
    /\ stage[t] = "handler"
    /\ stage' = [stage EXCEPT ![t] = "rootFlush"]
    /\ seal(t, "root")
    /\ UNCHANGED <<buffered, used, rows, locked, last, outbox>>

----------------------------------------------------------------------------
(* The flush.                                                              *)

(* groupByAggregate: groups in order of their first emission, so the next  *)
(* group is the one of the first emission that has no number.              *)
group(t) ==
    {i \in todo[t] : \E f \in todo[t] :
        /\ \A j \in todo[t] : f <= j
        /\ buffered[t][buffer(t)][i] = buffered[t][buffer(t)][f]}

(* The how-manieth emission of its group i is: rows are numbered in        *)
(* emission order.                                                         *)
place(g, i) == Cardinality({j \in g : j <= i})

(* Who has upserted the sequence row of a and not ended; the upsert waits  *)
(* for it.                                                                 *)
holders(t, a) == {u \in Tx \ {t} : locked[u][a] # 0}

(* The lastSequence the upsert finds: its transaction's own write, or else *)
(* the committed one.                                                      *)
current(t, a) == IF locked[t][a] # 0 THEN locked[t][a] ELSE last[a]

(* advanceAggregateSequence for a group g, which then occupies the last    *)
(* Cardinality(g) numbers.                                                 *)
advance(t, a) ==
    LET g == group(t)
        base == current(t, a)
    IN  /\ stage[t] \in Flushing
        /\ \E i \in g : a = buffered[t][buffer(t)][i]
        /\ holders(t, a) = {}
        /\ locked' = [locked EXCEPT ![t][a] = base + Cardinality(g)]
        /\ rows' = [rows EXCEPT ![t] = @ \cup
               {[agg |-> a, n |-> base + place(g, i),
                 ev |-> <<t, buffer(t), i>>] : i \in g}]
        /\ todo' = [todo EXCEPT ![t] = @ \ g]
        /\ UNCHANGED <<stage, buffered, sealed, used, last, outbox>>

(* The callee's flush returns to the root's handler; the root's flush to   *)
(* the rest of step 9.                                                     *)
afterFlush(t) == IF stage[t] = "calleeFlush" THEN "handler" ELSE "tail"

(* The multi-row insert, under the unique index on (aggregate, sequence);  *)
(* an empty buffer has returned at once.                                   *)
insertRows(t) ==
    /\ stage[t] \in Flushing
    /\ todo[t] = {}
    /\ \A r \in rows[t], s \in outbox : ~(r.agg = s.agg /\ r.n = s.n)
    /\ stage' = [stage EXCEPT ![t] = afterFlush(t)]
    /\ UNCHANGED <<buffered, sealed, used, todo, rows, locked, last, outbox>>

(* The transaction commits: its rows become visible, its locks go.         *)
commit(t) ==
    /\ stage[t] = "tail"
    /\ stage' = [stage EXCEPT ![t] = "committed"]
    /\ last' = [a \in Aggregates |-> current(t, a)]
    /\ outbox' = outbox \cup rows[t]
    /\ locked' = [locked EXCEPT ![t] = [a \in Aggregates |-> 0]]
    /\ rows' = [rows EXCEPT ![t] = {}]
    /\ UNCHANGED <<buffered, sealed, used, todo>>

(* Mutation: the locks outlive the transaction. *)
rollbackKeepsLocks(t) ==
    /\ stage' = [stage EXCEPT ![t] = "aborted"]
    /\ rows' = [rows EXCEPT ![t] = {}]
    /\ UNCHANGED <<buffered, sealed, used, todo, locked, last, outbox>>

(* Rows, increments and locks of the transaction go.                       *)
rollback(t) ==
    /\ stage' = [stage EXCEPT ![t] = "aborted"]
    /\ rows' = [rows EXCEPT ![t] = {}]
    /\ locked' = [locked EXCEPT ![t] = [a \in Aggregates |-> 0]]
    /\ UNCHANGED <<buffered, sealed, used, todo, last, outbox>>

(* A handler throws, or a callee whose error its root does not catch; an   *)
(* emission is refused, the output does not parse, the actor is anonymous  *)
(* or the company missing, the deadline or the statement timeout passes,   *)
(* the audit or finalize fails, the process dies: what throws leaves the   *)
(* transaction callback.                                                   *)
fail(t) ==
    /\ stage[t] \in Open
    /\ rollback(t)

----------------------------------------------------------------------------
(* PostgreSQL's deadlock detector.                                         *)

waitsFor(t, u) ==
    /\ stage[t] \in Flushing
    /\ \E i \in group(t) : u \in holders(t, buffered[t][buffer(t)][i])

(* A transaction that waits in a cycle.                                    *)
deadlocked(t) ==
    \E S \in SUBSET Tx :
        /\ t \in S
        /\ \A u \in S : /\ \E v \in S : waitsFor(u, v)
                        /\ \E v \in S : waitsFor(v, u)

(* One of the waiting transactions is aborted; its action fails.           *)
deadlockVictim(t) ==
    /\ deadlocked(t)
    /\ rollback(t)

----------------------------------------------------------------------------
Next ==
    \E t \in Tx :
        \/ begin(t)
        \/ \E b \in Buffers, a \in Aggregates : emit(t, b, a)
        \/ callAtomic(t) \/ calleeReturns(t) \/ calleeFails(t) \/ rootReturns(t)
        \/ \E a \in Aggregates : advance(t, a)
        \/ insertRows(t) \/ commit(t) \/ fail(t) \/ deadlockVictim(t)

Spec == Init /\ [][Next]_vars

(* The steps a started transaction takes by itself: handlers return (the   *)
(* deadline bounds them), statements are answered, deadlocks are detected. *)
(* Failures are not assumed to happen.                                     *)
Progress(t) ==
    \/ calleeReturns(t) \/ rootReturns(t) \/ insertRows(t) \/ commit(t)
    \/ \E a \in Aggregates : advance(t, a)

----------------------------------------------------------------------------
(* Every variable has its type.                                            *)
TypeOK ==
    /\ stage \in [Tx -> Stages]
    /\ buffered \in [Tx -> [Buffers -> Seq(Aggregates)]]
    /\ \A t \in Tx, b \in Buffers : Len(buffered[t][b]) <= MaxEmits
    /\ sealed \in [Tx -> SUBSET Buffers]
    /\ used \in [Tx -> BOOLEAN]
    /\ todo \in [Tx -> SUBSET (1 .. MaxEmits)]
    /\ rows \in [Tx -> SUBSET Row]
    /\ locked \in [Tx -> [Aggregates -> Nat]]
    /\ last \in [Aggregates -> Nat]
    /\ outbox \in SUBSET Row

(* The committed events of an aggregate carry the numbers 1 to             *)
(* lastSequence, each once, whatever aborted in between: a consumer that   *)
(* waits for a missing number would wait forever (advanceAggregateSequence *)
(* and the rollback of its increments).                                    *)
Gapless ==
    \A a \in Aggregates :
        /\ {r.n : r \in {s \in outbox : s.agg = a}} = 1 .. last[a]
        /\ \A r, s \in outbox : r.agg = a /\ s.agg = a /\ r.n = s.n => r = s

(* An invocation's events are in the outbox all or not at all: when it has *)
(* committed, every emission of the root and of its callee is there, under *)
(* the aggregate it was emitted for, and otherwise none is (the two        *)
(* flushes into one transaction, and the seal).  Of a callee that failed   *)
(* and was caught there is none.                                           *)
AllOrNothing ==
    \A t \in Tx, b \in Buffers :
        {<<r.ev[3], r.agg>> : r \in {s \in outbox : s.ev[1] = t /\ s.ev[2] = b}}
          = IF stage[t] = "committed"
            THEN {<<i, buffered[t][b][i]>> : i \in DOMAIN buffered[t][b]}
            ELSE {}

(* One buffer's events for one aggregate are numbered in the order they    *)
(* were emitted, with no other transaction's event between them, though    *)
(* other aggregates' emissions were mixed with them.                       *)
EmitOrder ==
    \A r, s \in outbox :
        r.agg = s.agg /\ r.ev[1] = s.ev[1] /\ r.ev[2] = s.ev[2] =>
            /\ (r.n < s.n) = (r.ev[3] < s.ev[3])
            /\ \A q \in outbox :
                  q.agg = r.agg /\ r.n < q.n /\ q.n < s.n => q.ev[1] = r.ev[1]

(* What holds of the outbox at every moment.                               *)
FlushSound == TypeOK /\ Gapless /\ AllOrNothing /\ EmitOrder

(* A transaction that has started to run ends, though two of them may wait *)
(* for each other's sequence rows.                                         *)
EveryFlushEnds ==
    \A t \in Tx : stage[t] \in Open ~> stage[t] \in {"committed", "aborted"}

----------------------------------------------------------------------------
OwnerOf(e) == e[1]

(* The log of an aggregate: the event of number n stands at place n.       *)
logOf(a) ==
    [n \in 1 .. last[a] |-> (CHOOSE r \in outbox : r.agg = a /\ r.n = n).ev]

Log == INSTANCE AggregateLog WITH
    log <- [a \in Aggregates |-> logOf(a)],
    written <- {t \in Tx : stage[t] = "committed"},
    Owner <- OwnerOf

(* Readers of the outbox see each aggregate's events as a log that only    *)
(* grows at its end, a transaction at a time: no event turns up behind one *)
(* that is already visible (the sequence row stays locked from the upsert  *)
(* to the commit).                                                         *)
RefinesLog == Log!Spec
============================================================================
