---------------------------- MODULE ExecutionTx ----------------------------
(***************************************************************************)
(* The execution transaction of an action (runExecutionTransaction and     *)
(* runWithDeadline in pipeline/execute-action.ts) on the clients of the    *)
(* connection pool.  A handler is raced against the deadline; the loser is *)
(* not stopped, and keeps the transaction handle it was given.             *)
(*                                                                         *)
(* A client runs its statements in the order they are sent, each in the    *)
(* transaction that is open on it, or by itself when none is.  A statement *)
(* that fails breaks the transaction it is in: every later one is refused, *)
(* and its COMMIT rolls back without an error.  Statements are writes;     *)
(* what the reads return does not matter here.                             *)
(***************************************************************************)
EXTENDS Naturals, FiniteSets

CONSTANTS
    Calls,         \* invocations of mutating actions
    Deaf,          \* those whose handler never looks at ctx.signal
    Recorded,      \* those that are audited or idempotent (step 9 writes)
    Clients,       \* the pool
    NoCall, NoClient,
    MaxStatements  \* bound on the writes of one handler

TxAssumption ==
    /\ Deaf \subseteq Calls /\ Recorded \subseteq Calls
    /\ NoCall \notin Calls /\ NoClient \notin Clients
    /\ MaxStatements \in Nat

VARIABLES
    step,     \* [Calls -> where the pipeline is]
    handle,   \* [Calls -> the client its ctx.db sends to]
    handler,  \* [Calls -> is its handler running?]
    aborted,  \* [Calls -> has its signal fired?]
    sent,     \* [Calls -> how many writes its handler has made]
    owner,    \* [Clients -> the call it is checked out to]
    work,     \* [Clients -> writes of the transaction open on it]
    broken,   \* the clients with a transaction in which a statement failed
    database  \* the committed writes

vars == <<step, handle, handler, aborted, sent, owner, work, broken, database>>

Steps == {"new", "opening", "handler", "returned", "recorded", "rollingBack",
          "failed", "done"}
Write == Calls \X (1 .. MaxStatements)

Init ==
    /\ step = [c \in Calls |-> "new"]
    /\ handle = [c \in Calls |-> NoClient]
    /\ handler = [c \in Calls |-> FALSE]
    /\ aborted = [c \in Calls |-> FALSE]
    /\ sent = [c \in Calls |-> 0]
    /\ owner = [p \in Clients |-> NoCall]
    /\ work = [p \in Clients |-> {}]
    /\ broken = {}
    /\ database = {}

At(c, s) == step' = [step EXCEPT ![c] = s]

(* db.transaction: check a client out, BEGIN, SET LOCAL statement_timeout. *)
open(c, p) ==
    /\ step[c] = "new" /\ owner[p] = NoCall
    /\ At(c, "opening")
    /\ owner' = [owner EXCEPT ![p] = c]
    /\ handle' = [handle EXCEPT ![c] = p]
    /\ UNCHANGED <<handler, aborted, sent, work, broken, database>>

(* The pool has no client within connectionTimeoutMillis.                  *)
openFails(c) ==
    /\ step[c] = "new" /\ \A p \in Clients : owner[p] # NoCall
    /\ At(c, "failed")
    /\ UNCHANGED <<handle, handler, aborted, sent, owner, work, broken, database>>

(* The context is built inside the transaction and the handler starts.     *)
startHandler(c) ==
    /\ step[c] = "opening"
    /\ At(c, "handler")
    /\ handler' = [handler EXCEPT ![c] = TRUE]
    /\ UNCHANGED <<handle, aborted, sent, owner, work, broken, database>>

(* Authorization fails, or the deadline has passed before the handler.     *)
refuse(c) ==
    /\ step[c] = "opening"
    /\ At(c, "rollingBack")
    /\ UNCHANGED <<handle, handler, aborted, sent, owner, work, broken, database>>

(* A handler may still send.                                               *)
Sends(c) == handler[c] /\ (aborted[c] => c \in Deaf)

(* A write through ctx.db.  The client belongs to a transaction exactly    *)
(* while it is checked out; the one that is open on it takes the write,    *)
(* whoever opened it, and with none open the write commits by itself.      *)
write(c) ==
    LET p == handle[c]
        w == <<c, sent[c] + 1>>
    IN  /\ Sends(c) /\ sent[c] < MaxStatements /\ p \notin broken
        /\ sent' = [sent EXCEPT ![c] = @ + 1]
        /\ IF owner[p] # NoCall
           THEN work' = [work EXCEPT ![p] = @ \cup {w}] /\ UNCHANGED database
           ELSE database' = database \cup {w} /\ UNCHANGED work
        /\ UNCHANGED <<step, handle, handler, aborted, owner, broken>>

(* A write that the database refuses, or one that is stopped by            *)
(* statement_timeout.  The handler may catch its error.                    *)
statementFails(c) ==
    /\ Sends(c) /\ owner[handle[c]] # NoCall
    /\ broken' = broken \cup {handle[c]}
    /\ UNCHANGED <<step, handle, handler, aborted, sent, owner, work, database>>

(* The timer of runWithDeadline: abort the signal, reject the race.        *)
expire(c) ==
    /\ step[c] = "handler"
    /\ At(c, "rollingBack")
    /\ aborted' = [aborted EXCEPT ![c] = TRUE]
    /\ UNCHANGED <<handle, handler, sent, owner, work, broken, database>>

(* Promise.race: the handler's outcome counts when it is the first.        *)
Settles(c, s) == IF step[c] = "handler" THEN At(c, s) ELSE UNCHANGED step

(* The handler returns or throws.                                          *)
handlerEnds(c) ==
    /\ handler[c]
    /\ handler' = [handler EXCEPT ![c] = FALSE]
    /\ \/ Settles(c, "returned") \/ Settles(c, "rollingBack")
    /\ UNCHANGED <<handle, aborted, sent, owner, work, broken, database>>

(* The output does not parse, or a flush, the audit or finalize throws.    *)
failAfter(c) ==
    /\ step[c] = "returned"
    /\ At(c, "rollingBack")
    /\ UNCHANGED <<handle, handler, aborted, sent, owner, work, broken, database>>

(* The audit row and the idempotency response, the last statements before  *)
(* COMMIT; they fail where one before them failed.                         *)
record(c) ==
    /\ step[c] = "returned"
    /\ c \in Recorded => handle[c] \notin broken
    /\ At(c, "recorded")
    /\ UNCHANGED <<handle, handler, aborted, sent, owner, work, broken, database>>

(* Mutation: the transaction that failed is left open on the client. *)
ReleaseKeepsWork(p) ==
    /\ owner' = [owner EXCEPT ![p] = NoCall]
    /\ UNCHANGED <<work, broken>>

(* The client goes back to the pool with no transaction on it.             *)
Release(p) ==
    /\ owner' = [owner EXCEPT ![p] = NoCall]
    /\ work' = [work EXCEPT ![p] = {}]
    /\ broken' = broken \ {p}

(* The COMMIT of a broken transaction rolls back and reports no error.     *)
commit(c) ==
    LET p == handle[c] IN
    /\ step[c] = "recorded"
    /\ At(c, "done")
    /\ database' = database \cup (IF p \in broken THEN {} ELSE work[p])
    /\ Release(p)
    /\ UNCHANGED <<handle, handler, aborted, sent>>

(* ROLLBACK, then markFailed and the caller's error.  state.executionTx is *)
(* emptied, which refuses ctx.call and ctx.callAtomic from now on; the     *)
(* handle in ctx.db stays as it is.                                        *)
rollback(c) ==
    /\ step[c] = "rollingBack"
    /\ At(c, "failed")
    /\ Release(handle[c])
    /\ UNCHANGED <<handle, handler, aborted, sent, database>>

Next ==
    \E c \in Calls :
        \/ \E p \in Clients : open(c, p)
        \/ openFails(c) \/ startHandler(c) \/ refuse(c)
        \/ write(c) \/ statementFails(c) \/ expire(c) \/ handlerEnds(c)
        \/ failAfter(c) \/ record(c) \/ commit(c) \/ rollback(c)

Spec == Init /\ [][Next]_vars

(* The steps that fairness is assumed of: timers fire, statements are      *)
(* answered and a free client is handed out; handlers need not end.        *)
Answers(c) ==
    \/ startHandler(c) \/ expire(c)
    \/ record(c) \/ failAfter(c) \/ commit(c) \/ rollback(c)
Opens(c) == openFails(c) \/ \E p \in Clients : open(c, p)

----------------------------------------------------------------------------
(* Every variable has its type.                                            *)
TypeOK ==
    /\ step \in [Calls -> Steps]
    /\ handle \in [Calls -> Clients \cup {NoClient}]
    /\ handler \in [Calls -> BOOLEAN]
    /\ aborted \in [Calls -> BOOLEAN]
    /\ sent \in [Calls -> 0 .. MaxStatements]
    /\ owner \in [Clients -> Calls \cup {NoCall}]
    /\ work \in [Clients -> SUBSET Write] /\ broken \subseteq Clients
    /\ database \in SUBSET Write

(* An action whose handler heeds its signal, and whose caller was told it  *)
(* failed, has written nothing, whatever other handlers do on the clients  *)
(* it used: runWithDeadline's "rolling the transaction back".              *)
FailedLeavesNothing ==
    \A c \in Calls \ Deaf : step[c] = "failed" => \A w \in database : w[1] # c

(* A handler that ignored its signal outlived its deadline on c's client.  *)
Outlived(c) == \E d \in Deaf \ {c} : aborted[d] /\ handle[d] = handle[c]

(* An action that succeeded has all of its writes in the database, and     *)
(* they got there at its commit: a late handler's writes may be added to   *)
(* its transaction, none is taken away.  Or it has none of them, where its *)
(* transaction was broken: after its last statement, by a late handler on  *)
(* its client, or before, if it has no statement in step 9 (core.md, "the  *)
(* response snapshot and effects commit atomically").                      *)
DoneIsAtomic ==
    \A c \in Calls :
        LET mine == {w \in database : w[1] = c}
            all == {c} \X (1 .. sent[c])
        IN  /\ step[c] = "done" =>
                 mine = all \/ (mine = {} /\ (c \in Recorded => Outlived(c)))
            /\ step[c] \in {"opening", "handler", "returned", "recorded"} =>
                 mine = {} /\ all \subseteq work[handle[c]]

(* What core.md says of step 10, "Failures roll back                       *)
(* handler/outbox/audit/finalization, then record the failed audit         *)
(* outcome": an action that is answered with success was not rolled back.  *)
DoneIsCommitted ==
    \A c \in Recorded : step[c] = "done" =>
        \A i \in 1 .. sent[c] : <<c, i>> \in database

(* What holds of the execution transactions at every moment.               *)
ExecutionAtomic == TypeOK /\ DoneIsAtomic /\ FailedLeavesNothing

(* Every invocation is answered, also when handlers never return and the   *)
(* pool is smaller than the number of calls: the deadline gives the client *)
(* back, not the handler.                                                  *)
EveryCallAnswered ==
    \A c \in Calls : <>(step[c] \in {"done", "failed"})
============================================================================
