# Verification of shozee's runtime and its stateful services

shozee is a TypeScript modular monolith. Every operation is a typed *action* run by one pipeline
(`packages/core`), state lives in PostgreSQL, short-lived protocol state in Redis, files in an object
store, and worker processes (`apps/worker`) deliver domain events and run jobs. An assistant answers
staff in conversations whose turns run as jobs and are streamed to the clients. The correctness of the
business modules rests on promises of the runtime: an action takes effect at most once per logical submit,
a risky action runs only when its user confirmed exactly it, an event reaches each of its consumers
exactly once and in order. The services on top add their own: a turn ends, a budget is not overdrawn, a
signed file stays where it is, a phone shows what the server holds. This project states those promises
in TLA+, checks them with TLC on small instances, and proves with TLAPS, for every instance, the safety
promises of fourteen components: event delivery, the flush of events, the worker loop with its LISTEN connection,
idempotency, confirmation, the execution transaction, rate limits, uploads, document signing, PDF generation, the pool
of Sho workers, the turns of the assistant, their budget, and the thread that a phone shows of them.

## 1. Inventory

| Component | State | Operations | Modelled in |
|---|---|---|---|
| Outbox and delivery (`core/src/runtime/events`) | `domain_events`, `event_aggregate_sequences`, `event_deliveries` | emit/flush, dispatch, discover, claim, execute, record failure, replay | `Outbox`, `EmitFlush` |
| Worker loop (`apps/worker/src/loop.ts`) | ticking, pending wakes, backoff, lanes | tick, requestTick, stop | `WorkerLoop`; the body of a tick is `Outbox` |
| LISTEN connection (`apps/worker/src/listen.ts`) | client, listenUp, reconnecting | start, reconnect, stop | `WorkerLoop` |
| Idempotency (`core/src/runtime/idempotency`) | `idempotency_keys` | probe, reserve, takeover, finalize, markFailed, cleanup | `ActionSubmit` |
| Confirmation (`core/src/runtime/confirmation`) | challenge records in Redis, grant columns of the key's row | gate, issue, consume | `ActionSubmit` |
| Pipeline (`core/src/runtime/pipeline/execute-action.ts`) | one `RunState` per invocation; a pool client per transaction | steps 1 to 10 | `ActionSubmit` (steps 5 to 10), `ExecutionTx` (the transaction and its deadline) |
| Nested calls (`pipeline/ctx-call*.ts`) | the callee's emission buffer | `ctx.callAtomic`, `ctx.call` | `EmitFlush` |
| Rate limit (`core/src/runtime/rate-limit`) | token buckets in Redis | consume | `RateLimit` |
| Jobs (`core/src/runtime/jobs`, `packages/jobs`) | pg-boss tables | enqueue, run, settle | `AssistantTurn`, for the job of a turn |
| Assistant turns (`modules/assistant`, `assistant-runtime`) | `assistant_turns`, messages, history | accept, start, finish, interrupt, sweep, recover | `AssistantTurn` |
| Assistant budget (`assistant-budget-guard.ts`) | day counters and holds in Redis | reserve, claim hold, settle, release | `AssistantBudget` |
| Assistant questions (`assistant-kit/create-kit.ts`) | one pause record per conversation, command receipts | open, claim, release, abandon, supersede | `AssistantPause` |
| Assistant streams (`assistant-kit-events.ts`) | hub entries, slots and presence leases, write queues | subscribe, snapshot, deliver, heartbeat, closeAll | `AssistantStream` |
| Assistant thread on the phone (`assistant-thread-merge.ts`) | the thread, tracked and ended turns, closed questions | windows, events, re-reads, reconnects | `AssistantThread` |
| Sho pool (`apps/sho/src/pool.ts`) | slots, queues, timers, workers | send, pump, lose, respawn, dispose | `ShoPool` |
| Document signing (`modules/doc-signing`) | document, request, signature, upload and its objects | start, complete, cancel, abandon, sweep | `DocumentSigning` |
| PDF generation (`modules/doc-generation`, `pdf-delivery.ts`) | generation job, generated file, object | render, markFailed | `DocumentPdf` |
| Files (`modules/files`) | file rows, staging and durable objects | finalize, sweep, backfill | `CatalogUpload`, `DocumentSigning`, `DocumentPdf` |
| Contexts, audit, OTP guard | none of their own, or one atomic step | run inside the caller's transaction | no |
| Orders, catalog, pricing, customers, companies, invites, chat, search | their tables | one transaction each | no |
| Planners, web and mobile screens, signing library, schema, tooling | - | - | no |

How they interact. `executeAction` calls the confirmation hook, then the idempotency hook, then opens the
execution transaction, in which the handler's writes, the emitted events, the enqueued jobs, the audit row and
the completed idempotency row commit together. A worker's tick turns committed events into one delivery
row per bound consumer, finds rows that are due, claims each in a short transaction and runs the bound action
through the same pipeline in a second one, whose `finalize` marks the row processed. Rendering a PDF and
abandoning a signing request are such actions. A chat request reserves budget in Redis, takes its command's
receipt and accepts a turn, which enqueues a job in the same transaction; the job's run writes
the reply, may open a question, and publishes what it wrote; the API's streams forward that
to the clients, which join it with the windows their own requests return. Processes share nothing but
PostgreSQL, Redis and the object store.

What is hard. Everything that matters happens between two statements: a lease or claim expires while
its holder still runs; a decision is taken on a row that has changed since it was read; a process dies
between two commits; a commit succeeds and its acknowledgement does not arrive; a transaction rolls back
and the objects it wrote stay; a handler that is past its deadline goes on writing; an event overtakes
a window that was read before it. `PROJECT.json` lists these hazards with the line where each one bites
and the properties that cover it.

## 2. Modules

| Module | What it is |
|---|---|
| `Outbox` | the outbox, the delivery protocol and the worker tick |
| `OutboxProofs` | its theorems |
| `EmitFlush` | the emission buffers and their flush, statement by statement |
| `AggregateLog` | abstract specification that `EmitFlush` implements: per aggregate a log that grows at its end by one transaction's events at a time |
| `WorkerLoop` | the tick loop and the LISTEN connection of a worker process |
| `SubmitOnce` | abstract specification: one effect per key and retention window, every result is that effect |
| `ActionSubmit` | idempotency, confirmation and the execution steps of the pipeline; implements `SubmitOnce` |
| `ActionSubmitProofs` | its theorems: at most one effect, what clients are told and what they confirmed; the refinement of `SubmitOnce` |
| `ExecutionTx` | the execution transaction, its deadline and the pool's clients |
| `RateLimit` | the rate-limit hook and the token-bucket script |
| `PipelineProofs` | the theorems of these two |
| `AssistantTurn` | the turns of a conversation: row, job, reply, sweep, recovery |
| `AssistantBudget`, `AssistantBudgetProofs` | the daily counters and the holds of turns; its theorem |
| `AssistantPause` | the open question of a conversation and the commands about it |
| `AssistantStream` | the event streams of a person in one API process |
| `AssistantThread` | the phone's thread, merged from windows and events |
| `AssistantTurnProofs` | the theorems of `AssistantTurn` and `AssistantThread` |
| `ShoPool` | the worker pool of the Sho service |
| `DocumentSigning`, `DocumentSigningProofs` | signing one document, with its upload; its theorems |
| `DocumentPdf` | the PDF of one document |
| `ProcessesProofs` | the theorems of `DocumentPdf`, `WorkerLoop` and `ShoPool` |
| `CatalogUpload` | uploads of catalog images, sweep and backfill |
| `StorageProofs` | the theorems of `EmitFlush`, the refinement of `AggregateLog` among them, and of `CatalogUpload` |
| `MCOutbox`, `MCActionSubmit` | instances of these two, one `.cfg` file per run |
| `MCStorage`, `MCConversation`, `MCProcesses`, `MCServicesFair`, `MCConversationFair` | one run each over several components |

The last five modules check several components in one run of TLC. Each extends one component or more, whose
constants its `.cfg` file sets, and instantiates the others, or the same again, with bounds of their own. The components
share no state there: a variable `part` picks, initially and for good, the instance a behaviour is one of, and
all other variables rest. So such a run checks exactly what a run per instance would. Components
that do interact are composed where they are modelled: the rows and
the Redis records of a submit in `ActionSubmit`, the tables and the workers' ticks in `Outbox`, the
rows, objects and requests of a signed file in `DocumentSigning`.

Definitions keep the names of the functions they model; `map` in `PROJECT.json` gives the lines of each.
A definition under a comment "Mutation" is a plausible bug. Nothing in the specifications uses these
definitions: each one replaces the definition that follows it, to show that a property notices.

### Outbox

State: the three tables as functions (`event`, `lastSequence`, `dispatched`, `delivery`); for each worker the
point its tick has reached and the rows its dispatch transaction has locked (`stage`, `locked`); for each
worker and delivery the point a lane has reached (`work`); two history variables, the number of committed
runs (`effects`) and the attempts that failed or were lost (`spent`); counters for the bounds.

A step is one transaction, or the part of one up to the next point where it can wait for a lock.

* `EmitFromRequest`, and the emissions in `finalize`: the flush of an action. It is one step at commit
  because the aggregate's sequence row stays locked until commit, so nobody sees sequences out of order.
  Event ids are minted earlier, when the handler calls `emit`: the model lets ids and sequences disagree.
* `dispatchSelect` and `dispatchCommit`: `FOR UPDATE SKIP LOCKED` up to the batch size, then the rows and
  `dispatched_at` in the same transaction.
* `findClaimableDeliveries`: the due heads of each stream, any of them up to the limit (ties in the query's
  order are not decided by the state).
* `claimDelivery`, `claimDeferred`, `claimThrows`: the claim transaction, its reasons not to claim, its
  errors. `nowMs` is read before the wait for the advisory lock, so the new claim may start up to `MaxLockWait` ticks old.
* `executeLock`, `executeStale`, `executeBlocked`, `executeInvoke`, `finalize`, `executeThrows`: the delivery
  transaction, which takes the row lock, checks the ownership, takes the aggregate's lock, releases the
  claim if a predecessor has appeared, or runs the action and commits.
* `recordDeliveryFailure`, `recordThrows`, `tickFails`, `Crash`, `replayDeadDeliveries`.
* `Tick`: deadlines are kept as the ticks that remain, so there is no clock to bound. A live worker that
  outlasts its own claim is a fault, since the claim is the action's timeout plus a margin. Clock skew
  between processes has the effect of such a stall: a claim is judged expired early.

After a crash the process restarts with a new random `workerId`; rows it had claimed keep the old one, `Gone`.

### ActionSubmit

State: `idempotency_keys` (`row`); challenges (`store`, what each was bound to in `binding`, the unexpired
ones in `live`); for each caller the point `executeAction` has reached, its request, the grant it carries, its
attempt id, the last answer its client got and the last challenge it was shown; histories of the retention windows
and of the committed effects.

* `Submit`: a client submits or retries, with its own challenge or one that another window of the same user
  was shown (`Shares`): a double click presents one challenge twice. A request is ungated, gated, or
  `confirmationOnly`.
* `probe`, `gate`, `repreview`, `issueChallenge`: step 5. GETDEL is one step, the checks on what it returned
  follow in the same step because they read nothing that is shared.
* `reserveInsert`, `reserveRead`, `takeover`, `resolveLostTakeover`: step 6, one statement each, with both
  rounds of the loop.
* `finalize`, `commit`, `commitThrows`, `executeThrows`, `markFailed`, `abandon`: the execution
  transaction. From finalize to commit the row is locked: a takeover or a cleanup that matches the row waits
  and looks again, an insert, a select or an update that does not match goes on. `commitThrows` covers a COMMIT
  that failed and one that succeeded without an acknowledgement; `abandon` a crash at any point, an error
  before anything was reserved, and a markFailed that fails.
* `leaseExpires`, `retentionAges`, `retentionExpires`, `challengeExpires`, `cleanupExpiredIdempotencyKeys`.

Time. A deadline is a flag that time may clear at any moment. A lease expiring under a live attempt is a
fault: it is the action's timeout plus 15 s. A retention of 48 h is `new`, then `old`, then `over`. It becomes
`old` at a moment when no request on the key is running, and by then challenges issued before have expired
(five minutes); it becomes `over` at any moment after that, also in the middle of a request.

Ids. `randomUUID()` never repeats: attempt ids are taken from those nothing refers to any more. Challenge
ids are not reused; when the bounded set is used up the store rejects the write and the gate fails closed,
as the code does when Redis is down.

### EmitFlush and AggregateLog

What `Outbox` takes as one step. A transaction has two buffers, the root's and that of the one atomic callee,
each sealed by its flush. A flush numbers its events aggregate by aggregate, in the order of the first emission;
numbering an aggregate locks its sequence row until the transaction ends. Transactions that lock two
rows in opposite orders deadlock, and PostgreSQL aborts one (`deadlockVictim`, external). A callee that fails
takes the root with it, unless the root's handler catches the error, which nothing forbids (`calleeFails`): the callee's
buffer is dropped and the root goes on. A row becomes visible at commit. The refinement maps the committed rows of an aggregate, ordered by number, to the log.

### WorkerLoop

One turn of the process's event loop up to the next await is an action: `tick`, `requestTick`, the three stages
of a run, its lanes, backoff and stop on one side; connect, LISTEN, error, reconnect and close on the other. Events
and deliveries are counts. `unseen` remembers a wake-up that no dispatch has followed yet, `caught` the connection that was being made when
stop was called.

### ExecutionTx

A client of the pool runs the writes that are sent to it in the transaction open on it, or alone when none
is. The deadline rolls back and releases the client; the handler keeps its handle. `Deaf` are the handlers that
never look at their signal: the code leaves that to the handler, so both kinds are run. A statement may fail, whoever sent it
(`statementFails`): it breaks the transaction open on its client (`broken`), which refuses every later statement, and whose COMMIT
rolls back and reports no error (external: this is PostgreSQL's answer to COMMIT in a failed transaction, which `pg` does not turn into
an error). `record` are the statements of step 9, which an audited or idempotent action (`Recorded`) sends last, and which a broken
transaction refuses.

### RateLimit

Tokens are integers in units of 1/Window of a token, so refill is exact. A process reads its clock, then sends the
script; skew and delay are bounds. A hash expires after two windows; a client's key rotates. Reads pass when
the store fails, mutations and public actions do not.

### AssistantTurn

One transaction or read is an action: accepts with their receipt and lease, the job's fetch, the run's
reads and compare-and-set writes, finish, the host's settlement of the job, the dead-letter job, the sweep's
list and its per-turn transaction, and the steps of recovery. A run whose attempt was abandoned goes on.

### AssistantBudget

Each Redis command is an action and may be refused or lose its reply. A reservation is one unit on the company's
and on the global counter; a hold is a record under the identity of a turn. Requests reserve, record, take
the receipt and accept; whoever ends a row that did not reach the model gives its hold back.

### AssistantPause

The record under the conversation's key with its own deadline and the ttl of the key, which are different
things; the receipts of commands; and each route as the sequence of its Redis calls. The accept of a turn
is one step with four outcomes (accepted, busy, rolled back, unknown). `ends`, `stored` and `unsure` are histories.

### AssistantStream

A stream goes through slot, subscription, snapshot, presence, its open phase and four releases; every call to a
store may fail or outlast a heartbeat. The hub has one subscriber connection and one entry per channel; ioredis
resubscribes after a loss (external). A client reads a frame or never does; the write queue is bounded.

### AssistantThread

The server is a history of states, and a window is read from three of them (messages, open question, running
turn, in this order), none older than the start of the read. A message is a position and a revision. The phone has a
command latch, one re-read at a time, a connection with a snapshot and a queue of events, and the state
of `assistant-thread-merge.ts`. Another device sends, answers and dismisses. `left.heard` is a history: it is false once a
re-read failed or the end of a turn was not published, which nobody tells the phone.

### ShoPool

The pool's handlers on one event loop; worker threads post events in order and may hang or die. Each call has
a deadline and a hang timer. `BootLoss` allows the death of a ready worker while another one still boots. A thread that is told to
terminate is `hung` when nobody waits for it (a hang timer's victim, `void victim.terminate()`) and `ending` when
dispose, or the cleanup of a boot that failed (`abortBoot`), awaits it; dispose waits for the slot's current worker only.

### DocumentSigning, DocumentPdf, CatalogUpload

Rows roll back, objects do not: each call to the store is an action of its own, a call that was cut off may still land, and
a handler whose transaction is gone may go on (`Zombies`). Row locks are held from the statement
that takes them to the end of the transaction. `DocumentPdf` reduces the delivery to its row, which `Outbox` models.

In `DocumentSigning` a completion, or a sweep, that is past its deadline loses its transaction, what it wrote and its locks and
goes on with the step it is at: every statement that follows commits by itself, until one refuses or `callAtomic` sees that the caller is no
longer running. That such a statement may land in a transaction of another action instead is what `ExecutionTx` is about. The insert of a
signature takes a key-share lock on the document and on the file, for the foreign keys, so it waits for a cancellation and for a sweep that
holds the row. `strays` remembers which rows handlers wrote after their transaction, `purged` the files whose durable object
was deleted by a sweep that did not commit. In `CatalogUpload` a handler that outlives its transaction carries on with its calls
to the store until it meets the database again. An image may be undecodable (`Undecodable`): a new one is refused (`lockRefused`), a legacy
one is inspected again and again, and never filled.

## 3. Runs

| Run | Instance | Shows |
|---|---|---|
| `outbox_safety` | 2 workers, 2 events, 1 consumer, 2 attempts, 2 faults, 1 replay, lock waits | each delivery's action commits once; invariant errors are unreachable; events caused by a delivery exist only with it; attempts are charged right; a live claim ends only by its owner |
| `outbox_liveness` | 1 worker that may crash, 2 events with any ids, 2 consumers, an unbound event name, 1 fault, 1 replay | a single dispatcher keeps every aggregate in sequence; every event is dispatched, every delivery is processed or dead in the end, also one left in processing by a crash |
| `outbox_concurrent_dispatch` | 2 workers, 2 events, no fault | **violated**: see findings |
| `submit_safety` | 2 callers, 2 inputs, 2 windows; ungated with 2 faults, or gated, confirmation-only and previewed with 1 | at most one effect per window; answers are effects of the same input; `ActionSubmit` implements `SubmitOnce`; a gated effect was confirmed for its key and input; a token that can be presented is unspent; a retained completed row stays |
| `submit_single_use` | 2 callers, 2 windows, 3 faults | **violated**: see findings |
| `tx_late_failure` | 2 calls, one of them deaf, 1 client | **violated**: see findings |
| `signing_late_handler` | 1 completer that outlives its transaction | **violated**: see findings |
| `storage` | see below | `FlushSound`, `RefinesLog`, `RequestsMetered`, `UploadSound`, `FailuresContained`, `QuietTurnsSound` |
| `conversation` | see below | `TurnsSound`, `TurnsKept`, `BudgetSound`, `ConversationSound` |
| `processes` | see below | `PdfSound`, `ReadyIsFinal`, `ConnectionsSound`, `ThreadSound`, `ThreadForward`, `LoopSound`, `PoolSound` |
| `services_fair` | see below, with fairness | `ExecutionAtomic`, `RequestsEnd`, `ProcessesLive` |
| `conversation_fair` | see below, with fairness | `SigningSound`, `EveryTurnEnds`, `ClientsSettle`, `CancelledIsAbandoned`, `EventuallyAnswered` |

In `submit_safety` the variable `gated` picks, initially and for good, whether the requests of a behaviour are gated: mixtures of
both kinds under one key are left out. The parts of the five last runs, and what their properties say:

* `storage`. *emit*: two transactions, two aggregates, up to two emissions per buffer; `FlushSound` is the
  conjunction of `Gapless`, `AllOrNothing` and `EmitOrder`, and `RefinesLog` the refinement of `AggregateLog`.
  *timely*: two processes with exact clocks; `RequestsMetered`: of the requests made in any stretch of time a bucket lets through
  its capacity and its refill, a retry hint never invites too early, mutations are never let through unmetered. *images*: a new
  file and a legacy one, two finalizers; `UploadSound`: a ready image has all its objects, nothing outlives a deleted row,
  what is served is what was declared. `FailuresContained` is what holds of four instances with failures. *faulty*: processes whose
  clocks are skewed and a store that fails. *rewriting*, *cutoff*: two completers while two valid containers
  and an invalid one are written over each other, and with sweeps that do not commit and handlers past their deadline. *scopedPdf*: attempts that fail only
  inside the renderer or at their deadline and processes that do not die, so that an exhausted delivery always leaves the
  document failed. *lateImages*: one file with handlers that outlive their transaction. *turns*, *chain*: two and
  three turns without faults; `QuietTurnsSound`: an ended turn that nobody works on leaves no streaming text as the
  latest message, and continuations keep the first turn of their chain as their root.
* `conversation`. *turn*: two commands, two requests, a card, a run each, and one crash or failed call
  anywhere; `TurnsSound`: a turn that reads done has its reply, a hold is given back only if the model was never
  reached, roots are first turns; `TurnsKept`: no step reopens or writes an ended turn, and
  nobody is refused for a command that has a turn. *racing*: `BudgetSound`, overlapping
  requests of two commands, an accept in doubt and caps that refuse; the counters are exactly what stands on them.
  `ConversationSound` is what holds of the other instances. *orderly*, *rest*, *faulty*, *lostReplies*: `BudgetSound`
  of two to three requests of one command, in turn and overlapping, by every route, over two days, with refused calls,
  lost replies, crashes and accepts in doubt. *questions*, *answers*, *sho*, *late*, *deaths*: `QuestionsSound`,
  two requests that answer, drop or supersede a question, questions of Sho, drops at the end of the hold, and requests that die.
* `processes`. *pdf*: two workers, every way to fail, crashes, takeovers and a replay; `PdfSound`: no document is
  marked failed that will be retried; `ReadyIsFinal`. *events*, *channel*, *leases*, *limited*:
  `ConnectionsSound`, one or two streams, with losses of the subscriber, failures of every call, and slow stores. *phone*,
  *losses*, *question*, *watcher*: with windows and events in any order; `ThreadSound`: a phone with nothing under way shows
  no turn and every message, unless a failure went unheard; `ThreadForward`: no step takes a message back or shows a closed
  question again. That the *question* the phone shows at rest is one the server holds is part of `ConnectionsSound`. *loop*:
  `LoopSound`, two events, polls and notifications against a running tick and a stop. *pool*: `PoolSound`,
  two slots, one of them with three calls at the queue limit, disposed of while workers hang, crash and are respawned.
* `services_fair`. *execution*: three calls, two of them deaf to their signal, one client, statements that fail, and one call without
  statements of step 9; `ExecutionAtomic` (an action that succeeded has all of its writes, or none when its transaction was broken, which for an
  audited or idempotent one only a late handler on its client can do; one that failed and heeds its signal has none) and every call is answered.
  *emit*: transactions that lock two rows in opposite orders both end. *filling*, *settling*, *refusing*: decodable legacy
  images are filled and uploads settle, also one that is refused. *polling*, *listening*, *answering*, *respawning*: `ProcessesLive`.
* `conversation_fair`. *signing*: two completers that may outlive their transactions, one file, cancellation, the grant's expiry and the
  sweep; `SigningSound`: a signature that a transaction recorded is of an issued document (`SignedIsNotCancelled`), on a ready file whose
  stored container is the one that was verified (`SignatureIsStored`), a completed request has its signature (`CompletedIsSigned`),
  a ready file has its object, whoever marked it (`ReadyIsStored`), an upload before the cutoff is never lost (`UploadSurvives`), and the exceptions of
  these, `strays` and `purged`, arise from late handlers and uncommitted sweeps only (`Accounted`); and `CancelledIsAbandoned`.
  *turns*: `EveryTurnEnds`, also when its job and its worker are lost. *streams*, *thread*: `ClientsSettle`. *submits*: two clients that
  present only their own challenges, 4 of them, one window, 2 faults; `EventuallyAnswered`.

Bounds. Two processes, requests or callers are enough for most hazards listed: each is a race of two parties, or a
party and time; where a third can make a difference (a budget hold passed on twice, a queue at its limit,
a client of the pool that changes hands twice) an instance has three. Two events give a predecessor and a successor. Two
attempts give a retry and a dead letter. Two retention windows
let an effect of one meet a request of the next. Two faults allow a stall followed by a crash or a commit
in doubt followed by a failed retry. Two turns of a conversation let the remains of one meet the next; two revisions of a message let a
late copy be the earlier one. Two files and two contents let a completer meet a file, or bytes, it did not verify. Keys,
documents and conversations do not interact except where an instance says so, so one of them is enough.
Symmetry is used only without liveness, over parties that are interchangeable in every instance of the run. `RateLimit` bounds
its counters of admitted requests by a state constraint. `CHECK_DEADLOCK FALSE` is set where clients may simply stop.

Fairness. Outbox: a tick starts and goes on (the poll timer keeps firing, and a tick's errors end that
tick only), a lane proceeds (lock queues are served, an action ends at its deadline at the latest), time
passes. ActionSubmit: a client without an answer submits again, an accepted request proceeds, the lease of
an attempt that nobody runs ends. EmitFlush: a flushing transaction proceeds unless it waits for a lock, and
PostgreSQL's deadlock detector aborts a victim. ExecutionTx: the deadline timer fires and the pipeline
goes on; the handler need not return. AssistantTurn: the clock passes the deadline and the scheduled sweep keeps
running; neither the job nor its worker is assumed to do anything. ShoPool: `CallsAnswered` needs the timers
only; `SlotRecovers` also that posted events are handled and a loading thread becomes ready or dies. WorkerLoop: the
poll timer and the tick; for `EventuallyListens` also that a connection attempt ends. DocumentSigning: the
delivery of the cancellation is retried. CatalogUpload: sweep and backfill are scheduled again and again and the
store's failures of a batch do not go on for ever (strong fairness of their selection), and a transaction ends.
AssistantStream: Redis and PostgreSQL answer and timers fire; no client need read. AssistantThread: the phone handles
what arrives, the server need not finish. Faults are bounded and never fair. `services_fair` states weak fairness of
disjunctions with one step of each part; a behaviour never leaves its part, so this is weak fairness of each step.

### Findings

Each finding is a run that TLC must find violated; `PROJECT.json` quotes the line it contradicts.

* `outbox_concurrent_dispatch`. `docs/specs/core.md` promises per-aggregate order under concurrent dispatch,
  and `delivery-dispatch.ts` calls itself safe for any number of dispatchers. The check for an earlier
  unprocessed delivery sees only delivery *rows*; with two dispatchers the later event can have its row while the
  earlier one is still inside the other dispatcher's transaction. The release of a blocked claim helps only while the
  later action has not begun.
* `tx_late_failure`. `core.md` lets an action whose transaction is not committed fail. A handler that ignores its signal keeps `ctx.db`
  after the deadline has released its client; when a statement of it fails there after the last statement of the transaction that another
  action has open on the client, the COMMIT of that transaction rolls back without an error, and the other action is answered with success
  and has written nothing.
* `signing_late_handler`. A comment in `complete.ts` says that a signature is never recorded on a cancelled document. The handler of a
  completion past its deadline, whose transaction and document lock are gone, still inserts the signature, after a
  cancellation has committed; the file is not marked ready any more, since `callAtomic` refuses.
* `submit_single_use`. `core.md` calls a challenge single-use. A second caller that resumes under the grant
  stored on a row carries it into `reserve`; if the row's retention ends in between, it opens a new window with
  that grant, after the first caller has already committed under it. A takeover does not extend the
  retention, so this needs a submit confirmed in the last minutes of the 48 hours.

### Limits that the properties leave room for

The models also show behaviours that no document of the repository rules out. The properties
are stated so that they hold with them, by a hypothesis on the instance or by what they do not claim:

* Budget. The first of two overlapping requests of one send can give back the hold that the second has put on a row; a
  lost reply of `claimHold` takes the increments back while the record stands; an answer typed into the chat box leaves a
  record under a kind that nobody who ends the turn looks up. `NeverUndercharged` is checked of requests in turn.
* Turns. The text is ended by one write and the row by another, and the dead-letter job fits in between; a
  write is compared by revision, not by whether the message is still the latest. After a fault an ended turn's streaming
  text may stay behind a newer message, so `QuietTextEnded` is about instances without faults.
* Pool. A worker that was ready and dies while another one boots is neither counted nor replaced (`BootLoss`). A thread that a hang
  timer terminated is awaited by nobody and may outlive dispose: `DisposedIsEmpty` is about all the others.
* Loop. A stop during a reconnect's `connectFresh` finds no client to end; the connection that is assigned afterwards LISTENs for good
  (`caught`). `NoStrayClients` says that it is the only one.
* Execution. A deaf handler past its deadline writes through its handle on a client that has no transaction, or
  another's: `FailedLeavesNothing` is about handlers that heed their signal. When its statement fails, it breaks the transaction it is in: then
  an action may be answered with success and have none of its writes, all of them or none being what `DoneIsAtomic` leaves
  (`Outlived`, and the finding above). An action without audit and idempotency sends no statement of its own after its handler, so a statement
  of its own whose error the handler caught has the same effect.
* Rate limit. A script that arrives late moves the bucket's time back, and the same interval refills twice.
* Questions. A retry that overtakes its first attempt is told that something durable happened; a question
  written over a claimed one inherits the ttl of its key.
* Signing. The sweep's deletions stay when its batch rolls back or it outlives its transaction, and a completion that waited for the row
  marks a file ready whose object is gone: `ReadyIsStored` and `SignatureIsStored` except these files (`purged`). A completion past its deadline
  may sign a cancelled document, or complete a request without a signature that stands: the properties except what `strays` names. One signing request
  and one sweep at a time are followed.
* PDF. A last attempt that fails outside the renderer leaves the document pending for ever, hence `FailsInScope` in
  `ExhaustedIsFinalized`; a timed-out attempt overwrites the object a later one recorded.
* Images. A legacy image that cannot be decoded is reported by the backfill and never filled: `LegacyIsFilled` is about the others.
  A sweep, or a finalizer, that outlives its transaction deletes objects of a ready row, or writes objects no
  row leads to: with such handlers only `ServedIsDeclared` is claimed.
* Streams. A stream whose request was accepted before `closeAll` and opens after it is closed by nobody.
* Thread. The delayed end of one turn can hide the question of the next; `QuietShowsQuestion` is about one turn.
  A re-read that fails is dropped, and an end that is not published is not repeated: until the next window the phone may
  show a turn that has ended, so `ThreadSound` claims nothing of rest after such a failure.

## 4. Proofs

The theorems hold for any number of workers, callers, transactions, keys, events, files, turns, attempts and faults. Their only
hypotheses, but for `InSequence`, are the assumptions on constants that each module names (`IdAssumption`, `SubmitAssumption`, `EmitAssumption`, ...): null values
are not ids, bounds are in `Nat`, flags are `BOOLEAN`, ids of events are naturals and finite in number. TLC evaluates them for every
instance of every run, as `ASSUME` of the module itself or of the `MC` module. A run checks each property of the table on a small instance too.

| Theorem | Property | Says |
|---|---|---|
| `OutboxProofs.TypeCorrect` | `TypeOK` | Every reachable state of the outbox is well typed. |
| `OutboxProofs.ExactlyOnce` | `EffectsExactlyOnce` | The bound action of a delivery commits at most once and exactly when its row is processed. |
| `OutboxProofs.AttemptsAccounted` | `AttemptAccounting` | attempts is the number of failed or lost claims since creation or replay plus the running or successful one. |
| `OutboxProofs.OwnershipKept` | `NoInvariantError` | The invariant errors of the claim, the row lock and the finalize are unreachable. |
| `OutboxProofs.CausesProcessed` | `CausedByProcessed` | An event emitted by a consumer exists only if its delivery is processed. |
| `OutboxProofs.ClaimsEndByOwner` | `ClaimEndsByOwner` | A live claim, or one whose transaction holds the row, is ended by its owner alone. |
| `OutboxProofs.InSequence` | `ProcessedInSequence` | With one dispatcher whose batches keep sequences in order, events of an aggregate are processed by a consumer in the order of their sequence, whatever happens to ticks, lanes and claims. |
| `ActionSubmitProofs.TypeCorrect` | `TypeOK` | For any callers, keys, requests and bounds, every reachable state of the submit protocol is well typed. |
| `ActionSubmitProofs.CommitsAtMostOnce` | `AtMostOnce` | For any number of concurrent callers, takeovers, crashes and commits in doubt, the handler commits at most once per key and retention window. |
| `ActionSubmitProofs.AnswersCommitted` | `AnswersAreEffects` | For any callers, keys and inputs, every result a client is given was committed for its own key and input. |
| `ActionSubmitProofs.CompletedRowStays` | `CompletedStays` | No takeover decided on a stale snapshot and no late markFailed reopens a completed row inside its retention. |
| `ActionSubmitProofs.ImplementsSubmitOnce` | `RefinesSubmitOnce` | The idempotency protocol implements the abstract SubmitOnce: one effect per key and window, and answers that were committed. |
| `ActionSubmitProofs.ConfirmedForThisInput` | `GatedEffectsConfirmed` | What a gated request commits was confirmed for exactly its key and input, also when it resumed under the grant stored on the row. |
| `ActionSubmitProofs.StoredTokenUnspent` | `TokenUnspent` | A challenge that Redis still holds has granted nothing. |
| `StorageProofs.FlushIsSound` | `FlushSound` | For any number of concurrent transactions, committed events are numbered without gap, are there all or not at all, and keep their emission order. |
| `StorageProofs.ImplementsAggregateLog` | `RefinesLog` | The flush under the lock of the sequence row implements a log per aggregate that grows at its end only. |
| `PipelineProofs.ExecutionIsAtomic` | `ExecutionAtomic` | Whichever handlers ignore their signal and whichever statements fail, an action that succeeded has all of its writes, or none where its transaction was broken (if it has step-9 statements, by a late handler on its client), and one that failed and heeds its signal has none. |
| `PipelineProofs.RequestsAreMetered` | `RequestsMetered` | With exact clocks a bucket lets through its capacity and its refill of any stretch of time and a client that waits as told gets its token; with any clocks and failing stores no public request and no mutation passes without a token. |
| `StorageProofs.UploadsAreSound` | `UploadSound` | Only bytes of declared files are served, and when no handler outlives its transaction a ready file has all its images and nothing outlives its row. |
| `DocumentSigningProofs.SigningIsSound` | `SigningSound` | Whatever handlers and sweeps do past their deadlines: a signature that a transaction recorded is of an issued document and a ready file whose stored container is the one verified, a ready file has its object until a sweep that does not commit deletes it, and an upload before the cutoff survives. |
| `DocumentSigningProofs.SignatureStays` | - | No step, of a transaction or of a handler past its deadline, replaces or removes a recorded signature. |
| `ProcessesProofs.PdfIsSound` | `PdfSound` | A document is failed only after its delivery was exhausted or its renderer gave up, and no exhausted delivery leaves its document pending when attempts fail in scope. |
| `ProcessesProofs.ReadyStays` | `ReadyIsFinal` | A ready document stays ready and keeps its file, whatever late bookkeeping, replays and takeovers do. |
| `ProcessesProofs.LoopIsSound` | `LoopSound` | Whatever polls, notifications, failures, lost connections and a stop interleave, no wake-up is left to the poll timer, no delivery executes outside the one tick that runs, a stop leaves no connection open but the one being made when it was called, and a listener whose client is dead is reconnecting. |
| `ProcessesProofs.PoolIsSound` | `PoolSound` | Whatever calls, deadlines, hangs, crashes, respawns and a dispose interleave, an open call waits or runs in its slot with its deadline armed, only a wedged worker is terminated, every live thread is its slot's worker, and a pool that is disposed, or whose boot has failed, has no thread left but those its hang timers terminated, and no open call once disposed. |
| `AssistantTurnProofs.TurnsAreSound` | `TurnsSound` | For any commands, requests and faults, a turn that reads done has its reply, a hold is given back only if the model was never reached, continuations name the first turn of their chain, and without faults no ended turn is left streaming as the latest message. |
| `AssistantTurnProofs.TurnsStayEnded` | `TurnsKept` | No late run, sweep or dead letter reopens or writes an ended turn, and no accept is refused for a command that has a turn. |
| `AssistantTurnProofs.ThreadIsSound` | `ThreadSound` | Whatever windows, snapshots, events, re-reads and broken connections arrive in whatever order, a phone with nothing under way shows no turn and every message as it was at the last end of a turn or later, unless a re-read or a publication failed unheard. |
| `AssistantTurnProofs.ThreadMovesForward` | `ThreadForward` | No message of the phone's thread is lost or goes back to an earlier revision, and no question that was answered, dismissed or seen closed comes back once it has left the screen. |
| `AssistantBudgetProofs.BudgetIsSound` | `BudgetSound` | For any requests, commands, days and losses, whatever overlaps: without store faults and crashes each counter is exactly the reservations that stand, with them it errs upwards but for lost replies of claimHold, it covers every turn that runs or ran where requests of a command do not overlap, and at rest every record has its turn. |

Every proof has the same plan: an inductive invariant, checked with TLC first; that `Init` implies it; one
lemma per action, or per group of actions that disturb the same conjuncts, that a step keeps it; that it implies the property.
None of the properties is inductive alone. What has to be added is why the code is right:

* `Outbox`. `TypeCorrect` needs that a processing row has been charged an attempt (`AttemptsPositive`). The
  central lemma, `NextRowStep`, classifies what any step does to a delivery row: kept, created, claimed, released,
  finalized, failed or replayed. `ExactlyOnce` and `AttemptsAccounted` follow from it. `OwnershipKept` needs the
  locks: a row that is locked by a delivery transaction cannot be claimed by another. `CausesProcessed` adds that
  processed is final and that only commits add events.
* `Outbox`, `SInv`, for `InSequence`: sequences grow with commits (`SequencesBelow`); what is dispatched of an aggregate is a prefix of its log
  (`PrefixDispatched`), and exactly the dispatched events have rows (`RowsMatch`); a row that is past the predecessor check has only
  processed predecessors (`PredecessorsProcessed`). The theorem has two hypotheses: one dispatcher, which a finding in
  section 3 shows to be needed, and batches that keep the order (`BatchesInOrder`: ids follow the sequences, or the backlog fits in one batch), because the
  dispatcher cuts its backlog in the order of ids. `outbox_liveness` has one worker and a batch for all.
* `ActionSubmit`, `IInv`: the fencing by attempt id. Attempts in progress have distinct ids, an existing row
  carries an id, the attempt on the row is in the key's current window, a window whose row is in progress or failed has
  no effect yet, and between finalize and commit the row stays the committer's, which is where the row lock is used.
* `ActionSubmit`, `AInv`: an attempt that owns a row, or is about to take it over, runs the input of the row (`HashKnown`); a row that
  is about to be reused is past its retention (`ReuseExpired`); a completed row's response is an effect of the current window
  on the row's input (`StoredIsEffect`). From these every answer is an effect, and each step of `ActionSubmit` is a step
  of `SubmitOnce` or stutters (`NextMaps`). `CompletedRowStays` is the same argument seen as an action property.
* `ActionSubmit`, `GInv`: a grant that a request carries, a row stores or an effect names was issued for that key and that
  input; a gated request past the gate has a grant; a challenge that Redis still holds is on no row, no request and no
  effect. A challenge leaves Redis in the step that makes it a grant, so that last part is kept.
* `EmitFlush`, `FInv`: one transaction at a time has an aggregate's sequence row locked (`LocksExclusive`); the rows it has written carry exactly
  the numbers between the committed and its own last one (`OwnNumbers`); what waits to be flushed are whole groups (`WaitWhole`); numbers
  within a group follow the emission order. Commit then appends to each log it touched, which is the step lemma of the refinement. The
  lemma `PlaceNumbers` counts positions in a finite set; it needs the cardinality theorems of the library.
* `ExecutionTx`, `TInv`: a call inside its transaction has its client to itself (`HoldsClient`); until its outcome is decided its writes
  are on that client and nowhere else (`Contained`), and all of them are there, so that at the commit all or none of them go to the database
  (`Complete`); a transaction whose last statement went through can only be broken by a handler that outlived its own (`BrokenLate`); one
  that failed and heeds its signal sends nothing more (`NoTrace`).
* `RateLimit`, `RInv`: the bound on a stretch of time is not inductive, what is left in the bucket has to be counted too. `Credit`: what
  was let through since s and the tokens that remain are at most the capacity and the refill since s, for every s up to the last
  write of the hash. `RefillIsEarned` carries this over the refill of the next script, also when the hash has expired, after two
  windows. It needs exact clocks (`Prompt`, `Written`); that what passes is a read or has paid (`MutationsMetered`) does not.
* `CatalogUpload`, `UInv` and `QInv`: handlers carry declared bytes only, those that outlive their transaction too (`BytesKnown`). When none does: who
  promotes holds the row, still pending, and what it has left behind of its list is in the store (`PutsHeld`); the sweep holds its row,
  and of an abandoned one what is not left is gone (`SweepHeld`); renditions are filled for ready rows only, by handlers, the
  backfill and calls that land late (`FillsReady`, `LateFills`).
* `DocumentSigning`, `SInv`: who holds the document's lock has found it issued (`DocHeld`), and what its second look at the request has
  found stays true (`StaysOpen`); without late handlers every completion past the lock holds it. The rows of files are locked by
  whom the steps say (`FilesHeld`, `SweepOnBatch`). A completion carries verified bytes, from the copy on the declared ones (`Verified`). `Stored(f)` is
  what a copy leaves behind: the declared bytes are durable until the row is past the cutoff, and then until a sweep deletes
  them; it holds of every file that is copied or ready, whoever marked it (`Copied`). A call that lands late copies the declared bytes, unstages
  what is stored, or purges what a sweep gave up (`LateHarmless`). `SignedFile` ties the signature to the ready file. `SignatureStays` follows from
  it: a transaction that is about to commit has found no signature (`StaysOpen`), and a late insert refuses a second one.
* `DocumentPdf`, `PInv`: one attempt at a time renders, it owns the delivery, and the document is not ready (`RendersAlone`); a worker finalizes
  after the delivery was exhausted (`FinalizesExhausted`); when attempts fail in scope, each of them remembers its scope until the document is
  marked (`ScopeKept`, `DeadIsFinalized`).
* `WorkerLoop`, `LInv`: one tick runs exactly when it is marked, and a backoff means it does not (`Ticking`); a wake-up that comes while a run
  is past its read is remembered on the loop (`Remembered`), which is what makes `WakesNotLost` inductive. `connectFresh` has one
  attempt at a time, of a connection nobody else has (`Connecting`), after a stop the one that the stop has found (`caught`); while it runs for a
  reconnect, `reconnecting` is set.
* `ShoPool`, `NInv`: what waits in a slot is open, distinct and has no hang timer yet, what runs has one (`Waits`, `Runs`, `Held`); only a ready worker
  has calls, and only a slot without a worker awaits a respawn (`Serves`); the last event of a thread says that it is gone, and it is
  dead then (`ThreadsInv`); dispose has closed the slots up to the one it waits for, the cleanup of a failed boot has told its threads to end, and of the threads that are
  awaited one at a time ends (`Disposal`, `OnlyAwaitedEnds`). Each helper (`pump`, `drain`, `lose`) has a lemma about
  one slot, and `PutKeeps` says that the other slots do not notice.
* `AssistantTurn`, `CInv`: per turn, what its row, message, job, run and recovery may be at the same time (`Stored`, `Fetched`, `Started`,
  `Unused`, `Recovers`, `Reported`, `Replied`, `Settles`), and per request the chain it continues. A continuation takes its root from the
  latest interrupted turn of the log, a `CHOOSE`: that there is one (`LatestExists`) follows from the well-foundedness of the natural numbers.
  `TurnsStayEnded` adds what each step may do to a turn that has ended (`NextKeepsEnded`) and to a request that is
  refused (`NextRefuses`).
* `AssistantThread`, `ThreadInv`: everything the phone may receive has been on the server, so it compares with the history. `Within`
  orders windows: every message is in the other one, and not at an earlier revision. The history only grows in this order (`HistoryInv`); the thread
  is within the server's latest state (`NothingAhead`), and has all of every state that has fewer messages (`Whole`), which is why
  keeping the longer of two windows loses nothing. `JoinFacts` says what `joinWindow` does with any window: the thread only
  grows, a closed question stays away, and a window that is refused or kept in part asks for a re-read. `ThreadForward` is this lemma, for every
  step of the phone. For `ThreadSound` the invariant says who will still tell the phone what it lacks: of a turn since the connection began, the
  run, the end that is owed or the event on its way (`LiveTurn`, `EndsHeard`), of a turn before it the snapshot, of either a re-read
  that is issued late enough or is followed by another (`Awaits`, in `TurnShown` and `MessagesShown`). A re-read may settle
  what is shown, since no window came after it was issued (`Settling`). The end of a turn carries a window that shows
  all of its turn (`EndTells`), which is why it can stand for a re-read. At rest nobody is left to tell anything, so nothing is lacking.
* `AssistantBudget`, `BudgetInv`: what a party has on the counters follows from where it is (`Parties`). `Counted` says of each counter and day
  that it matches the three sets of reservations that stand there: recorded, held by a request, on their way back. A step moves one
  reservation between them, or onto or off the counter, and the lemmas `HeldMoves`, `ReturningMoves`, `RecordAdded` and `RecordDropped` say what
  that does to their cardinalities; a loss leaves the counter above. That a turn is never undercharged needs more: where requests of a
  command come one after the other (`OneAtATime`), a turn that owes its hold has its record, and no request that may delete a record
  deletes that one (`HoldsRecorded`); then the turns that owe inject into the records. Without losses every record has somebody who answers for it
  (`Answered`), and at rest that is its turn. The hypotheses of each part (no overlap, no typed answer, no loss of a kind) are those
  under which the code's comments are true: see the limits in section 3.

Only model-checked, and why:

* Liveness (`EventuallyDelivered`, `EventuallyAnswered`, `RequestsEnd`, `ProcessesLive`, `EveryTurnEnds`, `ClientsSettle`,
  `CancelledIsAbandoned`): fairness and ENABLED are outside this prover.
* The other components: `AssistantPause` (`QuestionsSound`) and `AssistantStream` (the first conjuncts of `ConnectionsSound`).
* `QuietShowsQuestion`: it fails of two turns (see the limits in section 3), so it is checked of one.
* `FailuresContained`, `QuietTurnsSound` and the budgets of `ConversationSound` are about second instances of components whose theorems
  cover them.

## 5. Not modelled, and the plan

Left out for good, and most of the repository's lines: the screens, forms and routes of the web and mobile
clients; generated types and route trees; the Drizzle schema beyond the tables above; Zod contracts and their
error texts; the planners, parsers and grammars of the assistant, which are pure functions over unbounded text;
resolution of catalog references and prices inside one read; CRUD actions of the business modules, whose whole
concurrency is the pipeline's transaction; pg-boss, ioredis and PostgreSQL themselves; cryptography; logs and
copy. A model of these would either restate one statement of SQL or enumerate strings. The map therefore covers
a small share of all lines and nearly all of the code that keeps state across two steps.

Left out of modelled components: the boot and release order of a worker's other resources; older pages, echo and
draft of the phone's thread, its Continue command and the limit of eight remembered endings; the 48-hour expiry of budget
keys; owners and revisions of questions; the pages of the backfill.

Next:

1. An abstract specification of the outbox (an exactly-once log per consumer) and the refinement.
