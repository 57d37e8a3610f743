----------------------------- MODULE ShoPool -----------------------------
(***************************************************************************)
(* The worker pool of the Sho service (apps/sho/src/pool.ts): slots with a *)
(* bounded queue, one command at a time per worker thread, a deadline and  *)
(* a hang timer per call, respawning of lost workers, boot and dispose.    *)
(*                                                                         *)
(* The pool runs on one event loop: one handler (a call, a timer, an event *)
(* of a worker) is one action.  The worker threads are outside it and      *)
(* reach it only through the events they post, in order.                   *)
(***************************************************************************)
EXTENDS Integers, Sequences, FiniteSets, SequencesExt

CONSTANTS
    Size,          \* number of slots
    Call,          \* calls of the engine; each is made once
    Home,          \* [Call -> slot], the hash of the call's company
    NoCall,        \* no call
    QueueLimit,    \* SHO_QUEUE_LIMIT
    RespawnLimit,  \* SHO_RESPAWN_LIMIT
    MaxCrashes,    \* bound on worker threads that die by themselves
    MaxSpawns,     \* bound on the workers of a slot
    BootLoss       \* may a ready worker die while another one boots?

Slot == 1 .. Size

PoolAssumption ==
    /\ Size \in Nat \ {0}
    /\ Home \in [Call -> Slot]
    /\ NoCall \notin Call /\ "ready" \notin Call /\ "gone" \notin Call
    /\ QueueLimit \in Nat /\ RespawnLimit \in Nat
    /\ MaxCrashes \in Nat /\ MaxSpawns \in Nat \ {0}
    /\ BootLoss \in BOOLEAN

VARIABLES
    slot,     \* [Slot -> record]: worker (its number, 0 for none), queue, ...
    call,     \* [Call -> record]: Pending
    proc,     \* [Slot -> sequence of the worker threads it has had]
    booted,   \* the slots whose boot promise is resolved
    phase,    \* "boot", "up", or on the way to "aborted" or "disposed"
    turnOf,   \* the slot that is being closed and the worker awaited there
    crashes   \* how many threads have died by themselves

poolVars == <<slot, call, proc, booted, phase, turnOf, crashes>>

stopped == phase \notin {"boot", "up"}
booting == phase = "boot"

----------------------------------------------------------------------------
(* The pool's helpers, on one slot record S and all calls C.               *)

Thread == [state |-> "loading", cmd |-> NoCall, out |-> <<>>]

PoolInit ==
    /\ slot = [s \in Slot |-> [worker |-> 1, ready |-> FALSE, failures |-> 0,
                               respawn |-> FALSE, running |-> NoCall,
                               queue |-> <<>>]]
    /\ call = [c \in Call |-> [state |-> "new", reply |-> "none",
                               expired |-> FALSE, timer |-> FALSE,
                               hang |-> FALSE]]
    /\ proc = [s \in Slot |-> <<Thread>>]
    /\ booted = {}
    /\ phase = "boot"
    /\ turnOf = [slot |-> 0, worker |-> 0]
    /\ crashes = 0

Answered(p, reply) ==
    IF p.state = "open" THEN [p EXCEPT !.state = "answered", !.reply = reply]
    ELSE p

settle(C, cs, reply) ==
    [c \in Call |-> IF c \in cs
                    THEN [Answered(C[c], reply) EXCEPT !.timer = FALSE,
                                                       !.hang = FALSE]
                    ELSE C[c]]

(* The queue without the calls at its head that are past their deadline.   *)
Overdue(q, C) ==
    LET live == {i \in 1 .. Len(q) : ~C[q[i]].expired}
    IN  IF live = {} THEN Len(q) ELSE Min(live) - 1

(* pump: the first call that still has time is posted to the worker.       *)

(* Mutation: a call that is late is dropped and the rest wait. *)
pumpOnce(S, C) ==
    IF S.worker = 0 \/ ~S.ready \/ S.running # NoCall \/ S.queue = <<>>
    THEN [S |-> S, C |-> C]
    ELSE IF C[Head(S.queue)].expired
         THEN [S |-> [S EXCEPT !.queue = Tail(@)],
               C |-> settle(C, {Head(S.queue)}, "deadline")]
         ELSE [S |-> [S EXCEPT !.queue = Tail(@), !.running = Head(S.queue)],
               C |-> [C EXCEPT ![Head(S.queue)].hang = TRUE]]

pump(S, C) ==
    IF S.worker = 0 \/ ~S.ready \/ S.running # NoCall THEN [S |-> S, C |-> C]
    ELSE LET n == Overdue(S.queue, C)
             D == settle(C, {S.queue[i] : i \in 1 .. n}, "deadline")
             q == SubSeq(S.queue, n + 1, Len(S.queue))
         IN  IF q = <<>> THEN [S |-> [S EXCEPT !.queue = q], C |-> D]
             ELSE [S |-> [S EXCEPT !.queue = Tail(q), !.running = Head(q)],
                   C |-> [D EXCEPT ![Head(q)].hang = TRUE]]

drain(S, C, reply) ==
    [S |-> [S EXCEPT !.worker = 0, !.ready = FALSE, !.running = NoCall,
                     !.queue = <<>>],
     C |-> settle(settle(C, {S.running} \cap Call, reply),
                  ToSet(S.queue), "busy")]

(* The worker thread is told to stop, and dies some time later: "hung" when *)
(* nobody waits for that, "ending" when a closing pool does.                *)
Terminate(threads, w, state) ==
    IF w = 0 \/ threads[w].state = "dead" THEN threads
    ELSE [threads EXCEPT ![w].state = state]

(* lose.  A worker lost at boot is not replaced, whether or not it had     *)
(* been ready.                                                             *)
respawns(n) == n <= RespawnLimit

lose(S, C, loss) ==
    LET d == drain(S, C, IF loss = "hung" THEN "deadline" ELSE "busy")
    IN  [S |-> IF stopped \/ booting THEN d.S
               ELSE [d.S EXCEPT !.failures = S.failures + 1,
                                !.respawn = respawns(S.failures + 1)],
         C |-> d.C]

(* Store the result of a helper; a call that now runs was posted. *)
Put(s, r, threads) ==
    /\ slot' = [slot EXCEPT ![s] = r.S]
    /\ call' = r.C
    /\ proc' = [proc EXCEPT ![s] =
                  IF r.S.running \notin {NoCall, slot[s].running}
                  THEN [threads EXCEPT ![r.S.worker].cmd = r.S.running]
                  ELSE threads]

----------------------------------------------------------------------------
(* The engine's calls.                                                     *)

Holds(S) == Len(S.queue) + (IF S.running = NoCall THEN 0 ELSE 1)

refuse(c) ==
    /\ call' = [call EXCEPT ![c].state = "answered", ![c].reply = "busy"]
    /\ UNCHANGED <<slot, proc>>

(* send: store, phrases and run differ in the command only.  A deadline of *)
(* zero has passed when the call is made.                                  *)
send(c) ==
    LET s == Home[c] IN
    /\ phase \notin {"boot", "failed", "aborted"}
    /\ call[c].state = "new"
    /\ IF stopped \/ ~slot[s].ready \/ Holds(slot[s]) >= QueueLimit
       THEN refuse(c)
       ELSE \E late \in BOOLEAN :
               Put(s, pump([slot[s] EXCEPT !.queue = Append(@, c)],
                           [call EXCEPT ![c].state = "open", ![c].timer = TRUE,
                                        ![c].expired = late]),
                   proc[s])
    /\ UNCHANGED <<booted, phase, turnOf, crashes>>

(* performance.now() reaches expiresAt. *)
expire(c) ==
    /\ call[c].state = "open" /\ ~call[c].expired
    /\ call' = [call EXCEPT ![c].expired = TRUE]
    /\ UNCHANGED <<slot, proc, booted, phase, turnOf, crashes>>

(* A queue without its call c. *)
Without(q, c) ==
    IF \E i \in DOMAIN q : q[i] = c
    THEN LET at == CHOOSE i \in DOMAIN q : q[i] = c IN
         [i \in 1 .. Len(q) - 1 |-> IF i < at THEN q[i] ELSE q[i + 1]]
    ELSE q

(* The deadline: a waiting call leaves the queue, a running one keeps the  *)
(* slot.                                                                   *)
deadline(c) ==
    /\ call[c].timer /\ call[c].expired
    /\ call' = [call EXCEPT ![c] = [Answered(@, "deadline") EXCEPT !.timer = FALSE]]
    /\ slot' = [slot EXCEPT ![Home[c]].queue = Without(@, c)]
    /\ UNCHANGED <<proc, booted, phase, turnOf, crashes>>

hung(c) ==
    LET s == Home[c] IN
    /\ call[c].hang
    /\ Put(s, lose(slot[s], [call EXCEPT ![c].hang = FALSE], "hung"),
           Terminate(proc[s], slot[s].worker, "hung"))
    /\ UNCHANGED <<booted, phase, turnOf, crashes>>

respawn(s) ==
    /\ slot[s].respawn
    /\ Len(proc[s]) < MaxSpawns
    /\ IF stopped
       THEN slot' = [slot EXCEPT ![s].respawn = FALSE] /\ UNCHANGED proc
       ELSE /\ slot' = [slot EXCEPT ![s].respawn = FALSE, ![s].ready = FALSE,
                                    ![s].worker = Len(proc[s]) + 1]
            /\ proc' = [proc EXCEPT ![s] = Append(@, Thread)]
    /\ UNCHANGED <<call, booted, phase, turnOf, crashes>>

----------------------------------------------------------------------------
(* Events of a worker; those of a worker the slot no longer has are        *)
(* dropped.                                                                *)

Inbox(s, w) == w \in 1 .. Len(proc[s]) /\ proc[s][w].out # <<>>
Event(s, w) == Head(proc[s][w].out)
Received(s, w) == [proc[s] EXCEPT ![w].out = Tail(@)]

foreign(s, w) ==
    /\ Inbox(s, w) /\ slot[s].worker # w
    /\ proc' = [proc EXCEPT ![s] = Received(s, w)]
    /\ UNCHANGED <<slot, call, booted, phase, turnOf, crashes>>

(* The last slot to be ready ends the boot in the same turn of the loop.   *)
onReady(s, w) ==
    /\ Inbox(s, w) /\ slot[s].worker = w /\ Event(s, w) = "ready"
    /\ Put(s, pump([slot[s] EXCEPT !.ready = TRUE, !.failures = 0], call),
           Received(s, w))
    /\ booted' = booted \cup {s}
    /\ phase' = IF booting /\ booted' = Slot THEN "up" ELSE phase
    /\ UNCHANGED <<turnOf, crashes>>

onAnswer(s, w) ==
    LET c == Event(s, w) IN
    /\ Inbox(s, w) /\ slot[s].worker = w /\ c \in Call
    /\ IF slot[s].running = c
       THEN Put(s, pump([slot[s] EXCEPT !.running = NoCall],
                        settle(call, {c}, "result")), Received(s, w))
       ELSE proc' = [proc EXCEPT ![s] = Received(s, w)] /\ UNCHANGED <<slot, call>>
    /\ UNCHANGED <<booted, phase, turnOf, crashes>>

(* error or exit.  A boot promise that is pending is rejected: the boot    *)
(* has failed.                                                             *)
onGone(s, w) ==
    /\ Inbox(s, w) /\ slot[s].worker = w /\ Event(s, w) = "gone"
    /\ Put(s, lose(slot[s], call, "crashed"), Received(s, w))
    /\ phase' = IF booting /\ s \notin booted THEN "failed" ELSE phase
    /\ UNCHANGED <<booted, turnOf, crashes>>

----------------------------------------------------------------------------
(* The pool closes slot by slot.  It waits for the worker that it has told  *)
(* to end there, not for the earlier ones of the slot.                      *)

Awaited == turnOf.worker # 0 /\ proc[turnOf.slot][turnOf.worker].state # "dead"

awaits(s) == turnOf' = [slot |-> s, worker |-> slot[s].worker]

CloseSlot(s) ==
    /\ Put(s, drain([slot[s] EXCEPT !.respawn = FALSE], call, "busy"),
           Terminate(proc[s], slot[s].worker, "ending"))
    /\ awaits(s)

dispose ==
    /\ phase = "up"
    /\ phase' = "disposing"
    /\ CloseSlot(1)
    /\ UNCHANGED <<booted, crashes>>

disposeNext ==
    /\ phase = "disposing" /\ ~Awaited
    /\ IF turnOf.slot < Size THEN CloseSlot(turnOf.slot + 1) /\ UNCHANGED phase
       ELSE phase' = "disposed" /\ UNCHANGED <<slot, call, proc, turnOf>>
    /\ UNCHANGED <<booted, crashes>>

(* The boot has failed: createShoPool ends every worker and throws, which   *)
(* ends the service.                                                        *)
abortBoot ==
    /\ phase = "failed" /\ ~Awaited
    /\ IF turnOf.slot < Size
       THEN LET s == turnOf.slot + 1 IN
            /\ proc' = [proc EXCEPT ![s] = Terminate(@, slot[s].worker, "ending")]
            /\ awaits(s)
            /\ UNCHANGED phase
       ELSE phase' = "aborted" /\ UNCHANGED <<proc, turnOf>>
    /\ UNCHANGED <<slot, call, booted, crashes>>

----------------------------------------------------------------------------
(* The worker threads (worker.ts): load the model, report ready, answer    *)
(* each command once, or die.                                              *)

Step(s, w, thread) ==
    /\ proc' = [proc EXCEPT ![s][w] = thread]
    /\ UNCHANGED <<slot, call, booted, phase, turnOf>>

threadReady(s, w) ==
    LET t == proc[s][w] IN
    /\ t.state = "loading"
    /\ Step(s, w, [t EXCEPT !.state = "serving", !.out = Append(@, "ready")])
    /\ UNCHANGED crashes

threadAnswers(s, w) ==
    LET t == proc[s][w] IN
    /\ t.state = "serving" /\ t.cmd # NoCall
    /\ Step(s, w, [t EXCEPT !.cmd = NoCall, !.out = Append(@, t.cmd)])
    /\ UNCHANGED crashes

threadDies(s, w) ==
    LET t == proc[s][w] IN
    /\ \/ t.state \in {"ending", "hung"} /\ UNCHANGED crashes
       \/ /\ t.state \in {"loading", "serving"}
          /\ booting => BootLoss
          /\ crashes < MaxCrashes /\ crashes' = crashes + 1
    /\ Step(s, w, [t EXCEPT !.state = "dead", !.cmd = NoCall,
                            !.out = Append(@, "gone")])

----------------------------------------------------------------------------
Worker(s) == 1 .. Len(proc[s])

Events(s, w) ==
    foreign(s, w) \/ onReady(s, w) \/ onAnswer(s, w) \/ onGone(s, w)

PoolNext ==
    \/ \E c \in Call : send(c) \/ expire(c) \/ deadline(c) \/ hung(c)
    \/ \E s \in Slot : respawn(s)
    \/ \E s \in Slot : \E w \in Worker(s) :
          Events(s, w) \/ threadReady(s, w) \/ threadAnswers(s, w) \/ threadDies(s, w)
    \/ dispose \/ disposeNext \/ abortBoot

PoolSpec == PoolInit /\ [][PoolNext]_poolVars

(* The steps that fairness is assumed of: the clock runs and timers fire,  *)
(* events are delivered, and a thread that loads gets ready or dies.       *)
Timers(c) == expire(c) \/ deadline(c)
Delivered == \E s \in Slot : \E w \in Worker(s) : Events(s, w)
Loaded == \E s \in Slot : \E w \in Worker(s) : threadReady(s, w) \/ threadDies(s, w)
Respawned == \E s \in Slot : respawn(s)

----------------------------------------------------------------------------
(* Properties.                                                             *)

SlotRecord ==
    [worker : 0 .. MaxSpawns, ready : BOOLEAN, failures : 0 .. RespawnLimit + 1,
     respawn : BOOLEAN, running : Call \cup {NoCall}, queue : Seq(Call)]

CallRecord ==
    [state : {"new", "open", "answered"},
     reply : {"none", "busy", "deadline", "result"},
     expired : BOOLEAN, timer : BOOLEAN, hang : BOOLEAN]

ThreadRecord ==
    [state : {"loading", "serving", "ending", "hung", "dead"}, cmd : Call \cup {NoCall},
     out : Seq(Call \cup {"ready", "gone"})]

PoolTypeOK ==
    /\ slot \in [Slot -> SlotRecord]
    /\ call \in [Call -> CallRecord]
    /\ proc \in [Slot -> Seq(ThreadRecord)]
    /\ booted \subseteq Slot
    /\ phase \in {"boot", "up", "failed", "aborted", "disposing", "disposed"}
    /\ turnOf \in [slot : 0 .. Size, worker : 0 .. MaxSpawns]
    /\ crashes \in 0 .. MaxCrashes

(* A call that has not been answered waits in its slot's queue or runs     *)
(* there, with its deadline armed, and never waits for an idle worker.     *)
OpenCallsAreHeld ==
    /\ \A c \in Call : call[c].state = "open" =>
          /\ call[c].timer
          /\ slot[Home[c]].running = c \/ c \in ToSet(slot[Home[c]].queue)
    /\ \A s \in Slot :
          slot[s].ready /\ slot[s].running = NoCall => slot[s].queue = <<>>

(* A hang timer that is armed is the timer of the command its slot runs    *)
(* now: no worker is terminated for what another one did (sho-service.md,  *)
(* "only a genuinely wedged run costs the worker").                        *)
OnlyWedgedIsLost ==
    \A c \in Call : call[c].hang => /\ slot[Home[c]].running = c
                                    /\ slot[Home[c]].ready

(* A thread that nobody told to end is the worker of its slot: losses,     *)
(* respawns and dispose leave no second one behind.                        *)
NoOrphans ==
    \A s \in Slot : \A w \in Worker(s) :
       proc[s][w].state \in {"loading", "serving"} => slot[s].worker = w

(* A disposed pool has no open call and starts no worker, and of its       *)
(* threads, as of those of a boot that failed, only what a hang timer      *)
(* terminated may still be alive: every other one has been waited for.     *)
DisposedIsEmpty ==
    /\ phase \in {"aborted", "disposed"} =>
          \A s \in Slot : \A w \in Worker(s) : proc[s][w].state \in {"hung", "dead"}
    /\ phase = "disposed" =>
          /\ \A s \in Slot : slot[s].worker = 0 /\ ~slot[s].respawn
          /\ \A c \in Call : call[c].state # "open"

(* What is checked of the pool: open calls are held, only a wedged worker  *)
(* is terminated, and no call, and no thread but a wedged one, is left     *)
(* behind (pump, lose, respawn, dispose, a boot that fails).               *)
PoolSound ==
    /\ PoolTypeOK
    /\ OpenCallsAreHeld /\ OnlyWedgedIsLost /\ NoOrphans /\ DisposedIsEmpty

(* Every call is answered, whatever the workers do. *)
CallsAnswered == \A c \in Call : call[c].state = "open" ~> call[c].state = "answered"

(* sho-service.md: "A worker that keeps dying is respawned ... and after   *)
(* SHO_RESPAWN_LIMIT consecutive failures the slot is left dead": a slot   *)
(* below its limit becomes ready again.                                    *)
SlotRecovers ==
    \A s \in Slot :
       phase = "up" /\ slot[s].worker = 0 /\ slot[s].failures <= RespawnLimit
       ~> stopped \/ slot[s].ready \/ slot[s].failures > RespawnLimit

============================================================================
