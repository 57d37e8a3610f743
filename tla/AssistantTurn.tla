-------------------------- MODULE AssistantTurn --------------------------
(***************************************************************************)
(* The turns of one assistant conversation: the turn row as lease and      *)
(* receipt (modules/assistant/services/turns.ts), the job that runs it     *)
(* (assistant-turn-processor.ts on jobs/worker-host.ts), the message its   *)
(* reply is written to (assistant-kit/create-kit.ts), and the two ways     *)
(* somebody else ends it: the exhausted job and the sweep of overdue       *)
(* turns, each followed by assistant-turn-recovery.ts.                     *)
(*                                                                         *)
(* One transaction or one read is one action.  A turn is named by its      *)
(* command.  The message a turn writes is kept as the status of its one    *)
(* text part and its revision; a job has no retries.                       *)
(***************************************************************************)
EXTENDS Integers, Sequences, FiniteSets

CONSTANTS
    Command,     \* client commands; each may become one turn
    Request,     \* accepting requests; each is used once
    None,        \* no command
    MaxCards,    \* bound on the parts one run writes before its text
    MaxRuns,     \* bound on the jobs that workers fetch
    MaxNotes,    \* bound on the messages requests append to the log
    Fault,       \* which faults may happen: see Faults
    MaxFaults    \* bound on the number of faults

(* "store": a call of the run or of the recovery fails; "crash": the       *)
(* process that runs one of the parties dies.                              *)
Faults == {"store", "crash"}

TurnAssumption ==
    /\ None \notin Command
    /\ MaxCards \in Nat /\ MaxRuns \in Nat /\ MaxNotes \in Nat
    /\ MaxFaults \in Nat
    /\ Fault \subseteq Faults

VARIABLES
    turn,      \* [Command -> turn row]: status, overdue, continuation root
    msg,       \* [Command -> its placeholder]: text status, revision
    log,       \* the messages in order: a command, or None for a note
    history,   \* the turn that wrote the model history last, or None
    card,      \* is an interaction open?
    job,       \* [Command -> state of its assistant.turn job]
    exhausted, \* [Command -> state of its dead-letter job]
    body,      \* [Command -> the run of its job]
    listed,    \* overdue turns that some sweep has read
    rec,       \* [Command -> recovery of the turn]
    released,  \* the turns whose budget hold was given back
    req,       \* [Request -> accepting request]
    faults     \* how many faults have happened

vars == <<turn, msg, log, history, card, job, exhausted, body, listed, rec,
          released, req, faults>>

----------------------------------------------------------------------------
Active == {"queued", "running"}
Final == {"done", "failed", "interrupted"}

(* TURN_STATUS_OF_TEXT. *)
StatusOfText(s) ==
    CASE s = "complete" -> "done" [] s = "error" -> "failed"
      [] OTHER -> "interrupted"

NoBody == [pc |-> "none", op |-> "card", want |-> "complete", seen |-> 0,
           cards |-> 0, pause |-> "no", aborted |-> FALSE, reached |-> FALSE,
           failed |-> FALSE]

Init ==
    /\ turn = [c \in Command |-> [status |-> "none", late |-> FALSE, root |-> c]]
    /\ msg = [c \in Command |-> [text |-> "none", rev |-> 0]]
    /\ log = <<>>
    /\ history = None
    /\ card = FALSE
    /\ job = [c \in Command |-> "none"]
    /\ exhausted = [c \in Command |-> "none"]
    /\ body = [c \in Command |-> NoBody]
    /\ listed = {}
    /\ rec = [c \in Command |-> [pc |-> "none", seen |-> 0]]
    /\ released = {}
    /\ req = [r \in Request |-> [pc |-> "idle", cmd |-> None, root |-> None]]
    /\ faults = 0

Fails(f) == f \in Fault /\ faults < MaxFaults /\ faults' = faults + 1

ActiveTurns == {c \in Command : turn[c].status \in Active}

IsLatest(c) == log # <<>> /\ log[Len(log)] = c

(* readLatestInterruptedTurn: the interrupted turn created last.           *)
Interrupted == {c \in Command : turn[c].status = "interrupted"}
Position(c) == CHOOSE i \in 1 .. Len(log) : log[i] = c
LatestInterrupted ==
    CHOOSE c \in Interrupted : \A d \in Interrupted : Position(d) <= Position(c)

----------------------------------------------------------------------------
(* Accepting a turn.                                                       *)

Answer(r, a) == req' = [req EXCEPT ![r].pc = a, ![r].root = None]

(* settledAccept: the receipt and the lease in one statement. *)
Settled(c) == turn[c].status # "none" \/ ActiveTurns # {}

SettledAnswer(c) == IF turn[c].status # "none" THEN "replayed" ELSE "busy"

(* The route reads the turn to continue, then acceptStaffTurn reads what   *)
(* the accept may answer without writing.                                  *)
acceptRead(r, c) ==
    /\ req[r].pc = "idle"
    /\ \E root \in {None} \cup (IF Interrupted = {} THEN {}
                                ELSE {turn[LatestInterrupted].root}) :
          req' = [req EXCEPT ![r] =
                    [pc |-> IF Settled(c) THEN SettledAnswer(c) ELSE "insert",
                     cmd |-> c, root |-> IF Settled(c) THEN None ELSE root]]
    /\ UNCHANGED <<turn, msg, log, history, card, job, exhausted, body,
                   listed, rec, released, faults>>

(* Mutation: a continuation is keyed by the turn it continues. *)
RootOfPrevious(r, c) ==
    IF req[r].root = None THEN c ELSE LatestInterrupted

RootOf(r, c) == IF req[r].root = None THEN c ELSE req[r].root

(* The inserts and the enqueue, in one transaction.  A turn the Sho engine *)
(* settled is stored done and has no job.                                  *)
acceptInsert(r) ==
    LET c == req[r].cmd IN
    /\ req[r].pc = "insert" /\ ~Settled(c)
    /\ \E sho \in (IF req[r].root = None THEN BOOLEAN ELSE {FALSE}) :
         /\ turn' = [turn EXCEPT ![c] =
                       [status |-> IF sho THEN "done" ELSE "queued",
                        late |-> FALSE, root |-> RootOf(r, c)]]
         /\ msg' = [msg EXCEPT ![c] =
                      [text |-> IF sho THEN "complete" ELSE "streaming",
                       rev |-> 1]]
         /\ job' = [job EXCEPT ![c] = IF sho THEN "none" ELSE "created"]
    /\ log' = Append(log, c)
    /\ history' = c
    /\ card' = FALSE
    /\ Answer(r, "accepted")
    /\ UNCHANGED <<exhausted, body, listed, rec, released, faults>>

(* A unique violation: another accept committed in between. *)
acceptRaced(r) ==
    /\ req[r].pc = "insert" /\ Settled(req[r].cmd)
    /\ Answer(r, "raced")
    /\ UNCHANGED <<turn, msg, log, history, card, job, exhausted, body,
                   listed, rec, released, faults>>

acceptResolve(r) ==
    LET c == req[r].cmd IN
    /\ req[r].pc = "raced"
    /\ IF Settled(c) THEN Answer(r, SettledAnswer(c))
       ELSE \E a \in {"busy", "conflict"} : Answer(r, a)
    /\ UNCHANGED <<turn, msg, log, history, card, job, exhausted, body,
                   listed, rec, released, faults>>

(* A request appends a message of its own while an interaction is open: a  *)
(* hint, a declined card, or the next question.                            *)
appendNote ==
    /\ card
    /\ Cardinality({i \in 1 .. Len(log) : log[i] = None}) < MaxNotes
    /\ log' = Append(log, None)
    /\ card' \in BOOLEAN
    /\ UNCHANGED <<turn, msg, history, job, exhausted, body, listed, rec,
                   released, req, faults>>

----------------------------------------------------------------------------
(* Ending a turn: finaliseTurn, one statement under the row's lock.        *)

(* Mutation: only a running turn has a deadline. *)
overdueRunning(c) == turn[c].status = "running" /\ turn[c].late

overdue(c) == turn[c].status \in Active /\ turn[c].late

(* Mutation: a finaliser that waited does not look at the row again. *)
eligibleAlways(c) == turn[c].status # "none"

eligible(c) == turn[c].status \in Active

EndRow(c, status) ==
    turn' = [turn EXCEPT ![c].status = status, ![c].late = FALSE]

(* Recovery gives the hold back only to a turn that never started. *)
RecoveryStart(c) == IF turn[c].status = "queued" THEN "release" ELSE "bind"

----------------------------------------------------------------------------
(* The run of the job.                                                     *)

At(c, pc) == body[c].pc = pc

Live(c) == body[c].pc \notin {"none", "end", "dead"}

(* A run that is over is forgotten, but for whether it reached the model. *)
Body(c, b) ==
    body' = [body EXCEPT ![c] = IF b.pc \in {"end", "dead"}
                                THEN [NoBody EXCEPT !.pc = b.pc, !.reached = b.reached]
                                ELSE b]

(* The host settles the job when its body ends, unless it was abandoned.   *)
JobDone(c) ==
    job' = [job EXCEPT ![c] = IF @ = "active" THEN "completed" ELSE @]

RowUnchanged == UNCHANGED <<turn, log, card, exhausted, listed, rec, released,
                            req>>

fetchJob(c) ==
    /\ job[c] = "created"
    /\ Cardinality({d \in Command : body[d].pc # "none"}) < MaxRuns
    /\ job' = [job EXCEPT ![c] = "active"]
    /\ Body(c, [NoBody EXCEPT !.pc = "read"])
    /\ UNCHANGED <<turn, msg, log, history, card, exhausted, listed, rec,
                   released, req, faults>>

(* readTurnForJob: only a queued turn names the person it runs as. *)
readTurnForJob(c) ==
    /\ At(c, "read")
    /\ IF turn[c].status = "queued"
       THEN Body(c, [body[c] EXCEPT !.pc = "start"]) /\ UNCHANGED job
       ELSE Body(c, [body[c] EXCEPT !.pc = "end"]) /\ JobDone(c)
    /\ RowUnchanged /\ UNCHANGED <<msg, history, faults>>

(* Failing a job with no retries files its dead letter. *)
FailJob(c) ==
    /\ job' = [job EXCEPT ![c] = IF @ = "active" THEN "failed" ELSE @]
    /\ exhausted' = [exhausted EXCEPT ![c] =
                       IF job[c] = "active" THEN "created" ELSE @]

startTurn(c) ==
    /\ At(c, "start")
    /\ \/ /\ turn[c].status = "queued" /\ ~overdue(c)
          /\ turn' = [turn EXCEPT ![c].status = "running"]
          /\ Body(c, [body[c] EXCEPT !.pc = "bind"])
          /\ UNCHANGED <<job, exhausted, faults>>
       \/ /\ overdue(c) /\ turn[c].status = "queued"
          /\ Body(c, [body[c] EXCEPT !.pc = "end"])
          /\ FailJob(c)
          /\ UNCHANGED <<turn, faults>>
       \/ /\ turn[c].status # "queued"
          /\ Body(c, [body[c] EXCEPT !.pc = "end"])
          /\ JobDone(c)
          /\ UNCHANGED <<turn, exhausted, faults>>
       \/ /\ Fails("store")
          /\ Body(c, [body[c] EXCEPT !.pc = "end"])
          /\ FailJob(c)
          /\ UNCHANGED turn
    /\ UNCHANGED <<msg, log, history, card, listed, rec, released, req>>

(* The catch: end the text as interrupted, once, if the scope is known. *)
Caught(b) ==
    IF b.failed THEN [b EXCEPT !.pc = "finish", !.want = "interrupted"]
    ELSE [b EXCEPT !.pc = "write", !.op = "end", !.want = "interrupted",
                   !.failed = TRUE]

(* placeholderBind: the placeholder must still be the latest message. *)
placeholderBind(c) ==
    LET b == body[c] IN
    /\ At(c, "bind")
    /\ \/ /\ IsLatest(c)
          /\ Body(c, [b EXCEPT !.pc = "ready"])
          /\ UNCHANGED faults
       \/ /\ ~IsLatest(c)
          /\ Body(c, [b EXCEPT !.pc = "finish", !.want = "interrupted"])
          /\ UNCHANGED faults
       \/ /\ Fails("store")
          /\ Body(c, [b EXCEPT !.pc = "finish", !.want = "interrupted"])
    /\ RowUnchanged /\ UNCHANGED <<msg, history, job>>

(* History, tools and prompt; an abort before the model is an error. *)
reachModel(c) ==
    LET b == body[c] IN
    /\ At(c, "ready")
    /\ \/ ~b.aborted /\ Body(c, [b EXCEPT !.pc = "run", !.reached = TRUE])
                     /\ UNCHANGED faults
       \/ b.aborted /\ Body(c, Caught(b)) /\ UNCHANGED faults
       \/ Fails("store") /\ Body(c, Caught(b))
    /\ RowUnchanged /\ UNCHANGED <<msg, history, job>>

(* The model's loop: a tool's card is written. *)
toolCard(c) ==
    LET b == body[c] IN
    /\ At(c, "run") /\ b.cards < MaxCards
    /\ Body(c, [b EXCEPT !.pc = "write", !.op = "card", !.cards = @ + 1])
    /\ RowUnchanged /\ UNCHANGED <<msg, history, job, faults>>

(* holdTurnClaim: a write of a run needs its row running. *)
holdsClaim(c) == turn[c].status = "running"

(* endText after the loop: a refused pause makes the turn fail. *)
EndText(b) ==
    [b EXCEPT !.pc = "write", !.op = "end",
              !.want = IF b.pause = "refused" THEN "error" ELSE "complete"]

(* After each step of the loop, and once more for the step that paused. *)
saveHistory(c) ==
    LET b == body[c] IN
    /\ b.pc \in {"run", "save"}
    /\ IF holdsClaim(c)
       THEN /\ history' = c
            /\ IF b.pc = "save" THEN Body(c, EndText(b)) ELSE UNCHANGED body
       ELSE Body(c, Caught(b)) /\ UNCHANGED history
    /\ RowUnchanged /\ UNCHANGED <<msg, job, faults>>

(* The loop ends with a text, with none, or by an abort or provider error, *)
(* and may open an interaction, or ask for one that is refused.  The text  *)
(* and the interaction are appended in one write.                          *)
endRun(c) ==
    LET b == body[c] IN
    /\ At(c, "run")
    /\ \E s \in {"complete", "none", "error", "interrupted"},
          p \in (IF MaxCards = 0 THEN {"no"} ELSE {"no", "open", "refused"}) :
         LET e == [b EXCEPT !.pause = p] IN
         /\ s = "interrupted" => b.aborted
         /\ s \in {"complete", "none"} => ~b.aborted
         /\ card' = (card \/ p = "open")
         /\ Body(c, IF s # "none"
                    THEN [e EXCEPT !.pc = "write", !.op = "text", !.want = s]
                    ELSE IF p = "open" THEN [e EXCEPT !.pc = "write", !.op = "part"]
                    ELSE EndText(e))
    /\ UNCHANGED <<turn, msg, log, history, job, exhausted, listed, rec,
                   released, req, faults>>

(* kit.messages.write, first half: the latest message is read.  Appending  *)
(* to a message that is not the latest is refused; ending its text, or     *)
(* ending a text that has ended, changes nothing.                          *)
writeRead(c) ==
    LET b == body[c] IN
    /\ At(c, "write")
    /\ \/ /\ IsLatest(c) /\ (b.op = "end" => msg[c].text = "streaming")
          /\ Body(c, [b EXCEPT !.pc = "store", !.seen = msg[c].rev])
          /\ UNCHANGED faults
       \/ /\ b.op = "end" /\ (~IsLatest(c) \/ msg[c].text # "streaming")
          /\ Body(c, [b EXCEPT !.pc = "stored"])
          /\ UNCHANGED faults
       \/ /\ b.op # "end" /\ ~IsLatest(c)
          /\ Body(c, Caught(b))
          /\ UNCHANGED faults
       \/ /\ Fails("store")
          /\ Body(c, Caught(b))
    /\ RowUnchanged /\ UNCHANGED <<msg, history, job>>

AfterWrite(b) ==
    CASE b.op = "card" -> [b EXCEPT !.pc = "run"]
      [] b.op \in {"text", "part"} -> IF b.pause = "open"
                                      THEN [b EXCEPT !.pc = "save"] ELSE EndText(b)
      [] b.op = "end" -> [b EXCEPT !.pc = "finish"]

Written(m, b) ==
    [text |-> IF b.op \in {"card", "part"} THEN m.text ELSE b.want, rev |-> m.rev + 1]

(* The second half: a compare-and-set on the revision, under the claim. *)
writeStore(c) ==
    LET b == body[c] IN
    /\ At(c, "store")
    /\ IF ~holdsClaim(c) THEN Body(c, Caught(b)) /\ UNCHANGED msg
       ELSE IF msg[c].rev # b.seen
            THEN Body(c, [b EXCEPT !.pc = "write"]) /\ UNCHANGED msg
            ELSE /\ msg' = [msg EXCEPT ![c] = Written(@, b)]
                 /\ Body(c, AfterWrite(b))
    /\ RowUnchanged /\ UNCHANGED <<history, job, faults>>

(* endText after an unchanged write: how the stored text reads.            *)

(* Mutation: the status that was asked for is believed. *)
storedTextAsked(c) == body[c].want

storedText(c) == msg[c].text

readStored(c) ==
    /\ At(c, "stored")
    /\ Body(c, [body[c] EXCEPT !.pc = "finish",
                               !.want = IF body[c].failed THEN "interrupted"
                                        ELSE IF body[c].pause = "refused"
                                        THEN "error" ELSE storedText(c)])
    /\ RowUnchanged /\ UNCHANGED <<msg, history, job, faults>>

(* finishStaffTurn; a turn that did not reach the model gives its hold     *)
(* back next.                                                              *)
finishTurn(c) ==
    LET b == body[c] IN
    /\ At(c, "finish")
    /\ \/ /\ eligible(c)
          /\ EndRow(c, StatusOfText(b.want))
          /\ Body(c, [b EXCEPT !.pc = IF b.reached THEN "end" ELSE "release"])
          /\ IF b.reached THEN JobDone(c) ELSE UNCHANGED job
          /\ UNCHANGED <<exhausted, faults>>
       \/ /\ ~eligible(c)
          /\ Body(c, [b EXCEPT !.pc = "end"])
          /\ JobDone(c)
          /\ UNCHANGED <<turn, exhausted, faults>>
       \/ /\ Fails("store")
          /\ Body(c, [b EXCEPT !.pc = "end"])
          /\ FailJob(c)
          /\ UNCHANGED turn
    /\ UNCHANGED <<msg, log, history, card, listed, rec, released, req>>

releaseHold(c) ==
    /\ At(c, "release")
    /\ \/ released' = released \cup {c} /\ UNCHANGED faults
       \/ Fails("store") /\ UNCHANGED released
    /\ Body(c, [body[c] EXCEPT !.pc = "end"])
    /\ JobDone(c)
    /\ UNCHANGED <<turn, msg, log, history, card, exhausted, listed, rec, req>>

(* The turn's own deadline. *)
deadlineFires(c) ==
    /\ Live(c) /\ body[c].pc \notin {"read", "start"} /\ ~body[c].aborted
    /\ Body(c, [body[c] EXCEPT !.aborted = TRUE])
    /\ RowUnchanged /\ UNCHANGED <<msg, history, job, faults>>

(* The attempt times out, is drained, or its worker is dead: the job has   *)
(* failed, and a body that still lives goes on.                            *)
abandonAttempt(c) ==
    /\ job[c] = "active"
    /\ FailJob(c)
    /\ body' = [body EXCEPT ![c].aborted = Live(c)]
    /\ UNCHANGED <<turn, msg, log, history, card, listed, rec, released, req,
                   faults>>

crashBody(c) ==
    /\ Live(c) /\ Fails("crash")
    /\ Body(c, [body[c] EXCEPT !.pc = "dead"])
    /\ RowUnchanged /\ UNCHANGED <<msg, history, job>>

----------------------------------------------------------------------------
(* Ending by somebody else.                                                *)

Recover(c) == rec' = [rec EXCEPT ![c].pc = RecoveryStart(c)]

(* The dead-letter job: interruptTurn, then recovery.  A run of it that    *)
(* fails is not tried again.                                               *)
interruptTurn(c) ==
    /\ exhausted[c] = "created"
    /\ exhausted' = [exhausted EXCEPT ![c] = "done"]
    /\ \/ /\ eligible(c)
          /\ EndRow(c, "interrupted")
          /\ Recover(c)
          /\ UNCHANGED faults
       \/ /\ ~eligible(c)
          /\ UNCHANGED <<turn, rec, faults>>
       \/ Fails("store") /\ UNCHANGED <<turn, rec>>
    /\ UNCHANGED <<msg, log, history, card, job, body, listed, released, req>>

(* Time passes: a queued turn misses its start deadline, a running one its *)
(* deadline.                                                               *)
becomeLate(c) ==
    /\ turn[c].status \in Active /\ ~turn[c].late
    /\ turn' = [turn EXCEPT ![c].late = TRUE]
    /\ UNCHANGED <<msg, log, history, card, job, exhausted, body, listed, rec,
                   released, req, faults>>

listOverdueTurns ==
    /\ {c \in Command : overdue(c)} \ listed # {}
    /\ listed' = listed \cup {c \in Command : overdue(c)}
    /\ UNCHANGED <<turn, msg, log, history, card, job, exhausted, body, rec,
                   released, req, faults>>

(* The turn is looked at again when its row is locked.  A failure leaves   *)
(* it to the next pass.                                                    *)
sweepOverdueTurn(c) ==
    /\ c \in listed
    /\ listed' = listed \ {c}
    /\ \/ /\ overdue(c)
          /\ EndRow(c, "interrupted")
          /\ Recover(c)
          /\ UNCHANGED faults
       \/ /\ ~overdue(c)
          /\ UNCHANGED <<turn, rec, faults>>
       \/ Fails("crash") /\ UNCHANGED <<turn, rec>>
    /\ UNCHANGED <<msg, log, history, card, job, exhausted, body, released, req>>

RecUnchanged == UNCHANGED <<turn, log, history, card, job, exhausted, body,
                            listed, req>>

RecTo(c, pc) == rec' = [rec EXCEPT ![c].pc = pc]

recoverRelease(c) ==
    /\ rec[c].pc = "release"
    /\ \/ released' = released \cup {c} /\ UNCHANGED faults
       \/ Fails("store") /\ UNCHANGED released
    /\ RecTo(c, "bind")
    /\ RecUnchanged /\ UNCHANGED msg

(* settlePlaceholder: nothing is ended when the placeholder is no longer   *)
(* the latest message, or when a call fails.                               *)
recoverBind(c) ==
    /\ rec[c].pc = "bind"
    /\ \/ RecTo(c, IF IsLatest(c) THEN "write" ELSE "end") /\ UNCHANGED faults
       \/ Fails("store") /\ RecTo(c, "end")
    /\ RecUnchanged /\ UNCHANGED <<msg, released>>

recoverRead(c) ==
    /\ rec[c].pc = "write"
    /\ rec' = [rec EXCEPT ![c] =
                 IF IsLatest(c) /\ msg[c].text = "streaming"
                 THEN [pc |-> "store", seen |-> msg[c].rev]
                 ELSE [pc |-> "end", seen |-> 0]]
    /\ RecUnchanged /\ UNCHANGED <<msg, released, faults>>

(* Without a claim: the turn has none any more. *)
recoverStore(c) ==
    /\ rec[c].pc = "store"
    /\ IF msg[c].rev = rec[c].seen
       THEN /\ msg' = [msg EXCEPT ![c] = [text |-> "interrupted", rev |-> @.rev + 1]]
            /\ rec' = [rec EXCEPT ![c] = [pc |-> "end", seen |-> 0]]
       ELSE RecTo(c, "write") /\ UNCHANGED msg
    /\ RecUnchanged /\ UNCHANGED <<released, faults>>

crashRecovery(c) ==
    /\ rec[c].pc \notin {"none", "end"} /\ Fails("crash")
    /\ RecTo(c, "end")
    /\ RecUnchanged /\ UNCHANGED <<msg, released>>

----------------------------------------------------------------------------
RequestStep(r) ==
    \/ \E c \in Command : acceptRead(r, c)
    \/ acceptInsert(r) \/ acceptRaced(r) \/ acceptResolve(r)

BodyStep(c) ==
    \/ readTurnForJob(c) \/ startTurn(c) \/ placeholderBind(c) \/ reachModel(c)
    \/ toolCard(c) \/ saveHistory(c) \/ endRun(c)
    \/ writeRead(c) \/ writeStore(c) \/ readStored(c)
    \/ finishTurn(c) \/ releaseHold(c)

EndingStep(c) ==
    \/ interruptTurn(c) \/ sweepOverdueTurn(c)
    \/ recoverRelease(c) \/ recoverBind(c) \/ recoverRead(c) \/ recoverStore(c)

Next ==
    \/ \E r \in Request : RequestStep(r)
    \/ appendNote
    \/ listOverdueTurns
    \/ \E c \in Command :
          \/ fetchJob(c) \/ BodyStep(c) \/ EndingStep(c)
          \/ deadlineFires(c) \/ abandonAttempt(c) \/ becomeLate(c)
          \/ crashBody(c) \/ crashRecovery(c)

Spec == Init /\ [][Next]_vars

----------------------------------------------------------------------------
(* Properties.                                                             *)

Texts == {"none", "streaming", "complete", "error", "interrupted"}

TypeOK ==
    /\ turn \in [Command -> [status : {"none"} \cup Active \cup Final,
                             late : BOOLEAN, root : Command]]
    /\ msg \in [Command -> [text : Texts, rev : Nat]]
    /\ log \in Seq(Command \cup {None})
    /\ history \in Command \cup {None}
    /\ card \in BOOLEAN
    /\ job \in [Command -> {"none", "created", "active", "failed", "completed"}]
    /\ exhausted \in [Command -> {"none", "created", "done"}]
    /\ body \in [Command -> [pc : {"none", "read", "start", "bind", "ready",
                                   "run", "write", "store", "stored", "save",
                                   "finish", "release", "end", "dead"},
                             op : {"card", "text", "part", "end"},
                             want : Texts \ {"none"}, seen : Nat,
                             cards : 0 .. MaxCards,
                             pause : {"no", "open", "refused"}, aborted : BOOLEAN,
                             reached : BOOLEAN, failed : BOOLEAN]]
    /\ listed \subseteq Command
    /\ rec \in [Command -> [pc : {"none", "release", "bind", "write", "store",
                                  "end"}, seen : Nat]]
    /\ released \subseteq Command
    /\ req \in [Request -> [pc : {"idle", "insert", "raced", "accepted",
                                  "replayed", "busy", "conflict"},
                            cmd : Command \cup {None},
                            root : Command \cup {None}]]
    /\ faults \in 0 .. MaxFaults

(* An accept is told busy, or conflict, only while its own command has no  *)
(* turn: a retry that races its first attempt is answered replayed         *)
(* (turns.ts, "answer `busy` for the caller's own command").               *)
RefusedHasNoTurn ==
    \A r \in Request :
       req'[r].pc \in {"busy", "conflict"} /\ req[r].pc # req'[r].pc
       => turn[req'[r].cmd].status = "none"

(* Once a turn has ended nobody reopens it, its run writes nothing more to *)
(* the message or the history, and the one change left is recovery ending  *)
(* a text that still streams.                                              *)
EndedStays ==
    \A c \in Command : turn[c].status \in Final =>
       /\ turn'[c] = turn[c]
       /\ msg'[c] # msg[c] => /\ msg[c].text = "streaming"
                              /\ msg'[c].text = "interrupted"
       /\ history' = c => history = c

(* A turn that reads done has a complete reply, and one that reads failed  *)
(* has a text that ended, unless a newer message took its place: whoever   *)
(* ended the text first decides how the turn reads                         *)
(* (assistant-turn-processor.ts, endText).                                 *)
DoneMeansReply ==
    \A c \in Command :
       /\ turn[c].status = "done" => msg[c].text = "complete"
       /\ turn[c].status = "failed" /\ IsLatest(c) => msg[c].text # "streaming"

(* The hold of a turn is given back only if its run never reached the      *)
(* model, and never will.                                                  *)
ReleasedNeverReached ==
    \A c \in released : turn[c].status \in Final /\ ~body[c].reached

(* Nobody works on the turn any more. *)
Quiet(c) ==
    /\ turn[c].status \in Final
    /\ ~Live(c) /\ rec[c].pc \in {"none", "end"}

(* With no fault, when everybody has finished with an ended turn its text  *)
(* does not stream, unless a newer message took its place.                 *)
QuietTextEnded ==
    \A c \in Command :
       Quiet(c) /\ msg[c].text = "streaming" => ~IsLatest(c)

(* A continuation's tools derive their keys from the first turn of the     *)
(* chain, which was interrupted and continues nothing.                     *)
RootsAreFirst ==
    \A c \in Command : turn[c].root # c =>
       /\ turn[turn[c].root].status = "interrupted"
       /\ turn[turn[c].root].root = turn[c].root

(* What holds of a conversation's turns at every moment.                   *)
TurnsSound ==
    /\ TypeOK /\ DoneMeansReply /\ ReleasedNeverReached /\ RootsAreFirst
    /\ Fault = {} => QuietTextEnded

(* What no step does: reopen or write an ended turn, or refuse a command   *)
(* that has a turn.                                                        *)
TurnsKept == [][EndedStays /\ RefusedHasNoTurn]_vars

(* Every accepted turn ends, also when its job, its worker and its         *)
(* dead-letter job are lost; that it ends for good is TurnsKept.           *)
EveryTurnEnds == \A c \in Command : []<>(turn[c].status \notin Active)

============================================================================
