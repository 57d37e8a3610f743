--------------------------- MODULE AssistantPause ---------------------------
(***************************************************************************)
(* The open question of one conversation: the pause record of the          *)
(* assistant kit (create-kit.ts) under one Redis key                       *)
(* (assistant-kit-stores.ts), and the requests that open, answer, drop and *)
(* supersede it (assistant-kit-answer.ts, assistant-kit-chat.ts,           *)
(* assistant-kit-sho.ts, host.ts).  Every Redis call is a step of its own; *)
(* the accept of a turn is one (its transaction is AssistantTurn's).       *)
(*                                                                         *)
(* One owner and one revision: no route calls revise.  A question, a       *)
(* command and an answer are identifiers; time is counted in ticks.        *)
(***************************************************************************)
EXTENDS Naturals, Sequences, FiniteSets

CONSTANTS
    Requests,      \* requests and runners that may be under way at once
    Commands,      \* command ids of the clients
    Ttl,           \* ttlMs of the kinds
    Hold,          \* ABANDON_HOLD_MS
    CommandTtl,    \* ASSISTANT_KIT_COMMAND_TTL_MS
    MaxTime,       \* bound on the time
    MaxQuestions,  \* bound on the questions ever asked
    Crashes,       \* bound on the requests that die
    Used           \* the routes in use

PauseAssumption ==
    /\ {Ttl, Hold, CommandTtl} \subseteq Nat \ {0}
    /\ Used \subseteq {"answer", "decline", "abandon", "chat", "sho"}
    /\ {MaxTime, MaxQuestions, Crashes} \subseteq Nat

Questions == 1 .. MaxQuestions
NoQuestion == 0
NoCommand == <<"none", "none", NoQuestion>>
(* A client makes a command id for a message or for one question.          *)
Receipts == ({"chat"} \X Commands \X {NoQuestion}) \cup ({"answer"} \X Commands \X Questions)
Time == 0 .. (MaxTime + Ttl + CommandTtl)

VARIABLES
    now,
    pause,      \* the record under the key; NoPause: no record
    keyEnds,    \* when Redis drops the key
    receipt,    \* [Receipts -> when its key ends]
    turn,       \* whether a turn of the conversation runs
    req,        \* [Requests -> where its code is]
    asked,      \* how many questions were made
    ends,       \* [Questions -> the ways in which it was answered or dropped]
    stored,     \* receipts under which something durable was stored
    accepts,    \* receipts whose turn row exists
    unsure,     \* receipts an attempt left behind without knowing what it did
    died        \* requests that died so far

vars == <<now, pause, keyEnds, receipt, turn, req, asked, ends, stored,
          accepts, unsure, died>>

store == <<pause, keyEnds>>
record == <<ends, stored, accepts, unsure>>

NoPause == [id |-> NoQuestion, status |-> "gone", expiresAt |-> 0]

Records == [id : Questions, status : {"open", "claimed", "cancelled"}, expiresAt : Time]

(* id: the question it is about; raw: what it read; new: the record it     *)
(* installs; todo: what it still gives back.                               *)
Idle == [op |-> "idle", pc |-> "idle", cmd |-> NoCommand, id |-> NoQuestion,
         raw |-> NoPause, new |-> NoPause, tries |-> 0, todo |-> {}]

Init ==
    /\ now = 0
    /\ pause = NoPause /\ keyEnds = 0
    /\ receipt = [r \in Receipts |-> 0]
    /\ turn = FALSE
    /\ req = [p \in Requests |-> Idle]
    /\ asked = 0
    /\ ends = [q \in Questions |-> <<>>]
    /\ stored = {} /\ accepts = {} /\ unsure = {}
    /\ died = 0

at(p, pc) == req[p].pc = pc
Goto(p, pc) == req' = [req EXCEPT ![p].pc = pc]
Finish(p) == req' = [req EXCEPT ![p] = Idle]

isExpired(r) == now >= r.expiresAt
isAnswerable(r) == r.status = "open" /\ ~isExpired(r)

holdsTheSlot(r) == r.status \in {"open", "cancelled"} /\ ~isExpired(r)

----------------------------------------------------------------------------
(* The pause store.                                                        *)

(* Mutation: the new value is set without a look at the old one. *)
compareAndSetBlind(expected, next) ==
    /\ pause # NoPause /\ pause' = next /\ UNCHANGED keyEnds

(* KEEPTTL: the key keeps the time at which it ends.                       *)
compareAndSet(expected, next) ==
    /\ pause = expected /\ pause' = next /\ UNCHANGED keyEnds

(* What put does with what was read: NX with a ttl, or compare and set.    *)
put(expected, next) ==
    IF expected = NoPause
    THEN pause = NoPause /\ pause' = next /\ keyEnds' = next.expiresAt
    ELSE compareAndSet(expected, next)

putFails(expected) == pause # expected /\ UNCHANGED store

----------------------------------------------------------------------------
(* Receipts of commands.                                                   *)

cmdOf(p) == req[p].cmd
spent(r) == receipt[r] > now
GiveBack(r) == receipt' = [receipt EXCEPT ![r] = 0]

(* takeCommand; a command that was taken before is answered with the       *)
(* conversation as it stands.                                              *)
takeCommand(p) ==
    /\ at(p, "take")
    /\ IF spent(cmdOf(p))
       THEN Goto(p, "replay") /\ UNCHANGED receipt
       ELSE /\ receipt' = [receipt EXCEPT ![cmdOf(p)] = now + CommandTtl]
            /\ Goto(p, CASE req[p].op = "answer" -> "claim"
                         [] req[p].op = "decline" -> "append"
                         [] req[p].op = "chat" /\ req[p].id = NoQuestion -> "sho"
                         [] OTHER -> "accept")
    /\ UNCHANGED <<now, store, turn, asked, record, died>>

respond(p) ==
    /\ at(p, "replay") /\ Finish(p)
    /\ UNCHANGED <<now, store, receipt, turn, asked, record, died>>

----------------------------------------------------------------------------
(* The routes.                                                             *)

(* A request about a question (gone, if it was never installed).           *)
begin(p, op, c) ==
    /\ req[p] = Idle
    /\ \E q \in 1 .. asked : req' = [req EXCEPT ![p] =
          [Idle EXCEPT !.op = op, !.id = q, !.pc = IF op = "abandon" THEN "drop" ELSE "take",
                       !.cmd = IF op = "abandon" THEN NoCommand ELSE <<"answer", c, q>>]]
    /\ UNCHANGED <<now, store, receipt, turn, asked, record, died>>

(* A send that declines the card: its text is stored before the drop.      *)
appendChatText(p) ==
    /\ at(p, "append")
    /\ \/ Goto(p, "drop") /\ stored' = stored \cup {cmdOf(p)}
       \/ /\ req' = [req EXCEPT ![p].pc = "giveBack", ![p].todo = {"command"}]
          /\ UNCHANGED stored
    /\ UNCHANGED <<now, store, receipt, turn, asked, ends, accepts, unsure, died>>

(* A send that answers nothing: kit.peek first.                            *)
chat(p, c) ==
    /\ req[p] = Idle /\ "chat" \in Used
    /\ req' = [req EXCEPT ![p] =
          [Idle EXCEPT !.op = "chat", !.pc = "take", !.cmd = <<"chat", c, NoQuestion>>,
                       !.id = IF isAnswerable(pause) THEN pause.id ELSE NoQuestion]]
    /\ UNCHANGED <<now, store, receipt, turn, asked, record, died>>

(* The runner of the turn has reached a tool that asks.                    *)
run(p) ==
    /\ req[p] = Idle /\ turn /\ \A r \in Requests : req[r].op # "run"
    /\ req' = [req EXCEPT ![p] = [Idle EXCEPT !.op = "run", !.pc = "ask"]]
    /\ UNCHANGED <<now, store, receipt, turn, asked, record, died>>

(* The turn ends without a question, or the sweep ends it.                 *)
settle ==
    /\ turn /\ \A r \in Requests : req[r].op # "run"
    /\ turn' = FALSE
    /\ UNCHANGED <<now, store, receipt, req, asked, record, died>>

----------------------------------------------------------------------------
(* kit.open.                                                               *)

(* build: the deadline comes from the kind.                                *)
build(p) ==
    /\ at(p, "ask") /\ asked < MaxQuestions
    /\ asked' = asked + 1
    /\ req' = [req EXCEPT ![p].pc = "install", ![p].tries = 2, ![p].new =
          [id |-> asked + 1, status |-> "open", expiresAt |-> now + Ttl]]
    /\ UNCHANGED <<now, store, receipt, turn, record, died>>

(* install: the slot is read first.                                        *)
install(p) ==
    /\ at(p, "install")
    /\ req' = [req EXCEPT ![p].raw = pause,
          ![p].pc = IF req[p].tries = 0 \/ holdsTheSlot(pause) THEN "alreadyOpen"
                    ELSE "put"]
    /\ UNCHANGED <<now, store, receipt, turn, asked, record, died>>

(* Then written; a failed write reads again, twice in all.                 *)
installPut(p) ==
    /\ at(p, "put")
    /\ \/ put(req[p].raw, req[p].new) /\ Goto(p, "opened")
       \/ /\ putFails(req[p].raw)
          /\ req' = [req EXCEPT ![p].pc = "install", ![p].tries = @ - 1]
    /\ UNCHANGED <<now, receipt, turn, asked, record, died>>

(* What each caller does next.  The runner ends its turn.                  *)
runOpened(p) ==
    /\ req[p].op = "run" /\ req[p].pc \in {"opened", "alreadyOpen"}
    /\ turn' = FALSE /\ Finish(p)
    /\ UNCHANGED <<now, store, receipt, asked, record, died>>

(* The answer uncovered the next question.                                 *)
answerOpened(p) ==
    /\ req[p].op = "answer" /\ at(p, "opened")
    /\ ends' = [ends EXCEPT ![req[p].id] = Append(@, "followed")]
    /\ stored' = stored \cup {cmdOf(p)}
    /\ Finish(p)
    /\ UNCHANGED <<now, store, receipt, turn, asked, accepts, unsure, died>>

answerRejected(p) ==
    /\ req[p].op = "answer" /\ at(p, "alreadyOpen")
    /\ GiveBack(cmdOf(p)) /\ Finish(p)
    /\ UNCHANGED <<now, store, turn, asked, record, died>>

(* The chat route, without a question before it: Sho may ask one.          *)
shoChatTurn(p) ==
    /\ at(p, "sho")
    /\ ("sho" \in Used /\ Goto(p, "ask")) \/ Goto(p, "accept")
    /\ UNCHANGED <<now, store, receipt, turn, asked, record, died>>

(* Sho's question is stored with a settled turn; withdrawn when the accept *)
(* takes no turn.                                                          *)
shoOpened(p) ==
    /\ req[p].op = "chat"
    /\ \/ /\ at(p, "alreadyOpen") /\ Goto(p, "accept")
          /\ UNCHANGED <<receipt, stored, accepts>>
       \/ /\ at(p, "opened") /\ cmdOf(p) \notin accepts /\ ~turn
          /\ accepts' = accepts \cup {cmdOf(p)}
          /\ stored' = stored \cup {cmdOf(p)}
          /\ Finish(p) /\ UNCHANGED receipt
       \/ /\ at(p, "opened") /\ (cmdOf(p) \in accepts \/ turn)
          /\ req' = [req EXCEPT ![p].pc = "drop", ![p].id = req[p].new.id,
                ![p].todo = IF cmdOf(p) \in accepts THEN {} ELSE {"escalate"}]
          /\ UNCHANGED <<receipt, stored, accepts>>
       \/ /\ at(p, "opened")
          /\ req' = [req EXCEPT ![p].pc = "drop", ![p].id = req[p].new.id,
                                ![p].todo = {"command"}] \* the accept threw
          /\ \/ UNCHANGED <<stored, accepts>>
             \/ /\ ~turn
                /\ accepts' = accepts \cup {cmdOf(p)}
                /\ stored' = stored \cup {cmdOf(p)}
          /\ UNCHANGED receipt
    /\ UNCHANGED <<now, store, turn, asked, ends, unsure, died>>

----------------------------------------------------------------------------
(* kit.abandon.                                                            *)

droppable(p) == pause.id = req[p].id /\ pause.status = "open"

claimedNow(p) == pause.id = req[p].id /\ pause.status = "claimed"

(* Where the caller goes on once the question is gone or in flight.        *)
afterDrop(p, inFlight) ==
    LET q == req[p] IN
    IF "escalate" \in q.todo THEN [q EXCEPT !.pc = "accept", !.id = NoQuestion, !.todo = {}]
    ELSE IF "command" \in q.todo \/ (q.op = "decline" /\ inFlight)
    THEN [q EXCEPT !.pc = "giveBack", !.todo = {"command"}]
    ELSE Idle

(* Cancelled, the slot is held while the trace is written.                 *)
holdUntil(r) == IF r.expiresAt <= now + Hold THEN r.expiresAt ELSE now + Hold

dropOpenPause(p) ==
    /\ at(p, "drop")
    /\ IF droppable(p)
       THEN req' = [req EXCEPT ![p].raw = pause, ![p].pc = "cancel",
               ![p].new = [pause EXCEPT !.status = "cancelled",
                                        !.expiresAt = holdUntil(pause)]]
       ELSE req' = [req EXCEPT ![p] = afterDrop(p, claimedNow(p))]
    /\ UNCHANGED <<now, store, receipt, turn, asked, record, died>>

dropCancel(p) ==
    /\ at(p, "cancel")
    /\ \/ /\ put(req[p].raw, req[p].new)
          /\ ends' = [ends EXCEPT ![req[p].id] = Append(@, "cancelled")]
          /\ Goto(p, IF req[p].op = "chat" THEN "delete" ELSE "trace")
       \/ /\ putFails(req[p].raw)
          /\ req[p].tries < 3 \* the retry
          /\ req' = [req EXCEPT ![p].pc = "drop", ![p].tries = 3]
          /\ UNCHANGED ends
       \/ /\ putFails(req[p].raw)
          /\ req[p].tries = 3
          /\ req' = [req EXCEPT ![p] = afterDrop(p, pause.id = req[p].id)]
          /\ UNCHANGED ends
    /\ UNCHANGED <<now, receipt, turn, asked, stored, accepts, unsure, died>>

(* whileHeld: the trace of the rejected card is written, or is not.        *)
writeTrace(p) ==
    /\ at(p, "trace")
    /\ \/ Goto(p, "delete")
       \/ req' = [req EXCEPT ![p].pc = "delete", ![p].todo =
                     IF req[p].op = "decline" THEN {"command"} ELSE {}]
    /\ UNCHANGED <<now, store, receipt, turn, asked, record, died>>

(* finally: DEL if the key still holds what was put there.                 *)
dropDelete(p) ==
    /\ at(p, "delete")
    /\ IF pause = req[p].new THEN pause' = NoPause ELSE UNCHANGED pause
    /\ req' = [req EXCEPT ![p] = afterDrop(p, FALSE)]
    /\ UNCHANGED <<now, keyEnds, receipt, turn, asked, record, died>>

----------------------------------------------------------------------------
(* kit.claim, kit.release and the answer route.                            *)

claimable(p) == pause.id = req[p].id /\ isAnswerable(pause)

(* Read; a refusal (gone, expired, an answer that does not fit) gives the  *)
(* command back.                                                           *)
claim(p) ==
    /\ at(p, "claim")
    /\ \/ /\ claimable(p)
          /\ req' = [req EXCEPT ![p].raw = pause, ![p].pc = "claimPut"]
       \/ req' = [req EXCEPT ![p].pc = "giveBack", ![p].todo = {"command"}]
    /\ UNCHANGED <<now, store, receipt, turn, asked, record, died>>

(* The one atomic point.                                                   *)
claimPut(p) ==
    /\ at(p, "claimPut")
    /\ \/ /\ put(req[p].raw, [req[p].raw EXCEPT !.status = "claimed"])
          /\ req' = [req EXCEPT ![p].pc = "resolve", ![p].raw = NoPause]
       \/ /\ putFails(req[p].raw)
          /\ req' = [req EXCEPT ![p].pc = "giveBack", ![p].todo = {"command"}]
    /\ UNCHANGED <<now, receipt, turn, asked, record, died>>

(* resolveAnswer: the next question, of a kind that exists or does not; an *)
(* error, which gives back claim and command; or a committed action.       *)
resolveAnswer(p) ==
    /\ at(p, "resolve")
    /\ \/ Goto(p, "ask") /\ UNCHANGED ends
       \/ /\ ends' = [ends EXCEPT ![req[p].id] = Append(@, "refused")]
          /\ req' = [req EXCEPT ![p].pc = "giveBack", ![p].todo = {"command"}]
       \/ /\ req' = [req EXCEPT ![p].pc = "giveBack", ![p].todo = {"command", "release"}]
          /\ UNCHANGED ends
       \/ Goto(p, "accept") /\ UNCHANGED ends
    /\ UNCHANGED <<now, store, receipt, turn, asked, stored, accepts, unsure, died>>

(* What an accept that failed without a proof gives back.                  *)
keptOnInternal(op) == IF op = "chat" THEN {"command"} ELSE {}

(* What an accept that stored nothing gives back.                          *)
givenBack(op) == IF op = "chat" THEN {"command"} ELSE {"command", "release"}

AcceptCommits(p) ==
    /\ turn' = TRUE
    /\ accepts' = accepts \cup {cmdOf(p)}
    /\ stored' = stored \cup {cmdOf(p)}
    /\ ends' = IF req[p].op = "answer"
               THEN [ends EXCEPT ![req[p].id] = Append(@, "answered")] ELSE ends

(* The accept of the answer route and of the chat route.                   *)
accept(p) ==
    LET q == req[p]
        next == IF q.op = "chat" /\ q.id # NoQuestion THEN [q EXCEPT !.pc = "drop"] ELSE Idle
        toGiveBack(s) == IF s = {} THEN Idle ELSE [q EXCEPT !.pc = "giveBack", !.todo = s]
    IN
    /\ at(p, "accept")
    /\ \/ /\ cmdOf(p) \in accepts \* replayed
          /\ req' = [req EXCEPT ![p] = next]
          /\ UNCHANGED <<turn, ends, stored, accepts, unsure>>
       \/ /\ cmdOf(p) \notin accepts /\ ~turn \* accepted
          /\ AcceptCommits(p)
          /\ req' = [req EXCEPT ![p] = next]
          /\ UNCHANGED unsure
       \/ /\ cmdOf(p) \notin accepts \* busy, or the rollback is proved
          /\ req' = [req EXCEPT ![p] = toGiveBack(givenBack(q.op))]
          /\ UNCHANGED <<turn, ends, stored, accepts, unsure>>
       \/ /\ cmdOf(p) \notin accepts /\ ~turn \* INTERNAL, committed
          /\ AcceptCommits(p)
          /\ unsure' = unsure \cup {cmdOf(p)}
          /\ req' = [req EXCEPT ![p] = toGiveBack(keptOnInternal(q.op))]
       \/ /\ req' = [req EXCEPT ![p] = toGiveBack(keptOnInternal(q.op))]
          /\ unsure' = unsure \cup {cmdOf(p)} \* INTERNAL, not committed
          /\ UNCHANGED <<turn, ends, stored, accepts>>
    /\ UNCHANGED <<now, store, receipt, asked, died>>

(* Claim and command are given back side by side.                          *)
giveBackCommand(p) ==
    /\ at(p, "giveBack") /\ "command" \in req[p].todo
    /\ GiveBack(cmdOf(p))
    /\ req' = [req EXCEPT ![p].todo = @ \ {"command"}]
    /\ UNCHANGED <<now, store, turn, asked, record, died>>

releaseRead(p) ==
    /\ at(p, "giveBack") /\ "release" \in req[p].todo
    /\ req' = [req EXCEPT ![p].raw = pause, ![p].todo = (@ \ {"release"}) \cup
          (IF claimedNow(p) THEN {"reopen"} ELSE {})]
    /\ UNCHANGED <<now, store, receipt, turn, asked, record, died>>

releasePut(p) ==
    /\ at(p, "giveBack") /\ "reopen" \in req[p].todo
    /\ \/ put(req[p].raw, [req[p].raw EXCEPT !.status = "open"])
       \/ putFails(req[p].raw)
    /\ req' = [req EXCEPT ![p].todo = @ \ {"reopen"}]
    /\ UNCHANGED <<now, receipt, turn, asked, record, died>>

gaveBack(p) ==
    /\ at(p, "giveBack") /\ req[p].todo = {} /\ Finish(p)
    /\ UNCHANGED <<now, store, receipt, turn, asked, record, died>>

----------------------------------------------------------------------------
(* The process dies, or a call nobody catches throws.                      *)
crash(p) ==
    /\ req[p] # Idle /\ died < Crashes
    /\ died' = died + 1
    /\ unsure' = IF cmdOf(p) = NoCommand THEN unsure ELSE unsure \cup {cmdOf(p)}
    /\ Finish(p)
    /\ UNCHANGED <<now, store, receipt, turn, asked, ends, stored, accepts>>

(* Time passes; Redis drops the key when its time has come.                *)
tick ==
    /\ now < MaxTime
    /\ now' = now + 1
    /\ pause' = IF pause # NoPause /\ now + 1 >= keyEnds THEN NoPause ELSE pause
    /\ UNCHANGED <<keyEnds, receipt, turn, req, asked, record, died>>

Next ==
    \/ tick \/ settle
    \/ \E p \in Requests :
         \/ \E c \in Commands :
              \/ \E op \in Used \ {"chat", "sho"} : begin(p, op, c)
              \/ chat(p, c)
         \/ run(p) \/ takeCommand(p) \/ respond(p) \/ appendChatText(p)
         \/ build(p) \/ install(p) \/ installPut(p)
         \/ runOpened(p) \/ answerOpened(p) \/ answerRejected(p)
         \/ shoChatTurn(p) \/ shoOpened(p)
         \/ dropOpenPause(p) \/ dropCancel(p) \/ writeTrace(p) \/ dropDelete(p)
         \/ claim(p) \/ claimPut(p) \/ resolveAnswer(p) \/ accept(p)
         \/ giveBackCommand(p) \/ releaseRead(p) \/ releasePut(p) \/ gaveBack(p)
         \/ crash(p)

Spec == Init /\ [][Next]_vars

----------------------------------------------------------------------------
(* Every variable has its type.                                            *)
TypeOK ==
    /\ now \in 0 .. MaxTime /\ turn \in BOOLEAN
    /\ pause \in Records \cup {NoPause} /\ keyEnds \in Time
    /\ receipt \in [Receipts -> Time]
    /\ asked \in 0 .. MaxQuestions /\ died \in 0 .. Crashes
    /\ {stored, accepts, unsure} \subseteq SUBSET Receipts
    /\ \A q \in Questions : \A i \in DOMAIN ends[q] :
          ends[q][i] \in {"answered", "followed", "refused", "cancelled"}
    /\ \A p \in Requests : {req[p].raw, req[p].new} \subseteq Records \cup {NoPause}

(* A question ends in one way only, whatever the requests, retries, lost   *)
(* processes and failed accepts: answered with a turn, followed by the     *)
(* next question, stopped at a next question of no known kind, or          *)
(* cancelled (claim: "whoever wins this compare-and-set owns the answer"). *)
EndsOnce == \A q \in Questions : Len(ends[q]) <= 1

(* While the trace of a cancelled card is written, no other question takes *)
(* the slot before the hold is over (whileHeld and ABANDON_HOLD_MS).       *)
HeldWhileTraced ==
    \A p \in Requests :
        at(p, "trace") /\ ~isExpired(req[p].new) => pause = req[p].new

(* A command that no request works on stays spent only where something     *)
(* durable was stored under it, or where its attempt did not end knowing   *)
(* ("Every outcome below that stores nothing gives the command back").     *)
SpentIsStored ==
    \A r \in Receipts :
        spent(r) /\ (\A p \in Requests : cmdOf(p) # r)
          => r \in stored \cup unsure

(* A claim is held by a request that answers it, or its question ended, or *)
(* its request did not end knowing: otherwise the card could never be      *)
(* answered again ("Both the claim and the command go back").              *)
ClaimIsOwned ==
    pause.status = "claimed" =>
        \/ ends[pause.id] # <<>>
        \/ \E c \in Commands : <<"answer", c, pause.id>> \in unsure
        \/ \E p \in Requests : req[p].id = pause.id /\ req[p].op = "answer"

============================================================================
