------------------------- MODULE AssistantBudget -------------------------
(***************************************************************************)
(* The Kyiv-day spending ceiling of the staff assistant: two Redis         *)
(* counters (one of the company, one of all companies), one hold record    *)
(* per turn, and the parties that move them.                               *)
(*                                                                         *)
(*   - A request (assistant-budget-guard.ts, assistant-kit-budget.ts)      *)
(*     reserves on both counters, records the reservation under the turn's *)
(*     identity, takes the command's receipt, and hands the hold to an     *)
(*     accept, which may store it on a turn row.                           *)
(*   - Whoever ends the turn row (the worker that ran it, or the recovery  *)
(*     of an interrupted one) gives the hold back when the model was not   *)
(*     reached.                                                            *)
(*                                                                         *)
(* Every Redis call and every Postgres transaction is one action.  One     *)
(* company; a reservation is one unit.  A record is kept as its key alone: *)
(* its two amounts are those the limits fix.  The 48-hour expiry of the    *)
(* keys and a record an older build wrote (decodeHold = null) are left     *)
(* out.                                                                    *)
(***************************************************************************)
EXTENDS Integers, FiniteSets

CONSTANTS
    Caller,         \* HTTP requests; each is used once
    ClientCommand,  \* client command ids
    Conversation,   \* conversations
    ConversationOf, \* the conversation each command is sent to
    Route,          \* the routes requests use: see Routes
    Cap,            \* the two daily limits in turns; 0 turns a limit off
    MaxDay,         \* bound: Kyiv days 1 .. MaxDay
    Overlap,        \* may two requests of one command be in flight together?
    Loss,           \* which losses may happen: see Losses
    MaxLosses       \* bound on the number of store faults and crashes

Counter == {"company", "global"}
Day == 1 .. MaxDay
Kind == {"chat", "answer"}

(* "typed" is a chat message that the open card takes as its answer: it    *)
(* enters through the chat route and is accepted as an answer.             *)
Routes == {"chat", "answer", "continue", "typed"}

(* "refused": a Redis call throws and did nothing; "lost": it did its work *)
(* and the reply was lost; "lostClaim": the same for claimHold; "unknown": *)
(* the accept fails with an error that does not prove a rollback; "crash": *)
(* a process dies.                                                         *)
Losses == {"refused", "lost", "lostClaim", "unknown", "crash"}

BudgetAssumption ==
    /\ IsFiniteSet(Caller) /\ IsFiniteSet(ClientCommand) /\ ClientCommand # {}
    /\ ConversationOf \in [ClientCommand -> Conversation]
    /\ Route \subseteq Routes
    /\ Cap \in [Counter -> Nat]
    /\ MaxDay \in Nat \ {0}
    /\ Overlap \in BOOLEAN
    /\ Loss \subseteq Losses
    /\ MaxLosses \in Nat

VARIABLES
    spent,    \* [Counter -> [Day -> Nat]], the Redis counters
    record,   \* the hold records that exist, as their keys
    taken,    \* the command receipts taken: <<route, command>>
    row,      \* [Turn -> turn row]
    ender,    \* [Turn -> the party that ended the row and gives back]
    caller,   \* [Caller -> the request's own state]
    day,      \* the Kyiv calendar day
    losses    \* how many losses have happened

budgetVars == <<spent, record, taken, row, ender, caller, day, losses>>

----------------------------------------------------------------------------
(* Identities.  The wrapper reserves under the kind of the route that was  *)
(* called; the accept stores the row under the kind of the turn it makes.  *)

Turn == Kind \X ClientCommand
HoldKey == Day \X Kind \X ClientCommand

HoldKind(route) == IF route \in {"chat", "typed"} THEN "chat" ELSE "answer"
RowKind(route)  == IF route = "chat" THEN "chat" ELSE "answer"
ReceiptOf(q) == <<IF q.route = "typed" THEN "answer" ELSE q.route, q.cmd>>
HoldKeyOf(q) == <<q.day, HoldKind(q.route), q.cmd>>
TurnOf(q)    == <<RowKind(q.route), q.cmd>>

Enabled == {k \in Counter : Cap[k] > 0}
Holding == {"queued", "running", "reached"}

NewRequest == [pc |-> "idle", cmd |-> CHOOSE c \in ClientCommand : TRUE,
               route |-> "chat", day |-> 1, took |-> {}, created |-> FALSE,
               then |-> "end", frees |-> FALSE]

BudgetInit ==
    /\ spent = [k \in Counter |-> [d \in Day |-> 0]]
    /\ record = {}
    /\ taken = {}
    /\ row = [t \in Turn |-> [st |-> "none", day |-> 1]]
    /\ ender = [t \in Turn |-> [pc |-> "none", took |-> {}]]
    /\ caller = [r \in Caller |-> NewRequest]
    /\ day = 1
    /\ losses = 0

----------------------------------------------------------------------------
(* The Redis store.                                                        *)

(* AI_BUDGET_TRY_ADD_LUA and AI_BUDGET_ADD_LUA. *)
TryAddAllowed(k, d) == spent[k][d] + 1 <= Cap[k]
TryAdd(k, d) == [spent EXCEPT ![k][d] = @ + 1]

Subtract(k, d) == [spent EXCEPT ![k][d] = IF @ > 0 THEN @ - 1 ELSE 0]

Breaks(f) == f \in Loss /\ losses < MaxLosses /\ losses' = losses + 1

(* The order in which a release or an undo credits the counters. *)
NextCredit(took) == IF "company" \in took THEN "company" ELSE "global"

CallerAt(r, pc) == caller[r].pc = pc

InFlight(r) == caller[r].pc \notin {"idle", "end"}

(* A request that ended is forgotten: only that it ended is kept. *)
Update(r, q) ==
    caller' = [caller EXCEPT ![r] =
                   IF q.pc = "end" THEN [NewRequest EXCEPT !.pc = "end"] ELSE q]

Goto(r, pc) == Update(r, [caller[r] EXCEPT !.pc = pc])

----------------------------------------------------------------------------
(* Admission: enforceStaffAssistantBudget.                                 *)

Begin(r, c, route) ==
    /\ CallerAt(r, "idle")
    /\ Overlap \/ \A o \in Caller : InFlight(o) => caller[o].cmd # c
    /\ Update(r, [NewRequest EXCEPT !.pc = "company", !.cmd = c,
                                    !.route = route, !.day = day])
    /\ UNCHANGED <<spent, record, taken, row, ender, day, losses>>

(* Mutation: what was already reserved is not given back. *)
RefuseWithoutUndo(q) == [q EXCEPT !.pc = "end"]

(* Where a refused reservation goes: subtractHold, then the error. *)
Refuse(q) == [q EXCEPT !.pc = "credit", !.then = "end"]

(* reserveBudgetKey on counter k, then on to pc `next`. *)
Reserve(r, k, next) ==
    LET q == caller[r]  d == q.day IN
    /\ CallerAt(r, k)
    /\ \/ /\ k \notin Enabled
          /\ Goto(r, next)
          /\ UNCHANGED <<spent, losses>>
       \/ /\ k \in Enabled /\ TryAddAllowed(k, d)
          /\ spent' = TryAdd(k, d)
          /\ Update(r, [q EXCEPT !.pc = next, !.took = @ \cup {k}])
          /\ UNCHANGED losses
       \/ /\ k \in Enabled /\ ~TryAddAllowed(k, d)
          /\ Update(r, Refuse(q))
          /\ UNCHANGED <<spent, losses>>
       \/ /\ k \in Enabled /\ Breaks("refused")
          /\ Update(r, Refuse(q))
          /\ UNCHANGED spent
       \/ /\ k \in Enabled /\ TryAddAllowed(k, d) /\ Breaks("lost")
          /\ spent' = TryAdd(k, d)
          /\ Update(r, Refuse(q))
    /\ UNCHANGED <<record, taken, row, ender, day>>

ReserveCompany(r) == Reserve(r, "company", "global")
ReserveGlobal(r) == Reserve(r, "global", "claim")

(* claimHold: the record is written if there is none.  The loser gives its *)
(* own increments back and goes on under the recorded hold.                *)
ClaimHold(r) ==
    LET q == caller[r]  h == HoldKeyOf(q) IN
    /\ CallerAt(r, "claim")
    /\ \/ /\ h \notin record
          /\ record' = record \cup {h}
          /\ Update(r, [q EXCEPT !.pc = "limit", !.took = {},
                                 !.created = TRUE])
          /\ UNCHANGED losses
       \/ /\ h \in record
          /\ Update(r, [q EXCEPT !.pc = "credit", !.then = "limit"])
          /\ UNCHANGED <<record, losses>>
       \/ /\ Breaks("refused")
          /\ Update(r, Refuse(q))
          /\ UNCHANGED record
       \/ /\ Breaks("lostClaim")
          /\ record' = record \cup {h}
          /\ Update(r, Refuse(q))
    /\ UNCHANGED <<spent, taken, row, ender, day>>

(* The per-user turn bucket; the answering routes skip it. *)
TurnLimit(r) ==
    /\ CallerAt(r, "limit")
    /\ \/ Goto(r, "handler")
       \/ /\ HoldKind(caller[r].route) = "chat"
          /\ Goto(r, "release")
    /\ UNCHANGED <<spent, record, taken, row, ender, day, losses>>

----------------------------------------------------------------------------
(* Giving back.                                                            *)

(* What releaseUnusedReservation may give back: a reservation that this    *)
(* request created.                                                        *)
MayRelease(q) == q.created

(* Whether dropping the record entitles the caller to credit the counters. *)
Drops(h) == h \in record

(* releaseUnusedReservation: only if this call deletes the record.         *)
Release(r) ==
    LET q == caller[r]  h == HoldKeyOf(q) IN
    /\ CallerAt(r, "release")
    /\ \/ /\ ~MayRelease(q) \/ ~Drops(h)
          /\ Goto(r, "free")
          /\ UNCHANGED <<record, losses>>
       \/ /\ MayRelease(q) /\ Drops(h)
          /\ record' = record \ {h}
          /\ Update(r, [q EXCEPT !.pc = "credit", !.then = "free",
                                 !.took = Enabled])
          /\ UNCHANGED losses
       \/ /\ MayRelease(q) /\ Breaks("refused")
          /\ Goto(r, "free")
          /\ UNCHANGED record
       \/ /\ MayRelease(q) /\ Breaks("lost")
          /\ record' = record \ {h}
          /\ Goto(r, "free")
    /\ UNCHANGED <<spent, taken, row, ender, day>>

(* What is left to credit after a call that threw: nothing is tried again. *)
AfterFailedCredit(q) == [q EXCEPT !.pc = q.then, !.took = {}]

(* One `add` of subtractHold or of the release: the company's counter      *)
(* first; the first failure ends it and is only logged.                    *)
Credit(r) ==
    LET q == caller[r]  k == NextCredit(q.took) IN
    /\ CallerAt(r, "credit")
    /\ \/ /\ q.took = {}
          /\ Goto(r, q.then)
          /\ UNCHANGED <<spent, losses>>
       \/ /\ q.took # {}
          /\ spent' = Subtract(k, q.day)
          /\ Update(r, [q EXCEPT !.took = @ \ {k}])
          /\ UNCHANGED losses
       \/ /\ q.took # {} /\ Breaks("refused")
          /\ Update(r, AfterFailedCredit(q))
          /\ UNCHANGED spent
       \/ /\ q.took # {} /\ Breaks("lost")
          /\ spent' = Subtract(k, q.day)
          /\ Update(r, AfterFailedCredit(q))
    /\ UNCHANGED <<record, taken, row, ender, day>>

(* commands.release, after the hold was settled. *)
FreeReceipt(r) ==
    LET q == caller[r] IN
    /\ CallerAt(r, "free")
    /\ taken' = IF q.frees THEN taken \ {ReceiptOf(q)} ELSE taken
    /\ Goto(r, "end")
    /\ UNCHANGED <<spent, record, row, ender, day, losses>>

----------------------------------------------------------------------------
(* The handler.                                                            *)

(* A send is also answered from the receipt of the same token's answer. *)
Spent(q) ==
    \/ ReceiptOf(q) \in taken
    \/ q.route = "chat" /\ <<"answer", q.cmd>> \in taken

(* The command was taken before, or the handler answers or throws before   *)
(* it takes it: nothing was handed over, so the wrapper gives back.        *)
AnswerWithoutTaking(r) ==
    /\ CallerAt(r, "handler")
    /\ Goto(r, "release")
    /\ UNCHANGED <<spent, record, taken, row, ender, day, losses>>

TakeCommand(r) ==
    /\ CallerAt(r, "handler") /\ ~Spent(caller[r])
    /\ taken' = taken \cup {ReceiptOf(caller[r])}
    /\ Goto(r, "accept")
    /\ UNCHANGED <<spent, record, row, ender, day, losses>>

(* A refused or replaced card, a failed action, a throw before the accept: *)
(* the command goes back or stays spent, and the wrapper gives back.       *)
StopBeforeAccept(r) ==
    /\ CallerAt(r, "accept")
    /\ \/ taken' = taken \ {ReceiptOf(caller[r])}
       \/ UNCHANGED taken
    /\ Goto(r, "release")
    /\ UNCHANGED <<spent, record, row, ender, day, losses>>

BusyFor(t) ==
    \E o \in Turn : /\ o # t
                    /\ row[o].st \in Holding
                    /\ ConversationOf[o[2]] = ConversationOf[t[2]]

Acceptable(t) == row[t].st = "none" /\ ~BusyFor(t)

StoreTurn(t, st, d) == row' = [row EXCEPT ![t] = [st |-> st, day |-> d]]

(* A send the Sho engine settled: the row is stored done with an empty     *)
(* hold, the budget ticket is never handed over.                           *)
SettleBySho(r) ==
    LET q == caller[r]  t == TurnOf(q) IN
    /\ CallerAt(r, "accept") /\ q.route = "chat"
    /\ \/ Acceptable(t) /\ StoreTurn(t, "settled", q.day)
       \/ row[t].st # "none" /\ UNCHANGED row
    /\ Goto(r, "release")
    /\ UNCHANGED <<spent, record, taken, ender, day, losses>>

(* accept: the turn row takes the hold. *)
Accepted(r) ==
    LET q == caller[r]  t == TurnOf(q) IN
    /\ CallerAt(r, "accept")
    /\ Acceptable(t)
    /\ StoreTurn(t, "queued", q.day)
    /\ Goto(r, "end")
    /\ UNCHANGED <<spent, record, taken, ender, day, losses>>

(* Replayed keeps the receipt; busy, wrong owner and a refusal that proves *)
(* a rollback give it back.  All of them release.                          *)
NotStored(r) ==
    LET q == caller[r]  t == TurnOf(q) IN
    /\ CallerAt(r, "accept")
    /\ \/ /\ row[t].st # "none"
          /\ Update(r, [q EXCEPT !.pc = "release"])
       \/ Update(r, [q EXCEPT !.pc = "release", !.frees = TRUE])
    /\ UNCHANGED <<spent, record, taken, row, ender, day, losses>>

(* An error that may have come after COMMIT: nothing is released.  Chat    *)
(* and continue give the command back, an answer keeps it.                 *)
AcceptUnknown(r) ==
    LET q == caller[r]  t == TurnOf(q) IN
    /\ CallerAt(r, "accept") /\ Breaks("unknown")
    /\ \/ UNCHANGED row
       \/ Acceptable(t) /\ StoreTurn(t, "queued", q.day)
    /\ Update(r, [q EXCEPT !.pc = "free",
                           !.frees = q.route \in {"chat", "continue"}])
    /\ UNCHANGED <<spent, record, taken, ender, day>>

----------------------------------------------------------------------------
(* The turn, as far as its hold is concerned.                              *)

SetTurn(t, st) == row' = [row EXCEPT ![t].st = st]

StartTurn(t) ==
    /\ row[t].st = "queued"
    /\ SetTurn(t, "running")
    /\ UNCHANGED <<spent, record, taken, ender, caller, day, losses>>

ReachModel(t) ==
    /\ row[t].st = "running"
    /\ SetTurn(t, "reached")
    /\ UNCHANGED <<spent, record, taken, ender, caller, day, losses>>

(* finishTurn by the worker, interruptTurn by the exhausted job or the     *)
(* sweep: the hold comes off the row.  The worker releases it when the     *)
(* model was not reached, recovery when the turn never started.            *)
EndTurn(t) ==
    /\ row[t].st \in Holding
    /\ \/ /\ row[t].st \in {"queued", "running"}
          /\ SetTurn(t, "ended")
          /\ ender' = [ender EXCEPT ![t].pc = "release"]
       \/ /\ row[t].st \in {"running", "reached"}
          /\ SetTurn(t, "charged")
          /\ UNCHANGED ender
    /\ UNCHANGED <<spent, record, taken, caller, day, losses>>

(* releaseStaffAssistantBudgetHold by the party that ended the row, found  *)
(* by the row's own identity.                                              *)
EnderRelease(t) ==
    LET h == <<row[t].day, t[1], t[2]>> IN
    /\ ender[t].pc = "release"
    /\ \/ /\ Drops(h)
          /\ record' = record \ {h}
          /\ ender' = [ender EXCEPT ![t] = [pc |-> "credit", took |-> Enabled]]
          /\ UNCHANGED losses
       \/ /\ ~Drops(h)
          /\ ender' = [ender EXCEPT ![t].pc = "end"]
          /\ UNCHANGED <<record, losses>>
       \/ /\ Breaks("refused")
          /\ ender' = [ender EXCEPT ![t].pc = "end"]
          /\ UNCHANGED record
       \/ /\ Breaks("lost")
          /\ record' = record \ {h}
          /\ ender' = [ender EXCEPT ![t].pc = "end"]
    /\ UNCHANGED <<spent, taken, row, caller, day>>

EnderCredit(t) ==
    LET took == ender[t].took  k == NextCredit(took) IN
    /\ ender[t].pc = "credit"
    /\ \/ /\ took = {}
          /\ ender' = [ender EXCEPT ![t].pc = "end"]
          /\ UNCHANGED <<spent, losses>>
       \/ /\ took # {}
          /\ spent' = Subtract(k, row[t].day)
          /\ ender' = [ender EXCEPT ![t].took = @ \ {k}]
          /\ UNCHANGED losses
       \/ /\ took # {} /\ Breaks("refused")
          /\ ender' = [ender EXCEPT ![t] = [pc |-> "end", took |-> {}]]
          /\ UNCHANGED spent
    /\ UNCHANGED <<record, taken, row, caller, day>>

----------------------------------------------------------------------------
(* The environment.                                                        *)

CrashRequest(r) ==
    /\ InFlight(r) /\ Breaks("crash")
    /\ Update(r, [caller[r] EXCEPT !.pc = "end", !.took = {}])
    /\ UNCHANGED <<spent, record, taken, row, ender, day>>

CrashEnder(t) ==
    /\ ender[t].pc \in {"release", "credit"} /\ Breaks("crash")
    /\ ender' = [ender EXCEPT ![t] = [pc |-> "end", took |-> {}]]
    /\ UNCHANGED <<spent, record, taken, row, caller, day>>

(* A receipt lives fifteen minutes, longer than any request. *)
ExpireReceipt(x) ==
    /\ x \in taken
    /\ \A r \in Caller : InFlight(r) => ReceiptOf(caller[r]) # x
    /\ taken' = taken \ {x}
    /\ UNCHANGED <<spent, record, row, ender, caller, day, losses>>

Midnight ==
    /\ day < MaxDay
    /\ day' = day + 1
    /\ UNCHANGED <<spent, record, taken, row, ender, caller, losses>>

CallerStep(r) ==
    \/ \E c \in ClientCommand, route \in Route : Begin(r, c, route)
    \/ ReserveCompany(r) \/ ReserveGlobal(r) \/ ClaimHold(r) \/ TurnLimit(r)
    \/ Release(r) \/ Credit(r) \/ FreeReceipt(r)
    \/ AnswerWithoutTaking(r) \/ TakeCommand(r) \/ StopBeforeAccept(r)
    \/ SettleBySho(r) \/ Accepted(r) \/ NotStored(r) \/ AcceptUnknown(r)
    \/ CrashRequest(r)

HoldStep(t) ==
    \/ StartTurn(t) \/ ReachModel(t) \/ EndTurn(t)
    \/ EnderRelease(t) \/ EnderCredit(t) \/ CrashEnder(t)

BudgetNext ==
    \/ \E r \in Caller : CallerStep(r)
    \/ \E t \in Turn : HoldStep(t)
    \/ \E x \in taken : ExpireReceipt(x)
    \/ Midnight

BudgetSpec == BudgetInit /\ [][BudgetNext]_budgetVars

----------------------------------------------------------------------------
(* Properties.                                                             *)

PC == {"idle", "company", "global", "claim", "limit", "handler", "accept",
       "release", "credit", "free", "end"}

BudgetTypeOK ==
    /\ spent \in [Counter -> [Day -> Nat]]
    /\ record \subseteq HoldKey
    /\ taken \subseteq ({"chat", "answer", "continue"} \X ClientCommand)
    /\ row \in [Turn -> [st : Holding \cup {"none", "settled", "ended", "charged"},
                         day : Day]]
    /\ ender \in [Turn -> [pc : {"none", "release", "credit", "end"},
                           took : SUBSET Counter]]
    /\ caller \in [Caller -> [pc : PC, cmd : ClientCommand, route : Routes, day : Day,
                            took : SUBSET Counter, created : BOOLEAN,
                            then : {"end", "limit", "free"},
                            frees : BOOLEAN]]
    /\ day \in Day
    /\ losses \in 0 .. MaxLosses

(* The reservations that stand on counter k for day d: recorded ones, ones *)
(* a request holds before it records them, and ones on their way back.     *)
Recorded(d) == {h \in record : h[1] = d}
Held(k, d) == {r \in Caller : k \in caller[r].took /\ caller[r].day = d}
Returning(k, d) == {t \in Turn : k \in ender[t].took /\ row[t].day = d}
Standing(k, d) ==
    Cardinality(Recorded(d)) + Cardinality(Held(k, d)) + Cardinality(Returning(k, d))

(* With no store fault and no crash, each enabled counter is at every      *)
(* moment exactly the reservations that stand: nothing is credited twice   *)
(* however many requests and enders race, and nothing is stranded outside  *)
(* a record, of which a turn has at most one (assistant-turn-store.ts,     *)
(* "At most one turn's hold is stranded per command").                     *)
CountersMatchRecords ==
    Loss \subseteq {"unknown"} =>
        \A k \in Enabled, d \in Day : spent[k][d] = Standing(k, d)

(* Whatever call is refused, loses its reply or dies with its process, the *)
(* counters do not fall below what stands: failures reach the cap early    *)
(* and do not lift it.  Only a lost reply of claimHold, which undoes       *)
(* increments whose record stands, costs the counters a turn, one turn for *)
(* each, however the request is retried.                                   *)
FailuresOnlyOvercharge ==
    \A k \in Enabled, d \in Day :
        spent[k][d] + (IF "lostClaim" \in Loss THEN losses ELSE 0) >= Standing(k, d)

(* The turns whose cost must be on the counters: those that hold their     *)
(* reservation on the row, and those that ended with the model reached.    *)
Owing(d) == {t \in Turn : row[t].st \in Holding \cup {"charged"}
                          /\ row[t].day = d}

(* A text typed into the box answers a card under another kind than its    *)
(* hold was taken under: the row and the record then name different holds. *)
SameKind == "typed" \notin Route

(* The day's counters never fall below the turns that run or ran on them,  *)
(* so the cap is never lifted (budget-guard, "would put the counter below  *)
(* real spend and lift the day's cap"), where one request of a command is  *)
(* in flight at a time and no reply of claimHold is lost.                  *)
NeverUndercharged ==
    ~Overlap /\ SameKind /\ "lostClaim" \notin Loss =>
        \A k \in Enabled, d \in Day : spent[k][d] >= Cardinality(Owing(d))

AtRest ==
    /\ \A r \in Caller : ~InFlight(r)
    /\ \A t \in Turn : ender[t].pc \notin {"release", "credit"}

(* With no fault and no unknown accept error, once nobody is in flight     *)
(* every recorded hold belongs to the turn row of the same identity, and   *)
(* that row still owes it: the row and the record "cannot name different   *)
(* holds" (stores/budget.ts).                                              *)
RecordsHaveTheirTurn ==
    Loss = {} /\ SameKind /\ AtRest =>
        \A h \in record : <<h[2], h[3]>> \in Owing(h[1])

(* What holds of a day's budget at every moment: its counters and records  *)
(* match the turns that stand on them, exactly without faults and from     *)
(* above with them.                                                        *)
BudgetSound ==
    /\ BudgetTypeOK
    /\ CountersMatchRecords /\ FailuresOnlyOvercharge
    /\ NeverUndercharged /\ RecordsHaveTheirTurn

============================================================================
