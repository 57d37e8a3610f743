---------------------------- MODULE ActionSubmit ----------------------------
(***************************************************************************)
(* Submission of an idempotent action through the action pipeline: the     *)
(* idempotency_keys table, the single-use confirmation challenges in       *)
(* Redis, and steps 5 to 10 of executeAction for callers that submit under *)
(* the same keys concurrently, are superseded, fail, crash and retry.      *)
(*                                                                         *)
(* A step is one statement or transaction (PostgreSQL) or one command      *)
(* (Redis).  Deadlines are kept as flags that time may clear at any        *)
(* moment, so no clock of one process is compared with another's.          *)
(***************************************************************************)
EXTENDS Integers, FiniteSets

CONSTANTS
    Callers,      \* invocations of executeAction, each retried by its client
    Keys,         \* (principal key, scope key, action, idempotency key)
    Payloads,     \* validated inputs: equal exactly when their hashes are
    Requests,     \* Callers -> what its client may submit: <<key, payload>>
    Shares,       \* Callers -> the callers whose challenge it may present
    Modes,        \* how this action's requests are gated: see GateModes
    Attempts,     \* values of randomUUID() for attempt ids
    Challenges,   \* values of randomUUID() for challenge ids
    BindsPreview, \* the action binds a preview: challenges carry previewHash
    NoAttempt, NoChallenge, NoPayload, Unissued, NoAnswer, Refused,
    MaxWindows,   \* bound: retention windows of one key
    MaxFaults     \* bound: crashes, errors, stalls and expiries

(* plain    no confirmation required                                       *)
(* confirm  contract.requiresConfirmation or request.requireConfirmation   *)
(* only     request.confirmationOnly                                       *)
GateModes == {"plain", "confirm", "only"}

ASSUME SubmitAssumption ==
    /\ Requests \in [Callers -> SUBSET (Keys \X Payloads)]
    /\ Shares \in [Callers -> SUBSET Callers]
    /\ Modes \subseteq GateModes
    /\ BindsPreview \in BOOLEAN
    /\ MaxWindows \in Nat
    /\ MaxFaults \in Nat

ASSUME FreshAssumption ==
    /\ NoAttempt \notin Attempts
    /\ NoChallenge \notin Challenges
    /\ NoPayload \notin Payloads
    /\ Unissued \notin Keys \X Payloads

Windows == 0 .. MaxWindows

(* A committed run of the handler, and the response snapshot it stores.    *)
Effect(attempt, payload, grant, gated) ==
    [attempt |-> attempt, payload |-> payload, grant |-> grant, gated |-> gated]

Effects == [attempt : Attempts, payload : Payloads,
            grant : Challenges \cup {NoChallenge}, gated : BOOLEAN]

ASSUME AnswerAssumption ==
    /\ NoAnswer \notin Effects /\ Refused \notin Effects
    /\ NoAnswer # Refused

-----------------------------------------------------------------------------
VARIABLES
    row,       \* idempotency_keys by key
    store,     \* challenge ids that have a record in Redis
    binding,   \* what each issued challenge was bound to: <<key, payload>>
    live,      \* issued challenges whose expiresAt has not passed
    pc,        \* where executeAction is for each caller
    req,       \* its request: key, payload, mode, challenge presented
    grant,     \* the confirmation grant it carries (by challenge id)
    att,       \* its attempt id; the observed one while it takes over
    answer,    \* the outcome its client was given: a result, or refused
    offer,     \* the challenge its client was last shown
    window,    \* history: retention windows opened for a key
    win,       \* history: the window of the caller's reservation
    effects,   \* history: committed handler runs by key and window
    faults     \* faults so far

rowVars == <<row, window>>
tokenVars == <<store, binding, live, offer>>
callVars == <<pc, req, grant, att, win, answer>>
vars == <<row, store, binding, live, pc, req, grant, att, answer, offer,
          window, win, effects, faults>>

(* One idempotency_keys row.  leased: lease_expires_at is in the future.   *)
(* retention: expires_at is far off ("new"), in the future ("old") or has  *)
(* passed ("over").  The grant is the confirmation_* columns.              *)
Row(status, attempt, hash, leased, retention, granted, response) ==
    [status |-> status, attempt |-> attempt, hash |-> hash, leased |-> leased,
     retention |-> retention, grant |-> granted, response |-> response]

Absent == Row("absent", NoAttempt, NoPayload, FALSE, "over", NoChallenge, NoAnswer)

Statuses == {"absent", "in_progress", "completed", "failed"}

(*   probe, gate, preview, issue      step 5, the confirmation gate        *)
(*   insert, read, reinsert, reread   step 6, the two rounds of reserve    *)
(*   takeover, reuse                  the conditional takeover of a row    *)
(*                                    inside, and past, its retention      *)
(*   lost                             the takeover matched no row          *)
(*   running                          the execution transaction is open    *)
(*   committing                       finalize done, row locked, COMMIT    *)
(*   failing                          rolled back, markFailed is next      *)
Phases == {"idle", "probe", "gate", "preview", "issue", "insert", "read",
           "reinsert", "reread", "takeover", "reuse", "lost", "running",
           "committing", "failing"}

RowType == [status : Statuses, attempt : Attempts \cup {NoAttempt},
            hash : Payloads \cup {NoPayload}, leased : BOOLEAN,
            retention : {"new", "old", "over"}, grant : Challenges \cup {NoChallenge},
            response : Effects \cup {NoAnswer}]

Request(key, payload, mode, challenge) ==
    [key |-> key, payload |-> payload, mode |-> mode, challenge |-> challenge]

RequestType == [key : Keys, payload : Payloads, mode : GateModes,
                challenge : Challenges \cup {NoChallenge}]

TypeOK ==
    /\ row \in [Keys -> RowType]
    /\ store \subseteq Challenges
    /\ binding \in [Challenges -> (Keys \X Payloads) \cup {Unissued}]
    /\ live \subseteq Challenges
    /\ pc \in [Callers -> Phases]
    /\ req \in [Callers -> RequestType]
    /\ grant \in [Callers -> Challenges \cup {NoChallenge}]
    /\ att \in [Callers -> Attempts \cup {NoAttempt}]
    /\ answer \in [Callers -> Effects \cup {NoAnswer, Refused}]
    /\ offer \in [Callers -> Challenges \cup {NoChallenge}]
    /\ window \in [Keys -> Windows]
    /\ win \in [Callers -> Windows]
    /\ effects \in [Keys -> [Windows -> SUBSET Effects]]
    /\ faults \in Nat

Init ==
    /\ row = [k \in Keys |-> Absent]
    /\ store = {} /\ live = {}
    /\ binding = [x \in Challenges |-> Unissued]
    /\ pc = [c \in Callers |-> "idle"]
    /\ req \in [Callers -> {Request(k, p, "plain", NoChallenge) :
                               k \in Keys, p \in Payloads}]
    /\ grant = [c \in Callers |-> NoChallenge]
    /\ att = [c \in Callers |-> NoAttempt]
    /\ answer = [c \in Callers |-> NoAnswer]
    /\ offer = [c \in Callers |-> NoChallenge]
    /\ window = [k \in Keys |-> 0]
    /\ win = [c \in Callers |-> 0]
    /\ effects = [k \in Keys |-> [w \in Windows |-> {}]]
    /\ faults = 0

-----------------------------------------------------------------------------
(* The bookkeeping every step shares.                                      *)

Key(c) == req[c].key
Payload(c) == req[c].payload

Goto(c, phase) == pc' = [pc EXCEPT ![c] = phase]

(* executeAction returns or throws: the client is told a result, is        *)
(* refused, or (NoAnswer) may submit again.                                *)
Ends(c, told) ==
    /\ Goto(c, "idle")
    /\ answer' = [answer EXCEPT ![c] = told]
    /\ grant' = [grant EXCEPT ![c] = NoChallenge]
    /\ att' = [att EXCEPT ![c] = NoAttempt]
    /\ win' = [win EXCEPT ![c] = 0]
    /\ UNCHANGED req

Fault == faults < MaxFaults /\ faults' = faults + 1

(* Ids still held somewhere, and the next value of randomUUID().           *)
AttemptsInUse ==
    {row[k].attempt : k \in Keys} \cup {att[c] : c \in Callers}
        \cup UNION {{e.attempt : e \in effects[k][w]} : k \in Keys, w \in Windows}

NewAttempt == CHOOSE a \in Attempts : a \notin AttemptsInUse

NewChallenge == CHOOSE x \in Challenges : binding[x] = Unissued

(* The client submits, or submits again, with the challenge it or another  *)
(* of its windows was shown: a double click presents one challenge twice.  *)
Submit(c) ==
    /\ pc[c] = "idle"
    /\ \E r \in Requests[c], mode \in Modes, d \in Shares[c] :
          /\ req' = [req EXCEPT ![c] = Request(r[1], r[2], mode, offer[d])]
          /\ Goto(c, IF mode = "plain" THEN "insert" ELSE "probe")
    /\ answer' = [answer EXCEPT ![c] = NoAnswer]
    /\ UNCHANGED <<rowVars, tokenVars, grant, att, win, effects, faults>>

-----------------------------------------------------------------------------
(* Step 5: the replay probe and the confirmation gate.                     *)

Retained(r) == r.retention # "over"

Expired(r) == r.status # "absent" /\ ~Retained(r)

(* Mutation: only a completed row refuses another input.                   *)
ConflictingCompleted(r, c) == r.status = "completed" /\ r.hash # Payload(c)

Conflicting(r, c) == r.status # "absent" /\ r.hash # Payload(c)

(* Mutation: an expired lease still keeps retries away.                    *)
BusyForever(r) == r.status = "in_progress"

Busy(r) == r.status = "in_progress" /\ r.leased

(* unexpiredGrant of the row, which a confirmation-only request ignores.   *)
Resumable(r, c) == r.grant \in live /\ req[c].mode # "only"

probe(c) ==
    LET r == row[Key(c)] IN
    /\ pc[c] = "probe"
    /\ \/ /\ r.status = "absent" \/ Expired(r)
          /\ Goto(c, "gate")
          /\ UNCHANGED <<req, grant, att, win, answer>>
       \/ /\ Retained(r) /\ Conflicting(r, c)
          /\ Ends(c, Refused)
       \/ /\ Retained(r) /\ ~Conflicting(r, c)
          /\ \/ r.status = "completed" /\ Ends(c, r.response)
             \/ Busy(r) /\ Ends(c, NoAnswer)
             \/ /\ r.status # "completed" /\ ~Busy(r)
                /\ Goto(c, IF Resumable(r, c) THEN "insert" ELSE "gate")
                /\ grant' = [grant EXCEPT ![c] =
                               IF Resumable(r, c) THEN r.grant ELSE NoChallenge]
                /\ UNCHANGED <<req, att, win, answer>>
    /\ UNCHANGED <<rowVars, tokenVars, effects, faults>>

(* Mutation: the challenge record has no inputHash.                        *)
BindingsNoInput(c) == <<Key(c)>>

(* Principal, company, action and idempotency key are in the key.          *)
Bindings(c) == <<Key(c), Payload(c)>>

(* Mutation: a challenge for another input is accepted.                   *)
RedeemsAnyInput(c, x) == x \in store /\ x \in live /\ binding[x][1] = Key(c)

(* The stored record of the presented challenge, taken by GETDEL, is       *)
(* unexpired and bound to this key and input.                              *)
Redeems(c, x) ==
    /\ x \in store
    /\ x \in live
    /\ binding[x] = Bindings(c)

(* Mutation: GET instead of GETDEL.                                        *)
getAndKeep(x) == UNCHANGED store

getAndDelete(x) == store' = store \ {x}

gate(c) ==
    LET x == req[c].challenge IN
    /\ pc[c] = "gate"
    /\ IF req[c].mode = "only" \/ x = NoChallenge
       THEN Goto(c, "issue") /\ UNCHANGED <<store, grant>>
       ELSE /\ getAndDelete(x)
            /\ Goto(c, IF ~Redeems(c, x) THEN "issue"
                       ELSE IF BindsPreview THEN "preview" ELSE "insert")
            /\ grant' = [grant EXCEPT ![c] =
                           IF Redeems(c, x) THEN x ELSE NoChallenge]
    /\ UNCHANGED <<rowVars, binding, live, offer, req, att, win, answer,
                   effects, faults>>

(* The card is built again: the same card executes, another one is shown.  *)
repreview(c) ==
    /\ pc[c] = "preview"
    /\ \/ Goto(c, "insert") /\ UNCHANGED <<grant, faults>>
       \/ /\ Fault
          /\ Goto(c, "issue")
          /\ grant' = [grant EXCEPT ![c] = NoChallenge]
    /\ UNCHANGED <<rowVars, tokenVars, req, att, win, answer, effects>>

(* Out of challenge ids the bounded store rejects the write, and the gate  *)
(* fails closed.                                                           *)
issueChallenge(c) ==
    LET x == NewChallenge IN
    /\ pc[c] = "issue"
    /\ \/ /\ \E y \in Challenges : binding[y] = Unissued
          /\ store' = store \cup {x}
          /\ live' = live \cup {x}
          /\ binding' = [binding EXCEPT ![x] = Bindings(c)]
          /\ offer' = [offer EXCEPT ![c] = x]
       \/ /\ \A y \in Challenges : binding[y] # Unissued
          /\ UNCHANGED tokenVars
    /\ Ends(c, NoAnswer)
    /\ UNCHANGED <<rowVars, effects, faults>>

-----------------------------------------------------------------------------
(* Step 6: reserve.  INSERT ... ON CONFLICT DO NOTHING and the SELECT wait  *)
(* for nobody; the takeover UPDATE waits for a finalized transaction.      *)

RowLocked(k) == \E d \in Callers : pc[d] = "committing" /\ Key(d) = k

(* The attempt joins window w of the key, and opens it if it is new.       *)
Reserves(c, a, k, w) ==
    /\ a \in Attempts \ AttemptsInUse
    /\ att' = [att EXCEPT ![c] = a]
    /\ win' = [win EXCEPT ![c] = w]
    /\ window' = [window EXCEPT ![k] = w]
    /\ Goto(c, "running")
    /\ UNCHANGED <<req, grant, answer>>

reserveInsert(c) ==
    LET k == Key(c)  a == NewAttempt IN
    /\ pc[c] \in {"insert", "reinsert"}
    /\ \/ /\ row[k].status = "absent"
          /\ window[k] < MaxWindows
          /\ row' = [row EXCEPT ![k] = Row("in_progress", a, Payload(c), TRUE,
                                           "new", grant[c], NoAnswer)]
          /\ Reserves(c, a, k, window[k] + 1)
       \/ /\ row[k].status # "absent"
          /\ Goto(c, IF pc[c] = "insert" THEN "read" ELSE "reread")
          /\ UNCHANGED <<rowVars, req, grant, att, win, answer>>
    /\ UNCHANGED <<tokenVars, effects, faults>>

(* What the SELECT after a conflict decides.                               *)
reserveRead(c) ==
    LET r == row[Key(c)] IN
    /\ pc[c] \in {"read", "reread"}
    /\ \/ /\ r.status = "absent"
          /\ IF pc[c] = "read"
             THEN Goto(c, "reinsert") /\ UNCHANGED <<req, grant, att, win, answer>>
             ELSE Ends(c, NoAnswer)
       \/ /\ Retained(r) /\ Conflicting(r, c)
          /\ Ends(c, Refused)
       \/ /\ Retained(r) /\ ~Conflicting(r, c)
          /\ \/ r.status = "completed" /\ Ends(c, r.response)
             \/ Busy(r) /\ Ends(c, NoAnswer)
       \/ /\ \/ Expired(r)
             \/ Retained(r) /\ ~Conflicting(r, c) /\ r.status # "completed" /\ ~Busy(r)
          /\ att' = [att EXCEPT ![c] = r.attempt]
          /\ Goto(c, IF Expired(r) THEN "reuse" ELSE "takeover")
          /\ UNCHANGED <<req, grant, win, answer>>
    /\ UNCHANGED <<rowVars, tokenVars, effects, faults>>

(* Mutation: the takeover is fenced on the attempt id alone.               *)
ReclaimableAlways(r, c) == TRUE

(* reclaimableWhere, for the row of the observed attempt: that attempt's   *)
(* lease and retention are the ones that were read.                        *)
Reclaimable(r, c) ==
    \/ pc[c] = "reuse"
    \/ r.status = "failed"
    \/ r.status = "in_progress" /\ ~r.leased

(* The columns a takeover writes; `reset` opens a new retention window.    *)
TakenOver(r, c, a) ==
    LET kept == IF pc[c] = "reuse" THEN NoChallenge ELSE r.grant IN
    Row("in_progress", a,
        IF pc[c] = "reuse" THEN Payload(c) ELSE r.hash, TRUE,
        IF pc[c] = "reuse" THEN "new" ELSE r.retention,
        IF grant[c] = NoChallenge THEN kept ELSE grant[c], NoAnswer)

takeover(c) ==
    LET k == Key(c)  r == row[k]  a == NewAttempt
        w == IF pc[c] = "reuse" THEN window[k] + 1 ELSE window[k] IN
    /\ pc[c] \in {"takeover", "reuse"}
    /\ \/ /\ r.attempt = att[c] /\ Reclaimable(r, c)
          /\ ~RowLocked(k)
          /\ w <= MaxWindows
          /\ row' = [row EXCEPT ![k] = TakenOver(r, c, a)]
          /\ Reserves(c, a, k, w)
       \/ /\ ~(r.attempt = att[c] /\ Reclaimable(r, c))
          /\ Goto(c, "lost")
          /\ UNCHANGED <<rowVars, req, grant, att, win, answer>>
    /\ UNCHANGED <<tokenVars, effects, faults>>

(* Mutation: the answer comes from the observed row, not from a reload.    *)
resolveFromSnapshot(c) ==
    LET seen == {e \in UNION {effects[Key(c)][w] : w \in Windows} :
                    e.attempt = att[c] /\ e.payload = Payload(c)} IN
    /\ pc[c] = "lost"
    /\ Ends(c, IF seen = {} THEN NoAnswer ELSE CHOOSE e \in seen : TRUE)
    /\ UNCHANGED <<rowVars, tokenVars, effects, faults>>

(* The reload after a lost takeover does not look at the retention.        *)
resolveLostTakeover(c) ==
    LET r == row[Key(c)] IN
    /\ pc[c] = "lost"
    /\ \/ Conflicting(r, c) /\ Ends(c, Refused)
       \/ /\ ~Conflicting(r, c)
          /\ Ends(c, IF r.status = "completed" THEN r.response ELSE NoAnswer)
    /\ UNCHANGED <<rowVars, tokenVars, effects, faults>>

-----------------------------------------------------------------------------
(* Steps 7 to 10: the execution transaction and the failure path.          *)

(* Mutation: finalize is not fenced on the attempt id.                     *)
OwnsAnyAttempt(c) == row[Key(c)].status = "in_progress"

Owns(c) == row[Key(c)].attempt = att[c] /\ row[Key(c)].status = "in_progress"

(* The handler, its deadline, the output check or a flush throws.          *)
executeThrows(c) ==
    /\ pc[c] = "running"
    /\ Fault
    /\ Goto(c, "failing")
    /\ UNCHANGED <<rowVars, tokenVars, req, grant, att, win, answer, effects>>

(* The fenced UPDATE of finalize; a superseded attempt rolls back.         *)
finalize(c) ==
    /\ pc[c] = "running"
    /\ Goto(c, IF Owns(c) THEN "committing" ELSE "failing")
    /\ UNCHANGED <<rowVars, tokenVars, req, grant, att, win, answer, effects, faults>>

Gated(c) == req[c].mode # "plain"

(* COMMIT publishes the handler's effects and the completed row together.  *)
Commits(c) ==
    LET k == Key(c)  r == row[k]
        e == Effect(att[c], Payload(c), grant[c], Gated(c)) IN
    /\ effects' = [effects EXCEPT ![k] =
                     [effects[k] EXCEPT ![win[c]] = effects[k][win[c]] \cup {e}]]
    /\ row' = [row EXCEPT ![k] = Row("completed", r.attempt, r.hash, r.leased,
                                     r.retention, r.grant, e)]

commit(c) ==
    /\ pc[c] = "committing"
    /\ Commits(c)
    /\ Ends(c, Effect(att[c], Payload(c), grant[c], Gated(c)))
    /\ UNCHANGED <<window, tokenVars, faults>>

(* COMMIT fails, or succeeds and its acknowledgement is lost.              *)
commitThrows(c) ==
    /\ pc[c] = "committing"
    /\ Fault
    /\ Commits(c) \/ UNCHANGED <<row, effects>>
    /\ Goto(c, "failing")
    /\ UNCHANGED <<window, tokenVars, req, grant, att, win, answer>>

markFailed(c) ==
    LET k == Key(c)  r == row[k] IN
    /\ pc[c] = "failing"
    /\ IF Owns(c)
       THEN row' = [row EXCEPT ![k] = Row("failed", r.attempt, r.hash, r.leased,
                                         r.retention, r.grant, r.response)]
       ELSE UNCHANGED row
    /\ Ends(c, NoAnswer)
    /\ UNCHANGED <<window, tokenVars, effects, faults>>

(* The process dies (an open transaction rolls back), an error ends the    *)
(* request before it reserved anything, or markFailed itself fails.        *)
abandon(c) ==
    /\ pc[c] # "idle"
    /\ Fault
    /\ Ends(c, NoAnswer)
    /\ UNCHANGED <<rowVars, tokenVars, effects>>

-----------------------------------------------------------------------------
(* Time, and the worker's retention job.                                   *)

Holder(k) == \E c \in Callers : /\ pc[c] \in {"running", "committing", "failing"}
                                /\ att[c] = row[k].attempt

(* The lease outlasts the action timeout, so it runs out under a live      *)
(* attempt only when that attempt is stalled: a fault.                     *)
leaseExpires(k) ==
    LET r == row[k] IN
    /\ r.leased
    /\ IF Holder(k) THEN Fault ELSE UNCHANGED faults
    /\ row' = [row EXCEPT ![k] = Row(r.status, r.attempt, r.hash, FALSE,
                                     r.retention, r.grant, r.response)]
    /\ UNCHANGED <<window, tokenVars, callVars, effects>>

(* Most of the 48 hours pass.  They hold a moment without a request on the *)
(* key, and outlast the five minutes of any challenge issued before it.    *)
retentionAges(k) ==
    LET r == row[k] IN
    /\ r.retention = "new"
    /\ \A c \in Callers : pc[c] # "idle" => Key(c) # k
    /\ window[k] < MaxWindows
    /\ row' = [row EXCEPT ![k] = Row(r.status, r.attempt, r.hash, FALSE,
                                     "old", r.grant, r.response)]
    /\ live' = {x \in live : binding[x][1] # k}
    /\ UNCHANGED <<window, store, binding, offer, callVars, effects, faults>>

retentionExpires(k) ==
    LET r == row[k] IN
    /\ r.retention = "old"
    /\ row' = [row EXCEPT ![k] = Row(r.status, r.attempt, r.hash, r.leased,
                                     "over", r.grant, r.response)]
    /\ UNCHANGED <<window, tokenVars, callVars, effects, faults>>

challengeExpires(x) ==
    /\ x \in live
    /\ Fault
    /\ live' = live \ {x}
    /\ UNCHANGED <<rowVars, store, binding, offer, callVars, effects>>

cleanupExpiredIdempotencyKeys(k) ==
    /\ Expired(row[k])
    /\ ~RowLocked(k)
    /\ row' = [row EXCEPT ![k] = Absent]
    /\ UNCHANGED <<window, tokenVars, callVars, effects, faults>>

-----------------------------------------------------------------------------
Proceed(c) ==
    \/ probe(c) \/ gate(c) \/ repreview(c) \/ issueChallenge(c)
    \/ reserveInsert(c) \/ reserveRead(c) \/ takeover(c)
    \/ resolveLostTakeover(c) \/ finalize(c) \/ commit(c) \/ markFailed(c)

Next ==
    \/ \E c \in Callers : \/ Submit(c) \/ Proceed(c)
                          \/ executeThrows(c) \/ commitThrows(c) \/ abandon(c)
    \/ \E k \in Keys : \/ leaseExpires(k)
                       \/ retentionAges(k) \/ retentionExpires(k)
                       \/ cleanupExpiredIdempotencyKeys(k)
    \/ \E x \in Challenges : challengeExpires(x)

Spec == Init /\ [][Next]_vars

(* The client submits until it has an answer, the process runs the request *)
(* it has accepted, and the lease of an attempt nobody runs any more ends. *)
Fairness ==
    /\ \A c \in Callers : WF_vars(Submit(c)) /\ WF_vars(Proceed(c))
    /\ \A k \in Keys : WF_vars(~Holder(k) /\ leaseExpires(k))

FairSpec == Spec /\ Fairness

-----------------------------------------------------------------------------
(* Within one retention window of a key the handler commits at most once,  *)
(* whoever was presumed dead, superseded or retried.                       *)
AtMostOnce ==
    \A k \in Keys, w \in Windows :
        \A e, f \in effects[k][w] : e = f

(* A result given to a client was committed for its own key and input.     *)
AnswersAreEffects ==
    \A c \in Callers : answer[c] \in Effects =>
        /\ answer[c].payload = Payload(c)
        /\ \E w \in Windows : answer[c] \in effects[Key(c)][w]

(* What a gated request commits was confirmed for exactly that key and     *)
(* input, also when a retry resumes under the grant stored on the row.     *)
GatedEffectsConfirmed ==
    \A k \in Keys, w \in Windows : \A e \in effects[k][w] :
        e.gated => /\ e.grant \in Challenges
                   /\ binding[e.grant] = <<k, e.payload>>

(* A challenge that can still be presented has granted nothing yet.        *)
TokenUnspent ==
    \A x \in store :
        /\ \A c \in Callers : grant[c] # x
        /\ \A k \in Keys : row[k].grant # x
        /\ \A k \in Keys, w \in Windows : \A e \in effects[k][w] : e.grant # x

(* A completed row inside its retention is never reopened, by a takeover   *)
(* decided on a stale snapshot or by a late markFailed.                    *)
CompletedKept ==
    \A k \in Keys : row[k].status = "completed" /\ Retained(row[k]) =>
        /\ row'[k].status = "completed"
        /\ row'[k].response = row[k].response
CompletedStays == [][CompletedKept]_vars

(* One confirmation pays for one execution.                                *)
ChallengeSingleUse ==
    \A k, l \in Keys, w, v \in Windows :
        \A e \in effects[k][w], f \in effects[l][v] :
            e.grant = f.grant /\ e.grant # NoChallenge => e = f

(* The protocol keeps the promise of SubmitOnce.                           *)
Once == INSTANCE SubmitOnce
RefinesSubmitOnce == Once!Spec

(* A client that keeps submitting is answered, each time anew.             *)
EventuallyAnswered == \A c \in Callers : []<>(answer[c] # NoAnswer)

=============================================================================
