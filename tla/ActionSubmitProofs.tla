------------------------- MODULE ActionSubmitProofs -------------------------
(* Proofs about ActionSubmit, for any sets of callers, keys and inputs.    *)
EXTENDS ActionSubmit, TLAPS

(* randomUUID gives a challenge id that was never issued.                  *)
LEMMA ChallengeFresh ==
  ASSUME \E y \in Challenges : binding[y] = Unissued
  PROVE  NewChallenge \in Challenges /\ binding[NewChallenge] = Unissued
BY DEF NewChallenge

(* A row built from well-typed columns is an idempotency_keys row.         *)
LEMMA RowTyped ==
  ASSUME NEW s \in Statuses, NEW a \in Attempts \cup {NoAttempt},
         NEW h \in Payloads \cup {NoPayload}, NEW l \in BOOLEAN,
         NEW t \in {"new", "old", "over"},
         NEW g \in Challenges \cup {NoChallenge},
         NEW e \in Effects \cup {NoAnswer}
  PROVE  Row(s, a, h, l, t, g, e) \in RowType
BY DEF Row, RowType

(* When executeAction returns or throws, the caller's state stays well     *)
(* typed.                                                                  *)
LEMMA EndsTyped ==
  ASSUME TypeOK, NEW c \in Callers,
         NEW told \in Effects \cup {NoAnswer, Refused}, Ends(c, told)
  PROVE  /\ pc' \in [Callers -> Phases]
         /\ req' \in [Callers -> RequestType]
         /\ grant' \in [Callers -> Challenges \cup {NoChallenge}]
         /\ att' \in [Callers -> Attempts \cup {NoAttempt}]
         /\ win' \in [Callers -> Windows]
         /\ answer' \in [Callers -> Effects \cup {NoAnswer, Refused}]
BY SubmitAssumption DEF TypeOK, Ends, Goto, Phases, Windows

(* The response snapshot of a row is a result or nothing.                  *)
LEMMA ResponseTyped ==
  ASSUME TypeOK, NEW c \in Callers
  PROVE  /\ Key(c) \in Keys /\ Payload(c) \in Payloads
         /\ row[Key(c)] \in RowType
         /\ row[Key(c)].response \in Effects \cup {NoAnswer, Refused}
         /\ Gated(c) \in BOOLEAN
BY DEF TypeOK, RequestType, RowType, Key, Payload, Gated

(* The gate, the probe and the reads of reserve keep the types.            *)
LEMMA GateKeepsTypes ==
  ASSUME TypeOK, NEW c \in Callers,
         Submit(c) \/ probe(c) \/ gate(c) \/ repreview(c) \/ issueChallenge(c)
  PROVE  TypeOK'
<1> USE SubmitAssumption
<1>1. CASE Submit(c)
  <2>1. PICK r \in Requests[c], mode \in Modes, d \in Shares[c] :
          /\ req' = [req EXCEPT ![c] = Request(r[1], r[2], mode, offer[d])]
          /\ Goto(c, IF mode = "plain" THEN "insert" ELSE "probe")
    BY <1>1 DEF Submit
  <2>2. Request(r[1], r[2], mode, offer[d]) \in RequestType
    BY DEF Request, RequestType, TypeOK
  <2> QED BY <1>1, <2>1, <2>2
    DEF Submit, TypeOK, rowVars, tokenVars, Goto, Phases
<1>2. CASE probe(c)
  <2>1. CASE Goto(c, "gate") /\ UNCHANGED <<req, grant, att, win, answer>>
    BY <1>2, <2>1 DEF probe, TypeOK, rowVars, tokenVars, Goto, Phases
  <2>2. ASSUME NEW told \in Effects \cup {NoAnswer, Refused}, Ends(c, told)
        PROVE  TypeOK'
    BY <1>2, <2>2, EndsTyped DEF probe, TypeOK, rowVars, tokenVars
  <2>3. ASSUME Goto(c, IF Resumable(row[Key(c)], c) THEN "insert" ELSE "gate"),
               grant' = [grant EXCEPT ![c] = IF Resumable(row[Key(c)], c)
                           THEN row[Key(c)].grant ELSE NoChallenge],
               UNCHANGED <<req, att, win, answer>>
        PROVE  TypeOK'
    <3>1. row[Key(c)].grant \in Challenges \cup {NoChallenge}
      BY ResponseTyped DEF RowType
    <3> QED BY <1>2, <2>3, <3>1
      DEF probe, TypeOK, rowVars, tokenVars, Goto, Phases
  <2> QED BY <1>2, <2>1, <2>2, <2>3, ResponseTyped DEF probe
<1>3. CASE gate(c)
  BY <1>3 DEF gate, getAndDelete, TypeOK, RequestType, rowVars, Goto, Phases
<1>4. CASE repreview(c)
  <2>1. faults' \in Nat
    BY <1>4 DEF repreview, TypeOK, Fault
  <2>2. pc' \in [Callers -> Phases]
    BY <1>4 DEF repreview, TypeOK, Goto, Phases
  <2>3. grant' \in [Callers -> Challenges \cup {NoChallenge}]
    BY <1>4 DEF repreview, TypeOK
  <2> QED BY <1>4, <2>1, <2>2, <2>3 DEF repreview, TypeOK, rowVars, tokenVars
<1>5. CASE issueChallenge(c)
  <2>1. Bindings(c) \in Keys \X Payloads
    BY ResponseTyped DEF Bindings
  <2>2. CASE \E y \in Challenges : binding[y] = Unissued
    <3>1. binding' = [binding EXCEPT ![NewChallenge] = Bindings(c)]
      BY <1>5, <2>2 DEF issueChallenge
    <3>2. store' = store \cup {NewChallenge} /\ live' = live \cup {NewChallenge}
      BY <1>5, <2>2 DEF issueChallenge
    <3>3. offer' = [offer EXCEPT ![c] = NewChallenge]
      BY <1>5, <2>2 DEF issueChallenge
    <3>4. Ends(c, NoAnswer) /\ UNCHANGED <<rowVars, effects, faults>>
      BY <1>5 DEF issueChallenge
    <3> QED BY <2>1, <2>2, <3>1, <3>2, <3>3, <3>4, ChallengeFresh, EndsTyped
      DEF TypeOK, rowVars
  <2>3. CASE \A y \in Challenges : binding[y] # Unissued
    BY <1>5, <2>3, EndsTyped DEF issueChallenge, TypeOK, rowVars, tokenVars
  <2> QED BY <2>2, <2>3
<1> QED BY <1>1, <1>2, <1>3, <1>4, <1>5

(* A reservation gives the caller a fresh attempt id and a known window.   *)
LEMMA ReservesTyped ==
  ASSUME TypeOK, NEW c \in Callers, NEW a, NEW k \in Keys, NEW w \in Windows,
         Reserves(c, a, k, w)
  PROVE  /\ a \in Attempts
         /\ pc' \in [Callers -> Phases]
         /\ req' \in [Callers -> RequestType]
         /\ grant' \in [Callers -> Challenges \cup {NoChallenge}]
         /\ att' \in [Callers -> Attempts \cup {NoAttempt}]
         /\ win' \in [Callers -> Windows]
         /\ window' \in [Keys -> Windows]
         /\ answer' \in [Callers -> Effects \cup {NoAnswer, Refused}]
BY DEF TypeOK, Reserves, Goto, Phases

(* The statements of reserve (insert, read, takeover, reload) keep the     *)
(* types.                                                                  *)
LEMMA ReserveKeepsTypes ==
  ASSUME TypeOK, NEW c \in Callers,
         reserveInsert(c) \/ reserveRead(c) \/ takeover(c)
           \/ resolveLostTakeover(c)
  PROVE  TypeOK'
<1> USE SubmitAssumption
<1> DEFINE k == Key(c)  r == row[Key(c)]
<1>0. k \in Keys /\ r \in RowType
  BY ResponseTyped
<1>1. CASE reserveInsert(c)
  <2>1. CASE row[k].status = "absent"
    <3>1. window[k] + 1 \in Windows /\ Reserves(c, NewAttempt, k, window[k] + 1)
      BY <1>0, <1>1, <2>1 DEF reserveInsert, TypeOK, Windows
    <3>2. Row("in_progress", NewAttempt, Payload(c), TRUE, "new", grant[c],
              NoAnswer) \in RowType
      BY <1>0, <3>1, ReservesTyped, ResponseTyped, RowTyped DEF TypeOK, Statuses
    <3> QED BY <1>0, <1>1, <2>1, <3>1, <3>2, ReservesTyped
      DEF reserveInsert, TypeOK, tokenVars
  <2>2. CASE row[k].status # "absent"
    BY <1>1, <2>2 DEF reserveInsert, TypeOK, rowVars, tokenVars, Goto, Phases
  <2> QED BY <2>1, <2>2
<1>2. CASE reserveRead(c)
  <2>1. ASSUME NEW told \in Effects \cup {NoAnswer, Refused}, Ends(c, told)
        PROVE  TypeOK'
    BY <1>2, <2>1, EndsTyped DEF reserveRead, TypeOK, rowVars, tokenVars
  <2>2. ASSUME Goto(c, "reinsert"), UNCHANGED <<req, grant, att, win, answer>>
        PROVE  TypeOK'
    BY <1>2, <2>2 DEF reserveRead, TypeOK, rowVars, tokenVars, Goto, Phases
  <2>3. ASSUME att' = [att EXCEPT ![c] = r.attempt],
               Goto(c, IF Expired(r) THEN "reuse" ELSE "takeover"),
               UNCHANGED <<req, grant, win, answer>>
        PROVE  TypeOK'
    <3>1. r.attempt \in Attempts \cup {NoAttempt}
      BY <1>0 DEF RowType
    <3> QED BY <1>2, <2>3, <3>1
      DEF reserveRead, TypeOK, rowVars, tokenVars, Goto, Phases
  <2> QED BY <1>2, <2>1, <2>2, <2>3, ResponseTyped DEF reserveRead
<1>3. CASE takeover(c)
  <2> DEFINE w == IF pc[c] = "reuse" THEN window[k] + 1 ELSE window[k]
  <2>1. CASE r.attempt = att[c] /\ Reclaimable(r, c)
    <3>1. w \in Windows /\ Reserves(c, NewAttempt, k, w)
      BY <1>0, <1>3, <2>1 DEF takeover, TypeOK, Windows
    <3>2. TakenOver(r, c, NewAttempt) \in RowType
      <4>1. NewAttempt \in Attempts
        BY <1>0, <3>1, ReservesTyped
      <4>2. Payload(c) \in Payloads /\ grant[c] \in Challenges \cup {NoChallenge}
        BY ResponseTyped DEF TypeOK
      <4> QED BY <1>0, <4>1, <4>2 DEF TakenOver, Row, RowType, Statuses
    <3> HIDE DEF w
    <3> QED BY <1>0, <1>3, <2>1, <3>1, <3>2, ReservesTyped
      DEF takeover, TypeOK, tokenVars
  <2>2. CASE ~(r.attempt = att[c] /\ Reclaimable(r, c))
    BY <1>3, <2>2 DEF takeover, TypeOK, rowVars, tokenVars, Goto, Phases
  <2> QED BY <2>1, <2>2
<1>4. CASE resolveLostTakeover(c)
  <2>1. ASSUME NEW told \in Effects \cup {NoAnswer, Refused}, Ends(c, told)
        PROVE  TypeOK'
    BY <1>4, <2>1, EndsTyped DEF resolveLostTakeover, TypeOK, rowVars, tokenVars
  <2> QED BY <1>4, <2>1, ResponseTyped DEF resolveLostTakeover
<1> QED BY <1>1, <1>2, <1>3, <1>4

(* COMMIT stores a well-typed effect and response snapshot.                *)
LEMMA CommitsTyped ==
  ASSUME TypeOK, NEW c \in Callers, att[c] \in Attempts, Commits(c)
  PROVE  /\ Effect(att[c], Payload(c), grant[c], Gated(c)) \in Effects
         /\ effects' \in [Keys -> [Windows -> SUBSET Effects]]
         /\ row' \in [Keys -> RowType]
<1> DEFINE k == Key(c)  r == row[k]
           e == Effect(att[c], Payload(c), grant[c], Gated(c))
<1>1. k \in Keys /\ r \in RowType
  BY ResponseTyped
<1>2. e \in Effects
  BY ResponseTyped DEF Effect, Effects, TypeOK
<1>3. Row("completed", r.attempt, r.hash, r.leased, r.retention, r.grant, e) \in RowType
  BY <1>1, <1>2 DEF Row, RowType, Statuses
<1>4. row' = [row EXCEPT ![k] = Row("completed", r.attempt, r.hash, r.leased,
                                   r.retention, r.grant, e)]
  BY DEF Commits
<1>5. effects' = [effects EXCEPT ![k] = [effects[k] EXCEPT
                     ![win[c]] = effects[k][win[c]] \cup {e}]]
  BY DEF Commits
<1> HIDE DEF e, r, k
<1>6. win[c] \in Windows /\ effects[k] \in [Windows -> SUBSET Effects]
  BY <1>1 DEF TypeOK
<1>7. effects[k][win[c]] \cup {e} \in SUBSET Effects
  BY <1>2, <1>6
<1>8. [effects[k] EXCEPT ![win[c]] = effects[k][win[c]] \cup {e}]
         \in [Windows -> SUBSET Effects]
  BY <1>6, <1>7
<1>9. effects' \in [Keys -> [Windows -> SUBSET Effects]]
  BY <1>1, <1>5, <1>8 DEF TypeOK
<1>10. row' \in [Keys -> RowType]
  BY <1>1, <1>3, <1>4 DEF TypeOK
<1> QED BY <1>2, <1>9, <1>10 DEF e

(* A caller whose handler runs, commits or failed holds an attempt id, one *)
(* that takes over has observed one.                                       *)
Holding == {"running", "committing", "failing"}
HoldersHaveIds ==
    \A c \in Callers : pc[c] \in Holding \cup {"takeover", "reuse"} => att[c] \in Attempts

(* The execution transaction and the failure path keep the types.          *)
LEMMA ExecuteKeepsTypes ==
  ASSUME TypeOK, HoldersHaveIds, NEW c \in Callers,
         \/ finalize(c) \/ commit(c) \/ markFailed(c)
         \/ executeThrows(c) \/ commitThrows(c) \/ abandon(c)
  PROVE  TypeOK'
<1> DEFINE k == Key(c)  r == row[Key(c)]
<1>0. k \in Keys /\ r \in RowType
  BY ResponseTyped
<1>1. CASE finalize(c)
  BY <1>1 DEF finalize, TypeOK, rowVars, tokenVars, Goto, Phases
<1>2. CASE commit(c)
  <2>1. att[c] \in Attempts
    BY <1>2 DEF commit, HoldersHaveIds, Holding
  <2> QED BY <1>2, <2>1, CommitsTyped, EndsTyped DEF commit, TypeOK, tokenVars
<1>3. CASE markFailed(c)
  <2>1. Row("failed", r.attempt, r.hash, r.leased, r.retention, r.grant,
            r.response) \in RowType
    BY <1>0 DEF Row, RowType, Statuses
  <2>2. row' \in [Keys -> RowType]
    BY <1>0, <1>3, <2>1 DEF markFailed, TypeOK
  <2> QED BY <1>3, <2>2, EndsTyped DEF markFailed, TypeOK, tokenVars
<1>4. CASE executeThrows(c)
  <2>1. faults' \in Nat
    BY <1>4 DEF executeThrows, TypeOK, Fault
  <2> QED BY <1>4, <2>1
    DEF executeThrows, TypeOK, rowVars, tokenVars, Goto, Phases
<1>5. CASE commitThrows(c)
  <2>1. faults' \in Nat
    BY <1>5 DEF commitThrows, TypeOK, Fault
  <2>2. att[c] \in Attempts
    BY <1>5 DEF commitThrows, HoldersHaveIds, Holding
  <2>3. /\ effects' \in [Keys -> [Windows -> SUBSET Effects]]
        /\ row' \in [Keys -> RowType]
    BY <1>5, <2>2, CommitsTyped DEF commitThrows, TypeOK
  <2> QED BY <1>5, <2>1, <2>3
    DEF commitThrows, TypeOK, tokenVars, Goto, Phases
<1>6. CASE abandon(c)
  <2>1. faults' \in Nat
    BY <1>6 DEF abandon, TypeOK, Fault
  <2> QED BY <1>6, <2>1, EndsTyped DEF abandon, TypeOK, rowVars, tokenVars
<1> QED BY <1>1, <1>2, <1>3, <1>4, <1>5, <1>6

(* Expiring leases, grants and retentions, and the cleanup, keep the       *)
(* types.                                                                  *)
LEMMA TimeKeepsTypes ==
  ASSUME TypeOK, NEW k \in Keys,
         \/ leaseExpires(k) \/ retentionAges(k) \/ retentionExpires(k)
         \/ cleanupExpiredIdempotencyKeys(k)
  PROVE  TypeOK'
<1> DEFINE r == row[k]
<1>0. r \in RowType
  BY DEF TypeOK
<1>1. CASE leaseExpires(k)
  <2>1. Row(r.status, r.attempt, r.hash, FALSE, r.retention, r.grant,
            r.response) \in RowType
    BY <1>0 DEF Row, RowType
  <2>2. faults' \in Nat
    BY <1>1 DEF leaseExpires, TypeOK, Fault
  <2> QED BY <1>1, <2>1, <2>2 DEF leaseExpires, TypeOK, tokenVars, callVars
<1>2. CASE retentionAges(k)
  <2>1. Row(r.status, r.attempt, r.hash, FALSE, "old", r.grant,
            r.response) \in RowType
    BY <1>0 DEF Row, RowType
  <2>2. row' \in [Keys -> RowType] /\ live' \subseteq Challenges
    BY <1>2, <2>1 DEF retentionAges, TypeOK
  <2> QED BY <1>2, <2>2 DEF retentionAges, TypeOK, callVars
<1>3. CASE retentionExpires(k)
  <2>1. Row(r.status, r.attempt, r.hash, r.leased, "over", r.grant,
            r.response) \in RowType
    BY <1>0 DEF Row, RowType
  <2> QED BY <1>3, <2>1 DEF retentionExpires, TypeOK, tokenVars, callVars
<1>4. CASE cleanupExpiredIdempotencyKeys(k)
  <2>1. Absent \in RowType
    BY DEF Absent, Row, RowType, Statuses
  <2> QED BY <1>4, <2>1
    DEF cleanupExpiredIdempotencyKeys, TypeOK, tokenVars, callVars
<1> QED BY <1>1, <1>2, <1>3, <1>4

-----------------------------------------------------------------------------
(* The inductive invariant behind AtMostOnce.                              *)

(* No two attempts in progress share an id.                                *)
IdsDistinct ==
    \A c, d \in Callers :
        pc[c] \in Holding /\ pc[d] \in Holding /\ att[c] = att[d] => c = d

(* A row that exists carries an attempt id.                                *)
RowIds == \A k \in Keys :
    IF row[k].status = "absent" THEN row[k] = Absent
                                ELSE row[k].attempt \in Attempts

(* The attempt on the row belongs to the current window.                   *)
WindowKnown ==
    \A c \in Callers : pc[c] \in Holding /\ att[c] = row[Key(c)].attempt =>
        win[c] = window[Key(c)]

(* Nothing has been done in a window that is not open yet.                 *)
LaterWindowsEmpty ==
    \A k \in Keys, w \in Windows : w > window[k] => effects[k][w] = {}

(* While the row is in progress or failed its window has no effect.        *)
OpenWindowEmpty ==
    \A k \in Keys : row[k].status \in {"in_progress", "failed"} =>
        effects[k][window[k]] = {}

(* After finalize the row stays the committer's until it commits.          *)
CommitterOwns == \A c \in Callers : pc[c] = "committing" => Owns(c)

IInv ==
    /\ TypeOK /\ HoldersHaveIds /\ IdsDistinct /\ RowIds /\ WindowKnown
    /\ LaterWindowsEmpty /\ OpenWindowEmpty /\ CommitterOwns /\ AtMostOnce

(* A step of one caller, outside its execution, that writes no row.        *)
Aside(c) ==
    /\ UNCHANGED <<row, window, effects>>
    /\ pc'[c] \notin Holding
    /\ pc'[c] \in {"takeover", "reuse"} => att'[c] \in Attempts
    /\ \A d \in Callers \ {c} :
          /\ pc'[d] = pc[d] /\ att'[d] = att[d]
          /\ win'[d] = win[d] /\ req'[d] = req[d]

(* A step that leaves rows, windows and effects alone, and moves one       *)
(* caller that neither gains nor changes an attempt it holds, keeps IInv.  *)
LEMMA AsideKeepsIInv ==
  ASSUME IInv, TypeOK', NEW c \in Callers, Aside(c)
  PROVE  IInv'
<1> USE DEF Aside, IInv
<1>1. HoldersHaveIds'
  BY DEF HoldersHaveIds
<1>2. IdsDistinct'
  BY DEF IdsDistinct
<1>3. RowIds' /\ LaterWindowsEmpty' /\ OpenWindowEmpty' /\ AtMostOnce'
  BY DEF RowIds, LaterWindowsEmpty, OpenWindowEmpty, AtMostOnce
<1>4. WindowKnown'
  BY DEF WindowKnown, Key
<1>5. CommitterOwns'
  BY DEF CommitterOwns, Owns, Key, Holding
<1> QED BY <1>1, <1>2, <1>3, <1>4, <1>5

(* A caller that ends its request without writing takes such a step.       *)
LEMMA EndsAside ==
  ASSUME TypeOK, NEW c \in Callers, NEW told, Ends(c, told),
         UNCHANGED <<row, window, effects>>
  PROVE  Aside(c)
BY DEF Ends, Goto, Aside, Holding, TypeOK

(* Steps 5 and 6 up to the reservation.                                    *)
LEMMA GateAside ==
  ASSUME IInv, NEW c \in Callers,
         \/ Submit(c) \/ probe(c) \/ gate(c) \/ repreview(c) \/ issueChallenge(c)
         \/ reserveRead(c) \/ resolveLostTakeover(c) \/ abandon(c)
  PROVE  Aside(c)
<1> USE DEF IInv
<1>1. CASE Submit(c)
  BY <1>1 DEF Submit, Aside, Holding, Goto, TypeOK, rowVars
<1>2. CASE probe(c)
  <2>1. UNCHANGED <<row, window, effects>>
    BY <1>2 DEF probe, rowVars
  <2>2. CASE \E told : Ends(c, told)
    BY <2>1, <2>2, EndsAside
  <2>3. CASE ~ \E told : Ends(c, told)
    BY <1>2, <2>1, <2>3 DEF probe, Aside, Holding, Goto, TypeOK
  <2> QED BY <2>2, <2>3
<1>3. CASE gate(c)
  BY <1>3 DEF gate, Aside, Holding, Goto, TypeOK, rowVars
<1>4. CASE repreview(c)
  BY <1>4 DEF repreview, Aside, Holding, Goto, TypeOK, rowVars
<1>5. CASE issueChallenge(c)
  BY <1>5, EndsAside DEF issueChallenge, rowVars
<1>6. CASE reserveRead(c)
  <2>1. UNCHANGED <<row, window, effects>>
    BY <1>6 DEF reserveRead, rowVars
  <2>2. CASE \E told : Ends(c, told)
    BY <2>1, <2>2, EndsAside
  <2>3. CASE ~ \E told : Ends(c, told)
    <3>1. CASE row[Key(c)].status = "absent"
      <4>1. row[Key(c)].retention = "over"
        BY <3>1, ResponseTyped DEF RowIds, Absent, Row
      <4> QED BY <1>6, <2>1, <2>3, <3>1, <4>1
        DEF reserveRead, Aside, Holding, Goto, TypeOK, Expired, Retained
    <3>2. CASE row[Key(c)].status # "absent"
      <4>1. row[Key(c)].attempt \in Attempts
        BY <3>2, ResponseTyped DEF RowIds
      <4>2. /\ att' = [att EXCEPT ![c] = row[Key(c)].attempt]
            /\ pc'[c] \in {"reuse", "takeover"}
            /\ pc' = [pc EXCEPT ![c] = pc'[c]]
            /\ UNCHANGED <<req, win>>
        BY <1>6, <2>3, <3>2 DEF reserveRead, Goto, TypeOK
      <4> QED BY <2>1, <4>1, <4>2 DEF Aside, Holding, TypeOK
    <3> QED BY <3>1, <3>2
  <2> QED BY <2>2, <2>3
<1>7. CASE resolveLostTakeover(c)
  <2>1. \E told : Ends(c, told)
    BY <1>7 DEF resolveLostTakeover
  <2> QED BY <1>7, <2>1, EndsAside DEF resolveLostTakeover, rowVars
<1>8. CASE abandon(c)
  BY <1>8, EndsAside DEF abandon, rowVars
<1> QED BY <1>1, <1>2, <1>3, <1>4, <1>5, <1>6, <1>7, <1>8

(* A reservation: the row gets a fresh attempt id, in its own window or in *)
(* a new one.                                                              *)
LEMMA ReserveKeepsIInv ==
  ASSUME IInv, TypeOK', NEW c \in Callers, NEW a, NEW k, k = Key(c),
         NEW w \in Windows, Reserves(c, a, k, w),
         row' = [row EXCEPT ![k] = row'[k]],
         row'[k].attempt = a, row'[k].status = "in_progress",
         \A d \in Callers : pc[d] = "committing" => Key(d) # k,
         \/ w = window[k] + 1
         \/ w = window[k] /\ row[k].status \in {"in_progress", "failed"},
         UNCHANGED effects
  PROVE  IInv'
<1> USE DEF IInv
<1>0. k \in Keys /\ k = Key(c)
  BY ResponseTyped
<1>1. a \in Attempts /\ \A d \in Callers : att[d] # a
  BY DEF Reserves, AttemptsInUse
<1>2. \A j \in Keys : j # k => row'[j] = row[j] /\ window'[j] = window[j]
  BY <1>0 DEF TypeOK, Reserves
<1>3. window'[k] = w /\ window[k] \in Nat /\ w \in Nat /\ w >= window[k]
  BY <1>0, SubmitAssumption DEF TypeOK, Reserves, Windows
<1>4. /\ att'[c] = a /\ win'[c] = w /\ pc'[c] = "running" /\ req' = req
      /\ \A d \in Callers \ {c} :
            pc'[d] = pc[d] /\ att'[d] = att[d] /\ win'[d] = win[d]
  BY DEF TypeOK, Reserves, Goto
<1>5. HoldersHaveIds'
  BY <1>1, <1>4 DEF HoldersHaveIds
<1>6. IdsDistinct'
  BY <1>1, <1>4 DEF IdsDistinct
<1>7. RowIds'
  BY <1>1, <1>2 DEF RowIds
<1>8. WindowKnown'
  <2> SUFFICES ASSUME NEW d \in Callers, pc'[d] \in Holding,
                      att'[d] = row'[Key(d)].attempt
               PROVE  win'[d] = window'[Key(d)]
    BY <1>4 DEF WindowKnown, Key
  <2>1. CASE d = c
    BY <1>0, <1>3, <1>4, <2>1
  <2>2. CASE d # c
    <3>1. Key(d) # k
      BY <1>1, <1>4, <2>2
    <3> QED BY <1>2, <1>4, <2>2, <3>1, ResponseTyped DEF WindowKnown
  <2> QED BY <2>1, <2>2
<1>9. LaterWindowsEmpty'
  <2> SUFFICES ASSUME NEW j \in Keys, NEW v \in Windows, v > window'[j]
               PROVE  effects[j][v] = {}
    BY DEF LaterWindowsEmpty
  <2>1. v > window[j]
    BY <1>2, <1>3, SubmitAssumption DEF Windows
  <2> QED BY <2>1 DEF LaterWindowsEmpty
<1>10. OpenWindowEmpty'
  <2>1. effects[k][w] = {}
    <3>1. CASE w = window[k] + 1
      BY <1>0, <1>3, <3>1 DEF LaterWindowsEmpty
    <3>2. CASE w = window[k] /\ row[k].status \in {"in_progress", "failed"}
      BY <1>0, <3>2 DEF OpenWindowEmpty
    <3> QED BY <3>1, <3>2
  <2> QED BY <1>2, <1>3, <2>1 DEF OpenWindowEmpty
<1>11. CommitterOwns'
  <2> SUFFICES ASSUME NEW d \in Callers, pc'[d] = "committing"
               PROVE  Owns(d)'
    BY DEF CommitterOwns
  <2>1. d # c /\ pc[d] = "committing"
    BY <1>4
  <2> QED BY <1>2, <1>4, <2>1, ResponseTyped DEF CommitterOwns, Owns, Key
<1>12. AtMostOnce'
  BY DEF AtMostOnce
<1> QED BY <1>5, <1>6, <1>7, <1>8, <1>9, <1>10, <1>11, <1>12

(* The insert and the takeover of reserve keep IInv: each is a reservation *)
(* with a fresh attempt id, or moves its caller aside.                     *)
LEMMA ReservationsKeepIInv ==
  ASSUME IInv, TypeOK', NEW c \in Callers, reserveInsert(c) \/ takeover(c)
  PROVE  IInv'
<1> USE DEF IInv
<1> DEFINE k == Key(c)  r == row[Key(c)]
<1>0. k \in Keys /\ window[k] \in Nat
  BY ResponseTyped, SubmitAssumption DEF TypeOK, Windows
<1>1. CASE reserveInsert(c) /\ r.status = "absent"
  <2>1. Reserves(c, NewAttempt, k, window[k] + 1) /\ window[k] + 1 \in Windows
    BY <1>0, <1>1, SubmitAssumption DEF reserveInsert, Windows
  <2>2. row' = [row EXCEPT ![k] = row'[k]]
    BY <1>0, <1>1 DEF reserveInsert, TypeOK
  <2>3. row'[k].attempt = NewAttempt /\ row'[k].status = "in_progress"
    BY <1>0, <1>1 DEF reserveInsert, TypeOK, Row
  <2>4. \A d \in Callers : pc[d] = "committing" => Key(d) # k
    BY <1>1 DEF CommitterOwns, Owns
  <2>5. UNCHANGED effects
    BY <1>1 DEF reserveInsert
  <2> QED BY <2>1, <2>2, <2>3, <2>4, <2>5, ReserveKeepsIInv
<1>2. CASE reserveInsert(c) /\ r.status # "absent"
  <2>1. Aside(c)
    BY <1>2 DEF reserveInsert, Aside, Holding, Goto, TypeOK, rowVars
  <2> QED BY <2>1, AsideKeepsIInv
<1>3. CASE takeover(c) /\ r.attempt = att[c] /\ Reclaimable(r, c)
  <2> DEFINE w == IF pc[c] = "reuse" THEN window[k] + 1 ELSE window[k]
  <2>1. Reserves(c, NewAttempt, k, w) /\ w \in Windows
    BY <1>0, <1>3, SubmitAssumption DEF takeover, Windows
  <2>2. row' = [row EXCEPT ![k] = row'[k]]
    BY <1>0, <1>3 DEF takeover, TypeOK
  <2>3. row'[k].attempt = NewAttempt /\ row'[k].status = "in_progress"
    BY <1>0, <1>3 DEF takeover, TypeOK, TakenOver, Row
  <2>4. \A d \in Callers : pc[d] = "committing" => Key(d) # k
    BY <1>3 DEF takeover, RowLocked
  <2>5. UNCHANGED effects
    BY <1>3 DEF takeover
  <2>6. \/ w = window[k] + 1
        \/ w = window[k] /\ row[k].status \in {"in_progress", "failed"}
    BY <1>3 DEF Reclaimable
  <2> HIDE DEF w
  <2> QED BY <2>1, <2>2, <2>3, <2>4, <2>5, <2>6, ReserveKeepsIInv
<1>4. CASE takeover(c) /\ ~(r.attempt = att[c] /\ Reclaimable(r, c))
  <2>1. Aside(c)
    BY <1>4 DEF takeover, Aside, Holding, Goto, TypeOK, rowVars
  <2> QED BY <2>1, AsideKeepsIInv
<1> QED BY <1>1, <1>2, <1>3, <1>4

(* The transaction goes on, or rolls back, without a visible write.        *)
LEMMA RunningKeepsIInv ==
  ASSUME IInv, TypeOK', NEW c \in Callers,
         pc[c] \in Holding, pc'[c] \in Holding, pc' = [pc EXCEPT ![c] = pc'[c]],
         pc'[c] = "committing" => Owns(c),
         UNCHANGED <<row, window, effects, att, win, req>>
  PROVE  IInv'
<1> USE DEF IInv
<1>1. HoldersHaveIds' /\ IdsDistinct'
  BY DEF HoldersHaveIds, IdsDistinct, TypeOK
<1>2. RowIds' /\ LaterWindowsEmpty' /\ OpenWindowEmpty' /\ AtMostOnce'
  BY DEF RowIds, LaterWindowsEmpty, OpenWindowEmpty, AtMostOnce
<1>3. WindowKnown'
  BY DEF WindowKnown, Key, TypeOK
<1>4. CommitterOwns'
  BY DEF CommitterOwns, Owns, Key, TypeOK
<1> QED BY <1>1, <1>2, <1>3, <1>4

(* The caller that owns the row writes another status into it.             *)
LEMMA OwnerKeepsIInv ==
  ASSUME IInv, TypeOK', NEW c \in Callers, NEW k, k = Key(c),
         pc[c] \in Holding, Owns(c),
         row' = [row EXCEPT ![k] = row'[k]],
         row'[k].attempt = row[k].attempt,
         \/ row'[k].status = "completed"
         \/ row'[k].status = "failed" /\ effects' = effects,
         \/ effects' = effects
         \/ \E e : effects' = [effects EXCEPT ![k] =
                     [effects[k] EXCEPT ![win[c]] = effects[k][win[c]] \cup {e}]],
         pc' = [pc EXCEPT ![c] = pc'[c]], pc'[c] \in {"idle", "failing"},
         pc'[c] = "failing" => att' = att /\ win' = win,
         \A d \in Callers \ {c} : att'[d] = att[d] /\ win'[d] = win[d],
         UNCHANGED <<window, req>>
  PROVE  IInv'
<1> USE DEF IInv
<1>0. k \in Keys /\ att[c] \in Attempts /\ row[k].attempt = att[c]
      /\ row[k].status = "in_progress" /\ win[c] = window[k]
  BY ResponseTyped DEF Owns, HoldersHaveIds, WindowKnown
<1>1. \A j \in Keys : j # k => row'[j] = row[j] /\ effects'[j] = effects[j]
  BY <1>0 DEF TypeOK
<1>2. HoldersHaveIds' /\ IdsDistinct'
  <2>1. \A d \in Callers :
          pc'[d] \in Holding \cup {"takeover", "reuse"} =>
            /\ pc[d] \in Holding \cup {"takeover", "reuse"}
            /\ pc'[d] \in Holding => pc[d] \in Holding
            /\ att'[d] = att[d]
    <3> TAKE d \in Callers
    <3>1. CASE d = c
      BY <3>1 DEF TypeOK, Holding
    <3>2. CASE d # c
      BY <3>2 DEF TypeOK, Holding
    <3> QED BY <3>1, <3>2
  <2> QED BY <2>1 DEF HoldersHaveIds, IdsDistinct
<1>3. RowIds'
  BY <1>0, <1>1 DEF RowIds
<1>4. WindowKnown'
  <2> SUFFICES ASSUME NEW d \in Callers, pc'[d] \in Holding,
                      att'[d] = row'[Key(d)].attempt
               PROVE  win'[d] = window[Key(d)]
    BY DEF WindowKnown, Key
  <2>1. row'[Key(d)].attempt = row[Key(d)].attempt
    BY <1>1, ResponseTyped
  <2>2. pc[d] \in Holding /\ att'[d] = att[d] /\ win'[d] = win[d]
    BY DEF Holding, TypeOK
  <2> QED BY <2>1, <2>2 DEF WindowKnown
<1>5. effects[k][window[k]] = {}
  BY <1>0 DEF OpenWindowEmpty
<1>6. \A j \in Keys, v \in Windows :
         \/ effects'[j][v] = effects[j][v]
         \/ j = k /\ v = window[k] /\ \E e : effects'[j][v] = {e}
  <2>1. CASE effects' = effects
    BY <2>1
  <2>2. CASE effects' # effects
    <3>1. PICK e : effects' = [effects EXCEPT ![k] =
                     [effects[k] EXCEPT ![win[c]] = effects[k][win[c]] \cup {e}]]
      BY <2>2
    <3> SUFFICES ASSUME NEW j \in Keys, NEW v \in Windows
                 PROVE  \/ effects'[j][v] = effects[j][v]
                        \/ j = k /\ v = window[k] /\ effects'[j][v] = {e}
      OBVIOUS
    <3>2. effects[k] \in [Windows -> SUBSET Effects] /\ win[c] \in Windows
      BY <1>0 DEF TypeOK
    <3>3. effects'[k] = [effects[k] EXCEPT ![win[c]] = effects[k][win[c]] \cup {e}]
      BY <1>0, <3>1 DEF TypeOK
    <3>4. CASE j = k /\ v = win[c]
      BY <1>0, <1>5, <3>2, <3>3, <3>4
    <3>5. CASE j = k /\ v # win[c]
      BY <3>2, <3>3, <3>5
    <3>6. CASE j # k
      BY <1>1, <3>6
    <3> QED BY <3>4, <3>5, <3>6
  <2> QED BY <2>1, <2>2
<1>7. LaterWindowsEmpty'
  <2> SUFFICES ASSUME NEW j \in Keys, NEW v \in Windows, v > window[j]
               PROVE  effects'[j][v] = {}
    BY DEF LaterWindowsEmpty
  <2>1. ~(j = k /\ v = window[k])
    BY <1>0, SubmitAssumption DEF TypeOK, Windows
  <2> QED BY <1>6, <2>1 DEF LaterWindowsEmpty
<1>8. OpenWindowEmpty'
  BY <1>1, <1>5, <1>0 DEF OpenWindowEmpty
<1>9. CommitterOwns'
  <2> SUFFICES ASSUME NEW d \in Callers, pc'[d] = "committing"
               PROVE  Owns(d)'
    BY DEF CommitterOwns
  <2>1. d # c /\ pc[d] = "committing"
    BY DEF TypeOK
  <2>2. Key(d) # k
    BY <1>0, <2>1 DEF CommitterOwns, Owns, IdsDistinct, Holding
  <2> QED BY <1>1, <2>1, <2>2, ResponseTyped DEF CommitterOwns, Owns, Key
<1>10. AtMostOnce'
  BY <1>6 DEF AtMostOnce
<1> QED BY <1>2, <1>3, <1>4, <1>7, <1>8, <1>9, <1>10

(* finalize, COMMIT, a failed or doubtful COMMIT, markFailed and a crash   *)
(* keep IInv.                                                              *)
LEMMA ExecutionKeepsIInv ==
  ASSUME IInv, TypeOK', NEW c \in Callers,
         \/ finalize(c) \/ commit(c) \/ markFailed(c)
         \/ executeThrows(c) \/ commitThrows(c)
  PROVE  IInv'
<1> USE DEF IInv
<1> DEFINE k == Key(c)
<1>0. k \in Keys
  BY ResponseTyped
<1>1. CASE finalize(c)
  BY <1>1, RunningKeepsIInv DEF finalize, Goto, TypeOK, Holding, rowVars
<1>2. CASE executeThrows(c)
  BY <1>2, RunningKeepsIInv DEF executeThrows, Goto, TypeOK, Holding, rowVars
<1>3. ASSUME pc[c] = "committing", Commits(c), UNCHANGED <<window, req>>,
             pc' = [pc EXCEPT ![c] = pc'[c]], pc'[c] \in {"idle", "failing"},
             pc'[c] = "failing" => att' = att /\ win' = win,
             \A d \in Callers \ {c} : att'[d] = att[d] /\ win'[d] = win[d]
      PROVE  IInv'
  <2>1. Owns(c) /\ pc[c] \in Holding
    BY <1>3 DEF CommitterOwns, Holding
  <2>2. row' = [row EXCEPT ![k] = row'[k]]
    BY <1>0, <1>3 DEF Commits, TypeOK
  <2>3. row'[k].attempt = row[k].attempt /\ row'[k].status = "completed"
    BY <1>0, <1>3 DEF Commits, TypeOK, Row
  <2>4. \E e : effects' = [effects EXCEPT ![k] =
                 [effects[k] EXCEPT ![win[c]] = effects[k][win[c]] \cup {e}]]
    BY <1>3 DEF Commits
  <2> QED BY <1>3, <2>1, <2>2, <2>3, <2>4, OwnerKeepsIInv
<1>4. CASE commit(c)
  BY <1>3, <1>4 DEF commit, Ends, Goto, TypeOK
<1>5. CASE commitThrows(c)
  <2>1. CASE Commits(c)
    BY <1>3, <1>5, <2>1 DEF commitThrows, Goto, TypeOK
  <2>2. CASE UNCHANGED <<row, effects>>
    BY <1>5, <2>2, RunningKeepsIInv DEF commitThrows, Goto, TypeOK, Holding
  <2> QED BY <1>5, <2>1, <2>2 DEF commitThrows
<1>6. CASE markFailed(c)
  <2>1. CASE Owns(c)
    <3>1. row' = [row EXCEPT ![k] = row'[k]]
      BY <1>0, <1>6, <2>1 DEF markFailed, TypeOK
    <3>2. row'[k].attempt = row[k].attempt /\ row'[k].status = "failed"
      BY <1>0, <1>6, <2>1 DEF markFailed, TypeOK, Row
    <3>3. pc[c] \in Holding /\ UNCHANGED <<window, req, effects>>
      BY <1>6 DEF markFailed, Ends, Holding
    <3>4. /\ pc' = [pc EXCEPT ![c] = pc'[c]] /\ pc'[c] = "idle"
          /\ \A d \in Callers \ {c} : att'[d] = att[d] /\ win'[d] = win[d]
      BY <1>6 DEF markFailed, Ends, Goto, TypeOK
    <3> QED BY <2>1, <3>1, <3>2, <3>3, <3>4, OwnerKeepsIInv
  <2>2. CASE ~Owns(c)
    <3>1. Aside(c)
      BY <1>6, <2>2, EndsAside DEF markFailed
    <3> QED BY <3>1, AsideKeepsIInv
  <2> QED BY <2>1, <2>2
<1> QED BY <1>1, <1>2, <1>4, <1>5, <1>6

(* Time and the retention job.                                             *)
LEMMA TimeKeepsIInv ==
  ASSUME IInv, TypeOK', NEW k \in Keys,
         \/ leaseExpires(k) \/ retentionAges(k) \/ retentionExpires(k)
         \/ cleanupExpiredIdempotencyKeys(k)
  PROVE  IInv'
<1> USE DEF IInv
<1>1. UNCHANGED <<window, pc, req, att, win, effects>>
  BY DEF leaseExpires, retentionAges, retentionExpires,
         cleanupExpiredIdempotencyKeys, callVars
<1>2. \A j \in Keys : j # k => row'[j] = row[j]
  BY DEF leaseExpires, retentionAges, retentionExpires,
         cleanupExpiredIdempotencyKeys, TypeOK
<1>3. \/ row'[k] = Absent /\ ~RowLocked(k)
      \/ /\ row'[k].status = row[k].status /\ row'[k].attempt = row[k].attempt
         /\ row[k].status # "absent"
  <2>1. CASE cleanupExpiredIdempotencyKeys(k)
    BY <2>1 DEF cleanupExpiredIdempotencyKeys, TypeOK
  <2>2. row[k].status = "absent" => row[k].leased = FALSE /\ row[k].retention = "over"
    BY DEF RowIds, Absent, Row
  <2>3. CASE leaseExpires(k) \/ retentionAges(k) \/ retentionExpires(k)
    BY <2>2, <2>3 DEF leaseExpires, retentionAges, retentionExpires, TypeOK, Row
  <2> QED BY <2>1, <2>3
<1>4. HoldersHaveIds' /\ IdsDistinct' /\ LaterWindowsEmpty' /\ AtMostOnce'
  BY <1>1 DEF HoldersHaveIds, IdsDistinct, LaterWindowsEmpty, AtMostOnce
<1>5. RowIds'
  <2>1. CASE row'[k] = Absent
    <3>1. Absent.status = "absent"
      BY DEF Absent, Row
    <3> QED BY <1>2, <2>1, <3>1 DEF RowIds
  <2>2. CASE row'[k] # Absent
    BY <1>2, <1>3, <2>2 DEF RowIds
  <2> QED BY <2>1, <2>2
<1>6. OpenWindowEmpty'
  BY <1>1, <1>2, <1>3 DEF OpenWindowEmpty, Absent, Row
<1>7. Absent.attempt = NoAttempt
  BY DEF Absent, Row
<1>8. WindowKnown'
  <2> SUFFICES ASSUME NEW d \in Callers, pc[d] \in Holding,
                      att[d] = row'[Key(d)].attempt
               PROVE  win[d] = window[Key(d)]
    BY <1>1 DEF WindowKnown, Key
  <2>1. att[d] \in Attempts
    BY DEF HoldersHaveIds
  <2>2. row'[Key(d)].attempt = row[Key(d)].attempt
    BY <1>2, <1>3, <1>7, <2>1, FreshAssumption, ResponseTyped
  <2> QED BY <2>2 DEF WindowKnown
<1>9. CommitterOwns'
  <2> SUFFICES ASSUME NEW d \in Callers, pc[d] = "committing"
               PROVE  Owns(d)'
    BY <1>1 DEF CommitterOwns
  <2>1. /\ row'[Key(d)].status = row[Key(d)].status
        /\ row'[Key(d)].attempt = row[Key(d)].attempt
    BY <1>2, <1>3, ResponseTyped DEF RowLocked
  <2> QED BY <1>1, <2>1 DEF CommitterOwns, Owns, Key
<1> QED BY <1>4, <1>5, <1>6, <1>8, <1>9

(* IInv is inductive: every step of the system keeps it.                   *)
LEMMA NextKeepsIInv ==
  ASSUME IInv, [Next]_vars
  PROVE  IInv'
<1> USE DEF IInv
<1>1. CASE UNCHANGED vars
  BY <1>1 DEF vars, TypeOK, HoldersHaveIds, IdsDistinct, RowIds, WindowKnown,
              LaterWindowsEmpty, OpenWindowEmpty, CommitterOwns, AtMostOnce,
              Owns, Key
<1>2. ASSUME NEW c \in Callers,
             \/ Submit(c) \/ probe(c) \/ gate(c) \/ repreview(c)
             \/ issueChallenge(c) \/ reserveRead(c) \/ resolveLostTakeover(c)
             \/ abandon(c)
      PROVE  IInv'
  <2>1. TypeOK'
    BY <1>2, GateKeepsTypes, ReserveKeepsTypes, ExecuteKeepsTypes
  <2> QED BY <1>2, <2>1, GateAside, AsideKeepsIInv
<1>3. ASSUME NEW c \in Callers, reserveInsert(c) \/ takeover(c)
      PROVE  IInv'
  BY <1>3, ReserveKeepsTypes, ReservationsKeepIInv
<1>4. ASSUME NEW c \in Callers,
             \/ finalize(c) \/ commit(c) \/ markFailed(c)
             \/ executeThrows(c) \/ commitThrows(c)
      PROVE  IInv'
  BY <1>4, ExecuteKeepsTypes, ExecutionKeepsIInv
<1>5. ASSUME NEW k \in Keys,
             \/ leaseExpires(k) \/ retentionAges(k) \/ retentionExpires(k)
             \/ cleanupExpiredIdempotencyKeys(k)
      PROVE  IInv'
  BY <1>5, TimeKeepsTypes, TimeKeepsIInv
<1>6. ASSUME NEW x \in Challenges, challengeExpires(x)
      PROVE  IInv'
  <2>1. faults' \in Nat /\ live' \subseteq Challenges
    BY <1>6 DEF challengeExpires, Fault, TypeOK
  <2>2. UNCHANGED <<row, window, store, binding, offer, pc, req, grant, att,
                    win, answer, effects>>
    BY <1>6 DEF challengeExpires, rowVars, callVars
  <2>3. TypeOK'
    BY <2>1, <2>2 DEF TypeOK
  <2> QED BY <2>2, <2>3
    DEF HoldersHaveIds, IdsDistinct, RowIds, WindowKnown, LaterWindowsEmpty,
        OpenWindowEmpty, CommitterOwns, AtMostOnce, Owns, Key
<1> QED BY <1>1, <1>2, <1>3, <1>4, <1>5, <1>6 DEF Next, Proceed

(* IInv holds before the first request.                                    *)
LEMMA InitIInv == Init => IInv
<1> SUFFICES ASSUME Init PROVE IInv
  OBVIOUS
<1>1. TypeOK
  <2>1. Absent \in RowType
    BY DEF Absent, Row, RowType, Statuses
  <2>2. req \in [Callers -> RequestType]
    BY DEF Init, Request, RequestType, GateModes
  <2> QED BY <2>1, <2>2, SubmitAssumption DEF Init, TypeOK, Phases, Windows
<1>2. \A c \in Callers : pc[c] = "idle"
  BY DEF Init
<1>3. HoldersHaveIds /\ IdsDistinct /\ WindowKnown /\ CommitterOwns
  BY <1>2 DEF HoldersHaveIds, IdsDistinct, WindowKnown, CommitterOwns, Holding
<1>4. RowIds /\ OpenWindowEmpty
  BY DEF Init, RowIds, OpenWindowEmpty, Absent, Row
<1>5. LaterWindowsEmpty /\ AtMostOnce
  BY DEF Init, LaterWindowsEmpty, AtMostOnce
<1> QED BY <1>1, <1>3, <1>4, <1>5 DEF IInv

(* IInv holds in every reachable state.                                    *)
LEMMA Invariance == Spec => []IInv
BY InitIInv, NextKeepsIInv, PTL DEF Spec

(* Whatever the callers, the keys and the number of windows and faults,    *)
(* every variable keeps its type.                                          *)
THEOREM TypeCorrect == Spec => []TypeOK
<1>1. IInv => TypeOK
  BY DEF IInv
<1> QED BY <1>1, Invariance, PTL

(* For any number of concurrent callers, retries, takeovers and crashes,   *)
(* the handler commits at most once per key and retention window.          *)
THEOREM CommitsAtMostOnce == Spec => []AtMostOnce
<1>1. IInv => AtMostOnce
  BY DEF IInv
<1> QED BY <1>1, Invariance, PTL


-----------------------------------------------------------------------------
(***************************************************************************)
(* What clients are told and what they confirmed, proved for any sets of   *)
(* callers, keys, inputs and challenges: every result is the committed     *)
(* effect of the client's own key and input, a completed row is never      *)
(* reopened, the protocol implements SubmitOnce, and what a gated request  *)
(* commits was confirmed.  The invariants are IInv, above, AInv (the       *)
(* takeover and the stored response) and GInv (the grants).                *)
(***************************************************************************)

(* The attempt on the row runs the input the row was reserved for, and so  *)
(* does the attempt that is about to take it over inside its retention.    *)
HashKnown ==
    \A c \in Callers :
        pc[c] \in Holding \cup {"takeover"} /\ att[c] = row[Key(c)].attempt =>
            row[Key(c)].hash = Payload(c)

(* A row that is about to be reused is past its retention: the retention   *)
(* of one attempt only runs out.                                           *)
ReuseExpired ==
    \A c \in Callers :
        pc[c] = "reuse" /\ att[c] = row[Key(c)].attempt =>
            ~Retained(row[Key(c)])

(* The response stored on a completed row is the effect of the key's       *)
(* current window, on the input of the row.                                *)
StoredIsEffect ==
    \A k \in Keys : row[k].status = "completed" =>
        /\ row[k].response \in effects[k][window[k]]
        /\ row[k].response.payload = row[k].hash

AInv == HashKnown /\ ReuseExpired /\ StoredIsEffect /\ AnswersAreEffects

(* The result of a caller is one of its own key and input.                 *)
ToldSound(c) ==
    answer[c] \in Effects =>
        /\ answer[c].payload = Payload(c)
        /\ \E w \in Windows : answer[c] \in effects[Key(c)][w]

(* A request ends without a write: its client is told nothing, is refused, *)
(* or gets the response stored for its input.                              *)
EndsTold(c) ==
    /\ UNCHANGED <<row, window, effects>>
    /\ \E told : /\ Ends(c, told)
                 /\ \/ told \in {NoAnswer, Refused}
                    \/ /\ row[Key(c)].status = "completed"
                       /\ row[Key(c)].hash = Payload(c)
                       /\ told = row[Key(c)].response

(* A request goes on without a write; what it takes over or reuses is a    *)
(* row it has just read.                                                   *)
GoesOn(c) ==
    LET r == row[Key(c)] IN
    /\ UNCHANGED <<row, window, effects, req, answer>>
    /\ Aside(c)
    /\ pc'[c] = "takeover" => r.hash = Payload(c)
    /\ pc'[c] = "reuse" => ~Retained(r)

(* Every step of a caller outside its execution is the submission, goes on *)
(* or ends.                                                                *)
LEMMA StepsAside ==
  ASSUME IInv, NEW c \in Callers,
         \/ probe(c) \/ gate(c) \/ repreview(c) \/ issueChallenge(c)
         \/ reserveRead(c) \/ resolveLostTakeover(c) \/ abandon(c)
  PROVE  GoesOn(c) \/ EndsTold(c)
<1> USE DEF IInv
<1>0. Aside(c)
  BY GateAside
<1>1. CASE probe(c)
  <2>1. UNCHANGED <<row, window, effects>>
    BY <1>1 DEF probe, rowVars
  <2>2. CASE pc'[c] = "idle"
    BY <1>1, <2>1, <2>2 DEF probe, EndsTold, Conflicting, Goto, TypeOK
  <2>3. CASE pc'[c] # "idle"
    BY <1>0, <1>1, <2>1, <2>3 DEF probe, GoesOn, Ends, Goto, TypeOK
  <2> QED BY <2>2, <2>3
<1>2. CASE gate(c)
  BY <1>0, <1>2 DEF gate, GoesOn, Goto, TypeOK, rowVars
<1>3. CASE repreview(c)
  BY <1>0, <1>3 DEF repreview, GoesOn, Goto, TypeOK, rowVars
<1>4. CASE issueChallenge(c)
  BY <1>4 DEF issueChallenge, EndsTold, rowVars
<1>5. CASE reserveRead(c)
  <2>1. UNCHANGED <<row, window, effects>>
    BY <1>5 DEF reserveRead, rowVars
  <2>2. CASE pc'[c] = "idle"
    BY <1>5, <2>1, <2>2 DEF reserveRead, EndsTold, Conflicting, Goto, TypeOK
  <2>3. CASE pc'[c] # "idle"
    <3>1. row[Key(c)].status = "absent" => row[Key(c)].retention = "over"
      BY ResponseTyped DEF RowIds, Absent, Row
    <3> QED BY <1>0, <1>5, <2>1, <2>3, <3>1
      DEF reserveRead, GoesOn, Ends, Goto, TypeOK, Expired, Retained, Conflicting
  <2> QED BY <2>2, <2>3
<1>6. CASE resolveLostTakeover(c)
  BY <1>6 DEF resolveLostTakeover, EndsTold, Conflicting, rowVars
<1>7. CASE abandon(c)
  BY <1>7 DEF abandon, EndsTold, rowVars
<1> QED BY <1>1, <1>2, <1>3, <1>4, <1>5, <1>6, <1>7

(* A step that leaves rows, windows and effects alone keeps AInv when the  *)
(* one caller it moves fits the row it read and is told the truth.         *)
LEMMA AsideKeepsAInv ==
  ASSUME IInv, AInv, NEW c \in Callers, Aside(c),
         \A d \in Callers \ {c} : answer'[d] = answer[d],
         pc'[c] = "takeover" => row[Key(c)].hash = Payload(c) /\ req' = req,
         pc'[c] = "reuse" => ~Retained(row[Key(c)]) /\ req' = req,
         ToldSound(c)'
  PROVE  AInv'
<1> USE DEF Aside, AInv
<1>1. HashKnown'
  BY DEF HashKnown, Key, Payload, Holding
<1>2. ReuseExpired'
  BY DEF ReuseExpired, Retained, Key
<1>3. StoredIsEffect'
  BY DEF StoredIsEffect
<1>4. AnswersAreEffects'
  BY DEF AnswersAreEffects, ToldSound, Key, Payload
<1> QED BY <1>1, <1>2, <1>3, <1>4

(* Steps 5 and 6 up to the reservation, and a crash, keep AInv.            *)
LEMMA StepsAsideKeepAInv ==
  ASSUME IInv, AInv, NEW c \in Callers,
         \/ Submit(c) \/ probe(c) \/ gate(c) \/ repreview(c) \/ issueChallenge(c)
         \/ reserveRead(c) \/ resolveLostTakeover(c) \/ abandon(c)
  PROVE  AInv'
<1> USE DEF IInv, AInv
<1>0. Aside(c)
  BY GateAside
<1>1. CASE Submit(c)
  <2>1. answer' = [answer EXCEPT ![c] = NoAnswer] /\ pc'[c] \notin {"takeover", "reuse"}
    BY <1>1 DEF Submit, Goto, TypeOK
  <2>2. ToldSound(c)' /\ \A d \in Callers \ {c} : answer'[d] = answer[d]
    BY <2>1, AnswerAssumption DEF ToldSound, TypeOK
  <2> QED BY <1>0, <2>1, <2>2, AsideKeepsAInv
<1>2. CASE GoesOn(c)
  <2>1. ToldSound(c)'
    BY <1>2 DEF GoesOn, ToldSound, AnswersAreEffects, Key, Payload
  <2> QED BY <1>2, <2>1, AsideKeepsAInv DEF GoesOn
<1>3. CASE EndsTold(c)
  <2>1. PICK told :
          /\ Ends(c, told)
          /\ \/ told \in {NoAnswer, Refused}
             \/ /\ row[Key(c)].status = "completed"
                /\ row[Key(c)].hash = Payload(c)
                /\ told = row[Key(c)].response
    BY <1>3 DEF EndsTold
  <2>2. /\ answer' = [answer EXCEPT ![c] = told]
        /\ pc'[c] = "idle" /\ UNCHANGED <<req, window, effects>>
    BY <1>3, <2>1 DEF Ends, EndsTold, Goto, TypeOK
  <2>3. ToldSound(c)'
    <3>1. CASE told \in {NoAnswer, Refused}
      BY <2>2, <3>1, AnswerAssumption DEF ToldSound, TypeOK
    <3>2. CASE /\ row[Key(c)].status = "completed"
               /\ row[Key(c)].hash = Payload(c)
               /\ told = row[Key(c)].response
      <4>1. told.payload = Payload(c) /\ told \in effects[Key(c)][window[Key(c)]]
        BY <3>2, ResponseTyped DEF StoredIsEffect
      <4>2. window[Key(c)] \in Windows /\ answer'[c] = told
        BY <2>2, ResponseTyped DEF TypeOK
      <4> QED BY <2>2, <4>1, <4>2 DEF ToldSound, Key, Payload
    <3> QED BY <2>1, <3>1, <3>2
  <2> QED BY <1>0, <2>2, <2>3, AsideKeepsAInv DEF TypeOK
<1> QED BY <1>1, <1>2, <1>3, StepsAside

(* A reservation writes a fresh attempt id, the caller's input and no      *)
(* response, so it fits nobody else and completes nothing.                 *)
LEMMA ReserveKeepsAInv ==
  ASSUME IInv, AInv, NEW c \in Callers, NEW a, NEW k, k = Key(c),
         NEW w \in Windows, Reserves(c, a, k, w),
         row' = [row EXCEPT ![k] = row'[k]],
         row'[k].attempt = a, row'[k].status = "in_progress",
         row'[k].hash = Payload(c),
         UNCHANGED effects
  PROVE  AInv'
<1> USE DEF IInv, AInv
<1>0. k \in Keys
  BY ResponseTyped
<1>1. a \in Attempts /\ \A d \in Callers : att[d] # a
  BY DEF Reserves, AttemptsInUse
<1>2. \A j \in Keys : j # k => row'[j] = row[j] /\ window'[j] = window[j]
  BY <1>0 DEF TypeOK, Reserves
<1>3. /\ att'[c] = a /\ pc'[c] = "running" /\ UNCHANGED <<req, answer>>
      /\ \A d \in Callers \ {c} : pc'[d] = pc[d] /\ att'[d] = att[d]
  BY DEF TypeOK, Reserves, Goto
<1>4. \A d \in Callers : Key(d) \in Keys /\ Key(d)' = Key(d) /\ Payload(d)' = Payload(d)
  BY <1>3, ResponseTyped DEF Key, Payload
<1>5. \A d \in Callers \ {c} : att'[d] = row'[Key(d)].attempt => row'[Key(d)] = row[Key(d)]
  BY <1>1, <1>2, <1>3, <1>4
<1>6. HashKnown'
  <2> SUFFICES ASSUME NEW d \in Callers, pc'[d] \in Holding \cup {"takeover"},
                      att'[d] = row'[Key(d)].attempt
               PROVE  row'[Key(d)].hash = Payload(d)
    BY <1>4 DEF HashKnown
  <2>1. CASE d = c
    BY <2>1
  <2>2. CASE d # c
    BY <1>3, <1>5, <2>2 DEF HashKnown
  <2> QED BY <2>1, <2>2
<1>7. ReuseExpired'
  BY <1>3, <1>4, <1>5 DEF ReuseExpired, Retained
<1>8. StoredIsEffect'
  BY <1>2 DEF StoredIsEffect
<1>9. AnswersAreEffects'
  BY <1>3, <1>4 DEF AnswersAreEffects
<1> QED BY <1>6, <1>7, <1>8, <1>9

(* The insert and the takeover of reserve keep AInv.                       *)
LEMMA ReservationsKeepAInv ==
  ASSUME IInv, AInv, NEW c \in Callers, reserveInsert(c) \/ takeover(c)
  PROVE  AInv'
<1> USE DEF IInv, AInv
<1> DEFINE k == Key(c)  r == row[Key(c)]
<1>0. k \in Keys /\ window[k] \in Nat
  BY ResponseTyped, SubmitAssumption DEF TypeOK, Windows
<1>1. CASE reserveInsert(c) /\ r.status = "absent"
  <2>1. Reserves(c, NewAttempt, k, window[k] + 1) /\ window[k] + 1 \in Windows
    BY <1>0, <1>1, SubmitAssumption DEF reserveInsert, Windows
  <2>2. /\ row' = [row EXCEPT ![k] = row'[k]]
        /\ row'[k].attempt = NewAttempt /\ row'[k].status = "in_progress"
        /\ row'[k].hash = Payload(c)
    BY <1>0, <1>1 DEF reserveInsert, TypeOK, Row
  <2>3. UNCHANGED effects
    BY <1>1 DEF reserveInsert
  <2> QED BY <2>1, <2>2, <2>3, ReserveKeepsAInv
<1>2. CASE takeover(c) /\ r.attempt = att[c] /\ Reclaimable(r, c)
  <2> DEFINE w == IF pc[c] = "reuse" THEN window[k] + 1 ELSE window[k]
  <2>1. Reserves(c, NewAttempt, k, w) /\ w \in Windows
    BY <1>0, <1>2, SubmitAssumption DEF takeover, Windows
  <2>2. pc[c] = "reuse" \/ r.hash = Payload(c)
    BY <1>2 DEF takeover, HashKnown
  <2>3. /\ row' = [row EXCEPT ![k] = row'[k]]
        /\ row'[k].attempt = NewAttempt /\ row'[k].status = "in_progress"
        /\ row'[k].hash = Payload(c)
    BY <1>0, <1>2, <2>2 DEF takeover, TypeOK, TakenOver, Row
  <2>4. UNCHANGED effects
    BY <1>2 DEF takeover
  <2> HIDE DEF w
  <2> QED BY <2>1, <2>3, <2>4, ReserveKeepsAInv
<1>3. CASE \/ reserveInsert(c) /\ r.status # "absent"
           \/ takeover(c) /\ ~(r.attempt = att[c] /\ Reclaimable(r, c))
  <2>1. GoesOn(c)
    BY <1>3 DEF reserveInsert, takeover, GoesOn, Aside, Holding, Goto, TypeOK, rowVars
  <2>2. ToldSound(c)'
    BY <2>1 DEF GoesOn, ToldSound, AnswersAreEffects, Key, Payload
  <2> QED BY <2>1, <2>2, AsideKeepsAInv DEF GoesOn
<1> QED BY <1>1, <1>2, <1>3

(* The transaction goes on, or rolls back, without a visible write.        *)
LEMMA RunningKeepsAInv ==
  ASSUME AInv, NEW c \in Callers, TypeOK,
         pc[c] \in Holding, pc'[c] \in Holding, pc' = [pc EXCEPT ![c] = pc'[c]],
         UNCHANGED <<row, window, effects, att, req, answer>>
  PROVE  AInv'
<1> USE DEF AInv
<1>1. HashKnown'
  BY DEF HashKnown, Key, Payload, TypeOK
<1>2. ReuseExpired'
  BY DEF ReuseExpired, Retained, Key, TypeOK, Holding
<1>3. StoredIsEffect' /\ AnswersAreEffects'
  BY DEF StoredIsEffect, AnswersAreEffects, Key, Payload
<1> QED BY <1>1, <1>2, <1>3

(* What COMMIT publishes: the first effect of the window the attempt       *)
(* reserved, stored on the row as its response.                            *)
LEMMA CommitsStores ==
  ASSUME IInv, AInv, NEW c \in Callers, pc[c] = "committing", Commits(c)
  PROVE  LET k == Key(c)
             e == Effect(att[c], Payload(c), grant[c], Gated(c)) IN
         /\ k \in Keys /\ e \in Effects /\ e.payload = Payload(c)
         /\ win[c] = window[k] /\ window[k] \in Windows
         /\ effects[k][window[k]] = {}
         /\ effects' = [effects EXCEPT ![k] = [effects[k] EXCEPT ![window[k]] = {e}]]
         /\ effects'[k][window[k]] = {e}
         /\ \A j \in Keys, v \in Windows : effects[j][v] \subseteq effects'[j][v]
         /\ row'[k].status = "completed" /\ row'[k].response = e
         /\ row'[k].attempt = row[k].attempt /\ row'[k].hash = row[k].hash
         /\ row'[k].retention = row[k].retention
         /\ row'[k].grant = row[k].grant
         /\ row[k].status = "in_progress" /\ row[k].hash = Payload(c)
         /\ \A j \in Keys : j # k => row'[j] = row[j] /\ effects'[j] = effects[j]
<1> USE DEF IInv, AInv
<1> DEFINE k == Key(c)
           e == Effect(att[c], Payload(c), grant[c], Gated(c))
<1>1. k \in Keys /\ att[c] \in Attempts /\ pc[c] \in Holding
  BY ResponseTyped DEF HoldersHaveIds, Holding
<1>2. Owns(c) /\ win[c] = window[k] /\ row[k].hash = Payload(c)
  BY <1>1 DEF CommitterOwns, Owns, WindowKnown, HashKnown
<1>3. row[k].status = "in_progress" /\ effects[k][window[k]] = {}
  BY <1>1, <1>2 DEF Owns, OpenWindowEmpty
<1>4. e \in Effects /\ e.payload = Payload(c)
  BY <1>1, CommitsTyped DEF Effect
<1>5. /\ row'[k].status = "completed" /\ row'[k].response = e
      /\ row'[k].attempt = row[k].attempt /\ row'[k].hash = row[k].hash
      /\ row'[k].retention = row[k].retention /\ row'[k].grant = row[k].grant
      /\ \A j \in Keys : j # k => row'[j] = row[j]
  BY <1>1 DEF Commits, TypeOK, Row
<1>6. effects' = [effects EXCEPT ![k] =
                    [effects[k] EXCEPT ![win[c]] = effects[k][win[c]] \cup {e}]]
  BY DEF Commits
<1> HIDE DEF k, e
<1>7. effects' = [effects EXCEPT ![k] = [effects[k] EXCEPT ![window[k]] = {e}]]
  BY <1>2, <1>3, <1>6
<1>8. /\ effects[k] \in [Windows -> SUBSET Effects]
      /\ effects \in [Keys -> [Windows -> SUBSET Effects]]
      /\ window[k] \in Windows
  BY <1>1 DEF TypeOK
<1>9. \A j \in Keys : j # k => effects'[j] = effects[j]
  BY <1>7, <1>8
<1>10. effects'[k] = [effects[k] EXCEPT ![window[k]] = {e}]
  BY <1>1, <1>7, <1>8
<1>11. effects'[k][window[k]] = {e}
  BY <1>8, <1>10
<1>12. \A v \in Windows : effects[k][v] \subseteq effects'[k][v]
  BY <1>3, <1>8, <1>10
<1>13. \A j \in Keys, v \in Windows : effects[j][v] \subseteq effects'[j][v]
  BY <1>9, <1>12
<1> QED BY <1>1, <1>2, <1>3, <1>4, <1>5, <1>7, <1>8, <1>9, <1>11, <1>13 DEF k, e

(* COMMIT keeps AInv, acknowledged or not.                                 *)
LEMMA CommitKeepsAInv ==
  ASSUME IInv, AInv, NEW c \in Callers, pc[c] = "committing", Commits(c),
         pc' = [pc EXCEPT ![c] = pc'[c]], pc'[c] \in {"idle", "failing"},
         pc'[c] = "failing" => att' = att,
         \A d \in Callers \ {c} : att'[d] = att[d],
         UNCHANGED <<window, req>>,
         \/ answer' = answer
         \/ answer' = [answer EXCEPT ![c] =
                         Effect(att[c], Payload(c), grant[c], Gated(c))]
  PROVE  AInv'
<1> USE DEF IInv, AInv
<1> DEFINE k == Key(c)
           e == Effect(att[c], Payload(c), grant[c], Gated(c))
<1>1. /\ k \in Keys /\ e \in Effects /\ e.payload = Payload(c)
      /\ window[k] \in Windows /\ effects'[k][window[k]] = {e}
      /\ \A j \in Keys, v \in Windows : effects[j][v] \subseteq effects'[j][v]
      /\ row'[k].status = "completed" /\ row'[k].response = e
      /\ row'[k].attempt = row[k].attempt /\ row'[k].hash = row[k].hash
      /\ row'[k].retention = row[k].retention /\ row[k].hash = Payload(c)
      /\ \A j \in Keys : j # k => row'[j] = row[j] /\ effects'[j] = effects[j]
  BY CommitsStores
<1> HIDE DEF e
<1>2. \A d \in Callers : Key(d) \in Keys /\ Key(d)' = Key(d) /\ Payload(d)' = Payload(d)
  BY ResponseTyped DEF Key, Payload
<1>3. \A j \in Keys : /\ row'[j].attempt = row[j].attempt
                      /\ row'[j].hash = row[j].hash
                      /\ row'[j].retention = row[j].retention
  BY <1>1
<1>4. \A d \in Callers : pc'[d] # "idle" =>
         /\ pc'[d] = pc[d] \/ (d = c /\ pc[d] \in Holding /\ pc'[d] = "failing")
         /\ att'[d] = att[d]
  BY DEF TypeOK, Holding
<1>5. HashKnown'
  BY <1>2, <1>3, <1>4 DEF HashKnown, Holding
<1>6. ReuseExpired'
  BY <1>2, <1>3, <1>4 DEF ReuseExpired, Retained
<1>7. StoredIsEffect'
  <2> SUFFICES ASSUME NEW j \in Keys, row'[j].status = "completed"
               PROVE  /\ row'[j].response \in effects'[j][window[j]]
                      /\ row'[j].response.payload = row'[j].hash
    BY DEF StoredIsEffect
  <2>1. CASE j = k
    BY <1>1, <2>1
  <2>2. CASE j # k
    BY <1>1, <2>2 DEF StoredIsEffect
  <2> QED BY <2>1, <2>2
<1>8. AnswersAreEffects'
  <2> SUFFICES ASSUME NEW d \in Callers, answer'[d] \in Effects
               PROVE  /\ answer'[d].payload = Payload(d)
                      /\ \E w \in Windows : answer'[d] \in effects'[Key(d)][w]
    BY <1>2 DEF AnswersAreEffects
  <2>1. CASE answer'[d] = answer[d]
    BY <1>1, <1>2, <2>1 DEF AnswersAreEffects
  <2>2. CASE answer'[d] # answer[d]
    <3>1. d = c /\ answer'[d] = e
      BY <2>2 DEF e, TypeOK
    <3> QED BY <1>1, <3>1
  <2> QED BY <2>1, <2>2
<1> QED BY <1>5, <1>6, <1>7, <1>8

(* markFailed touches the status of a row in progress, and nothing else.   *)
LEMMA MarkFailedWrites ==
  ASSUME TypeOK, NEW c \in Callers, markFailed(c), NEW j \in Keys
  PROVE  /\ row'[j].attempt = row[j].attempt /\ row'[j].hash = row[j].hash
         /\ row'[j].retention = row[j].retention
         /\ row'[j].grant = row[j].grant /\ row'[j].response = row[j].response
         /\ \/ row'[j].status = row[j].status
            \/ row[j].status = "in_progress" /\ row'[j].status = "failed"
<1>1. CASE ~Owns(c) \/ j # Key(c)
  BY <1>1 DEF markFailed, TypeOK
<1>2. CASE Owns(c) /\ j = Key(c)
  <2> DEFINE r == row[j]
  <2>1. row'[j] = Row("failed", r.attempt, r.hash, r.leased, r.retention, r.grant,
                      r.response)
    BY <1>2 DEF markFailed, TypeOK
  <2> QED BY <1>2, <2>1 DEF Row, Owns
<1> QED BY <1>1, <1>2

(* finalize, COMMIT, a failed or doubtful COMMIT and markFailed keep AInv. *)
LEMMA ExecutionKeepsAInv ==
  ASSUME IInv, AInv, NEW c \in Callers,
         \/ finalize(c) \/ commit(c) \/ markFailed(c)
         \/ executeThrows(c) \/ commitThrows(c)
  PROVE  AInv'
<1> USE DEF IInv, AInv
<1> DEFINE k == Key(c)  r == row[Key(c)]
<1>0. k \in Keys
  BY ResponseTyped
<1>1. CASE finalize(c)
  BY <1>1, RunningKeepsAInv DEF finalize, Goto, TypeOK, Holding, rowVars
<1>2. CASE executeThrows(c)
  BY <1>2, RunningKeepsAInv DEF executeThrows, Goto, TypeOK, Holding, rowVars
<1>3. CASE commit(c)
  BY <1>3, CommitKeepsAInv DEF commit, Ends, Goto, TypeOK
<1>4. CASE commitThrows(c)
  <2>1. CASE Commits(c)
    BY <1>4, <2>1, CommitKeepsAInv DEF commitThrows, Goto, TypeOK
  <2>2. CASE UNCHANGED <<row, effects>>
    BY <1>4, <2>2, RunningKeepsAInv DEF commitThrows, Goto, TypeOK, Holding
  <2> QED BY <1>4, <2>1, <2>2 DEF commitThrows
<1>5. CASE markFailed(c)
  <2>1. Ends(c, NoAnswer) /\ UNCHANGED <<window, effects, req>>
    BY <1>5 DEF markFailed, Ends
  <2>2. \A j \in Keys : /\ row'[j].attempt = row[j].attempt
                        /\ row'[j].hash = row[j].hash
                        /\ row'[j].retention = row[j].retention
                        /\ row'[j].response = row[j].response
                        /\ row'[j].status = row[j].status \/ row'[j].status = "failed"
    BY <1>5, MarkFailedWrites
  <2>3. \A d \in Callers : Key(d) \in Keys /\ Key(d)' = Key(d) /\ Payload(d)' = Payload(d)
    BY <2>1, ResponseTyped DEF Key, Payload
  <2>4. \A d \in Callers : pc'[d] # "idle" => pc'[d] = pc[d] /\ att'[d] = att[d]
    BY <2>1 DEF Ends, Goto, TypeOK
  <2>5. HashKnown' /\ ReuseExpired'
    BY <2>2, <2>3, <2>4 DEF HashKnown, ReuseExpired, Retained, Holding
  <2>6. StoredIsEffect'
    BY <2>1, <2>2 DEF StoredIsEffect
  <2>7. AnswersAreEffects'
    BY <2>1, <2>3, AnswerAssumption DEF AnswersAreEffects, Ends, TypeOK
  <2> QED BY <2>5, <2>6, <2>7
<1> QED BY <1>1, <1>2, <1>3, <1>4, <1>5

(* What time and the retention job do to a row.                            *)
LEMMA TimeWrites ==
  ASSUME IInv, NEW k \in Keys,
         \/ leaseExpires(k) \/ retentionAges(k) \/ retentionExpires(k)
         \/ cleanupExpiredIdempotencyKeys(k)
  PROVE  /\ UNCHANGED <<window, pc, req, att, win, effects, grant, answer,
                        store, binding, offer>>
         /\ live' \subseteq live
         /\ \A j \in Keys : j # k => row'[j] = row[j]
         /\ \/ row'[k] = Absent /\ ~Retained(row[k])
            \/ /\ row'[k].status = row[k].status /\ row'[k].attempt = row[k].attempt
               /\ row'[k].hash = row[k].hash /\ row'[k].response = row[k].response
               /\ row'[k].grant = row[k].grant
               /\ Retained(row'[k]) => Retained(row[k])
<1> USE DEF IInv
<1>1. CASE leaseExpires(k)
  BY <1>1 DEF leaseExpires, TypeOK, Row, Retained, callVars, tokenVars
<1>2. CASE retentionAges(k)
  BY <1>2 DEF retentionAges, TypeOK, Row, Retained, callVars, tokenVars
<1>3. CASE retentionExpires(k)
  BY <1>3 DEF retentionExpires, TypeOK, Row, Retained, callVars, tokenVars
<1>4. CASE cleanupExpiredIdempotencyKeys(k)
  BY <1>4 DEF cleanupExpiredIdempotencyKeys, TypeOK, Expired, callVars, tokenVars
<1> QED BY <1>1, <1>2, <1>3, <1>4

(* Time and the retention job keep AInv.                                   *)
LEMMA TimeKeepsAInv ==
  ASSUME IInv, AInv, NEW k \in Keys,
         \/ leaseExpires(k) \/ retentionAges(k) \/ retentionExpires(k)
         \/ cleanupExpiredIdempotencyKeys(k)
  PROVE  AInv'
<1> USE DEF IInv, AInv
<1>1. /\ UNCHANGED <<window, pc, req, att, effects, answer>>
      /\ \A j \in Keys : j # k => row'[j] = row[j]
      /\ \/ row'[k] = Absent
         \/ /\ row'[k].status = row[k].status /\ row'[k].attempt = row[k].attempt
            /\ row'[k].hash = row[k].hash /\ row'[k].response = row[k].response
            /\ Retained(row'[k]) => Retained(row[k])
  BY TimeWrites
<1>2. Absent.attempt = NoAttempt /\ Absent.status = "absent" /\ Absent.retention = "over"
  BY DEF Absent, Row
<1>3. \A d \in Callers : Key(d) \in Keys /\ Key(d)' = Key(d) /\ Payload(d)' = Payload(d)
  BY <1>1, ResponseTyped DEF Key, Payload
<1>4. HashKnown'
  <2> SUFFICES ASSUME NEW d \in Callers, pc[d] \in Holding \cup {"takeover"},
                      att[d] = row'[Key(d)].attempt
               PROVE  row'[Key(d)].hash = Payload(d)
    BY <1>1, <1>3 DEF HashKnown
  <2>1. att[d] # NoAttempt
    BY FreshAssumption DEF HoldersHaveIds
  <2> QED BY <1>1, <1>2, <1>3, <2>1 DEF HashKnown
<1>5. ReuseExpired'
  BY <1>1, <1>2, <1>3 DEF ReuseExpired, Retained
<1>6. StoredIsEffect'
  BY <1>1, <1>2 DEF StoredIsEffect
<1>7. AnswersAreEffects'
  BY <1>1, <1>3 DEF AnswersAreEffects
<1> QED BY <1>4, <1>5, <1>6, <1>7

(* AInv is inductive relative to IInv.                                     *)
LEMMA NextKeepsAInv ==
  ASSUME IInv, AInv, [Next]_vars
  PROVE  AInv'
<1>1. CASE UNCHANGED vars
  BY <1>1 DEF vars, AInv, HashKnown, ReuseExpired, StoredIsEffect,
              AnswersAreEffects, Key, Payload, Retained
<1>2. ASSUME NEW x \in Challenges, challengeExpires(x)
      PROVE  AInv'
  BY <1>2 DEF challengeExpires, rowVars, callVars, AInv, HashKnown,
              ReuseExpired, StoredIsEffect, AnswersAreEffects, Key, Payload,
              Retained
<1> QED BY <1>1, <1>2, StepsAsideKeepAInv, ReservationsKeepAInv,
           ExecutionKeepsAInv, TimeKeepsAInv DEF Next, Proceed

(* IInv and AInv hold in every reachable state.                            *)
LEMMA AnswerInvariance == Spec => [](IInv /\ AInv)
<1>1. Init => IInv /\ AInv
  <2> SUFFICES ASSUME Init PROVE AInv
    BY InitIInv
  <2>1. HashKnown /\ ReuseExpired
    BY DEF Init, HashKnown, ReuseExpired, Holding
  <2>2. StoredIsEffect
    BY DEF Init, StoredIsEffect, Absent, Row
  <2>3. AnswersAreEffects
    BY AnswerAssumption DEF Init, AnswersAreEffects
  <2> QED BY <2>1, <2>2, <2>3 DEF AInv
<1>2. IInv /\ AInv /\ [Next]_vars => (IInv /\ AInv)'
  BY NextKeepsIInv, NextKeepsAInv
<1> QED BY <1>1, <1>2, PTL DEF Spec

(* Whatever a client is given as a result was committed for its own key    *)
(* and its own input, also when it comes from the row another attempt      *)
(* completed.                                                              *)
THEOREM AnswersCommitted == Spec => []AnswersAreEffects
<1>1. AInv => AnswersAreEffects
  BY DEF AInv
<1> QED BY <1>1, AnswerInvariance, PTL

-----------------------------------------------------------------------------
(* A completed row is never reopened.                                      *)

(* The steps of one caller: only a reservation, a COMMIT and markFailed    *)
(* write a row.                                                            *)
LEMMA CallerKeepsCompleted ==
  ASSUME IInv, AInv, NEW c \in Callers,
         \/ Submit(c) \/ Proceed(c) \/ executeThrows(c) \/ commitThrows(c)
         \/ abandon(c)
  PROVE  CompletedKept
<1> USE DEF IInv, AInv
<1> DEFINE k == Key(c)  r == row[Key(c)]
<1>0. k \in Keys
  BY ResponseTyped
<1>1. CASE UNCHANGED row
  BY <1>1 DEF CompletedKept
<1>2. CASE reserveInsert(c) /\ r.status = "absent"
  BY <1>0, <1>2 DEF reserveInsert, CompletedKept, TypeOK
<1>3. CASE takeover(c) /\ r.attempt = att[c] /\ Reclaimable(r, c)
  <2>1. ~(r.status = "completed" /\ Retained(r))
    BY <1>3 DEF takeover, Reclaimable, ReuseExpired
  <2>2. \A j \in Keys : j # k => row'[j] = row[j]
    BY <1>0, <1>3 DEF takeover, TypeOK
  <2> QED BY <2>1, <2>2 DEF CompletedKept
<1>4. CASE pc[c] = "committing" /\ Commits(c)
  <2>1. /\ row[k].status = "in_progress"
        /\ \A j \in Keys : j # k => row'[j] = row[j]
    BY <1>4, CommitsStores
  <2> QED BY <2>1 DEF CompletedKept
<1>5. CASE markFailed(c)
  BY <1>5, MarkFailedWrites DEF CompletedKept
<1>6. CASE \/ Submit(c) \/ probe(c) \/ gate(c) \/ repreview(c) \/ issueChallenge(c)
           \/ reserveRead(c) \/ resolveLostTakeover(c) \/ abandon(c)
  BY <1>1, <1>6, GateAside DEF Aside
<1>7. CASE reserveInsert(c) /\ r.status # "absent"
  BY <1>1, <1>7 DEF reserveInsert, rowVars
<1>8. CASE takeover(c) /\ ~(r.attempt = att[c] /\ Reclaimable(r, c))
  BY <1>1, <1>8 DEF takeover, rowVars
<1>9. CASE finalize(c) \/ executeThrows(c)
  BY <1>1, <1>9 DEF finalize, executeThrows, rowVars
<1>10. CASE commit(c) \/ commitThrows(c)
  BY <1>1, <1>4, <1>10 DEF commit, commitThrows
<1> QED BY <1>2, <1>3, <1>5, <1>6, <1>7, <1>8, <1>9, <1>10 DEF Proceed

(* A completed row inside its retention keeps its status and response in   *)
(* every step: neither a takeover decided on a stale snapshot nor the late *)
(* markFailed of a superseded attempt reopens it.                          *)
THEOREM CompletedRowStays == Spec => CompletedStays
<1>1. IInv /\ AInv /\ [Next]_vars => [CompletedKept]_vars
  <2> SUFFICES ASSUME IInv, AInv, Next PROVE CompletedKept
    OBVIOUS
  <2>1. ASSUME NEW k \in Keys,
               \/ leaseExpires(k) \/ retentionAges(k) \/ retentionExpires(k)
               \/ cleanupExpiredIdempotencyKeys(k)
        PROVE  CompletedKept
    BY <2>1, TimeWrites DEF CompletedKept
  <2>2. ASSUME NEW x \in Challenges, challengeExpires(x)
        PROVE  CompletedKept
    BY <2>2 DEF challengeExpires, rowVars, CompletedKept
  <2> QED BY <2>1, <2>2, CallerKeepsCompleted DEF Next
<1> QED BY <1>1, AnswerInvariance, PTL DEF Spec, CompletedStays

-----------------------------------------------------------------------------
(* The protocol implements SubmitOnce.                                     *)

seen == <<window, effects, answer>>

(* A request that ends without a write asks again, is refused, or is told  *)
(* of the effect of its key's current window.                              *)
LEMMA EndsMaps ==
  ASSUME IInv, AInv, NEW c \in Callers, EndsTold(c)
  PROVE  Once!Next
<1> USE DEF IInv, AInv
<1>1. PICK told :
        /\ Ends(c, told)
        /\ \/ told \in {NoAnswer, Refused}
           \/ /\ row[Key(c)].status = "completed"
              /\ row[Key(c)].hash = Payload(c)
              /\ told = row[Key(c)].response
  BY DEF EndsTold
<1>2. answer' = [answer EXCEPT ![c] = told] /\ UNCHANGED <<window, effects>>
  BY <1>1 DEF Ends, EndsTold
<1>3. CASE told \in {NoAnswer, Refused}
  <2>1. Once!Ask(c)
    BY <1>2, <1>3 DEF Once!Ask
  <2> QED BY <2>1 DEF Once!Next
<1>4. CASE row[Key(c)].status = "completed" /\ told = row[Key(c)].response
  <2>1. Key(c) \in Keys /\ told \in effects[Key(c)][window[Key(c)]]
    BY <1>4, ResponseTyped DEF StoredIsEffect
  <2>2. told \in Effects
    BY <2>1 DEF TypeOK
  <2>3. Once!Tell(c, Key(c), told)
    BY <1>2, <2>1 DEF Once!Tell
  <2> QED BY <2>1, <2>2, <2>3 DEF Once!Next
<1> QED BY <1>1, <1>3, <1>4

(* A COMMIT performs the one effect of its window, told to its client or   *)
(* (when the acknowledgement is lost) to nobody.                           *)
LEMMA CommitMaps ==
  ASSUME IInv, AInv, NEW c \in Callers, pc[c] = "committing", Commits(c),
         UNCHANGED window,
         \/ answer' = answer
         \/ answer' = [answer EXCEPT ![c] =
                         Effect(att[c], Payload(c), grant[c], Gated(c))]
  PROVE  Once!Next
<1> DEFINE k == Key(c)
           e == Effect(att[c], Payload(c), grant[c], Gated(c))
<1>1. /\ k \in Keys /\ e \in Effects /\ effects[k][window[k]] = {}
      /\ effects' = [effects EXCEPT ![k] = [effects[k] EXCEPT ![window[k]] = {e}]]
  BY CommitsStores
<1>2. Once!Perform(k, e)
  BY <1>1 DEF Once!Perform
<1> QED BY <1>1, <1>2 DEF Once!Next

(* A reservation stays in the key's window or opens the next one.          *)
LEMMA ReservationMaps ==
  ASSUME IInv, NEW c \in Callers, reserveInsert(c) \/ takeover(c)
  PROVE  Once!Next \/ UNCHANGED seen
<1> USE DEF IInv
<1> DEFINE k == Key(c)  r == row[Key(c)]
<1>0. k \in Keys /\ UNCHANGED <<effects, answer>>
  BY ResponseTyped DEF reserveInsert, takeover, Reserves
<1>1. \/ UNCHANGED window
      \/ window' = [window EXCEPT ![k] = window[k] + 1]
      \/ window' = [window EXCEPT ![k] = window[k]]
  BY DEF reserveInsert, takeover, Reserves, rowVars
<1>2. [window EXCEPT ![k] = window[k]] = window
  BY <1>0 DEF TypeOK
<1>3. CASE window' = [window EXCEPT ![k] = window[k] + 1]
  <2>1. Once!Reopen(k)
    BY <1>0, <1>3 DEF Once!Reopen
  <2> QED BY <1>0, <2>1 DEF Once!Next
<1> QED BY <1>0, <1>1, <1>2, <1>3 DEF seen

(* Every step of the protocol is a step of SubmitOnce or changes nothing a *)
(* client of it can see.                                                   *)
LEMMA NextMaps ==
  ASSUME IInv, AInv, [Next]_vars
  PROVE  [Once!Next]_seen
<1> USE DEF IInv, AInv
<1>1. CASE UNCHANGED vars
  BY <1>1 DEF vars, seen
<1>2. ASSUME NEW c \in Callers, Submit(c)
      PROVE  Once!Next
  <2>1. Once!Ask(c)
    BY <1>2 DEF Submit, Once!Ask, rowVars
  <2> QED BY <2>1 DEF Once!Next
<1>3. ASSUME NEW c \in Callers,
             \/ probe(c) \/ gate(c) \/ repreview(c) \/ issueChallenge(c)
             \/ reserveRead(c) \/ resolveLostTakeover(c) \/ abandon(c)
      PROVE  Once!Next \/ UNCHANGED seen
  BY <1>3, StepsAside, EndsMaps DEF GoesOn, seen
<1>4. ASSUME NEW c \in Callers, finalize(c) \/ executeThrows(c)
      PROVE  UNCHANGED seen
  BY <1>4 DEF finalize, executeThrows, rowVars, seen
<1>5. ASSUME NEW c \in Callers, commit(c) \/ commitThrows(c)
      PROVE  Once!Next \/ UNCHANGED seen
  BY <1>5, CommitMaps DEF commit, commitThrows, Ends, seen
<1>6. ASSUME NEW c \in Callers, markFailed(c)
      PROVE  Once!Next
  <2>1. Once!Ask(c)
    BY <1>6 DEF markFailed, Ends, Once!Ask
  <2> QED BY <2>1 DEF Once!Next
<1>7. ASSUME NEW k \in Keys,
             \/ leaseExpires(k) \/ retentionAges(k) \/ retentionExpires(k)
             \/ cleanupExpiredIdempotencyKeys(k)
      PROVE  UNCHANGED seen
  BY <1>7, TimeWrites DEF seen
<1>8. ASSUME NEW x \in Challenges, challengeExpires(x)
      PROVE  UNCHANGED seen
  BY <1>8 DEF challengeExpires, rowVars, callVars, seen
<1> QED BY <1>1, <1>2, <1>3, <1>4, <1>5, <1>6, <1>7, <1>8, ReservationMaps
        DEF Next, Proceed

(* For any number of callers the reserve, takeover, finalize and replay of *)
(* the idempotency protocol implement the promise of SubmitOnce.           *)
THEOREM ImplementsSubmitOnce == Spec => RefinesSubmitOnce
<1>1. Init => Once!Init
  BY DEF Init, Once!Init
<1>2. IInv /\ AInv /\ [Next]_vars => [Once!Next]_seen
  BY NextMaps
<1> QED BY <1>1, <1>2, AnswerInvariance, PTL
    DEF Spec, RefinesSubmitOnce, Once!Spec, seen

-----------------------------------------------------------------------------
(* The confirmation gate: what a gated request commits was confirmed for   *)
(* that key and that input, and a challenge that can still be presented    *)
(* has granted nothing.                                                    *)

(* A grant that a caller carries was given for its key and input.          *)
GrantBound ==
    \A c \in Callers : grant[c] # NoChallenge =>
        binding[grant[c]] = <<Key(c), Payload(c)>>

(* The grant stored on a row was given for its key and input.              *)
RowGrantBound ==
    \A k \in Keys : row[k].grant # NoChallenge =>
        /\ row[k].hash \in Payloads
        /\ binding[row[k].grant] = <<k, row[k].hash>>

(* The grant a committed effect ran under, if any, likewise.               *)
EffectsBound ==
    \A k \in Keys, w \in Windows : \A e \in effects[k][w] :
        e.grant # NoChallenge => binding[e.grant] = <<k, e.payload>>

(* Past the gate, a gated request carries a grant.                         *)
BeforeGrant == {"idle", "probe", "gate", "issue"}
PastGate ==
    \A c \in Callers : pc[c] \notin BeforeGrant /\ Gated(c) =>
        grant[c] # NoChallenge

(* Nothing is left of a grant between two requests.                        *)
IdleHasNoGrant == \A c \in Callers : pc[c] = "idle" => grant[c] = NoChallenge

(* What a gated request committed ran under a grant.                       *)
GatedHasGrant ==
    \A k \in Keys, w \in Windows : \A e \in effects[k][w] :
        e.gated => e.grant # NoChallenge

(* Redis holds challenges that were issued.                                *)
StoreIssued == \A x \in store : binding[x] # Unissued

GInv ==
    /\ GrantBound /\ RowGrantBound /\ EffectsBound /\ PastGate
    /\ IdleHasNoGrant /\ GatedHasGrant /\ StoreIssued /\ TokenUnspent

(* Whether GInv holds depends on these variables only.                     *)
LEMMA GInvDepends ==
  ASSUME GInv, UNCHANGED <<row, store, binding, pc, req, grant, effects>>
  PROVE  GInv'
BY DEF GInv, GrantBound, RowGrantBound, EffectsBound, PastGate, IdleHasNoGrant,
       GatedHasGrant, StoreIssued, TokenUnspent, Key, Payload, Gated

(* A request that ends gives up its grant.                                 *)
LEMMA EndsKeepsGInv ==
  ASSUME TypeOK, GInv, NEW c \in Callers, NEW told, Ends(c, told),
         UNCHANGED <<row, store, binding, effects>>
  PROVE  GInv'
<1> USE DEF GInv
<1>1. /\ \A d \in Callers : \/ pc'[d] = pc[d] /\ grant'[d] = grant[d]
                            \/ pc'[d] = "idle" /\ grant'[d] = NoChallenge
      /\ UNCHANGED req
  BY DEF Ends, Goto, TypeOK
<1>2. GrantBound' /\ PastGate' /\ IdleHasNoGrant'
  BY <1>1 DEF GrantBound, PastGate, IdleHasNoGrant, BeforeGrant, Key, Payload, Gated
<1>3. RowGrantBound' /\ EffectsBound' /\ GatedHasGrant' /\ StoreIssued'
  BY DEF RowGrantBound, EffectsBound, GatedHasGrant, StoreIssued
<1>4. TokenUnspent'
  <2>1. NoChallenge \notin store
    BY FreshAssumption DEF TypeOK
  <2> QED BY <1>1, <2>1 DEF TokenUnspent
<1> QED BY <1>2, <1>3, <1>4

(* A request goes on: past the gate only with a grant, and with one that   *)
(* is bound to it and can no longer be presented.                          *)
Moves(c) ==
    /\ pc' = [pc EXCEPT ![c] = pc'[c]] /\ pc'[c] # "idle"
    /\ \A d \in Callers : d # c => grant'[d] = grant[d]
    /\ grant'[c] # NoChallenge =>
          /\ binding[grant'[c]] = <<Key(c), Payload(c)>>
          /\ grant'[c] \notin store'
    /\ pc'[c] \notin BeforeGrant /\ Gated(c) => grant'[c] # NoChallenge
    /\ store' \subseteq store
    /\ UNCHANGED <<row, binding, effects, req>>

(* Such a step keeps GInv.                                                 *)
LEMMA MovesKeepsGInv ==
  ASSUME TypeOK, GInv, NEW c \in Callers, Moves(c)
  PROVE  GInv'
<1> USE DEF GInv, Moves
<1>1. \A d \in Callers : d # c => pc'[d] = pc[d] /\ grant'[d] = grant[d]
  BY DEF TypeOK
<1>2. GrantBound' /\ PastGate' /\ IdleHasNoGrant'
  BY <1>1 DEF GrantBound, PastGate, IdleHasNoGrant, BeforeGrant, Key, Payload, Gated
<1>3. RowGrantBound' /\ EffectsBound' /\ GatedHasGrant' /\ StoreIssued'
  BY DEF RowGrantBound, EffectsBound, GatedHasGrant, StoreIssued
<1>4. TokenUnspent'
  <2>1. NoChallenge \notin store
    BY FreshAssumption DEF TypeOK
  <2> QED BY <1>1, <2>1 DEF TokenUnspent
<1> QED BY <1>2, <1>3, <1>4

(* A request that goes on with the grant it has.                           *)
LEMMA KeepingMoves ==
  ASSUME TypeOK, GInv, NEW c \in Callers,
         pc' = [pc EXCEPT ![c] = pc'[c]], pc'[c] # "idle",
         pc'[c] \notin BeforeGrant /\ Gated(c) => pc[c] \notin BeforeGrant,
         UNCHANGED <<row, store, binding, effects, req, grant>>
  PROVE  Moves(c)
BY DEF GInv, Moves, GrantBound, TokenUnspent, PastGate

(* The submission, the gate and the reads of reserve keep GInv.            *)
LEMMA GateKeepsGInv ==
  ASSUME IInv, AInv, GInv, NEW c \in Callers,
         \/ Submit(c) \/ probe(c) \/ gate(c) \/ repreview(c)
         \/ reserveRead(c) \/ resolveLostTakeover(c) \/ abandon(c)
  PROVE  GInv'
<1> USE DEF IInv
<1> DEFINE r == row[Key(c)]
<1>0. /\ Key(c) \in Keys /\ r.grant \in Challenges \cup {NoChallenge}
      /\ NoChallenge \notin Challenges /\ store \subseteq Challenges
      /\ live \subseteq Challenges /\ grant[c] \in Challenges \cup {NoChallenge}
  BY ResponseTyped, FreshAssumption DEF TypeOK, RowType
<1>1. CASE Submit(c)
  <2>1. PICK q \in Requests[c], mode \in Modes, d \in Shares[c] :
          /\ req' = [req EXCEPT ![c] = Request(q[1], q[2], mode, offer[d])]
          /\ Goto(c, IF mode = "plain" THEN "insert" ELSE "probe")
    BY <1>1 DEF Submit
  <2>2. req'[c].mode = mode
    BY <2>1 DEF TypeOK, Request
  <2>3. pc'[c] = "probe" \/ (pc'[c] = "insert" /\ req'[c].mode = "plain")
    BY <2>1, <2>2 DEF Goto, TypeOK
  <2>4. /\ grant[c] = NoChallenge /\ UNCHANGED <<row, store, binding, grant, effects>>
        /\ \A b \in Callers : b # c => req'[b] = req[b] /\ pc'[b] = pc[b]
    <3>1. grant[c] = NoChallenge
      BY <1>1 DEF Submit, GInv, IdleHasNoGrant
    <3>2. UNCHANGED <<row, store, binding, grant, effects>>
      BY <1>1 DEF Submit, rowVars, tokenVars
    <3>3. \A b \in Callers : b # c => req'[b] = req[b] /\ pc'[b] = pc[b]
      BY <2>1 DEF Goto, TypeOK
    <3> QED BY <3>1, <3>2, <3>3
  <2>5. GrantBound' /\ PastGate' /\ IdleHasNoGrant'
    BY <2>3, <2>4 DEF GInv, GrantBound, PastGate, IdleHasNoGrant, BeforeGrant,
                      Key, Payload, Gated
  <2>6. RowGrantBound' /\ EffectsBound' /\ GatedHasGrant' /\ StoreIssued' /\ TokenUnspent'
    BY <2>4 DEF GInv, RowGrantBound, EffectsBound, GatedHasGrant, StoreIssued,
                TokenUnspent
  <2> QED BY <2>5, <2>6 DEF GInv
<1>2. CASE probe(c)
  <2>1. UNCHANGED <<row, store, binding, effects>>
    BY <1>2 DEF probe, rowVars, tokenVars
  <2>2. CASE \E told : Ends(c, told)
    BY <2>1, <2>2, EndsKeepsGInv
  <2>3. CASE Goto(c, "gate") /\ UNCHANGED <<req, grant>>
    BY <2>1, <2>3, KeepingMoves, MovesKeepsGInv DEF Goto, TypeOK, BeforeGrant
  <2>4. CASE /\ ~Conflicting(r, c) /\ Retained(r)
             /\ Goto(c, IF Resumable(r, c) THEN "insert" ELSE "gate")
             /\ grant' = [grant EXCEPT ![c] =
                            IF Resumable(r, c) THEN r.grant ELSE NoChallenge]
             /\ UNCHANGED req
    <3>1. CASE Resumable(r, c)
      <4>1. /\ pc'[c] = "insert" /\ pc' = [pc EXCEPT ![c] = pc'[c]]
            /\ grant'[c] = r.grant
            /\ \A d \in Callers : d # c => grant'[d] = grant[d]
        BY <2>4, <3>1 DEF Goto, TypeOK
      <4>2. r.status # "absent"
        BY <1>0, <2>4 DEF RowIds, Absent, Row, Retained
      <4>3. r.grant # NoChallenge /\ r.hash = Payload(c)
        BY <1>0, <2>4, <3>1, <4>2 DEF Resumable, Conflicting
      <4>4. binding[r.grant] = <<Key(c), Payload(c)>> /\ r.grant \notin store
        BY <1>0, <4>3 DEF GInv, RowGrantBound, TokenUnspent
      <4>5. Moves(c)
        BY <2>1, <2>4, <4>1, <4>3, <4>4 DEF Moves
      <4> QED BY <4>5, MovesKeepsGInv
    <3>2. CASE ~Resumable(r, c)
      <4>1. Moves(c)
        BY <2>1, <2>4, <3>2 DEF Moves, Goto, TypeOK, BeforeGrant
      <4> QED BY <4>1, MovesKeepsGInv
    <3> QED BY <3>1, <3>2
  <2> QED BY <1>2, <2>2, <2>3, <2>4 DEF probe
<1>3. CASE gate(c)
  <2> DEFINE x == req[c].challenge
  <2>1. UNCHANGED <<row, binding, effects, req>>
    BY <1>3 DEF gate, rowVars
  <2>2. CASE req[c].mode = "only" \/ x = NoChallenge
    <3>1. Goto(c, "issue") /\ UNCHANGED <<store, grant>>
      BY <1>3, <2>2 DEF gate
    <3> QED BY <2>1, <3>1, KeepingMoves, MovesKeepsGInv DEF Goto, TypeOK, BeforeGrant
  <2>3. CASE ~(req[c].mode = "only" \/ x = NoChallenge)
    <3>1. /\ store' = store \ {x}
          /\ Goto(c, IF ~Redeems(c, x) THEN "issue"
                     ELSE IF BindsPreview THEN "preview" ELSE "insert")
          /\ grant' = [grant EXCEPT ![c] =
                         IF Redeems(c, x) THEN x ELSE NoChallenge]
      BY <1>3, <2>3 DEF gate, getAndDelete
    <3>2. /\ pc' = [pc EXCEPT ![c] = pc'[c]] /\ pc'[c] # "idle"
          /\ \A d \in Callers : d # c => grant'[d] = grant[d]
      BY <3>1 DEF Goto, TypeOK
    <3>3. CASE Redeems(c, x)
      <4>1. grant'[c] = x
        BY <3>1, <3>3 DEF TypeOK
      <4>2. binding[x] = <<Key(c), Payload(c)>> /\ x # NoChallenge
        BY <1>0, <3>3 DEF Redeems, Bindings
      <4>3. Moves(c)
        BY <2>1, <3>1, <3>2, <4>1, <4>2 DEF Moves
      <4> QED BY <4>3, MovesKeepsGInv
    <3>4. CASE ~Redeems(c, x)
      <4>1. grant'[c] = NoChallenge /\ pc'[c] = "issue"
        BY <3>1, <3>4 DEF Goto, TypeOK
      <4>2. Moves(c)
        BY <2>1, <3>1, <3>2, <4>1 DEF Moves, BeforeGrant
      <4> QED BY <4>2, MovesKeepsGInv
    <3> QED BY <3>3, <3>4
  <2> QED BY <2>2, <2>3
<1>4. CASE repreview(c)
  <2>1. UNCHANGED <<row, store, binding, effects, req>> /\ pc[c] = "preview"
    BY <1>4 DEF repreview, rowVars, tokenVars
  <2>2. CASE Goto(c, "insert") /\ UNCHANGED grant
    BY <2>1, <2>2, KeepingMoves, MovesKeepsGInv DEF Goto, TypeOK, BeforeGrant
  <2>3. CASE Goto(c, "issue") /\ grant' = [grant EXCEPT ![c] = NoChallenge]
    <3>1. Moves(c)
      BY <2>1, <2>3 DEF Moves, Goto, TypeOK, BeforeGrant
    <3> QED BY <3>1, MovesKeepsGInv
  <2> QED BY <1>4, <2>2, <2>3 DEF repreview
<1>5. CASE reserveRead(c)
  <2>1. UNCHANGED <<row, store, binding, effects>> /\ pc[c] \in {"read", "reread"}
    BY <1>5 DEF reserveRead, rowVars, tokenVars
  <2>2. CASE \E told : Ends(c, told)
    BY <2>1, <2>2, EndsKeepsGInv
  <2>3. CASE \E phase \in {"reinsert", "reuse", "takeover"} :
                Goto(c, phase) /\ UNCHANGED <<req, grant>>
    BY <2>1, <2>3, KeepingMoves, MovesKeepsGInv DEF Goto, TypeOK, BeforeGrant
  <2> QED BY <1>5, <2>2, <2>3 DEF reserveRead
<1>6. CASE resolveLostTakeover(c)
  BY <1>6, EndsKeepsGInv DEF resolveLostTakeover, rowVars, tokenVars
<1>7. CASE abandon(c)
  BY <1>7, EndsKeepsGInv DEF abandon, rowVars, tokenVars
<1> QED BY <1>1, <1>2, <1>3, <1>4, <1>5, <1>6, <1>7

(* A challenge is issued under an id that has granted nothing.             *)
LEMMA IssueKeepsGInv ==
  ASSUME IInv, GInv, NEW c \in Callers, issueChallenge(c)
  PROVE  GInv'
<1> USE DEF IInv
<1>1. Ends(c, NoAnswer) /\ UNCHANGED <<row, effects>>
  BY DEF issueChallenge, rowVars
<1>2. CASE UNCHANGED tokenVars
  BY <1>1, <1>2, EndsKeepsGInv DEF tokenVars
<1>3. CASE \E y \in Challenges : binding[y] = Unissued
  <2> DEFINE x == NewChallenge
  <2>1. /\ x \in Challenges /\ binding[x] = Unissued
        /\ store' = store \cup {x}
        /\ binding' = [binding EXCEPT ![x] = Bindings(c)]
    BY <1>3, ChallengeFresh DEF issueChallenge
  <2>2. \A k \in Keys, p \in Payloads : <<k, p>> # Unissued
    BY FreshAssumption
  <2>3. Bindings(c) # Unissued
    BY <2>2, ResponseTyped DEF Bindings
  <2> HIDE DEF x
  <2>4. /\ \A y \in Challenges : y # x => binding'[y] = binding[y]
        /\ binding'[x] # Unissued
    BY <2>1, <2>3 DEF TypeOK
  <2>5. x # NoChallenge /\ NoChallenge \notin store
    BY <2>1, FreshAssumption DEF TypeOK
  <2>6. \A d \in Callers : grant[d] # x
    BY <2>1, <2>2, <2>5, ResponseTyped DEF GInv, GrantBound
  <2>7. \A k \in Keys : row[k].grant # x
    BY <2>1, <2>2, <2>5 DEF GInv, RowGrantBound
  <2>8. \A k \in Keys, w \in Windows : \A e \in effects[k][w] :
           e.grant # x /\ e.grant \in Challenges \cup {NoChallenge}
    <3> SUFFICES ASSUME NEW k \in Keys, NEW w \in Windows, NEW e \in effects[k][w]
                 PROVE  e.grant # x /\ e.grant \in Challenges \cup {NoChallenge}
      OBVIOUS
    <3>1. e \in Effects
      BY DEF TypeOK
    <3>2. e.payload \in Payloads /\ e.grant \in Challenges \cup {NoChallenge}
      BY <3>1 DEF Effects
    <3> QED BY <2>1, <2>2, <2>5, <3>2 DEF GInv, EffectsBound
  <2>9. /\ \A d \in Callers : \/ pc'[d] = pc[d] /\ grant'[d] = grant[d]
                              \/ pc'[d] = "idle" /\ grant'[d] = NoChallenge
        /\ UNCHANGED req
    BY <1>1 DEF Ends, Goto, TypeOK
  <2>10. GrantBound'
    <3>1. \A d \in Callers : grant[d] \in Challenges \cup {NoChallenge}
      BY DEF TypeOK
    <3> QED BY <2>4, <2>6, <2>9, <3>1 DEF GInv, GrantBound, Key, Payload
  <2>11. RowGrantBound'
    <3>1. \A k \in Keys : row[k].grant \in Challenges \cup {NoChallenge}
      BY DEF TypeOK, RowType
    <3> QED BY <1>1, <2>4, <2>7, <3>1 DEF GInv, RowGrantBound
  <2>12. EffectsBound'
    BY <1>1, <2>4, <2>8 DEF GInv, EffectsBound
  <2>13. PastGate' /\ IdleHasNoGrant' /\ GatedHasGrant'
    BY <1>1, <2>9 DEF GInv, PastGate, IdleHasNoGrant, GatedHasGrant, BeforeGrant, Gated
  <2>14. StoreIssued'
    BY <2>1, <2>4 DEF GInv, StoreIssued, TypeOK
  <2>15. TokenUnspent'
    BY <1>1, <2>1, <2>5, <2>6, <2>7, <2>8, <2>9 DEF GInv, TokenUnspent
  <2> QED BY <2>10, <2>11, <2>12, <2>13, <2>14, <2>15 DEF GInv
<1> QED BY <1>2, <1>3 DEF issueChallenge

(* A reservation moves the caller's grant onto the row, or keeps the one   *)
(* the row had for the same input.                                         *)
LEMMA ReservationsKeepGInv ==
  ASSUME IInv, AInv, GInv, NEW c \in Callers, reserveInsert(c) \/ takeover(c)
  PROVE  GInv'
<1> USE DEF IInv, AInv
<1> DEFINE k == Key(c)  r == row[Key(c)]
<1>0. k \in Keys /\ Payload(c) \in Payloads /\ pc[c] \notin BeforeGrant
  BY ResponseTyped DEF reserveInsert, takeover, BeforeGrant
<1>1. UNCHANGED <<store, binding, effects, req, grant>>
  BY DEF reserveInsert, takeover, Reserves, tokenVars
<1>2. CASE \/ reserveInsert(c) /\ r.status # "absent"
           \/ takeover(c) /\ ~(r.attempt = att[c] /\ Reclaimable(r, c))
  <2>1. /\ pc' = [pc EXCEPT ![c] = pc'[c]] /\ pc'[c] # "idle" /\ UNCHANGED row
    BY <1>2 DEF reserveInsert, takeover, Goto, TypeOK, rowVars
  <2> QED BY <1>0, <1>1, <2>1, KeepingMoves, MovesKeepsGInv
<1>3. ASSUME \A j \in Keys : j # k => row'[j] = row[j],
             row'[k].hash = Payload(c),
             row'[k].grant # NoChallenge =>
               \/ row'[k].grant = grant[c]
               \/ row'[k].grant = r.grant /\ r.hash = Payload(c),
             Goto(c, "running")
      PROVE  GInv'
  <2>1. \A d \in Callers : IF d = c THEN pc'[d] = "running" ELSE pc'[d] = pc[d]
    BY <1>3 DEF Goto, TypeOK
  <2>2. GrantBound' /\ IdleHasNoGrant' /\ PastGate'
    BY <1>0, <1>1, <2>1 DEF GInv, GrantBound, IdleHasNoGrant, PastGate,
                            BeforeGrant, Key, Payload, Gated
  <2>3. EffectsBound' /\ GatedHasGrant' /\ StoreIssued'
    BY <1>1 DEF GInv, EffectsBound, GatedHasGrant, StoreIssued
  <2>4. RowGrantBound'
    <3> SUFFICES ASSUME NEW j \in Keys, row'[j].grant # NoChallenge
                 PROVE  /\ row'[j].hash \in Payloads
                        /\ binding[row'[j].grant] = <<j, row'[j].hash>>
      BY <1>1 DEF RowGrantBound
    <3>1. CASE j # k
      BY <1>3, <3>1 DEF GInv, RowGrantBound
    <3>2. CASE j = k
      BY <1>0, <1>3, <3>2 DEF GInv, RowGrantBound, GrantBound
    <3> QED BY <3>1, <3>2
  <2>5. TokenUnspent'
    <3> SUFFICES ASSUME NEW x \in store, NEW j \in Keys
                 PROVE  row'[j].grant # x
      BY <1>1 DEF GInv, TokenUnspent
    <3>1. x # NoChallenge
      BY FreshAssumption DEF TypeOK
    <3>2. CASE j # k
      BY <1>3, <3>2 DEF GInv, TokenUnspent
    <3>3. CASE j = k
      BY <1>0, <1>3, <3>1, <3>3 DEF GInv, TokenUnspent
    <3> QED BY <3>2, <3>3
  <2> QED BY <2>2, <2>3, <2>4, <2>5 DEF GInv
<1>4. CASE reserveInsert(c) /\ r.status = "absent"
  <2>1. row'[k] = Row("in_progress", NewAttempt, Payload(c), TRUE, "new",
                      grant[c], NoAnswer)
        /\ \A j \in Keys : j # k => row'[j] = row[j]
    BY <1>0, <1>4 DEF reserveInsert, TypeOK
  <2>2. Goto(c, "running")
    BY <1>4 DEF reserveInsert, Reserves
  <2> QED BY <1>3, <2>1, <2>2 DEF Row
<1>5. CASE takeover(c) /\ r.attempt = att[c] /\ Reclaimable(r, c)
  <2>1. row'[k] = TakenOver(r, c, NewAttempt)
        /\ \A j \in Keys : j # k => row'[j] = row[j]
    BY <1>0, <1>5 DEF takeover, TypeOK
  <2>2. Goto(c, "running")
    BY <1>5 DEF takeover, Reserves
  <2>3. pc[c] = "reuse" \/ r.hash = Payload(c)
    BY <1>5 DEF takeover, HashKnown
  <2> QED BY <1>3, <2>1, <2>2, <2>3 DEF TakenOver, Row
<1> QED BY <1>2, <1>4, <1>5

(* COMMIT publishes an effect under the grant of its caller.               *)
LEMMA CommitKeepsGInv ==
  ASSUME IInv, AInv, GInv, NEW c \in Callers, pc[c] = "committing", Commits(c),
         UNCHANGED <<store, binding, req>>,
         \A d \in Callers : \/ grant'[d] = grant[d] /\ pc'[d] = pc[d]
                            \/ grant'[d] = NoChallenge /\ pc'[d] = "idle"
                            \/ d = c /\ grant'[d] = grant[d] /\ pc'[d] = "failing"
  PROVE  GInv'
<1> USE DEF IInv
<1> DEFINE k == Key(c)
           e == Effect(att[c], Payload(c), grant[c], Gated(c))
<1>1. /\ k \in Keys /\ e \in Effects
      /\ effects[k][window[k]] = {} /\ window[k] \in Windows
      /\ effects' = [effects EXCEPT ![k] = [effects[k] EXCEPT ![window[k]] = {e}]]
      /\ row'[k].hash = row[k].hash /\ row'[k].grant = row[k].grant
      /\ \A j \in Keys : j # k => row'[j] = row[j]
  BY CommitsStores
<1>2. e.payload = Payload(c) /\ e.grant = grant[c] /\ e.gated = Gated(c)
  BY DEF Effect
<1> HIDE DEF e
<1>3. \A j \in Keys, v \in Windows :
         effects'[j][v] = effects[j][v] \/ (j = k /\ effects'[j][v] = {e})
  <2>1. effects[k] \in [Windows -> SUBSET Effects]
    BY <1>1 DEF TypeOK
  <2>2. effects'[k] = [effects[k] EXCEPT ![window[k]] = {e}]
        /\ \A j \in Keys : j # k => effects'[j] = effects[j]
    BY <1>1 DEF TypeOK
  <2> QED BY <1>1, <2>1, <2>2
<1>4. pc[c] \notin BeforeGrant /\ NoChallenge \notin store
  BY FreshAssumption DEF BeforeGrant, TypeOK
<1>5. GrantBound' /\ IdleHasNoGrant' /\ PastGate'
  BY <1>4 DEF GInv, GrantBound, IdleHasNoGrant, PastGate, BeforeGrant, Key,
              Payload, Gated
<1>6. RowGrantBound' /\ StoreIssued'
  <2>1. \A j \in Keys : row'[j].hash = row[j].hash /\ row'[j].grant = row[j].grant
    BY <1>1
  <2>2. RowGrantBound'
    BY <2>1 DEF GInv, RowGrantBound
  <2>3. StoreIssued'
    BY DEF GInv, StoreIssued
  <2> QED BY <2>2, <2>3
<1>7. EffectsBound'
  <2> SUFFICES ASSUME NEW j \in Keys, NEW v \in Windows, NEW f \in effects'[j][v],
                      f.grant # NoChallenge
               PROVE  binding[f.grant] = <<j, f.payload>>
    BY DEF EffectsBound
  <2>1. CASE f \in effects[j][v]
    BY <2>1 DEF GInv, EffectsBound
  <2>2. CASE f \notin effects[j][v]
    <3>1. j = k /\ f = e
      BY <1>3, <2>2
    <3> QED BY <1>2, <3>1 DEF GInv, GrantBound
  <2> QED BY <2>1, <2>2
<1>8. GatedHasGrant'
  BY <1>2, <1>3, <1>4 DEF GInv, GatedHasGrant, PastGate
<1>9. TokenUnspent'
  <2>1. \A x \in store : \A j \in Keys, v \in Windows :
           \A f \in effects'[j][v] : f.grant # x
    BY <1>2, <1>3 DEF GInv, TokenUnspent
  <2>2. \A j \in Keys : row'[j].grant = row[j].grant
    BY <1>1
  <2> QED BY <1>4, <2>1, <2>2 DEF GInv, TokenUnspent
<1> QED BY <1>5, <1>6, <1>7, <1>8, <1>9 DEF GInv

(* The execution transaction and the failure path keep GInv.               *)
LEMMA ExecutionKeepsGInv ==
  ASSUME IInv, AInv, GInv, NEW c \in Callers,
         \/ finalize(c) \/ commit(c) \/ markFailed(c)
         \/ executeThrows(c) \/ commitThrows(c)
  PROVE  GInv'
<1> USE DEF IInv
<1>1. CASE \/ finalize(c) \/ executeThrows(c)
           \/ commitThrows(c) /\ UNCHANGED <<row, effects>>
  <2>1. /\ pc' = [pc EXCEPT ![c] = pc'[c]] /\ pc'[c] # "idle"
        /\ pc[c] \notin BeforeGrant
        /\ UNCHANGED <<row, store, binding, effects, req, grant>>
    BY <1>1 DEF finalize, executeThrows, commitThrows, Goto, TypeOK, rowVars,
                tokenVars, BeforeGrant
  <2> QED BY <2>1, KeepingMoves, MovesKeepsGInv
<1>2. CASE commit(c)
  <2>1. /\ UNCHANGED <<store, binding, req>>
        /\ \A d \in Callers : \/ grant'[d] = grant[d] /\ pc'[d] = pc[d]
                              \/ grant'[d] = NoChallenge /\ pc'[d] = "idle"
    BY <1>2 DEF commit, Ends, Goto, TypeOK, tokenVars
  <2> QED BY <1>2, <2>1, CommitKeepsGInv DEF commit
<1>3. CASE commitThrows(c) /\ Commits(c)
  <2>1. /\ UNCHANGED <<store, binding, req, grant>>
        /\ \A d \in Callers : pc'[d] = pc[d] \/ (d = c /\ pc'[d] = "failing")
    BY <1>3 DEF commitThrows, Goto, TypeOK, tokenVars
  <2> QED BY <1>3, <2>1, CommitKeepsGInv DEF commitThrows
<1>4. CASE markFailed(c)
  <2>1. \A j \in Keys : row'[j].grant = row[j].grant /\ row'[j].hash = row[j].hash
    BY <1>4, MarkFailedWrites
  <2>2. /\ UNCHANGED <<store, binding, req, effects>>
        /\ \A d \in Callers : \/ grant'[d] = grant[d] /\ pc'[d] = pc[d]
                              \/ grant'[d] = NoChallenge /\ pc'[d] = "idle"
    BY <1>4 DEF markFailed, Ends, Goto, TypeOK, tokenVars
  <2>3. GrantBound' /\ IdleHasNoGrant' /\ PastGate'
    BY <2>2 DEF GInv, GrantBound, IdleHasNoGrant, PastGate, BeforeGrant, Key,
                Payload, Gated
  <2>4. RowGrantBound' /\ StoreIssued' /\ EffectsBound' /\ GatedHasGrant'
    BY <2>1, <2>2 DEF GInv, RowGrantBound, StoreIssued, EffectsBound, GatedHasGrant
  <2>5. TokenUnspent'
    <3>1. NoChallenge \notin store
      BY FreshAssumption DEF TypeOK
    <3> QED BY <2>1, <2>2, <3>1 DEF GInv, TokenUnspent
  <2> QED BY <2>3, <2>4, <2>5 DEF GInv
<1> QED BY <1>1, <1>2, <1>3, <1>4 DEF commitThrows

(* Time and the retention job keep GInv.                                   *)
LEMMA TimeKeepsGInv ==
  ASSUME IInv, GInv, NEW k \in Keys,
         \/ leaseExpires(k) \/ retentionAges(k) \/ retentionExpires(k)
         \/ cleanupExpiredIdempotencyKeys(k)
  PROVE  GInv'
<1> USE DEF IInv
<1>1. /\ UNCHANGED <<pc, req, effects, grant, store, binding>>
      /\ \A j \in Keys : j # k => row'[j] = row[j]
      /\ \/ row'[k] = Absent
         \/ row'[k].hash = row[k].hash /\ row'[k].grant = row[k].grant
  BY TimeWrites
<1>2. Absent.grant = NoChallenge
  BY DEF Absent, Row
<1>3. GrantBound' /\ EffectsBound' /\ PastGate' /\ IdleHasNoGrant'
      /\ GatedHasGrant' /\ StoreIssued'
  BY <1>1 DEF GInv, GrantBound, EffectsBound, PastGate, IdleHasNoGrant,
              GatedHasGrant, StoreIssued, Key, Payload, Gated
<1>4. RowGrantBound'
  BY <1>1, <1>2 DEF GInv, RowGrantBound
<1>5. TokenUnspent'
  <2>1. NoChallenge \notin store
    BY FreshAssumption DEF TypeOK
  <2> QED BY <1>1, <1>2, <2>1 DEF GInv, TokenUnspent
<1> QED BY <1>3, <1>4, <1>5 DEF GInv

(* GInv is inductive relative to IInv and AInv.                            *)
LEMMA NextKeepsGInv ==
  ASSUME IInv, AInv, GInv, [Next]_vars
  PROVE  GInv'
<1>1. CASE UNCHANGED vars
  BY <1>1, GInvDepends DEF vars
<1>2. ASSUME NEW x \in Challenges, challengeExpires(x)
      PROVE  GInv'
  BY <1>2, GInvDepends DEF challengeExpires, rowVars, callVars
<1> QED BY <1>1, <1>2, GateKeepsGInv, IssueKeepsGInv, ReservationsKeepGInv,
           ExecutionKeepsGInv, TimeKeepsGInv DEF Next, Proceed

(* GInv holds in every reachable state.                                    *)
LEMMA GrantInvariance == Spec => [](IInv /\ AInv /\ GInv)
<1>1. Init => GInv
  BY DEF Init, GInv, GrantBound, RowGrantBound, EffectsBound, PastGate,
         IdleHasNoGrant, GatedHasGrant, StoreIssued, TokenUnspent, BeforeGrant,
         Absent, Row
<1>2. IInv /\ AInv /\ GInv /\ [Next]_vars => GInv'
  BY NextKeepsGInv
<1> QED BY <1>1, <1>2, AnswerInvariance, PTL DEF Spec

(* No gated request commits without a confirmation given for exactly its   *)
(* key and input, whether it presented the challenge itself or resumed     *)
(* under the grant that an earlier attempt left on the row.                *)
THEOREM ConfirmedForThisInput == Spec => []GatedEffectsConfirmed
<1>1. IInv /\ GInv => GatedEffectsConfirmed
  <2> SUFFICES ASSUME IInv, GInv, NEW k \in Keys, NEW w \in Windows,
                      NEW e \in effects[k][w], e.gated
               PROVE  e.grant \in Challenges /\ binding[e.grant] = <<k, e.payload>>
    BY DEF GatedEffectsConfirmed
  <2>1. e \in Effects
    BY DEF IInv, TypeOK
  <2>2. e.grant \in Challenges \cup {NoChallenge}
    BY <2>1 DEF Effects
  <2> QED BY <2>2 DEF GInv, GatedHasGrant, EffectsBound
<1> QED BY <1>1, GrantInvariance, PTL

(* A challenge that Redis still holds has granted nothing: GETDEL takes it *)
(* out before the grant exists, so it cannot be presented a second time.   *)
THEOREM StoredTokenUnspent == Spec => []TokenUnspent
<1>1. GInv => TokenUnspent
  BY DEF GInv
<1> QED BY <1>1, GrantInvariance, PTL

=============================================================================
