--------------------------- MODULE PipelineProofs ---------------------------
(***************************************************************************)
(* Two gates of the action pipeline.  The execution transaction, for any   *)
(* number of calls and clients and whichever handlers ignore their signal: *)
(* an action that succeeded has all of its writes, unless its transaction  *)
(* was broken behind its back, and none then; one that failed and heeds    *)
(* its signal has none.  The rate limit, for any number of requests, *)
(* processes and keys and any policy: a bucket lets through its capacity   *)
(* and its refill, and what passes unmetered is a read.                    *)
(***************************************************************************)
EXTENDS ExecutionTx, RateLimit, FiniteSetTheorems, TLAPS

-----------------------------------------------------------------------------
(* The execution transaction: the inductive invariant.                     *)

InTx == {"opening", "handler", "returned", "recorded", "rollingBack"}

(* A call in its transaction has its client to itself; a handler that runs *)
(* has had one.                                                            *)
HoldsClient ==
    \A c \in Calls :
        /\ step[c] \in InTx => handle[c] \in Clients /\ owner[handle[c]] = c
        /\ handler[c] => handle[c] \in Clients

(* A handler runs from its start until it ends; past the end of its step   *)
(* its signal has fired.                                                   *)
HandlerRuns ==
    \A c \in Calls :
        /\ step[c] = "handler" => handler[c]
        /\ handler[c] => \/ step[c] = "handler"
                         \/ step[c] \in {"rollingBack", "failed"} /\ aborted[c]
        /\ step[c] \in {"new", "opening"} => sent[c] = 0 /\ ~aborted[c]

(* Whatever is written somewhere was sent.                                 *)
WrittenWasSent ==
    /\ \A w \in database : w[2] <= sent[w[1]]
    /\ \A p \in Clients : \A w \in work[p] : w[2] <= sent[w[1]]

(* The steps up to the end of the transaction; of a deaf handler, up to    *)
(* its deadline only.                                                      *)
Undecided(c) ==
    {"new", "opening", "handler", "returned", "recorded"} \cup
        (IF c \in Deaf THEN {} ELSE {"rollingBack"})

(* Until then its writes are on its own client and nowhere else.           *)
Contained ==
    \A c \in Calls : step[c] \in Undecided(c) =>
        /\ \A w \in database : w[1] # c
        /\ \A p \in Clients : \A w \in work[p] :
              w[1] = c => p = handle[c] /\ owner[p] = c

(* All of them are there, and at the commit all or none of them go to the  *)
(* database.                                                               *)
Committed(c) == \A i \in 1 .. sent[c] : <<c, i>> \in database
Nowhere(c) == /\ \A w \in database : w[1] # c
              /\ \A p \in Clients : \A w \in work[p] : w[1] # c

Complete ==
    \A c \in Calls :
        /\ step[c] \in {"opening", "handler", "returned", "recorded"} =>
              \A i \in 1 .. sent[c] : <<c, i>> \in work[handle[c]]
        /\ step[c] = "done" =>
              \/ Committed(c)
              \/ Nowhere(c) /\ (c \in Recorded => Outlived(c))

(* A transaction whose last statement went through was broken by a handler *)
(* that outlived its own.                                                  *)
BrokenLate ==
    \A c \in Recorded :
        step[c] = "recorded" /\ handle[c] \in broken => Outlived(c)

(* Nothing is left of a failed call that heeds its signal.                 *)
NoTrace ==
    \A c \in Calls \ Deaf : step[c] = "failed" => Nowhere(c)

TInv ==
    /\ TypeOK /\ HoldsClient /\ HandlerRuns /\ WrittenWasSent
    /\ Contained /\ Complete /\ BrokenLate /\ NoTrace

-----------------------------------------------------------------------------
(* What is written names a call and a place in its handler.                *)
LEMMA WriteTyped ==
  ASSUME TypeOK
  PROVE  /\ \A w \in database : w[1] \in Calls /\ w[2] \in Nat /\ 1 <= w[2]
         /\ \A w \in database : w = <<w[1], w[2]>>
         /\ \A p \in Clients : \A w \in work[p] :
               w[1] \in Calls /\ w[2] \in Nat /\ 1 <= w[2]
BY DEF TypeOK, Write

LEMMA InitTInv == TxAssumption /\ Init => TInv
<1> SUFFICES ASSUME TxAssumption, Init PROVE TInv
  OBVIOUS
<1>1. TypeOK
  BY DEF Init, TypeOK, Steps, TxAssumption
<1>2. HoldsClient /\ HandlerRuns /\ WrittenWasSent
  BY DEF Init, HoldsClient, HandlerRuns, WrittenWasSent, InTx
<1>3. Contained /\ Complete /\ BrokenLate /\ NoTrace
  BY DEF Init, Contained, Complete, BrokenLate, NoTrace, Undecided, TxAssumption
<1> QED BY <1>1, <1>2, <1>3 DEF TInv

(* A handler that has outlived its deadline stays where it is.             *)
LEMMA OutlivedStays ==
  ASSUME TxAssumption, NEW c \in Calls, Outlived(c), handle'[c] = handle[c],
         \A d \in Calls : aborted[d] => aborted'[d] /\ handle'[d] = handle[d]
  PROVE  Outlived(c)'
<1>1. PICK d \in Deaf \ {c} : aborted[d] /\ handle[d] = handle[c]
  BY DEF Outlived
<1>2. d \in Calls
  BY DEF TxAssumption
<1> QED BY <1>1, <1>2 DEF Outlived

(* Steps that move one call only: no client, write or statement.           *)
LEMMA MovesKeepTInv ==
  ASSUME TxAssumption, TInv, NEW c \in Calls,
         \/ openFails(c) \/ startHandler(c) \/ refuse(c) \/ expire(c)
         \/ handlerEnds(c) \/ failAfter(c) \/ record(c)
  PROVE  TInv'
<1> USE DEF TInv
<1>1. UNCHANGED <<handle, sent, owner, work, broken, database>>
  BY DEF openFails, startHandler, refuse, expire, handlerEnds, failAfter, record
<1>2. \A d \in Calls : d # c =>
        step'[d] = step[d] /\ handler'[d] = handler[d] /\ aborted'[d] = aborted[d]
  BY DEF openFails, startHandler, refuse, expire, handlerEnds, failAfter, record,
         At, Settles, TypeOK
<1>3. \/ /\ step[c] = "new" /\ step'[c] = "failed"
         /\ handler'[c] = handler[c] /\ aborted'[c] = aborted[c]
      \/ /\ step[c] = "opening" /\ step'[c] = "handler"
         /\ handler'[c] = TRUE /\ aborted'[c] = aborted[c]
      \/ /\ step[c] \in {"opening", "returned"} /\ step'[c] = "rollingBack"
         /\ handler'[c] = handler[c] /\ aborted'[c] = aborted[c]
      \/ /\ step[c] = "handler" /\ step'[c] = "rollingBack"
         /\ handler'[c] = handler[c] /\ aborted'[c] = TRUE
      \/ /\ step[c] = "handler" /\ step'[c] \in {"returned", "rollingBack"}
         /\ handler'[c] = FALSE /\ aborted'[c] = aborted[c]
      \/ /\ step[c] = "returned" /\ step'[c] = "recorded"
         /\ c \in Recorded => handle[c] \notin broken
         /\ handler'[c] = handler[c] /\ aborted'[c] = aborted[c]
      \/ /\ step[c] # "handler" /\ step'[c] = step[c]
         /\ handler'[c] = FALSE /\ aborted'[c] = aborted[c]
  BY DEF openFails, startHandler, refuse, expire, handlerEnds, failAfter, record,
         At, Settles, TypeOK
<1>4. TypeOK'
  BY <1>1 DEF openFails, startHandler, refuse, expire, handlerEnds, failAfter,
              record, At, Settles, TypeOK, Steps
<1>5. HoldsClient'
  BY <1>1, <1>2, <1>3 DEF HoldsClient, InTx
<1>6. HandlerRuns'
  BY <1>1, <1>2, <1>3 DEF HandlerRuns
<1>7. WrittenWasSent'
  BY <1>1 DEF WrittenWasSent
<1>8. Contained'
  BY <1>1, <1>2, <1>3 DEF Contained, Undecided
<1>9. \A d \in Calls : Outlived(d) => Outlived(d)'
  BY <1>1, <1>2, <1>3, OutlivedStays
<1>10. Complete'
  BY <1>1, <1>2, <1>3, <1>9 DEF Complete, Committed, Nowhere
<1>11. BrokenLate'
  BY <1>1, <1>2, <1>3, <1>9 DEF BrokenLate, TxAssumption
<1>12. NoTrace'
  <2> SUFFICES ASSUME NEW d \in Calls \ Deaf, step'[d] = "failed"
               PROVE  Nowhere(d)'
    BY DEF NoTrace
  <2>1. CASE step[d] = "failed"
    BY <1>1, <2>1 DEF NoTrace, Nowhere
  <2>2. CASE step[d] # "failed"
    <3>1. d = c /\ step[c] = "new" /\ sent[c] = 0
      BY <1>2, <1>3, <2>2 DEF HandlerRuns
    <3>2. /\ \A w \in database : w[1] # d
      BY <3>1 DEF Contained, Undecided
    <3>3. \A p \in Clients : \A w \in work[p] : w[1] # d
      BY <3>1, WriteTyped DEF WrittenWasSent
    <3> QED BY <1>1, <3>2, <3>3 DEF Nowhere
  <2> QED BY <2>1, <2>2
<1> QED BY <1>4, <1>5, <1>6, <1>7, <1>8, <1>10, <1>11, <1>12

(* A client is checked out to a call that has sent nothing.                *)
LEMMA OpenKeepsTInv ==
  ASSUME TxAssumption, TInv, NEW c \in Calls, NEW p \in Clients, open(c, p)
  PROVE  TInv'
<1> USE DEF TInv
<1>1. /\ step[c] = "new" /\ owner[p] = NoCall
      /\ step'[c] = "opening" /\ handle'[c] = p /\ owner'[p] = c
      /\ \A d \in Calls : d # c => step'[d] = step[d] /\ handle'[d] = handle[d]
      /\ \A q \in Clients : q # p => owner'[q] = owner[q]
      /\ UNCHANGED <<handler, aborted, sent, work, broken, database>>
  BY DEF open, At, TypeOK
<1>2. TypeOK'
  BY DEF open, At, TypeOK, Steps
<1>3. \A d \in Calls : step[d] \in InTx => handle[d] # p
  BY <1>1 DEF HoldsClient, TxAssumption
<1>4. HoldsClient'
  BY <1>1, <1>3 DEF HoldsClient, InTx
<1>5. HandlerRuns' /\ WrittenWasSent'
  BY <1>1 DEF HandlerRuns, WrittenWasSent
<1>6. \A q \in Clients : \A w \in work[q] : w[1] # c
  BY <1>1, WriteTyped DEF WrittenWasSent, HandlerRuns
<1>7. Contained'
  <2> SUFFICES ASSUME NEW d \in Calls, step'[d] \in Undecided(d)
               PROVE  Contained!(d)!2'
    BY DEF Contained, Undecided
  <2>1. CASE d = c
    BY <1>1, <1>6, <2>1 DEF Contained, Undecided
  <2>2. CASE d # c
    <3>1. \A q \in Clients : \A w \in work[q] :
             w[1] = d => q = handle[d] /\ owner[q] = d
      BY <1>1, <2>2 DEF Contained
    <3>2. \A q \in Clients : owner[q] = d => q # p
      BY <1>1 DEF TxAssumption
    <3>3. \A w \in database : w[1] # d
      BY <1>1, <2>2 DEF Contained
    <3> QED BY <1>1, <2>2, <3>1, <3>2, <3>3
  <2> QED BY <2>1, <2>2
<1>8. \A d \in Calls : step[d] # "new" => d # c /\ handle'[d] = handle[d]
  BY <1>1
<1>9. \A d \in Calls : aborted[d] => aborted'[d] /\ handle'[d] = handle[d]
  BY <1>1 DEF HandlerRuns
<1>10. \A d \in Calls : step[d] # "new" /\ Outlived(d) => Outlived(d)'
  BY <1>8, <1>9, OutlivedStays
<1>11. Complete'
  <2> SUFFICES ASSUME NEW d \in Calls PROVE Complete!(d)'
    BY DEF Complete
  <2>1. CASE d = c
    BY <1>1, <2>1 DEF HandlerRuns
  <2>2. CASE d # c
    BY <1>1, <1>10, <2>2 DEF Complete, Committed, Nowhere
  <2> QED BY <2>1, <2>2
<1>12. BrokenLate'
  BY <1>1, <1>10 DEF BrokenLate, TxAssumption
<1>13. NoTrace'
  BY <1>1 DEF NoTrace, Nowhere
<1> QED BY <1>2, <1>4, <1>5, <1>7, <1>11, <1>12, <1>13

(* A statement lands on the handler's client, in whatever transaction is   *)
(* open there, or in the database.                                         *)
LEMMA WriteKeepsTInv ==
  ASSUME TxAssumption, TInv, NEW c \in Calls, write(c)
  PROVE  TInv'
<1> USE DEF TInv
<1> DEFINE p == handle[c]
           w == <<c, sent[c] + 1>>
<1>1. /\ handler[c] /\ sent[c] \in Nat /\ sent[c] < MaxStatements /\ MaxStatements \in Nat
      /\ aborted[c] => c \in Deaf
      /\ p \in Clients
      /\ sent'[c] = sent[c] + 1
      /\ \A d \in Calls : d # c => sent'[d] = sent[d]
      /\ \A d \in Calls : sent[d] \in Nat /\ sent'[d] \in Nat /\ sent[d] <= sent'[d]
      /\ UNCHANGED <<step, handle, handler, aborted, owner, broken>>
  BY DEF write, Sends, TypeOK, HoldsClient, TxAssumption
<1>2. \/ /\ owner[p] # NoCall /\ database' = database
         /\ work'[p] = work[p] \cup {w}
         /\ \A q \in Clients : q # p => work'[q] = work[q]
      \/ /\ owner[p] = NoCall /\ database' = database \cup {w} /\ work' = work
  BY <1>1 DEF write, TypeOK
<1>3. w \in Write /\ w[1] = c /\ w[2] = sent[c] + 1
  BY <1>1 DEF Write
<1> HIDE DEF w
<1>4. \/ step[c] = "handler"
      \/ c \in Deaf /\ step[c] \in {"rollingBack", "failed"}
  BY <1>1 DEF HandlerRuns
<1>5. step[c] = "handler" => owner[p] = c /\ c # NoCall
  BY <1>1 DEF HoldsClient, InTx, TxAssumption
<1>6. TypeOK'
  <2>1. sent' \in [Calls -> 0 .. MaxStatements]
    BY <1>1 DEF write, TypeOK
  <2>2. work' \in [Clients -> SUBSET Write] /\ database' \in SUBSET Write
    BY <1>1, <1>2, <1>3 DEF write, TypeOK, w
  <2> QED BY <1>1, <2>1, <2>2 DEF TypeOK
<1>7. HoldsClient' /\ HandlerRuns'
  BY <1>1, <1>4 DEF HoldsClient, HandlerRuns
<1>8. WrittenWasSent'
  <2>1. w[2] <= sent'[w[1]]
    BY <1>1, <1>3
  <2>2. \A v \in database : v[2] <= sent'[v[1]]
    BY <1>1, WriteTyped DEF WrittenWasSent
  <2>3. \A q \in Clients : \A v \in work[q] : v[2] <= sent'[v[1]]
    BY <1>1, WriteTyped DEF WrittenWasSent
  <2> QED BY <1>2, <2>1, <2>2, <2>3 DEF WrittenWasSent
<1>9. Contained'
  <2> SUFFICES ASSUME NEW d \in Calls, step[d] \in Undecided(d)
               PROVE  Contained!(d)!2'
    BY <1>1 DEF Contained, Undecided
  <2>1. /\ \A v \in database : v[1] # d
        /\ \A q \in Clients : \A v \in work[q] :
              v[1] = d => q = handle[d] /\ owner[q] = d
    BY DEF Contained
  <2>2. d = c => owner[p] = c /\ owner[p] # NoCall
    BY <1>4, <1>5 DEF Undecided
  <2> QED BY <1>1, <1>2, <1>3, <2>1, <2>2
<1>10. Complete'
  <2> SUFFICES ASSUME NEW d \in Calls PROVE Complete!(d)'
    BY DEF Complete
  <2>1. step[d] \in InTx => handle[d] \in Clients
    BY DEF HoldsClient
  <2>2. step[c] # "done" /\ step[c] # "opening" /\ step[c] # "returned"
        /\ step[c] # "recorded"
    BY <1>4
  <2>3. ASSUME step[d] \in {"opening", "handler", "returned", "recorded"},
               NEW i \in 1 .. sent'[d]
        PROVE  <<d, i>> \in work'[handle[d]]
    <3>1. CASE i \in 1 .. sent[d]
      BY <1>2, <2>1, <2>3, <3>1 DEF Complete, InTx
    <3>2. CASE i \notin 1 .. sent[d]
      <4>1. d = c /\ i = sent[c] + 1
        BY <1>1, <3>2
      <4>2. step[c] = "handler" => w \in work'[p]
        BY <1>2, <1>5
      <4> QED BY <1>1, <2>2, <2>3, <4>1, <4>2 DEF w
    <3> QED BY <3>1, <3>2
  <2>4. ASSUME step[d] = "done"
        PROVE  \/ Committed(d)'
               \/ Nowhere(d)' /\ (d \in Recorded => Outlived(d)')
    <3>1. d # c /\ sent'[d] = sent[d]
      BY <1>1, <2>2, <2>4
    <3>2. CASE Committed(d)
      BY <1>2, <3>1, <3>2 DEF Committed
    <3>3. CASE Nowhere(d) /\ (d \in Recorded => Outlived(d))
      <4>1. Nowhere(d)'
        BY <1>2, <1>3, <3>1, <3>3 DEF Nowhere
      <4>2. Outlived(d) => Outlived(d)'
        BY <1>1, OutlivedStays
      <4> QED BY <3>3, <4>1, <4>2
    <3> QED BY <2>4, <3>2, <3>3 DEF Complete
  <2> QED BY <1>1, <2>3, <2>4
<1>11. BrokenLate'
  BY <1>1, OutlivedStays DEF BrokenLate, TxAssumption
<1>12. NoTrace'
  <2> SUFFICES ASSUME NEW d \in Calls \ Deaf, step[d] = "failed"
               PROVE  Nowhere(d)'
    BY <1>1 DEF NoTrace
  <2>1. d # c
    BY <1>4
  <2>2. Nowhere(d)
    BY DEF NoTrace
  <2> QED BY <1>2, <1>3, <2>1, <2>2 DEF Nowhere
<1> QED BY <1>6, <1>7, <1>8, <1>9, <1>10, <1>11, <1>12

(* A failed statement breaks the transaction of its own call, or it comes  *)
(* from a handler that outlived its deadline.                              *)
LEMMA BreakKeepsTInv ==
  ASSUME TxAssumption, TInv, NEW c \in Calls, statementFails(c)
  PROVE  TInv'
<1> USE DEF TInv
<1>1. /\ handler[c] /\ (aborted[c] => c \in Deaf)
      /\ broken' = broken \cup {handle[c]} /\ handle[c] \in Clients
      /\ UNCHANGED <<step, handle, handler, aborted, sent, owner, work, database>>
  BY DEF statementFails, Sends, HoldsClient
<1>2. TypeOK' /\ HoldsClient' /\ HandlerRuns' /\ WrittenWasSent'
  BY <1>1 DEF TypeOK, HoldsClient, HandlerRuns, WrittenWasSent
<1>3. Contained' /\ NoTrace'
  BY <1>1 DEF Contained, Undecided, NoTrace, Nowhere
<1>4. \A d \in Calls : Outlived(d) => Outlived(d)'
  BY <1>1, OutlivedStays
<1>5. Complete'
  BY <1>1, <1>4 DEF Complete, Committed, Nowhere
<1>6. BrokenLate'
  <2> SUFFICES ASSUME NEW d \in Recorded, step[d] = "recorded", handle[d] \in broken'
               PROVE  Outlived(d)'
    BY <1>1 DEF BrokenLate
  <2>1. d \in Calls
    BY DEF TxAssumption
  <2>2. CASE handle[d] \in broken
    BY <1>4, <2>1, <2>2 DEF BrokenLate
  <2>3. CASE handle[d] = handle[c]
    <3>1. d # c
      BY <1>1 DEF HandlerRuns
    <3>2. owner[handle[c]] = d
      BY <2>1, <2>3 DEF HoldsClient, InTx
    <3>3. step[c] \notin InTx
      BY <3>1, <3>2 DEF HoldsClient
    <3>4. aborted[c] /\ c \in Deaf
      BY <1>1, <3>3 DEF HandlerRuns, InTx
    <3> QED BY <1>1, <2>1, <2>3, <3>1, <3>4 DEF Outlived
  <2> QED BY <1>1, <2>2, <2>3
<1> QED BY <1>2, <1>3, <1>5, <1>6

(* The end of a transaction: its client is released, and the writes on it  *)
(* go to the database, or nowhere.                                         *)
LEMMA EndKeepsTInv ==
  ASSUME TxAssumption, TInv, NEW c \in Calls, commit(c) \/ rollback(c)
  PROVE  TInv'
<1> USE DEF TInv
<1> DEFINE p == handle[c]
<1>1. /\ step[c] \in InTx /\ p \in Clients /\ owner[p] = c
      /\ step[c] \in {"recorded", "rollingBack"}
  BY DEF commit, rollback, HoldsClient, InTx
<1>2. /\ \/ /\ step[c] = "recorded" /\ step'[c] = "done"
            /\ \/ p \notin broken /\ database' = database \cup work[p]
               \/ p \in broken /\ database' = database
         \/ /\ step[c] = "rollingBack" /\ step'[c] = "failed"
            /\ database' = database
      /\ \A d \in Calls : d # c => step'[d] = step[d]
      /\ owner'[p] = NoCall /\ work'[p] = {} /\ broken' = broken \ {p}
      /\ \A q \in Clients : q # p => owner'[q] = owner[q] /\ work'[q] = work[q]
      /\ UNCHANGED <<handle, handler, aborted, sent>>
  BY <1>1 DEF commit, rollback, Release, At, TypeOK
<1>3. TypeOK'
  BY <1>1 DEF commit, rollback, Release, At, TypeOK, Steps
<1>4. \A d \in Calls : d # c /\ step[d] \in InTx => handle[d] # p
  BY <1>1 DEF HoldsClient
<1>5. p = handle[c]
  OBVIOUS
<1> HIDE DEF p
<1>6. HoldsClient'
  BY <1>1, <1>2, <1>4 DEF HoldsClient, InTx
<1>7. HandlerRuns'
  BY <1>1, <1>2 DEF HandlerRuns
<1>8. WrittenWasSent'
  BY <1>1, <1>2 DEF WrittenWasSent
<1>9. \A d \in Calls : d # c /\ step[d] \in Undecided(d) =>
         \A w \in work[p] : w[1] # d
  BY <1>1 DEF Contained
<1>10. Contained'
  <2> SUFFICES ASSUME NEW d \in Calls, step'[d] \in Undecided(d)
               PROVE  Contained!(d)!2'
    BY DEF Contained, Undecided
  <2>1. d # c /\ step[d] \in Undecided(d)
    BY <1>2 DEF Undecided
  <2>2. /\ \A w \in database : w[1] # d
        /\ \A q \in Clients : \A w \in work[q] :
              w[1] = d => q = handle[d] /\ owner[q] = d
    BY <2>1 DEF Contained
  <2> QED BY <1>1, <1>2, <1>9, <2>1, <2>2
<1>11. \A d \in Calls : Nowhere(d) => Nowhere(d)'
  BY <1>1, <1>2 DEF Nowhere
<1>12. \A d \in Calls : Outlived(d) => Outlived(d)'
  BY <1>2, OutlivedStays
<1>13. database' = database /\ step[c] \in Undecided(c) => Nowhere(c)'
  BY <1>2, <1>5 DEF Contained, Nowhere
<1>14. Complete'
  <2> SUFFICES ASSUME NEW d \in Calls PROVE Complete!(d)'
    BY DEF Complete
  <2>1. CASE d = c
    <3> SUFFICES ASSUME step[c] = "recorded", step'[c] = "done"
                 PROVE  \/ Committed(c)'
                        \/ Nowhere(c)' /\ (c \in Recorded => Outlived(c)')
      BY <1>2, <2>1
    <3>1. CASE p \notin broken
      BY <1>2, <1>5, <3>1 DEF Complete, Committed
    <3>2. CASE p \in broken
      <4>1. Nowhere(c)'
        BY <1>2, <1>13, <3>2 DEF Undecided
      <4>2. c \in Recorded => Outlived(c)'
        BY <1>5, <1>12, <3>2 DEF BrokenLate
      <4> QED BY <4>1, <4>2
    <3> QED BY <3>1, <3>2
  <2>2. CASE d # c
    <3>1. step[d] \in InTx => handle[d] \in Clients /\ handle[d] # p
      BY <1>4, <2>2 DEF HoldsClient
    <3>2. step[d] \in {"opening", "handler", "returned", "recorded"} =>
             \A i \in 1 .. sent[d] : <<d, i>> \in work'[handle[d]]
      BY <1>2, <3>1 DEF Complete, InTx
    <3>3. Committed(d) => Committed(d)'
      BY <1>2 DEF Committed
    <3> QED BY <1>2, <1>11, <1>12, <2>2, <3>2, <3>3 DEF Complete
  <2> QED BY <2>1, <2>2
<1>15. BrokenLate'
  BY <1>2, <1>12 DEF BrokenLate, TxAssumption
<1>16. NoTrace'
  <2> SUFFICES ASSUME NEW d \in Calls \ Deaf, step'[d] = "failed"
               PROVE  Nowhere(d)'
    BY DEF NoTrace
  <2>1. CASE d = c
    BY <1>2, <1>13, <2>1 DEF Undecided
  <2>2. CASE d # c
    BY <1>2, <1>11, <2>2 DEF NoTrace
  <2> QED BY <2>1, <2>2
<1> QED BY <1>3, <1>6, <1>7, <1>8, <1>10, <1>14, <1>15, <1>16

LEMMA NextKeepsTInv ==
  ASSUME TxAssumption, TInv, [Next]_vars
  PROVE  TInv'
<1>1. CASE UNCHANGED vars
  <2>1. TypeOK' /\ HoldsClient' /\ HandlerRuns' /\ WrittenWasSent'
    BY <1>1 DEF vars, TInv, TypeOK, HoldsClient, HandlerRuns, WrittenWasSent
  <2>2. Contained' /\ Complete' /\ BrokenLate' /\ NoTrace'
    BY <1>1 DEF vars, TInv, Contained, Complete, BrokenLate, NoTrace, Undecided,
                Committed, Nowhere, Outlived
  <2> QED BY <2>1, <2>2 DEF TInv
<1>2. ASSUME NEW c \in Calls,
             \/ openFails(c) \/ startHandler(c) \/ refuse(c) \/ expire(c)
             \/ handlerEnds(c) \/ failAfter(c) \/ record(c)
      PROVE  TInv'
  BY <1>2, MovesKeepTInv
<1>3. ASSUME NEW c \in Calls, NEW p \in Clients, open(c, p) PROVE TInv'
  BY <1>3, OpenKeepsTInv
<1>4. ASSUME NEW c \in Calls, write(c) PROVE TInv'
  BY <1>4, WriteKeepsTInv
<1>5. ASSUME NEW c \in Calls, commit(c) \/ rollback(c) PROVE TInv'
  BY <1>5, EndKeepsTInv
<1>6. ASSUME NEW c \in Calls, statementFails(c) PROVE TInv'
  BY <1>6, BreakKeepsTInv
<1>7. CASE Next
  BY <1>2, <1>3, <1>4, <1>5, <1>6, <1>7 DEF Next
<1> QED BY <1>1, <1>7

(* TInv says what ExecutionAtomic asks.                                    *)
LEMMA TInvIsAtomic == ASSUME TInv PROVE ExecutionAtomic
<1> USE DEF TInv
<1>1. FailedLeavesNothing
  BY DEF NoTrace, Nowhere, FailedLeavesNothing
<1>2. DoneIsAtomic
  <2> SUFFICES ASSUME NEW c \in Calls PROVE DoneIsAtomic!(c)
    BY DEF DoneIsAtomic
  <2> DEFINE mine == {w \in database : w[1] = c}
             all == {c} \X (1 .. sent[c])
  <2>1. sent[c] \in Nat
    BY DEF TypeOK
  <2>2. mine \subseteq all
    BY <2>1, WriteTyped DEF WrittenWasSent
  <2>3. Committed(c) => all \subseteq mine
    BY DEF Committed
  <2>4. Nowhere(c) => mine = {}
    BY DEF Nowhere
  <2>5. ASSUME step[c] = "done"
        PROVE  mine = all \/ (mine = {} /\ (c \in Recorded => Outlived(c)))
    <3> HIDE DEF mine, all
    <3> QED BY <2>2, <2>3, <2>4, <2>5 DEF Complete
  <2>6. ASSUME step[c] \in {"opening", "handler", "returned", "recorded"}
        PROVE  mine = {} /\ all \subseteq work[handle[c]]
    <3>1. mine = {}
      BY <2>6 DEF Contained, Undecided
    <3>2. \A i \in 1 .. sent[c] : <<c, i>> \in work[handle[c]]
      BY <2>6 DEF Complete
    <3> HIDE DEF mine
    <3> QED BY <3>1, <3>2
  <2> QED BY <2>5, <2>6
<1> QED BY <1>1, <1>2 DEF ExecutionAtomic

(* However handlers outlive their deadlines and wherever their late writes *)
(* land or fail, an action that is answered with success has exactly its   *)
(* writes in the database, none of them before its commit; or none of them *)
(* where a late handler broke its transaction behind its last statement.   *)
(* One that is answered with failure and heeds its signal has none         *)
(* (runExecutionTransaction, runWithDeadline).                             *)
THEOREM ExecutionIsAtomic == TxAssumption => (Spec => []ExecutionAtomic)
<1> SUFFICES ASSUME TxAssumption PROVE Spec => []ExecutionAtomic
  OBVIOUS
<1>1. Init => TInv
  BY InitTInv
<1>2. TInv /\ [Next]_vars => TInv'
  BY NextKeepsTInv
<1>3. TInv => ExecutionAtomic
  BY TInvIsAtomic
<1> QED BY <1>1, <1>2, <1>3, PTL DEF Spec

-----------------------------------------------------------------------------
(* The rate limit: arithmetic.                                             *)

LEMMA Division ==
  ASSUME NEW a \in Nat, NEW d \in Nat \ {0}
  PROVE  /\ a \div d \in Nat
         /\ (a \div d) * d <= a
         /\ a < (a \div d) * d + d
OBVIOUS

LEMMA DivisionMonotone ==
  ASSUME NEW a \in Nat, NEW b \in Nat, NEW d \in Nat \ {0}, a <= b
  PROVE  a \div d <= b \div d
<1> DEFINE x == a \div d
           y == b \div d
<1>1. x \in Nat /\ y \in Nat /\ x * d <= a /\ b < y * d + d
  BY Division
<1> HIDE DEF x, y
<1>2. SUFFICES ASSUME x > y PROVE FALSE
  BY <1>1 DEF x, y
<1>3. x >= y + 1
  BY <1>1, <1>2
<1>4. x * d >= (y + 1) * d
  BY <1>1, <1>3
<1>5. (y + 1) * d = y * d + d
  BY <1>1
<1> QED BY <1>1, <1>4, <1>5

LEMMA CeilDivUp ==
  ASSUME NEW m \in Nat, NEW n \in Nat \ {0}
  PROVE  CeilDiv(m, n) \in Nat /\ CeilDiv(m, n) * n >= m
<1>1. m + n - 1 \in Nat
  OBVIOUS
<1> QED BY <1>1, Division DEF CeilDiv

-----------------------------------------------------------------------------
LEMMA Sizes ==
  ASSUME RateAssumption
  PROVE  /\ Limit \in Nat \ {0} /\ Window \in Nat \ {0} /\ Rotation \in Nat \ {0}
         /\ Limit * Window \in Nat /\ Window <= Limit * Window
         /\ 2 * Window \in Nat /\ MaxTime \in Nat /\ MaxSkew \in Nat
         /\ MaxTime + MaxSkew \in Nat /\ PerSec \in Nat \ {0}
<1>1. Limit \in Nat \ {0} /\ Seconds \in Nat \ {0} /\ PerSec \in Nat \ {0}
  BY DEF RateAssumption
<1>2. Window \in Nat \ {0}
  <2>1. Seconds * PerSec \in Nat /\ Seconds * PerSec >= Seconds
    BY <1>1
  <2> QED BY <1>1, <2>1 DEF Window
<1>3. Limit * Window \in Nat /\ Window <= Limit * Window
  BY <1>1, <1>2
<1> QED BY <1>1, <1>2, <1>3 DEF RateAssumption

(* The hash of a clock reading.                                            *)
LEMMA KeyTyped ==
  ASSUME RateAssumption, NEW stamp \in Clock
  PROVE  keyOf(stamp) \in BucketKeys
<1>1. stamp \in Nat /\ stamp <= MaxTime + MaxSkew
  BY Sizes DEF Clock
<1>2. stamp \div Rotation \in Nat /\ (MaxTime + MaxSkew) \div Rotation \in Nat
  BY <1>1, Sizes, Division
<1>3. stamp \div Rotation <= (MaxTime + MaxSkew) \div Rotation
  BY <1>1, Sizes, DivisionMonotone
<1> QED BY <1>2, <1>3 DEF keyOf, BucketKeys

LEMMA RequestFields ==
  ASSUME RateTypeOK, NEW p \in Processes, request[p] # NoRequest
  PROVE  /\ request[p].class \in Classes /\ request[p].stamp \in Clock
         /\ request[p].sentAt \in Time
BY DEF RateTypeOK, Requests

LEMMA BucketFields ==
  ASSUME RateTypeOK, NEW k \in BucketKeys, bucket[k] # NoBucket
  PROVE  /\ bucket[k].tokens \in 0 .. Limit * Window
         /\ bucket[k].updatedAt \in Clock /\ bucket[k].setAt \in Time
BY DEF RateTypeOK, Buckets

LEMMA RefilledTyped ==
  ASSUME RateAssumption, RateTypeOK, NEW k \in BucketKeys, NEW stamp \in Clock
  PROVE  refilled(k, stamp) \in 0 .. Limit * Window
<1>1. CASE live(k)
  <2>1. /\ bucket[k].tokens \in 0 .. Limit * Window
        /\ bucket[k].updatedAt \in Int /\ stamp \in Int
    BY <1>1, BucketFields, Sizes DEF live, Clock
  <2>2. HigherOf(0, stamp - bucket[k].updatedAt) \in Nat
    BY <2>1 DEF HigherOf
  <2>3. HigherOf(0, stamp - bucket[k].updatedAt) * Limit \in Nat
    BY <2>2, Sizes
  <2> QED BY <1>1, <2>1, <2>3, Sizes DEF refilled, LowerOf
<1>2. CASE ~live(k)
  BY <1>2, Sizes DEF refilled
<1> QED BY <1>1, <1>2

LEMMA StoredTyped ==
  ASSUME RateAssumption, RateTypeOK, NEW k \in BucketKeys, NEW stamp \in Clock,
         NEW tokens \in 0 .. Limit * Window
  PROVE  /\ stored(k, tokens, stamp) \in Buckets /\ stored(k, tokens, stamp) # NoBucket
         /\ stored(k, tokens, stamp).tokens =
              IF tokens < Window THEN tokens ELSE tokens - Window
         /\ stored(k, tokens, stamp).updatedAt = stamp
         /\ stored(k, tokens, stamp).setAt = now
<1>1. (IF tokens < Window THEN tokens ELSE tokens - Window) \in 0 .. Limit * Window
  BY Sizes
<1>2. stamp # Unset /\ now \in Time
  BY Sizes DEF Clock, Unset, RateTypeOK
<1> QED BY <1>1, <1>2 DEF stored, Buckets, NoBucket

LEMMA RetryTyped ==
  ASSUME RateAssumption, NEW tokens \in 0 .. Limit * Window, tokens < Window
  PROVE  /\ retryAfter(tokens) \in Nat /\ retryAfter(tokens) * PerSec \in Nat
         /\ (retryAfter(tokens) * PerSec) * Limit >= Window - tokens
<1>1. /\ Window - tokens \in Nat /\ Limit * PerSec \in Nat \ {0}
  BY Sizes
<1> DEFINE secs == CeilDiv(Window - tokens, Limit * PerSec)
<1>2. secs \in Nat /\ secs * (Limit * PerSec) >= Window - tokens
  BY <1>1, CeilDivUp
<1> HIDE DEF secs
<1>3. retryAfter(tokens) \in Nat /\ retryAfter(tokens) >= secs
  BY <1>2 DEF retryAfter, HigherOf, secs
<1>4. retryAfter(tokens) * (Limit * PerSec) >= secs * (Limit * PerSec)
  BY <1>1, <1>2, <1>3
<1>5. retryAfter(tokens) * (Limit * PerSec) = (retryAfter(tokens) * PerSec) * Limit
  BY <1>3, Sizes
<1>6. retryAfter(tokens) * PerSec \in Nat
  BY <1>3, Sizes
<1> QED BY <1>1, <1>2, <1>3, <1>4, <1>5, <1>6

(* What the script leaves in the hash of its key and nowhere else.         *)
Scripted(k, stamp, sentAt) ==
  LET tokens == refilled(k, stamp) IN
  /\ bucket'[k] # NoBucket
  /\ bucket'[k].tokens = (IF tokens < Window THEN tokens ELSE tokens - Window)
  /\ bucket'[k].updatedAt = stamp /\ bucket'[k].setAt = now
  /\ grants'[k] = (IF tokens < Window THEN grants[k] ELSE Append(grants[k], sentAt))
  /\ tokens < Window => hint'[k] = now + retryAfter(tokens) * PerSec
  /\ tokens >= Window => hint'[k] = Unset
  /\ \A j \in BucketKeys \ {k} :
       bucket'[j] = bucket[j] /\ grants'[j] = grants[j] /\ hint'[j] = hint[j]

LEMMA ScriptTyped ==
  ASSUME RateAssumption, RateTypeOK, NEW k \in BucketKeys, NEW stamp \in Clock,
         NEW sentAt \in Time, script(k, stamp, sentAt)
  PROVE  /\ bucket' \in [BucketKeys -> Buckets]
         /\ grants' \in [BucketKeys -> Seq(Time)]
         /\ hint' \in [BucketKeys -> {Unset} \cup Nat]
         /\ Scripted(k, stamp, sentAt)
<1> DEFINE tokens == refilled(k, stamp)
<1>1. tokens \in 0 .. Limit * Window
  BY RefilledTyped
<1>2. /\ stored(k, tokens, stamp) \in Buckets /\ stored(k, tokens, stamp) # NoBucket
      /\ stored(k, tokens, stamp).tokens =
           IF tokens < Window THEN tokens ELSE tokens - Window
      /\ stored(k, tokens, stamp).updatedAt = stamp
      /\ stored(k, tokens, stamp).setAt = now
  BY <1>1, StoredTyped
<1>3. tokens < Window => now + retryAfter(tokens) * PerSec \in Nat
  <2>1. now \in Nat
    BY DEF RateTypeOK, Time
  <2>2. tokens < Window => retryAfter(tokens) * PerSec \in Nat
    BY <1>1, RetryTyped
  <2> QED BY <2>1, <2>2
<1>4. tokens >= Window <=> ~(tokens < Window)
  BY <1>1, Sizes
<1>5. /\ bucket' = [bucket EXCEPT ![k] = stored(k, tokens, stamp)]
      /\ grants' = IF tokens >= Window THEN [grants EXCEPT ![k] = Append(@, sentAt)]
                   ELSE grants
      /\ hint' = [hint EXCEPT ![k] =
            IF tokens >= Window THEN Unset ELSE now + retryAfter(tokens) * PerSec]
  BY DEF script
<1>6. Append(grants[k], sentAt) \in Seq(Time)
  BY DEF RateTypeOK
<1> HIDE DEF tokens
<1>7. /\ bucket' \in [BucketKeys -> Buckets]
      /\ grants' \in [BucketKeys -> Seq(Time)]
      /\ hint' \in [BucketKeys -> {Unset} \cup Nat]
  BY <1>2, <1>3, <1>4, <1>5, <1>6 DEF RateTypeOK
<1>8. Scripted(k, stamp, sentAt)
  BY <1>2, <1>4, <1>5 DEF RateTypeOK, Scripted, tokens
<1> QED BY <1>7, <1>8

-----------------------------------------------------------------------------
(* With exact clocks and scripts that arrive at once.                      *)
Exact == MaxSkew = 0 /\ MaxDelay = 0

(* Of the given grants, those of requests made at s or later.              *)
Since(given, s) == {i \in DOMAIN given : given[i] >= s}

(* A request is counted at the time it is made.                            *)
Prompt ==
    \A p \in Processes :
        request[p] # NoRequest => request[p].stamp = now /\ request[p].sentAt = now

(* A hash is written when its bucket is refilled, and no later grant is    *)
(* paid from it.                                                           *)
Written ==
    \A k \in BucketKeys :
        /\ bucket[k] = NoBucket => grants[k] = <<>> /\ hint[k] = Unset
        /\ bucket[k] # NoBucket =>
              /\ bucket[k].updatedAt = bucket[k].setAt /\ bucket[k].updatedAt <= now
              /\ \A i \in DOMAIN grants[k] : grants[k][i] <= bucket[k].updatedAt

(* What was let through since s and what is left in the bucket is no more  *)
(* than the capacity and the refill since s.                               *)
Credit ==
    \A k \in BucketKeys :
        bucket[k] # NoBucket =>
            \A s \in 0 .. bucket[k].updatedAt :
                Cardinality(Since(grants[k], s)) * Window + bucket[k].tokens
                  <= Limit * Window + (bucket[k].updatedAt - s) * Limit

(* A hint leaves the time in which the missing part of a token refills.    *)
Hinted ==
    \A k \in BucketKeys :
        hint[k] # Unset =>
            /\ bucket[k] # NoBucket /\ bucket[k].tokens < Window
            /\ hint[k] >= bucket[k].updatedAt
            /\ (hint[k] - bucket[k].updatedAt) * Limit >= Window - bucket[k].tokens

Metering == Prompt /\ Written /\ Credit /\ Hinted /\ BurstBound

(* The inductive invariant.                                                *)
RInv == RateTypeOK /\ MutationsMetered /\ (Exact => Metering)

-----------------------------------------------------------------------------
(* Counting grants.                                                        *)

LEMMA SinceFinite ==
  ASSUME NEW given \in Seq(Time), NEW s \in Nat
  PROVE  IsFiniteSet(Since(given, s)) /\ Cardinality(Since(given, s)) \in Nat
<1>1. Len(given) \in Nat /\ DOMAIN given = 1 .. Len(given)
  OBVIOUS
<1>2. IsFiniteSet(1 .. Len(given))
  BY <1>1, FS_Interval
<1>3. Since(given, s) \in SUBSET (1 .. Len(given))
  BY <1>1 DEF Since
<1>4. IsFiniteSet(Since(given, s))
  BY <1>2, <1>3, FS_Subset
<1> QED BY <1>4, FS_CardinalityType

LEMMA SinceAppend ==
  ASSUME NEW given \in Seq(Time), NEW t \in Time, NEW s \in Nat, s <= t
  PROVE  Cardinality(Since(Append(given, t), s)) = Cardinality(Since(given, s)) + 1
<1> DEFINE n == Len(given) + 1
<1>1. n \in Nat /\ DOMAIN given = 1 .. Len(given) /\ n \notin 1 .. Len(given)
  OBVIOUS
<1>2. /\ DOMAIN Append(given, t) = 1 .. n /\ Append(given, t)[n] = t
      /\ \A i \in 1 .. Len(given) : Append(given, t)[i] = given[i]
  OBVIOUS
<1>3. 1 .. n = (1 .. Len(given)) \cup {n}
  BY <1>1
<1>4. t >= s
  BY DEF Time
<1> HIDE DEF n
<1>5. Since(Append(given, t), s) = Since(given, s) \cup {n}
  BY <1>1, <1>2, <1>3, <1>4 DEF Since
<1>6. n \notin Since(given, s)
  BY <1>1 DEF Since
<1> QED BY <1>5, <1>6, SinceFinite, FS_AddElement

LEMMA SinceCovers ==
  ASSUME NEW given \in Seq(Time), NEW s \in Nat, NEW e \in Nat
  PROVE  /\ Cardinality({i \in DOMAIN given : given[i] \in s .. e}) \in Nat
         /\ Cardinality({i \in DOMAIN given : given[i] \in s .. e})
              <= Cardinality(Since(given, s))
<1> DEFINE within == {i \in DOMAIN given : given[i] \in s .. e}
<1>1. within \in SUBSET Since(given, s)
  BY DEF Since
<1> HIDE DEF within
<1>2. IsFiniteSet(within) /\ Cardinality(within) <= Cardinality(Since(given, s))
  BY <1>1, SinceFinite, FS_Subset
<1>3. Cardinality(within) \in Nat
  BY <1>2, FS_CardinalityType
<1> QED BY <1>2, <1>3 DEF within

-----------------------------------------------------------------------------
(* The script.                                                             *)

LEMMA WrittenTyped ==
  ASSUME RateAssumption, RateTypeOK, Written, NEW k \in BucketKeys, bucket[k] # NoBucket
  PROVE  /\ bucket[k].tokens \in Nat /\ bucket[k].updatedAt \in Nat
         /\ bucket[k].setAt = bucket[k].updatedAt /\ bucket[k].updatedAt <= now
         /\ \A i \in DOMAIN grants[k] :
              grants[k][i] \in Nat /\ grants[k][i] <= bucket[k].updatedAt
<1>1. bucket[k].tokens \in 0 .. Limit * Window /\ bucket[k].updatedAt \in Clock
  BY BucketFields
<1>2. Limit * Window \in Nat /\ MaxTime + MaxSkew \in Nat
  BY Sizes
<1>3. grants[k] \in Seq(Time)
  BY DEF RateTypeOK
<1>4. \A i \in DOMAIN grants[k] : grants[k][i] \in Nat
  <2>1. \A i \in DOMAIN grants[k] : grants[k][i] \in Time
    BY <1>3
  <2> QED BY <2>1 DEF Time
<1>5. bucket[k].updatedAt \in Nat
  BY <1>1 DEF Clock
<1> QED BY <1>1, <1>2, <1>4, <1>5 DEF Written

(* What was let through since s and what a refilled bucket offers.         *)
LEMMA RefillIsEarned ==
  ASSUME RateAssumption, RateTypeOK, Exact, Written, Credit,
         NEW k \in BucketKeys, NEW s \in 0 .. now
  PROVE  Cardinality(Since(grants[k], s)) * Window + refilled(k, now)
           <= Limit * Window + (now - s) * Limit
<1> DEFINE count == Cardinality(Since(grants[k], s))
           tokens == refilled(k, now)
           updated == bucket[k].updatedAt
<1>1. /\ grants[k] \in Seq(Time) /\ now \in Nat /\ now \in Clock /\ s \in Nat
  <2>1. now \in Time /\ grants[k] \in Seq(Time)
    BY DEF RateTypeOK
  <2> QED BY <2>1, Sizes DEF Time, Clock
<1>2. count \in Nat
  BY <1>1, SinceFinite
<1>3. tokens \in Nat /\ tokens <= Limit * Window
  BY <1>1, RefilledTyped, Sizes
<1>4. Limit \in Nat \ {0} /\ Window \in Nat \ {0} /\ Limit * Window \in Nat
  BY Sizes
<1>5. now - s \in Nat /\ (now - s) * Limit \in Nat
  BY <1>1, <1>4
<1>6. ASSUME Since(grants[k], s) = {} PROVE count * Window + tokens <= Limit * Window + (now - s) * Limit
  <2>1. count = 0
    BY <1>6, FS_EmptySet
  <2>2. count * Window = 0
    BY <2>1, <1>4
  <2> QED BY <2>2, <1>3, <1>4, <1>5
<1>7. CASE bucket[k] = NoBucket
  <2>1. grants[k] = <<>>
    BY <1>7 DEF Written
  <2>2. Since(grants[k], s) = {}
    BY <2>1 DEF Since
  <2> QED BY <2>2, <1>6
<1>8. CASE bucket[k] # NoBucket
  <2>1. /\ bucket[k].tokens \in Nat /\ updated \in Nat /\ bucket[k].setAt = updated
        /\ updated <= now
    BY <1>8, WrittenTyped
  <2>2. \A i \in DOMAIN grants[k] : grants[k][i] \in Nat /\ grants[k][i] <= updated
    BY <1>8, WrittenTyped
  <2>3. CASE s > updated
    <3>1. Since(grants[k], s) = {}
      BY <2>1, <2>2, <2>3, <1>1 DEF Since
    <3> QED BY <3>1, <1>6
  <2>4. CASE s <= updated
    <3>1. count * Window + bucket[k].tokens <= Limit * Window + (updated - s) * Limit
      BY <1>1, <1>8, <2>1, <2>4 DEF Credit
    <3>7. live(k) => tokens = LowerOf(Limit * Window,
            bucket[k].tokens + HigherOf(0, now - updated) * Limit)
      BY DEF refilled
    <3>8. ~live(k) => tokens = Limit * Window /\ now - updated >= 2 * Window
      <4>1. 2 * Window \in Nat
        BY Sizes
      <4> QED BY <1>8, <2>1, <1>1, <4>1 DEF live, refilled
    <3> HIDE DEF count, tokens, updated
    <3>2. count * Window \in Nat
      BY <1>2, <1>4
    <3>3. (now - s) * Limit = (now - updated) * Limit + (updated - s) * Limit
      BY <1>1, <1>4, <2>1
    <3>4. (now - updated) * Limit \in Nat /\ (updated - s) * Limit \in Nat
      BY <1>1, <1>4, <2>1, <2>4
    <3>5. CASE live(k)
      <4>1. HigherOf(0, now - updated) = now - updated
        BY <2>1, <1>1 DEF HigherOf
      <4>2. tokens <= bucket[k].tokens + (now - updated) * Limit
        BY <3>7, <3>5, <4>1, <3>4, <2>1, <1>4 DEF LowerOf
      <4> DEFINE paid == count * Window
                 cap == Limit * Window
                 old == (updated - s) * Limit
                 new == (now - updated) * Limit
                 all == (now - s) * Limit
      <4>3. /\ paid + bucket[k].tokens <= cap + old /\ all = new + old
            /\ tokens <= bucket[k].tokens + new
            /\ paid \in Nat /\ cap \in Nat /\ old \in Nat /\ new \in Nat
        BY <4>2, <3>1, <3>2, <3>3, <3>4, <1>4
      <4> HIDE DEF paid, cap, old, new, all
      <4>4. paid + tokens <= cap + all
        BY <4>3, <2>1, <1>3
      <4> QED BY <4>4 DEF paid, cap, all, count, tokens
    <3>6. CASE ~live(k)
      <4>1. now - updated >= 2 * Window
        BY <3>8, <3>6
      <4>2. (now - updated) * Limit >= (2 * Window) * Limit
        BY <4>1, <1>1, <1>4, <2>1
      <4>3. (2 * Window) * Limit = Limit * Window + Limit * Window
        BY <1>4
      <4> DEFINE paid == count * Window
                 cap == Limit * Window
                 old == (updated - s) * Limit
                 new == (now - updated) * Limit
                 all == (now - s) * Limit
      <4>4. /\ paid + bucket[k].tokens <= cap + old /\ all = new + old
            /\ tokens = cap /\ new >= cap + cap
            /\ paid \in Nat /\ cap \in Nat /\ old \in Nat /\ new \in Nat
        BY <4>2, <4>3, <3>1, <3>2, <3>3, <3>4, <3>6, <3>8, <1>4
      <4> HIDE DEF paid, cap, old, new, all
      <4>5. paid + tokens <= cap + all
        BY <4>4, <2>1
      <4> QED BY <4>5 DEF paid, cap, all, count, tokens
    <3> QED BY <3>5, <3>6
  <2> QED BY <2>1, <2>3, <2>4, <1>1
<1> QED BY <1>7, <1>8

LEMMA ScriptKeepsMetering ==
  ASSUME RateAssumption, RateTypeOK, Exact, Written, Credit, Hinted, BurstBound,
         NEW k \in BucketKeys, script(k, now, now), now' = now
  PROVE  Written' /\ Credit' /\ Hinted' /\ BurstBound'
<1> DEFINE tokens == refilled(k, now)
<1>1. now \in Time /\ now \in Nat /\ now \in Clock
  BY Sizes DEF RateTypeOK, Time, Clock
<1>2. Scripted(k, now, now)
  BY <1>1, ScriptTyped
<1>3. tokens \in Nat /\ tokens <= Limit * Window
  BY <1>1, RefilledTyped, Sizes
<1>4. Limit \in Nat \ {0} /\ Window \in Nat \ {0} /\ Limit * Window \in Nat
  BY Sizes
<1>5. /\ bucket'[k] # NoBucket
      /\ bucket'[k].tokens = (IF tokens < Window THEN tokens ELSE tokens - Window)
      /\ bucket'[k].updatedAt = now /\ bucket'[k].setAt = now
      /\ grants'[k] = (IF tokens < Window THEN grants[k] ELSE Append(grants[k], now))
      /\ tokens < Window => hint'[k] = now + retryAfter(tokens) * PerSec
      /\ tokens >= Window => hint'[k] = Unset
  BY <1>2 DEF Scripted
<1>6. \A j \in BucketKeys \ {k} :
        bucket'[j] = bucket[j] /\ grants'[j] = grants[j] /\ hint'[j] = hint[j]
  BY <1>2 DEF Scripted
<1>7. grants[k] \in Seq(Time) /\ grants'[k] \in Seq(Time)
  BY <1>1, ScriptTyped DEF RateTypeOK
<1>8. \A i \in DOMAIN grants[k] : grants[k][i] <= now
  <2>1. CASE bucket[k] = NoBucket
    BY <2>1 DEF Written
  <2>2. CASE bucket[k] # NoBucket
    <3>1. /\ bucket[k].updatedAt \in Nat /\ bucket[k].updatedAt <= now
          /\ \A i \in DOMAIN grants[k] :
               grants[k][i] \in Nat /\ grants[k][i] <= bucket[k].updatedAt
      BY <2>2, WrittenTyped
    <3> QED BY <3>1, <1>1
  <2> QED BY <2>1, <2>2
<1>9. \A i \in DOMAIN grants'[k] : grants'[k][i] <= now
  BY <1>1, <1>3, <1>5, <1>7, <1>8
<1>10. \A s \in 0 .. now :
         Cardinality(Since(grants'[k], s)) * Window + bucket'[k].tokens
           <= Limit * Window + (now - s) * Limit
  <2> SUFFICES ASSUME NEW s \in 0 .. now
               PROVE  Cardinality(Since(grants'[k], s)) * Window + bucket'[k].tokens
                        <= Limit * Window + (now - s) * Limit
    OBVIOUS
  <2> DEFINE count == Cardinality(Since(grants[k], s))
  <2>1. s \in Nat /\ s <= now
    BY <1>1
  <2>2. count \in Nat
    BY <2>1, <1>7, SinceFinite
  <2>3. count * Window + tokens <= Limit * Window + (now - s) * Limit
    BY RefillIsEarned
  <2>4. CASE tokens < Window
    BY <2>3, <2>4, <1>5
  <2>5. CASE ~(tokens < Window)
    <3>1. Cardinality(Since(grants'[k], s)) = count + 1
      BY <2>1, <2>5, <1>1, <1>5, <1>7, SinceAppend
    <3>2. bucket'[k].tokens = tokens - Window
      BY <2>5, <1>5
    <3> HIDE DEF count, tokens
    <3>3. (count + 1) * Window + (tokens - Window) = count * Window + tokens
      BY <2>2, <1>3, <1>4
    <3> QED BY <3>1, <3>2, <3>3, <2>3
  <2> QED BY <2>4, <2>5
<1> HIDE DEF tokens
<1>11. Written'
  <2>1. SUFFICES ASSUME NEW j \in BucketKeys
                 PROVE  /\ bucket'[j] = NoBucket => grants'[j] = <<>> /\ hint'[j] = Unset
                        /\ bucket'[j] # NoBucket =>
                              /\ bucket'[j].updatedAt = bucket'[j].setAt
                              /\ bucket'[j].updatedAt <= now
                              /\ \A i \in DOMAIN grants'[j] :
                                    grants'[j][i] <= bucket'[j].updatedAt
    BY DEF Written
  <2>2. CASE j = k
    BY <2>2, <1>1, <1>5, <1>9
  <2>3. CASE j # k
    BY <2>3, <1>6 DEF Written
  <2> QED BY <2>2, <2>3
<1>12. Credit'
  <2>1. SUFFICES ASSUME NEW j \in BucketKeys, bucket'[j] # NoBucket,
                        NEW s \in 0 .. bucket'[j].updatedAt
                 PROVE  Cardinality(Since(grants'[j], s)) * Window + bucket'[j].tokens
                          <= Limit * Window + (bucket'[j].updatedAt - s) * Limit
    BY DEF Credit, Since
  <2>2. CASE j = k
    BY <2>2, <1>5, <1>10
  <2>3. CASE j # k
    BY <2>1, <2>3, <1>6 DEF Credit
  <2> QED BY <2>2, <2>3
<1>13. Hinted'
  <2>1. SUFFICES ASSUME NEW j \in BucketKeys, hint'[j] # Unset
                 PROVE  /\ bucket'[j] # NoBucket /\ bucket'[j].tokens < Window
                        /\ hint'[j] >= bucket'[j].updatedAt
                        /\ (hint'[j] - bucket'[j].updatedAt) * Limit
                              >= Window - bucket'[j].tokens
    BY DEF Hinted
  <2>2. CASE j = k
    <3>1. tokens < Window
      BY <2>1, <2>2, <1>3, <1>4, <1>5
    <3>2. /\ retryAfter(tokens) * PerSec \in Nat
          /\ (retryAfter(tokens) * PerSec) * Limit >= Window - tokens
      BY <3>1, <1>3, <1>4, RetryTyped
    <3>3. hint'[k] = now + retryAfter(tokens) * PerSec /\ bucket'[k].tokens = tokens
      BY <3>1, <1>5
    <3>4. hint'[k] - now = retryAfter(tokens) * PerSec
      BY <3>2, <3>3, <1>1
    <3>5. hint'[k] >= now
      BY <3>2, <3>3, <1>1
    <3> QED BY <2>2, <3>1, <3>2, <3>3, <3>4, <3>5, <1>5
  <2>3. CASE j # k
    BY <2>1, <2>3, <1>6 DEF Hinted
  <2> QED BY <2>2, <2>3
<1>14. BurstBound'
  <2>1. SUFFICES ASSUME NEW j \in BucketKeys, NEW s \in Time, NEW e \in s .. MaxTime
                 PROVE  Cardinality({i \in DOMAIN grants'[j] : grants'[j][i] \in s .. e}) * Window
                          <= Limit * Window + (e - s) * Limit
    BY DEF BurstBound
  <2>2. CASE j # k \/ grants'[j] = grants[j]
    BY <2>1, <2>2, <1>6 DEF BurstBound
  <2>3. CASE j = k /\ grants'[j] # grants[j]
    <3>1. grants'[k] = Append(grants[k], now)
      BY <2>3, <1>5
    <3> DEFINE within == Cardinality({i \in DOMAIN grants'[k] : grants'[k][i] \in s .. e})
    <3>2. s \in Nat /\ e \in Nat /\ s <= e
      BY Sizes DEF Time
    <3>3. CASE now \in s .. e
      <4> DEFINE count == Cardinality(Since(grants'[k], s))
      <4>1. within \in Nat /\ within <= count
        BY <3>2, <1>7, SinceCovers
      <4>2. count \in Nat
        BY <3>2, <1>7, SinceFinite
      <4>3. count * Window + bucket'[k].tokens <= Limit * Window + (now - s) * Limit
        BY <3>2, <3>3, <1>1, <1>10
      <4>4. bucket'[k].tokens \in Nat
        BY <1>1, <1>5, <1>3, <1>4
      <4> HIDE DEF within, count
      <4>5. within * Window <= count * Window /\ within * Window \in Nat /\ count * Window \in Nat
        BY <4>1, <4>2, <1>4
      <4>6. (now - s) * Limit <= (e - s) * Limit /\ (now - s) * Limit \in Int /\ (e - s) * Limit \in Int
        BY <3>2, <3>3, <1>1, <1>4
      <4>7. within * Window <= Limit * Window + (e - s) * Limit
        BY <4>3, <4>4, <4>5, <4>6, <1>4
      <4> QED BY <4>7, <2>3 DEF within
    <3>4. CASE now \notin s .. e
      <4>1. \A i \in DOMAIN grants'[k] :
              grants'[k][i] \in s .. e => i \in DOMAIN grants[k] /\ grants[k][i] = grants'[k][i]
        BY <3>1, <3>4, <1>1, <1>7
      <4>2. \A i \in DOMAIN grants[k] : i \in DOMAIN grants'[k] /\ grants[k][i] = grants'[k][i]
        BY <3>1, <1>1, <1>7
      <4>3. {i \in DOMAIN grants'[k] : grants'[k][i] \in s .. e}
              = {i \in DOMAIN grants[k] : grants[k][i] \in s .. e}
        BY <4>1, <4>2
      <4> QED BY <2>3, <4>3 DEF BurstBound
    <3> QED BY <3>3, <3>4
  <2> QED BY <2>2, <2>3
<1> QED BY <1>11, <1>12, <1>13, <1>14

-----------------------------------------------------------------------------
(* The invariant holds in every state.                                     *)

LEMMA InitRInv == RateAssumption /\ RateInit => RInv
<1> SUFFICES ASSUME RateAssumption, RateInit PROVE RInv
  OBVIOUS
<1>1. RateTypeOK
  <2>1. 0 \in Time /\ 0 \in 0 .. MaxSkew
    BY Sizes DEF Time
  <2>2. <<>> \in Seq(Time)
    OBVIOUS
  <2> QED BY <2>1, <2>2 DEF RateInit, RateTypeOK, Requests, Buckets
<1>2. MutationsMetered
  BY DEF RateInit, MutationsMetered
<1>3. Prompt /\ Written /\ Credit /\ Hinted
  BY DEF RateInit, Prompt, Written, Credit, Hinted
<1>4. BurstBound
  <2> SUFFICES ASSUME NEW k \in BucketKeys, NEW s \in Time, NEW e \in s .. MaxTime
               PROVE  Cardinality({i \in DOMAIN grants[k] : grants[k][i] \in s .. e}) * Window
                        <= Limit * Window + (e - s) * Limit
    BY DEF BurstBound
  <2>1. {i \in DOMAIN grants[k] : grants[k][i] \in s .. e} = {}
    BY DEF RateInit
  <2>2. Cardinality({i \in DOMAIN grants[k] : grants[k][i] \in s .. e}) = 0
    BY <2>1, FS_EmptySet
  <2>3. s \in Nat /\ e \in Nat /\ s <= e
    BY Sizes DEF Time
  <2>4. (e - s) * Limit \in Nat /\ Limit * Window \in Nat /\ 0 * Window = 0
    BY <2>3, Sizes
  <2> QED BY <2>2, <2>4
<1> QED BY <1>1, <1>2, <1>3, <1>4 DEF RInv, Metering

(* A decision counts a request that is not a read only if it passes.       *)
LEMMA DecideCounts ==
  ASSUME RateAssumption, RateTypeOK, MutationsMetered, NEW p \in Processes,
         request[p] # NoRequest, NEW ok \in BOOLEAN, Decide(p, ok),
         grants' \in [BucketKeys -> Seq(Time)],
         \A k \in BucketKeys : Len(grants'[k]) >= Len(grants[k]),
         ok /\ request[p].class # "read" =>
           Len(grants'[keyOf(request[p].stamp)]) > Len(grants[keyOf(request[p].stamp)])
  PROVE  /\ MutationsMetered'
         /\ request' \in [Processes -> Requests]
         /\ admitted' \in [BucketKeys -> Nat]
<1> DEFINE k == keyOf(request[p].stamp)
           one == IF ok /\ request[p].class # "read" THEN 1 ELSE 0
<1>1. k \in BucketKeys
  BY RequestFields, KeyTyped
<1>2. /\ admitted' = [admitted EXCEPT ![k] = @ + one]
      /\ request' = [request EXCEPT ![p] = NoRequest]
  BY DEF Decide
<1>3. one \in {0, 1} /\ (one = 1 => Len(grants'[k]) > Len(grants[k]))
  OBVIOUS
<1> HIDE DEF k, one
<1>4. request' \in [Processes -> Requests]
  BY <1>2 DEF RateTypeOK, Requests
<1>5. admitted' \in [BucketKeys -> Nat]
  BY <1>1, <1>2, <1>3 DEF RateTypeOK
<1>6. MutationsMetered'
  <2> SUFFICES ASSUME NEW j \in BucketKeys PROVE admitted'[j] <= Len(grants'[j])
    BY DEF MutationsMetered
  <2>1. admitted[j] \in Nat /\ admitted[j] <= Len(grants[j])
    BY DEF RateTypeOK, MutationsMetered
  <2>2. Len(grants[j]) \in Nat /\ Len(grants'[j]) \in Nat /\ Len(grants'[j]) >= Len(grants[j])
    <3>1. grants[j] \in Seq(Time) /\ grants'[j] \in Seq(Time)
      BY DEF RateTypeOK
    <3> QED BY <3>1
  <2>3. admitted'[j] = IF j = k THEN admitted[j] + one ELSE admitted[j]
    BY <1>2 DEF RateTypeOK
  <2> QED BY <2>1, <2>2, <2>3, <1>3
<1> QED BY <1>4, <1>5, <1>6

(* The script only adds grants, and one when it answers with a token.      *)
LEMMA ScriptGrants ==
  ASSUME RateAssumption, RateTypeOK, NEW k \in BucketKeys, NEW stamp \in Clock,
         NEW sentAt \in Time, script(k, stamp, sentAt)
  PROVE  /\ \A j \in BucketKeys : Len(grants'[j]) >= Len(grants[j])
         /\ refilled(k, stamp) >= Window => Len(grants'[k]) > Len(grants[k])
<1>1. \A j \in BucketKeys : grants[j] \in Seq(Time)
  BY DEF RateTypeOK
<1>2. refilled(k, stamp) \in Nat /\ Window \in Nat
  BY RefilledTyped, Sizes
<1>3. /\ grants'[k] = (IF refilled(k, stamp) < Window THEN grants[k]
                      ELSE Append(grants[k], sentAt))
      /\ \A j \in BucketKeys \ {k} : grants'[j] = grants[j]
  BY ScriptTyped DEF Scripted
<1>4. Len(Append(grants[k], sentAt)) = Len(grants[k]) + 1 /\ Len(grants[k]) \in Nat
  BY <1>1
<1>5. \A j \in BucketKeys : Len(grants[j]) \in Nat
  BY <1>1
<1>6. refilled(k, stamp) >= Window => Len(grants'[k]) > Len(grants[k])
  BY <1>2, <1>3, <1>4
<1>7. Len(grants'[k]) >= Len(grants[k])
  <2>1. CASE refilled(k, stamp) < Window
    BY <2>1, <1>3, <1>5
  <2>2. CASE ~(refilled(k, stamp) < Window)
    BY <2>2, <1>3, <1>4
  <2> QED BY <2>1, <2>2
<1>8. ASSUME NEW j \in BucketKeys PROVE Len(grants'[j]) >= Len(grants[j])
  <2>1. CASE j = k
    BY <2>1, <1>7
  <2>2. CASE j # k
    <3>1. grants'[j] = grants[j]
      BY <2>2, <1>3
    <3>2. Len(grants'[j]) = Len(grants[j]) /\ Len(grants[j]) \in Nat
      BY <3>1, <1>5
    <3> QED BY <3>2
  <2> QED BY <2>1, <2>2
<1> QED BY <1>6, <1>8

LEMMA ConsumeKeepsMetered ==
  ASSUME RateAssumption, RateTypeOK, MutationsMetered, NEW p \in Processes, consume(p)
  PROVE  RateTypeOK' /\ MutationsMetered'
<1> DEFINE q == request[p]
           k == keyOf(q.stamp)
<1>1. /\ q # NoRequest /\ script(k, q.stamp, q.sentAt)
      /\ Decide(p, refilled(k, q.stamp) >= Window) /\ UNCHANGED <<now, skew>>
  BY DEF consume
<1>2. q.stamp \in Clock /\ q.sentAt \in Time /\ k \in BucketKeys
  BY <1>1, RequestFields, KeyTyped
<1>3. /\ bucket' \in [BucketKeys -> Buckets]
      /\ grants' \in [BucketKeys -> Seq(Time)]
      /\ hint' \in [BucketKeys -> {Unset} \cup Nat]
  BY <1>1, <1>2, ScriptTyped
<1>4. /\ \A j \in BucketKeys : Len(grants'[j]) >= Len(grants[j])
      /\ refilled(k, q.stamp) >= Window => Len(grants'[k]) > Len(grants[k])
  BY <1>1, <1>2, ScriptGrants
<1> DEFINE ok == refilled(k, q.stamp) >= Window
<1>5. ok \in BOOLEAN /\ Decide(p, ok) /\ (ok => Len(grants'[k]) > Len(grants[k]))
  BY <1>1, <1>4
<1> HIDE DEF ok
<1>6. /\ MutationsMetered' /\ request' \in [Processes -> Requests]
      /\ admitted' \in [BucketKeys -> Nat]
  BY <1>1, <1>3, <1>4, <1>5, DecideCounts
<1>7. RateTypeOK'
  BY <1>1, <1>3, <1>6 DEF RateTypeOK
<1> QED BY <1>6, <1>7

LEMMA StoreFailsKeepsMetered ==
  ASSUME RateAssumption, RateTypeOK, MutationsMetered, NEW p \in Processes, storeFails(p)
  PROVE  RateTypeOK' /\ MutationsMetered'
<1> DEFINE q == request[p]
           k == keyOf(q.stamp)
           ok == failsOpen(q.class)
<1>1. /\ q # NoRequest /\ Decide(p, ok) /\ UNCHANGED <<now, skew>>
      /\ UNCHANGED <<bucket, grants, hint>> \/ script(k, q.stamp, q.sentAt)
  BY DEF storeFails
<1>2. q.stamp \in Clock /\ q.sentAt \in Time /\ k \in BucketKeys
  BY <1>1, RequestFields, KeyTyped
<1>3. /\ bucket' \in [BucketKeys -> Buckets]
      /\ grants' \in [BucketKeys -> Seq(Time)]
      /\ hint' \in [BucketKeys -> {Unset} \cup Nat]
      /\ \A j \in BucketKeys : Len(grants'[j]) >= Len(grants[j])
  <2>1. CASE UNCHANGED <<bucket, grants, hint>>
    <3>1. \A j \in BucketKeys : Len(grants[j]) \in Nat
      BY DEF RateTypeOK
    <3> QED BY <2>1, <3>1 DEF RateTypeOK
  <2>2. CASE script(k, q.stamp, q.sentAt)
    BY <2>2, <1>2, ScriptTyped, ScriptGrants
  <2> QED BY <1>1, <2>1, <2>2
<1>4. ok \in BOOLEAN /\ ~(ok /\ q.class # "read")
  BY DEF failsOpen
<1> HIDE DEF ok
<1>5. /\ MutationsMetered' /\ request' \in [Processes -> Requests]
      /\ admitted' \in [BucketKeys -> Nat]
  BY <1>1, <1>3, <1>4, DecideCounts
<1>6. RateTypeOK'
  BY <1>1, <1>3, <1>5 DEF RateTypeOK
<1> QED BY <1>5, <1>6

LEMMA EnforceTyped ==
  ASSUME RateAssumption, RateTypeOK, NEW p \in Processes, NEW c \in Classes, enforce(p, c)
  PROVE  RateTypeOK'
<1>1. now + skew[p] \in Clock
  <2>1. now \in Nat /\ now <= MaxTime /\ skew[p] \in Nat /\ skew[p] <= MaxSkew
    BY Sizes DEF RateTypeOK, Time
  <2> QED BY <2>1, Sizes DEF Clock
<1>2. request' \in [Processes -> Requests]
  BY <1>1 DEF enforce, RateTypeOK, Requests
<1> QED BY <1>2 DEF enforce, RateTypeOK

LEMMA NextKeepsMetered ==
  RateAssumption /\ RateTypeOK /\ MutationsMetered /\ [RateNext]_rateVars
    => RateTypeOK' /\ MutationsMetered'
<1> SUFFICES ASSUME RateAssumption, RateTypeOK, MutationsMetered, [RateNext]_rateVars
             PROVE  RateTypeOK' /\ MutationsMetered'
  OBVIOUS
<1>1. CASE tick
  <2>1. now' \in Time
    BY <1>1, Sizes DEF tick, RateTypeOK, Time
  <2> QED BY <1>1, <2>1 DEF tick, RateTypeOK, MutationsMetered
<1>2. ASSUME NEW p \in Processes, NEW c \in Classes, enforce(p, c)
      PROVE  RateTypeOK' /\ MutationsMetered'
  BY <1>2, EnforceTyped DEF enforce, MutationsMetered
<1>3. ASSUME NEW p \in Processes, consume(p) PROVE RateTypeOK' /\ MutationsMetered'
  BY <1>3, ConsumeKeepsMetered
<1>4. ASSUME NEW p \in Processes, storeFails(p) PROVE RateTypeOK' /\ MutationsMetered'
  BY <1>4, StoreFailsKeepsMetered
<1>5. ASSUME NEW p \in Processes, NEW s \in 0 .. MaxSkew, stepClock(p, s)
      PROVE  RateTypeOK' /\ MutationsMetered'
  BY <1>5 DEF stepClock, RateTypeOK, MutationsMetered
<1>6. CASE UNCHANGED rateVars
  BY <1>6 DEF rateVars, RateTypeOK, MutationsMetered
<1> QED BY <1>1, <1>2, <1>3, <1>4, <1>5, <1>6 DEF RateNext

(* Steps that write no bucket, at the same time or between requests.       *)
LEMMA QuietStepKeepsMetering ==
  ASSUME RateAssumption, RateTypeOK, Metering,
         UNCHANGED <<bucket, grants, hint>>, now' \in Nat, now' >= now, Prompt'
  PROVE  Metering'
<1>1. Written'
  <2>1. \A k \in BucketKeys : bucket[k] # NoBucket => bucket[k].updatedAt \in Nat
    BY WrittenTyped DEF Metering
  <2>2. now \in Nat
    BY DEF RateTypeOK, Time
  <2> QED BY <2>1, <2>2 DEF Metering, Written
<1>2. Credit'
  BY DEF Metering, Credit, Since
<1>3. Hinted'
  BY DEF Metering, Hinted
<1>4. BurstBound'
  BY DEF Metering, BurstBound
<1> QED BY <1>1, <1>2, <1>3, <1>4 DEF Metering

LEMMA NextKeepsMetering ==
  RateAssumption /\ Exact /\ RateTypeOK /\ Metering /\ [RateNext]_rateVars => Metering'
<1> SUFFICES ASSUME RateAssumption, Exact, RateTypeOK, Metering, [RateNext]_rateVars
             PROVE  Metering'
  OBVIOUS
<1>1. now \in Nat /\ now \in Clock
  BY Sizes DEF RateTypeOK, Time, Clock
<1>2. CASE tick
  <2>1. \A p \in Processes : request[p] = NoRequest
    BY <1>1, <1>2 DEF tick, Exact, Metering, Prompt
  <2>2. Prompt'
    BY <1>2, <2>1 DEF tick, Prompt
  <2> QED BY <1>1, <1>2, <2>2, QuietStepKeepsMetering DEF tick
<1>3. ASSUME NEW p \in Processes, NEW c \in Classes, enforce(p, c) PROVE Metering'
  <2>1. skew[p] = 0
    BY DEF Exact, RateTypeOK
  <2>2. now + skew[p] = now
    BY <1>1, <2>1
  <2>3. request' = [request EXCEPT ![p] = [class |-> c, stamp |-> now, sentAt |-> now]]
    BY <1>3, <2>2 DEF enforce
  <2>4. Prompt'
    BY <1>3, <2>3 DEF enforce, Metering, Prompt, RateTypeOK
  <2> QED BY <1>1, <1>3, <2>4, QuietStepKeepsMetering DEF enforce
<1>4. ASSUME NEW p \in Processes, request[p] # NoRequest, now' = now,
             script(keyOf(request[p].stamp), request[p].stamp, request[p].sentAt),
             Prompt'
      PROVE  Metering'
  <2>1. request[p].stamp = now /\ request[p].sentAt = now
    BY <1>4 DEF Metering, Prompt
  <2>2. keyOf(now) \in BucketKeys
    BY <1>1, KeyTyped
  <2> QED BY <1>4, <2>1, <2>2, ScriptKeepsMetering DEF Metering
<1>5. ASSUME NEW p \in Processes, NEW ok, Decide(p, ok), now' = now PROVE Prompt'
  BY <1>5 DEF Decide, Metering, Prompt, RateTypeOK
<1>6. ASSUME NEW p \in Processes, consume(p) PROVE Metering'
  BY <1>4, <1>5, <1>6 DEF consume
<1>7. ASSUME NEW p \in Processes, storeFails(p) PROVE Metering'
  <2>1. Prompt' /\ now' = now
    BY <1>5, <1>7 DEF storeFails
  <2>2. CASE UNCHANGED <<bucket, grants, hint>>
    BY <1>1, <2>1, <2>2, QuietStepKeepsMetering
  <2>3. CASE script(keyOf(request[p].stamp), request[p].stamp, request[p].sentAt)
    BY <1>4, <1>7, <2>1, <2>3 DEF storeFails
  <2> QED BY <1>7, <2>2, <2>3 DEF storeFails
<1>8. ASSUME NEW p \in Processes, NEW s \in 0 .. MaxSkew, stepClock(p, s) PROVE Metering'
  BY <1>1, <1>8, QuietStepKeepsMetering DEF stepClock, Metering, Prompt
<1>9. CASE UNCHANGED rateVars
  BY <1>1, <1>9, QuietStepKeepsMetering DEF rateVars, Metering, Prompt
<1> QED BY <1>2, <1>3, <1>6, <1>7, <1>8, <1>9 DEF RateNext

(* A hint that has run out names a bucket with a whole token.              *)
LEMMA HintsAreKept ==
  ASSUME RateAssumption, RateTypeOK, Metering PROVE NeverOptimistic
<1> SUFFICES ASSUME NEW k \in BucketKeys, hint[k] # Unset, now >= hint[k]
             PROVE  refilled(k, now) >= Window
  BY DEF NeverOptimistic
<1> DEFINE updated == bucket[k].updatedAt
<1>1. Limit \in Nat \ {0} /\ Window \in Nat /\ Limit * Window \in Nat /\ Window <= Limit * Window
  BY Sizes
<1>2. now \in Nat /\ hint[k] \in Nat
  BY DEF RateTypeOK, Time
<1>3. /\ bucket[k] # NoBucket /\ bucket[k].tokens < Window
      /\ hint[k] >= updated /\ (hint[k] - updated) * Limit >= Window - bucket[k].tokens
  BY DEF Metering, Hinted
<1>4. bucket[k].tokens \in Nat /\ updated \in Nat
  BY <1>3, WrittenTyped DEF Metering
<1>5. CASE live(k)
  <2>1. refilled(k, now) = LowerOf(Limit * Window,
          bucket[k].tokens + HigherOf(0, now - updated) * Limit)
    BY <1>5 DEF refilled
  <2> HIDE DEF updated
  <2>2. HigherOf(0, now - updated) = now - updated
    BY <1>2, <1>3, <1>4 DEF HigherOf
  <2>3. (now - updated) * Limit >= (hint[k] - updated) * Limit /\ (now - updated) * Limit \in Nat
        /\ (hint[k] - updated) * Limit \in Nat
    BY <1>1, <1>2, <1>3, <1>4
  <2>4. bucket[k].tokens + (now - updated) * Limit >= Window
    BY <1>1, <1>3, <1>4, <2>3
  <2> QED BY <2>1, <2>2, <2>3, <2>4, <1>1, <1>4 DEF LowerOf
<1>6. CASE ~live(k)
  BY <1>1, <1>6 DEF refilled
<1> QED BY <1>5, <1>6

(* Of the requests made in any stretch of time a bucket lets through its   *)
(* capacity and the refill of the stretch, and a client that waits as told *)
(* gets its token, when clocks are exact and scripts arrive at once; with  *)
(* any clocks and any failure of the store no public request and no        *)
(* mutation passes without a token (the script, consume, failsOpen).       *)
THEOREM RequestsAreMetered == RateAssumption => (RateSpec => []RequestsMetered)
<1> SUFFICES ASSUME RateAssumption PROVE RateSpec => []RequestsMetered
  OBVIOUS
<1>1. RateInit => RInv
  BY InitRInv
<1>2. RInv /\ [RateNext]_rateVars => RInv'
  <2>1. Exact <=> Exact'
    BY DEF Exact
  <2> QED BY <2>1, NextKeepsMetered, NextKeepsMetering DEF RInv, Metering
<1>3. RInv => RequestsMetered
  BY HintsAreKept DEF RInv, RequestsMetered, Metering, Exact
<1> QED BY <1>1, <1>2, <1>3, PTL DEF RateSpec

=============================================================================
