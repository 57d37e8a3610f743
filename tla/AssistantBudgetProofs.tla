------------------------ MODULE AssistantBudgetProofs -----------------------
(***************************************************************************)
(* The day's budget, proved for any number of requests, commands, days and *)
(* losses, whichever losses, routes and overlaps the constants allow:      *)
(* BudgetSound holds in every reachable state.                             *)
(***************************************************************************)
EXTENDS AssistantBudget, FiniteSetTheorems, TLAPS

(* The inductive invariant.                                                *)

(* The stage of a request under a recorded hold, until it gives it back.   *)
Under(q) == \/ q.pc \in {"limit", "handler", "accept"}
            \/ q.pc = "credit" /\ q.then = "limit"

(* What a request has on the counters follows from where it is.            *)
CallerFits(q) ==
    /\ q.took \subseteq Enabled
    /\ q.pc = "global" => q.took = Enabled \cap {"company"}
    /\ q.pc = "claim" => q.took = Enabled
    /\ q.pc \notin {"global", "claim", "credit"} => q.took = {}
    /\ q.created => \/ q.pc \in {"limit", "handler", "accept", "release", "free"}
                    \/ q.pc = "credit" /\ q.then = "free"
    /\ q.pc \notin {"idle", "end"} => q.route \in Route

(* Whoever ended a turn row gives back what the row held.                  *)
EnderFits(t) ==
    /\ ender[t].took \subseteq Enabled
    /\ ender[t].pc # "credit" => ender[t].took = {}
    /\ ender[t].pc # "none" => row[t].st = "ended"

Parties == /\ \A r \in Caller : CallerFits(caller[r])
           /\ \A t \in Turn : EnderFits(t)

(* Where the requests of a command come one after the other, no two of     *)
(* them are in flight.                                                     *)
OneAtATime ==
    ~Overlap => \A r, o \in Caller : r # o /\ InFlight(r) /\ InFlight(o)
                                     => caller[r].cmd # caller[o].cmd

Owes(t) == row[t].st \in Holding \cup {"charged"}
KeyOf(t) == <<row[t].day, t[1], t[2]>>

(* A turn that owes its hold has the record of it, a request that may      *)
(* still store a turn has the record it would store, and no request that   *)
(* may delete a record deletes that of a turn.                             *)
HoldsRecorded ==
    /\ \A t \in Turn : Owes(t) => KeyOf(t) \in record
    /\ \A r \in Caller :
          LET q == caller[r]  t == TurnOf(q) IN
          /\ Under(q) /\ row[t].st = "none" => HoldKeyOf(q) \in record
          /\ q.created /\ (Under(q) \/ q.pc = "release") /\ Owes(t) => row[t].day # q.day

(* Somebody answers for the record h: the turn that owes it, whoever ended *)
(* that turn, or a request that created a record of this key.              *)
Answered(h) ==
    \/ Owes(<<h[2], h[3]>>) /\ row[<<h[2], h[3]>>].day = h[1]
    \/ ender[<<h[2], h[3]>>].pc = "release" /\ row[<<h[2], h[3]>>].day = h[1]
    \/ \E r \in Caller :
          /\ caller[r].created /\ caller[r].pc \in {"limit", "handler", "accept", "release"}
          /\ HoldKeyOf(caller[r]) = h

BudgetInv ==
    /\ BudgetTypeOK /\ Parties /\ OneAtATime
    /\ CountersMatchRecords /\ FailuresOnlyOvercharge
    /\ ~Overlap /\ SameKind => HoldsRecorded
    /\ Loss = {} /\ SameKind => \A h \in record : Answered(h)

CallerRec == [pc : PC, cmd : ClientCommand, route : Routes, day : Day,
              took : SUBSET Counter, created : BOOLEAN,
              then : {"end", "limit", "free"}, frees : BOOLEAN]
RowRec == [st : Holding \cup {"none", "settled", "ended", "charged"}, day : Day]
EnderRec == [pc : {"none", "release", "credit", "end"}, took : SUBSET Counter]
Over == [NewRequest EXCEPT !.pc = "end"]

----------------------------------------------------------------------------
(* A new request and one that ended are records of a request.              *)
LEMMA NewIsCaller == BudgetAssumption => NewRequest \in CallerRec /\ Over \in CallerRec
<1> SUFFICES ASSUME BudgetAssumption PROVE NewRequest \in CallerRec /\ Over \in CallerRec
  OBVIOUS
<1>1. (CHOOSE c \in ClientCommand : TRUE) \in ClientCommand
  BY DEF BudgetAssumption
<1>2. 1 \in Day
  BY DEF BudgetAssumption, Day
<1> QED BY <1>1, <1>2 DEF NewRequest, Over, CallerRec, PC, Routes

(* Update moves one request, and forgets it when it ended.                 *)
LEMMA Updates ==
    ASSUME BudgetAssumption, BudgetTypeOK, NEW r \in Caller, NEW q \in CallerRec, Update(r, q)
    PROVE  /\ caller' \in [Caller -> CallerRec]
           /\ \A o \in Caller \ {r} : caller'[o] = caller[o]
           /\ caller'[r] = IF q.pc = "end" THEN Over ELSE q
<1>1. Over \in CallerRec
  BY NewIsCaller
<1>2. caller \in [Caller -> CallerRec]
  BY DEF BudgetTypeOK, CallerRec
<1>3. caller' = [caller EXCEPT ![r] = IF q.pc = "end" THEN Over ELSE q]
  BY DEF Update, Over
<1> QED BY <1>1, <1>2, <1>3

(* The same for a request that only goes elsewhere.                        *)
LEMMA Goes ==
    ASSUME BudgetAssumption, BudgetTypeOK, NEW r \in Caller, NEW pc \in PC, Goto(r, pc)
    PROVE  /\ caller' \in [Caller -> CallerRec]
           /\ \A o \in Caller \ {r} : caller'[o] = caller[o]
           /\ caller'[r] = IF pc = "end" THEN Over ELSE [caller[r] EXCEPT !.pc = pc]
<1>1. caller[r] \in CallerRec
  BY DEF BudgetTypeOK, CallerRec
<1>2. [caller[r] EXCEPT !.pc = pc] \in CallerRec
  BY <1>1 DEF CallerRec
<1>3. [caller[r] EXCEPT !.pc = pc].pc = pc
  BY <1>1 DEF CallerRec
<1> QED BY <1>2, <1>3, Updates DEF Goto

(* Where a request and its turn name keys, the keys are well formed.       *)
LEMMA KeysTyped ==
    ASSUME BudgetTypeOK, NEW r \in Caller
    PROVE  /\ caller[r] \in CallerRec
           /\ HoldKeyOf(caller[r]) \in HoldKey /\ HoldKeyOf(caller[r])[1] = caller[r].day
           /\ TurnOf(caller[r]) \in Turn
           /\ ReceiptOf(caller[r]) \in {"chat", "answer", "continue"} \X ClientCommand
<1>1. caller[r] \in CallerRec
  BY DEF BudgetTypeOK, CallerRec
<1> QED BY <1>1 DEF CallerRec, HoldKeyOf, HoldKey, HoldKind, Kind, TurnOf, Turn, RowKind,
                    ReceiptOf, Routes

----------------------------------------------------------------------------
(* Finite sets.                                                            *)
LEMMA FiniteKeys == BudgetAssumption => IsFiniteSet(Turn) /\ IsFiniteSet(HoldKey)
<1> SUFFICES ASSUME BudgetAssumption PROVE IsFiniteSet(Turn) /\ IsFiniteSet(HoldKey)
  OBVIOUS
<1>1. IsFiniteSet({"chat"} \cup {"answer"})
  BY FS_Singleton, FS_AddElement
<1>2. IsFiniteSet(Kind)
  <2>1. Kind = {"chat"} \cup {"answer"}
    BY DEF Kind
  <2> QED BY <1>1, <2>1
<1>3. IsFiniteSet(Turn)
  BY <1>2, FS_Product DEF Turn, BudgetAssumption
<1>4. IsFiniteSet(Day)
  <2>1. 1 \in Int /\ MaxDay \in Int
    BY DEF BudgetAssumption
  <2> QED BY <2>1, FS_Interval DEF Day
<1>5. IsFiniteSet(Day \X Turn)
  BY <1>3, <1>4, FS_Product
<1> DEFINE f == [p \in Day \X Turn |-> <<p[1], p[2][1], p[2][2]>>]
<1>6. f \in Surjection(Day \X Turn, HoldKey)
  <2>1. f \in [Day \X Turn -> HoldKey]
    BY DEF Turn, HoldKey
  <2>2. ASSUME NEW h \in HoldKey PROVE \E p \in Day \X Turn : f[p] = h
    <3>1. <<h[1], <<h[2], h[3]>>>> \in Day \X Turn
      BY DEF Turn, HoldKey
    <3>2. f[<<h[1], <<h[2], h[3]>>>>] = h
      BY <3>1 DEF HoldKey
    <3> QED BY <3>1, <3>2
  <2> QED BY <2>1, <2>2 DEF Surjection
<1>7. IsFiniteSet(HoldKey)
  BY <1>5, <1>6, FS_Surjection
<1> QED BY <1>3, <1>7

(* The sets that are counted are finite.                                   *)
LEMMA FiniteCounts ==
    ASSUME BudgetAssumption, BudgetTypeOK, NEW k, NEW d
    PROVE  /\ IsFiniteSet(record) /\ IsFiniteSet(Recorded(d)) /\ IsFiniteSet(Held(k, d))
           /\ IsFiniteSet(Returning(k, d))
           /\ {Cardinality(Recorded(d)), Cardinality(Held(k, d)), Cardinality(Returning(k, d))}
                \subseteq Nat
<1>1. record \in SUBSET HoldKey
  BY DEF BudgetTypeOK
<1>2. IsFiniteSet(record)
  BY <1>1, FiniteKeys, FS_Subset
<1>3. Recorded(d) \in SUBSET record /\ Held(k, d) \in SUBSET Caller
      /\ Returning(k, d) \in SUBSET Turn
  BY DEF Recorded, Held, Returning
<1>4. IsFiniteSet(Recorded(d)) /\ IsFiniteSet(Held(k, d)) /\ IsFiniteSet(Returning(k, d))
  BY <1>2, <1>3, FiniteKeys, FS_Subset DEF BudgetAssumption
<1> QED BY <1>2, <1>4, FS_CardinalityType

Has(x, k, d) == k \in x.took /\ x.day = d

(* The reservations that requests hold change with the one that moves.     *)
LEMMA HeldMoves ==
    ASSUME BudgetAssumption, BudgetTypeOK, NEW r \in Caller,
           \A o \in Caller \ {r} : caller'[o] = caller[o], NEW k, NEW d
    PROVE  LET n == Cardinality(Held(k, d)) IN
           Cardinality(Held(k, d)') =
               IF Has(caller[r], k, d) = Has(caller'[r], k, d) THEN n
               ELSE IF Has(caller[r], k, d) THEN n - 1 ELSE n + 1
<1>1. IsFiniteSet(Held(k, d))
  BY FiniteCounts
<1>2. CASE Has(caller[r], k, d) = Has(caller'[r], k, d)
  <2>1. Held(k, d)' = Held(k, d)
    BY <1>2 DEF Held, Has
  <2> QED BY <2>1, <1>2
<1>3. CASE Has(caller[r], k, d) # Has(caller'[r], k, d) /\ Has(caller[r], k, d)
  <2>1. ~Has(caller'[r], k, d)
    BY <1>3 DEF Has
  <2>2. Held(k, d)' = Held(k, d) \ {r} /\ r \in Held(k, d)
    BY <1>3, <2>1 DEF Held, Has
  <2> QED BY <2>2, <1>1, <1>3, FS_RemoveElement
<1>4. CASE Has(caller[r], k, d) # Has(caller'[r], k, d) /\ ~Has(caller[r], k, d)
  <2>1. Has(caller'[r], k, d)
    BY <1>4 DEF Has
  <2>2. Held(k, d)' = Held(k, d) \cup {r} /\ r \notin Held(k, d)
    BY <1>4, <2>1 DEF Held, Has
  <2> QED BY <2>2, <1>1, <1>4, FS_AddElement
<1> QED BY <1>2, <1>3, <1>4

(* Those on their way back change with the turn whose ender moves.         *)
LEMMA ReturningMoves ==
    ASSUME BudgetAssumption, BudgetTypeOK, NEW t \in Turn, row' = row,
           \A o \in Turn \ {t} : ender'[o] = ender[o], NEW k, NEW d
    PROVE  LET n == Cardinality(Returning(k, d))
               before == k \in ender[t].took /\ row[t].day = d
               after == k \in ender'[t].took /\ row[t].day = d
           IN  Cardinality(Returning(k, d)') =
                   IF before = after THEN n ELSE IF before THEN n - 1 ELSE n + 1
<1> DEFINE before == k \in ender[t].took /\ row[t].day = d
           after == k \in ender'[t].took /\ row[t].day = d
<1>1. IsFiniteSet(Returning(k, d))
  BY FiniteCounts
<1>2. CASE before = after
  <2>1. Returning(k, d)' = Returning(k, d)
    BY <1>2 DEF Returning
  <2> QED BY <2>1, <1>2
<1>3. CASE before # after /\ before
  <2>1. ~after
    BY <1>3
  <2>2. Returning(k, d)' = Returning(k, d) \ {t} /\ t \in Returning(k, d)
    BY <1>3, <2>1 DEF Returning
  <2> QED BY <2>2, <1>1, <1>3, FS_RemoveElement
<1>4. CASE before # after /\ ~before
  <2>1. after
    BY <1>4
  <2>2. Returning(k, d)' = Returning(k, d) \cup {t} /\ t \notin Returning(k, d)
    BY <1>4, <2>1 DEF Returning
  <2> QED BY <2>2, <1>1, <1>4, FS_AddElement
<1> QED BY <1>2, <1>3, <1>4

(* A new record counts on its day.                                         *)
LEMMA RecordAdded ==
    ASSUME BudgetAssumption, BudgetTypeOK, NEW h, record' = record \cup {h}, NEW d
    PROVE  Cardinality(Recorded(d)') =
               IF h \notin record /\ h[1] = d THEN Cardinality(Recorded(d)) + 1
               ELSE Cardinality(Recorded(d))
<1>1. IsFiniteSet(Recorded(d))
  BY FiniteCounts
<1>2. CASE h \notin record /\ h[1] = d
  <2>1. Recorded(d)' = Recorded(d) \cup {h} /\ h \notin Recorded(d)
    BY <1>2 DEF Recorded
  <2> QED BY <1>1, <1>2, <2>1, FS_AddElement
<1>3. CASE ~(h \notin record /\ h[1] = d)
  <2>1. Recorded(d)' = Recorded(d)
    BY <1>3 DEF Recorded
  <2> QED BY <1>3, <2>1
<1> QED BY <1>2, <1>3

(* A deleted record no longer does.                                        *)
LEMMA RecordDropped ==
    ASSUME BudgetAssumption, BudgetTypeOK, NEW h, record' = record \ {h}, NEW d
    PROVE  Cardinality(Recorded(d)') =
               IF h \in record /\ h[1] = d THEN Cardinality(Recorded(d)) - 1
               ELSE Cardinality(Recorded(d))
<1>1. IsFiniteSet(Recorded(d))
  BY FiniteCounts
<1>2. CASE h \in record /\ h[1] = d
  <2>1. Recorded(d)' = Recorded(d) \ {h} /\ h \in Recorded(d)
    BY <1>2 DEF Recorded
  <2> QED BY <1>1, <1>2, <2>1, FS_RemoveElement
<1>3. CASE ~(h \in record /\ h[1] = d)
  <2>1. Recorded(d)' = Recorded(d)
    BY <1>3 DEF Recorded
  <2> QED BY <1>3, <2>1
<1> QED BY <1>2, <1>3

----------------------------------------------------------------------------
(* What a step of a request does to the counters and the records, and to   *)
(* what it holds itself.                                                   *)
SameDay(r) == caller'[r].day = caller[r].day

Stays(r) ==
    /\ UNCHANGED <<spent, record>>
    /\ \/ caller[r].took = {} /\ caller'[r].took = {}
       \/ caller'[r].took = caller[r].took /\ SameDay(r)

Takes(r) ==
    \E k \in Enabled \ caller[r].took :
        /\ spent' = TryAdd(k, caller[r].day) /\ UNCHANGED record
        /\ caller'[r].took = caller[r].took \cup {k} /\ SameDay(r)

Records(r) ==
    \E h \in HoldKey \ record :
        /\ h[1] = caller[r].day /\ record' = record \cup {h} /\ UNCHANGED spent
        /\ caller[r].took = Enabled /\ caller'[r].took = {}

Unrecords(r) ==
    \E h \in record :
        /\ h[1] = caller[r].day /\ record' = record \ {h} /\ UNCHANGED spent
        /\ caller[r].took = {} /\ caller'[r].took = Enabled /\ SameDay(r)

Credits(r) ==
    \E k \in caller[r].took :
        /\ spent' = Subtract(k, caller[r].day) /\ UNCHANGED record
        /\ caller'[r].took = caller[r].took \ {k} /\ SameDay(r)

(* With losses: counted and not heard of, recorded and not heard of,       *)
(* dropped or credited in part.                                            *)
Unheard(r) ==
    \/ \E k \in Enabled :
          /\ spent' = TryAdd(k, caller[r].day) /\ UNCHANGED record
          /\ caller'[r].took = caller[r].took /\ SameDay(r)
    \/ \E h \in HoldKey :
          /\ "lostClaim" \in Loss /\ losses' = losses + 1
          /\ record' = record \cup {h} /\ UNCHANGED spent
          /\ caller'[r].took = caller[r].took /\ SameDay(r)
    \/ \E h \in record :
          /\ record' = record \ {h} /\ UNCHANGED spent
          /\ caller[r].took = {} /\ caller'[r].took = {}
    \/ UNCHANGED <<spent, record>> /\ caller'[r].took = {}
    \/ \E k \in caller[r].took :
          /\ spent' = Subtract(k, caller[r].day) /\ UNCHANGED record
          /\ caller'[r].took = {}

MovesHold(r) ==
    /\ caller' \in [Caller -> CallerRec]
    /\ \A o \in Caller \ {r} : caller'[o] = caller[o]
    /\ losses' = losses \/ losses' = losses + 1
    /\ losses' \in 0 .. MaxLosses
    /\ \/ Stays(r) \/ Takes(r) \/ Records(r) \/ Unrecords(r) \/ Credits(r)
       \/ ~(Loss \subseteq {"unknown"}) /\ Unheard(r)

(* Faults are counted up to their bound.                                   *)
LEMMA BreaksCount ==
    ASSUME BudgetAssumption, BudgetTypeOK, NEW f, Breaks(f)
    PROVE  losses' = losses + 1 /\ losses' \in 0 .. MaxLosses /\ f \in Loss
BY DEF Breaks, BudgetTypeOK, BudgetAssumption

(* What a counter step enables on.                                         *)
LEMMA EnabledIsCounter == Enabled \subseteq Counter
BY DEF Enabled

(* Reserving.                                                              *)
LEMMA ReserveMoves ==
    ASSUME BudgetAssumption, BudgetTypeOK, Parties, NEW r \in Caller, NEW k \in Counter,
           NEW next \in {"global", "claim"}, k \notin caller[r].took, Reserve(r, k, next)
    PROVE  MovesHold(r)
<1> DEFINE q == caller[r]
<1>1. q \in CallerRec /\ losses \in 0 .. MaxLosses
  BY DEF BudgetTypeOK, CallerRec
<1>2. next \in PC /\ next # "end" /\ UNCHANGED record
  BY DEF PC, Reserve
<1>3. Refuse(q) \in CallerRec /\ Refuse(q).pc = "credit"
      /\ Refuse(q).took = q.took /\ Refuse(q).day = q.day
  BY <1>1 DEF Refuse, CallerRec, PC
<1>4. CASE k \notin Enabled /\ Goto(r, next) /\ UNCHANGED <<spent, losses>>
  <2>1. caller'[r] = [q EXCEPT !.pc = next]
    BY <1>2, <1>4, Goes
  <2>2. caller'[r].took = q.took /\ caller'[r].day = q.day
    BY <1>1, <2>1 DEF CallerRec
  <2> QED BY <1>1, <1>2, <1>4, <2>2, Goes DEF MovesHold, Stays, SameDay
<1>5. CASE /\ k \in Enabled /\ spent' = TryAdd(k, q.day) /\ UNCHANGED losses
           /\ Update(r, [q EXCEPT !.pc = next, !.took = @ \cup {k}])
  <2> DEFINE q2 == [q EXCEPT !.pc = next, !.took = @ \cup {k}]
  <2>1. q2 \in CallerRec /\ q2.pc = next /\ q2.took = q.took \cup {k} /\ q2.day = q.day
    BY <1>1, <1>2 DEF CallerRec
  <2>2. /\ caller' \in [Caller -> CallerRec] /\ caller'[r] = q2
        /\ \A o \in Caller \ {r} : caller'[o] = caller[o]
    BY <1>2, <1>5, <2>1, Updates
  <2> QED BY <1>1, <1>2, <1>5, <2>1, <2>2 DEF MovesHold, Takes, SameDay
<1>6. ASSUME Update(r, Refuse(q))
      PROVE  /\ caller' \in [Caller -> CallerRec]
             /\ \A o \in Caller \ {r} : caller'[o] = caller[o]
             /\ caller'[r].took = q.took /\ caller'[r].day = q.day
  BY <1>3, <1>6, Updates
<1>7. CASE Update(r, Refuse(q)) /\ UNCHANGED <<spent, losses>>
  BY <1>1, <1>2, <1>6, <1>7 DEF MovesHold, Stays, SameDay
<1>8. CASE Update(r, Refuse(q)) /\ Breaks("refused") /\ UNCHANGED spent
  BY <1>2, <1>6, <1>8, BreaksCount DEF MovesHold, Stays, SameDay
<1>9. CASE k \in Enabled /\ Update(r, Refuse(q)) /\ Breaks("lost") /\ spent' = TryAdd(k, q.day)
  BY <1>2, <1>6, <1>9, BreaksCount DEF MovesHold, Unheard, SameDay
<1> QED BY <1>4, <1>5, <1>7, <1>8, <1>9 DEF Reserve

(* Recording.                                                              *)
LEMMA ClaimMoves ==
    ASSUME BudgetAssumption, BudgetTypeOK, Parties, NEW r \in Caller, ClaimHold(r)
    PROVE  MovesHold(r)
<1> DEFINE q == caller[r]  h == HoldKeyOf(q)
<1>1. q \in CallerRec /\ losses \in 0 .. MaxLosses /\ h \in HoldKey /\ h[1] = q.day
  BY KeysTyped DEF BudgetTypeOK
<1>2. q.pc = "claim" /\ q.took = Enabled
  BY DEF ClaimHold, CallerAt, Parties, CallerFits
<1>3. Refuse(q) \in CallerRec /\ Refuse(q).pc = "credit"
      /\ Refuse(q).took = q.took /\ Refuse(q).day = q.day
  BY <1>1 DEF Refuse, CallerRec, PC
<1>4. ASSUME Update(r, Refuse(q))
      PROVE  /\ caller' \in [Caller -> CallerRec]
             /\ \A o \in Caller \ {r} : caller'[o] = caller[o]
             /\ caller'[r].took = q.took /\ caller'[r].day = q.day
  BY <1>3, <1>4, Updates
<1>5. UNCHANGED spent
  BY DEF ClaimHold
<1>6. CASE /\ h \notin record /\ record' = record \cup {h} /\ UNCHANGED losses
           /\ Update(r, [q EXCEPT !.pc = "limit", !.took = {}, !.created = TRUE])
  <2> DEFINE q2 == [q EXCEPT !.pc = "limit", !.took = {}, !.created = TRUE]
  <2>1. q2 \in CallerRec /\ q2.pc = "limit" /\ q2.took = {}
    BY <1>1 DEF CallerRec, PC
  <2>2. /\ caller' \in [Caller -> CallerRec] /\ caller'[r] = q2
        /\ \A o \in Caller \ {r} : caller'[o] = caller[o]
    BY <1>6, <2>1, Updates
  <2> QED BY <1>1, <1>2, <1>5, <1>6, <2>1, <2>2 DEF MovesHold, Records
<1>7. CASE /\ UNCHANGED <<record, losses>>
           /\ Update(r, [q EXCEPT !.pc = "credit", !.then = "limit"])
  <2> DEFINE q2 == [q EXCEPT !.pc = "credit", !.then = "limit"]
  <2>1. q2 \in CallerRec /\ q2.pc = "credit" /\ q2.took = q.took /\ q2.day = q.day
    BY <1>1 DEF CallerRec, PC
  <2>2. /\ caller' \in [Caller -> CallerRec] /\ caller'[r] = q2
        /\ \A o \in Caller \ {r} : caller'[o] = caller[o]
    BY <1>7, <2>1, Updates
  <2> QED BY <1>1, <1>5, <1>7, <2>1, <2>2 DEF MovesHold, Stays, SameDay
<1>8. CASE Update(r, Refuse(q)) /\ Breaks("refused") /\ UNCHANGED record
  BY <1>4, <1>5, <1>8, BreaksCount DEF MovesHold, Stays, SameDay
<1>9. CASE Update(r, Refuse(q)) /\ Breaks("lostClaim") /\ record' = record \cup {h}
  BY <1>1, <1>4, <1>5, <1>9, BreaksCount DEF MovesHold, Unheard, SameDay
<1> QED BY <1>6, <1>7, <1>8, <1>9 DEF ClaimHold

(* Releasing.                                                              *)
LEMMA ReleaseMoves ==
    ASSUME BudgetAssumption, BudgetTypeOK, Parties, NEW r \in Caller, Release(r)
    PROVE  MovesHold(r)
<1> DEFINE q == caller[r]  h == HoldKeyOf(q)
<1>1. q \in CallerRec /\ losses \in 0 .. MaxLosses /\ h \in HoldKey /\ h[1] = q.day
  BY KeysTyped DEF BudgetTypeOK
<1>2. q.pc = "release" /\ q.took = {} /\ UNCHANGED spent
  BY DEF Release, CallerAt, Parties, CallerFits
<1>3. "free" \in PC
  BY DEF PC
<1>4. ASSUME Goto(r, "free")
      PROVE  /\ caller' \in [Caller -> CallerRec]
             /\ \A o \in Caller \ {r} : caller'[o] = caller[o]
             /\ caller'[r].took = {}
  <2>1. caller'[r] = [q EXCEPT !.pc = "free"]
    BY <1>3, <1>4, Goes
  <2>2. caller'[r].took = {}
    BY <1>1, <1>2, <2>1 DEF CallerRec
  <2> QED BY <1>3, <1>4, <2>2, Goes
<1>5. CASE Goto(r, "free") /\ UNCHANGED <<record, losses>>
  BY <1>1, <1>2, <1>4, <1>5 DEF MovesHold, Stays
<1>6. CASE /\ h \in record /\ record' = record \ {h} /\ UNCHANGED losses
           /\ Update(r, [q EXCEPT !.pc = "credit", !.then = "free", !.took = Enabled])
  <2> DEFINE q2 == [q EXCEPT !.pc = "credit", !.then = "free", !.took = Enabled]
  <2>1. q2 \in CallerRec /\ q2.pc = "credit" /\ q2.took = Enabled /\ q2.day = q.day
    BY <1>1, EnabledIsCounter DEF CallerRec, PC
  <2>2. /\ caller' \in [Caller -> CallerRec] /\ caller'[r] = q2
        /\ \A o \in Caller \ {r} : caller'[o] = caller[o]
    BY <1>6, <2>1, Updates
  <2> QED BY <1>1, <1>2, <1>6, <2>1, <2>2 DEF MovesHold, Unrecords, SameDay
<1>7. CASE Goto(r, "free") /\ Breaks("refused") /\ UNCHANGED record
  BY <1>2, <1>4, <1>7, BreaksCount DEF MovesHold, Stays
<1>8. CASE Goto(r, "free") /\ Breaks("lost") /\ record' = record \ {h}
  <2>1. CASE h \in record
    BY <1>2, <1>4, <1>8, <2>1, BreaksCount DEF MovesHold, Unheard
  <2>2. CASE h \notin record
    <3>1. record' = record
      BY <1>8, <2>2
    <3> QED BY <1>2, <1>4, <1>8, <3>1, BreaksCount DEF MovesHold, Stays
  <2> QED BY <2>1, <2>2
<1> QED BY <1>5, <1>6, <1>7, <1>8 DEF Release, Drops

(* Crediting.                                                              *)
LEMMA CreditMoves ==
    ASSUME BudgetAssumption, BudgetTypeOK, Parties, NEW r \in Caller, Credit(r)
    PROVE  MovesHold(r)
<1> DEFINE q == caller[r]  k == NextCredit(q.took)
<1>1. q \in CallerRec /\ losses \in 0 .. MaxLosses
  BY KeysTyped DEF BudgetTypeOK
<1>2. q.pc = "credit" /\ UNCHANGED record
  BY DEF Credit, CallerAt
<1>3. q.took # {} => k \in q.took
  BY <1>1 DEF CallerRec, Counter, NextCredit
<1>4. CASE q.took = {} /\ Goto(r, q.then) /\ UNCHANGED <<spent, losses>>
  <2>1. q.then \in PC
    BY <1>1 DEF CallerRec, PC
  <2>2. caller'[r] = IF q.then = "end" THEN Over ELSE [q EXCEPT !.pc = q.then]
    BY <1>4, <2>1, Goes
  <2>3. caller'[r].took = {}
    BY <1>1, <1>4, <2>2 DEF CallerRec, Over, NewRequest
  <2> QED BY <1>1, <1>2, <1>4, <2>1, <2>3, Goes DEF MovesHold, Stays
<1>5. CASE /\ q.took # {} /\ spent' = Subtract(k, q.day) /\ UNCHANGED losses
           /\ Update(r, [q EXCEPT !.took = @ \ {k}])
  <2> DEFINE q2 == [q EXCEPT !.took = @ \ {k}]
  <2>1. q2 \in CallerRec /\ q2.pc = "credit" /\ q2.took = q.took \ {k} /\ q2.day = q.day
    BY <1>1, <1>2 DEF CallerRec
  <2>2. /\ caller' \in [Caller -> CallerRec] /\ caller'[r] = q2
        /\ \A o \in Caller \ {r} : caller'[o] = caller[o]
    BY <1>5, <2>1, Updates
  <2> QED BY <1>1, <1>2, <1>3, <1>5, <2>1, <2>2 DEF MovesHold, Credits, SameDay
<1>6. ASSUME Update(r, AfterFailedCredit(q))
      PROVE  /\ caller' \in [Caller -> CallerRec]
             /\ \A o \in Caller \ {r} : caller'[o] = caller[o]
             /\ caller'[r].took = {}
  <2>1. AfterFailedCredit(q) \in CallerRec /\ AfterFailedCredit(q).took = {}
    BY <1>1 DEF AfterFailedCredit, CallerRec, PC
  <2>2. Over.took = {}
    BY DEF Over, NewRequest
  <2> QED BY <1>6, <2>1, <2>2, Updates
<1>7. CASE Update(r, AfterFailedCredit(q)) /\ Breaks("refused") /\ UNCHANGED spent
  BY <1>2, <1>6, <1>7, BreaksCount DEF MovesHold, Unheard
<1>8. CASE /\ q.took # {} /\ Update(r, AfterFailedCredit(q)) /\ Breaks("lost")
           /\ spent' = Subtract(k, q.day)
  BY <1>2, <1>3, <1>6, <1>8, BreaksCount DEF MovesHold, Unheard
<1> QED BY <1>4, <1>5, <1>7, <1>8 DEF Credit

(* A request that holds nothing outside a record goes on without counting. *)
LEMMA HandlerMoves ==
    ASSUME BudgetAssumption, BudgetTypeOK, NEW r \in Caller, NEW q2 \in CallerRec,
           caller[r].took = {}, q2.took = {}, Update(r, q2), UNCHANGED <<spent, record>>,
           \/ UNCHANGED losses
           \/ \E f \in Loss : Breaks(f)
    PROVE  MovesHold(r)
<1>1. Over.took = {}
  BY DEF Over, NewRequest
<1>2. caller'[r].took = {}
  BY <1>1, Updates
<1>3. (losses' = losses \/ losses' = losses + 1) /\ losses' \in 0 .. MaxLosses
  BY BreaksCount DEF BudgetTypeOK
<1> QED BY <1>2, <1>3, Updates DEF MovesHold, Stays

(* Every step of a request moves the counters in one of these ways.        *)
LEMMA CallerMoves ==
    ASSUME BudgetAssumption, BudgetTypeOK, Parties, NEW r \in Caller, CallerStep(r)
    PROVE  MovesHold(r)
<1> DEFINE q == caller[r]
<1>1. q \in CallerRec /\ losses \in 0 .. MaxLosses
  BY KeysTyped DEF BudgetTypeOK
<1>2. q.pc \notin {"global", "claim", "credit"} => q.took = {}
  BY DEF Parties, CallerFits
<1>3. CASE \E c \in ClientCommand, route \in Route : Begin(r, c, route)
  <2>1. PICK c \in ClientCommand, route \in Route : Begin(r, c, route)
    BY <1>3
  <2> DEFINE q2 == [NewRequest EXCEPT !.pc = "company", !.cmd = c, !.route = route, !.day = day]
  <2>2. q2 \in CallerRec /\ q2.took = {}
    <3>1. route \in Routes /\ day \in Day
      BY DEF BudgetAssumption, BudgetTypeOK
    <3>2. NewRequest \in CallerRec /\ NewRequest.took = {}
      BY NewIsCaller DEF NewRequest
    <3> QED BY <3>1, <3>2 DEF CallerRec, PC
  <2>3. q.took = {}
    BY <1>2, <2>1 DEF Begin, CallerAt
  <2>4. Update(r, q2) /\ UNCHANGED <<spent, record>> /\ UNCHANGED losses
    BY <2>1 DEF Begin
  <2> QED BY <2>2, <2>3, <2>4, HandlerMoves
<1>4. CASE ReserveCompany(r)
  <2>1. Reserve(r, "company", "global") /\ q.pc = "company"
    BY <1>4 DEF ReserveCompany, Reserve, CallerAt
  <2> QED BY <1>2, <2>1, ReserveMoves DEF Counter
<1>5. CASE ReserveGlobal(r)
  <2>1. Reserve(r, "global", "claim") /\ q.pc = "global"
    BY <1>5 DEF ReserveGlobal, Reserve, CallerAt
  <2>2. "global" \notin q.took
    BY <2>1 DEF Parties, CallerFits
  <2> QED BY <2>1, <2>2, ReserveMoves DEF Counter
<1>6. CASE ClaimHold(r) \/ Release(r) \/ Credit(r)
  BY <1>6, ClaimMoves, ReleaseMoves, CreditMoves
<1>7. CASE TurnLimit(r) \/ FreeReceipt(r) \/ AnswerWithoutTaking(r) \/ TakeCommand(r)
           \/ StopBeforeAccept(r) \/ SettleBySho(r) \/ Accepted(r)
  <2>1. PICK pc \in PC : Goto(r, pc)
    BY <1>7 DEF TurnLimit, FreeReceipt, AnswerWithoutTaking, TakeCommand, StopBeforeAccept,
                SettleBySho, Accepted, PC
  <2>2. UNCHANGED <<spent, record, losses>> /\ q.pc \in {"limit", "free", "handler", "accept"}
    BY <1>7 DEF TurnLimit, FreeReceipt, AnswerWithoutTaking, TakeCommand, StopBeforeAccept,
                SettleBySho, Accepted, CallerAt
  <2>3. [q EXCEPT !.pc = pc] \in CallerRec /\ [q EXCEPT !.pc = pc].took = {}
    BY <1>1, <1>2, <2>2 DEF CallerRec
  <2>4. Update(r, [q EXCEPT !.pc = pc])
    BY <2>1 DEF Goto
  <2> QED BY <1>2, <2>2, <2>3, <2>4, HandlerMoves
<1>8. CASE NotStored(r)
  <2>1. /\ q.pc = "accept" /\ UNCHANGED <<spent, record, losses>>
        /\ \/ Update(r, [q EXCEPT !.pc = "release"])
           \/ Update(r, [q EXCEPT !.pc = "release", !.frees = TRUE])
    BY <1>8 DEF NotStored, CallerAt
  <2>2. \A b \in BOOLEAN : [q EXCEPT !.pc = "release", !.frees = b] \in CallerRec
                          /\ [q EXCEPT !.pc = "release", !.frees = b].took = {}
    BY <1>1, <1>2, <2>1 DEF CallerRec, PC
  <2>3. [q EXCEPT !.pc = "release"] \in CallerRec /\ [q EXCEPT !.pc = "release"].took = {}
    BY <1>1, <1>2, <2>1 DEF CallerRec, PC
  <2> QED BY <1>2, <2>1, <2>2, <2>3, HandlerMoves
<1>9. CASE AcceptUnknown(r)
  <2> DEFINE q2 == [q EXCEPT !.pc = "free", !.frees = q.route \in {"chat", "continue"}]
  <2>1. q.pc = "accept" /\ UNCHANGED <<spent, record>> /\ Breaks("unknown") /\ Update(r, q2)
    BY <1>9 DEF AcceptUnknown, CallerAt
  <2>2. q2 \in CallerRec /\ q2.took = {}
    <3>1. \A b \in BOOLEAN : [q EXCEPT !.pc = "free", !.frees = b] \in CallerRec
                            /\ [q EXCEPT !.pc = "free", !.frees = b].took = {}
      BY <1>1, <1>2, <2>1 DEF CallerRec, PC
    <3>2. (q.route \in {"chat", "continue"}) \in BOOLEAN
      OBVIOUS
    <3> QED BY <3>1, <3>2
  <2>3. \E f \in Loss : Breaks(f)
    BY <2>1, BreaksCount
  <2> QED BY <1>2, <2>1, <2>2, <2>3, HandlerMoves
<1>10. CASE CrashRequest(r)
  <2> DEFINE q2 == [q EXCEPT !.pc = "end", !.took = {}]
  <2>1. UNCHANGED <<spent, record>> /\ Breaks("crash") /\ Update(r, q2)
    BY <1>10 DEF CrashRequest
  <2>2. q2 \in CallerRec /\ q2.pc = "end"
    BY <1>1 DEF CallerRec, PC
  <2>3. Over.took = {}
    BY DEF Over, NewRequest
  <2>4. /\ caller' \in [Caller -> CallerRec] /\ caller'[r].took = {}
        /\ \A o \in Caller \ {r} : caller'[o] = caller[o]
    BY <2>1, <2>2, <2>3, Updates
  <2>5. "crash" \in Loss
    BY <2>1, BreaksCount
  <2> QED BY <2>1, <2>4, <2>5, BreaksCount DEF MovesHold, Unheard
<1> QED BY <1>3, <1>4, <1>5, <1>6, <1>7, <1>8, <1>9, <1>10 DEF CallerStep

----------------------------------------------------------------------------
(* The counters.                                                           *)
Slack == IF "lostClaim" \in Loss THEN losses ELSE 0

Counted(k, d) ==
    /\ spent[k][d] + Slack >= Standing(k, d)
    /\ Loss \subseteq {"unknown"} => spent[k][d] = Standing(k, d)

LEMMA CountedParts ==
    (\A k \in Enabled, d \in Day : Counted(k, d))
      <=> CountersMatchRecords /\ FailuresOnlyOvercharge
BY DEF Counted, CountersMatchRecords, FailuresOnlyOvercharge, Slack

(* What a try-add and a subtract leave on a counter.                       *)
LEMMA Arithmetic ==
    ASSUME BudgetTypeOK, NEW k \in Counter, NEW d \in Day, NEW k2 \in Counter, NEW d2 \in Day
    PROVE  /\ spent[k2][d2] \in Nat
           /\ TryAdd(k, d) \in [Counter -> [Day -> Nat]]
           /\ TryAdd(k, d)[k2][d2] = IF k = k2 /\ d = d2 THEN spent[k2][d2] + 1
                                     ELSE spent[k2][d2]
           /\ Subtract(k, d) \in [Counter -> [Day -> Nat]]
           /\ Subtract(k, d)[k2][d2] =
                 IF k = k2 /\ d = d2 /\ spent[k2][d2] > 0 THEN spent[k2][d2] - 1
                 ELSE spent[k2][d2]
BY DEF BudgetTypeOK, TryAdd, Subtract

(* A step of a request keeps the counters.                                 *)
LEMMA MovesCount ==
    ASSUME BudgetAssumption, BudgetTypeOK, NEW r \in Caller, MovesHold(r), UNCHANGED ender,
           \A t \in Turn : ender[t].took # {} => row'[t].day = row[t].day,
           NEW k \in Enabled, NEW d \in Day, Counted(k, d)
    PROVE  Counted(k, d)'
<1> DEFINE q == caller[r]
           R == Cardinality(Recorded(d))
           H == Cardinality(Held(k, d))
           G == Cardinality(Returning(k, d))
           s == spent[k][d]
<1>1. R \in Nat /\ H \in Nat /\ G \in Nat /\ s \in Nat /\ losses \in Nat
      /\ q.day \in Day /\ q.took \subseteq Counter /\ k \in Counter
  BY FiniteCounts, EnabledIsCounter DEF BudgetTypeOK
<1>2. Cardinality(Returning(k, d)') = G
  <2>1. Returning(k, d)' = Returning(k, d)
    BY DEF Returning
  <2> QED BY <2>1
<1>3. Cardinality(Held(k, d)') =
         IF Has(caller[r], k, d) = Has(caller'[r], k, d) THEN H
         ELSE IF Has(caller[r], k, d) THEN H - 1 ELSE H + 1
  BY HeldMoves DEF MovesHold
<1>4. Standing(k, d) = R + H + G
  BY DEF Standing
<1>5. Standing(k, d)' = Cardinality(Recorded(d)') + Cardinality(Held(k, d)') + G
  BY <1>2 DEF Standing
<1>6. record' = record => Cardinality(Recorded(d)') = R
  <2>1. record' = record => Recorded(d)' = Recorded(d)
    BY DEF Recorded
  <2> QED BY <2>1
<1>7. (losses' = losses \/ losses' = losses + 1) /\ Slack \in Nat
      /\ Slack' = IF "lostClaim" \in Loss THEN losses' ELSE 0
  BY <1>1 DEF Slack, MovesHold
<1>8. Slack' >= Slack
  BY <1>1, <1>7 DEF Slack
<1>9. /\ s + Slack >= R + H + G
      /\ Loss \subseteq {"unknown"} => s = R + H + G
  BY <1>4 DEF Counted
<1>10. ASSUME NEW s2 \in Nat, NEW n2 \in Nat, spent'[k][d] = s2, Standing(k, d)' = n2,
              s2 + Slack' >= n2, Loss \subseteq {"unknown"} => s2 = n2
       PROVE  Counted(k, d)'
  BY <1>10 DEF Counted
<1>11. CASE Stays(r)
  <2>1. Cardinality(Held(k, d)') = H
    BY <1>3, <1>11 DEF Stays, SameDay, Has
  <2>2. spent'[k][d] = s /\ Standing(k, d)' = R + H + G
    BY <1>5, <1>6, <1>11, <2>1 DEF Stays
  <2> QED BY <1>1, <1>7, <1>8, <1>9, <1>10, <2>2
<1>12. CASE Takes(r)
  <2>1. PICK j \in Enabled \ q.took :
           /\ spent' = TryAdd(j, q.day) /\ UNCHANGED record
           /\ caller'[r].took = q.took \cup {j} /\ SameDay(r)
    BY <1>12 DEF Takes
  <2>2. spent'[k][d] = IF j = k /\ q.day = d THEN s + 1 ELSE s
    BY <1>1, <2>1, Arithmetic, EnabledIsCounter
  <2>3. Cardinality(Held(k, d)') = IF j = k /\ q.day = d THEN H + 1 ELSE H
    BY <1>3, <2>1 DEF SameDay, Has
  <2> QED BY <1>1, <1>5, <1>6, <1>7, <1>8, <1>9, <1>10, <2>1, <2>2, <2>3
<1>13. CASE Records(r)
  <2>1. PICK h \in HoldKey \ record :
           /\ h[1] = q.day /\ record' = record \cup {h} /\ UNCHANGED spent
           /\ q.took = Enabled /\ caller'[r].took = {}
    BY <1>13 DEF Records
  <2>2. Cardinality(Recorded(d)') = IF q.day = d THEN R + 1 ELSE R
    BY <2>1, RecordAdded
  <2>3. Cardinality(Held(k, d)') = IF q.day = d THEN H - 1 ELSE H
    BY <1>3, <2>1 DEF Has
  <2>4. spent'[k][d] = s /\ Standing(k, d)' = R + H + G
    BY <1>1, <1>5, <2>1, <2>2, <2>3
  <2> QED BY <1>1, <1>7, <1>8, <1>9, <1>10, <2>4
<1>14. CASE Unrecords(r)
  <2>1. PICK h \in record :
           /\ h[1] = q.day /\ record' = record \ {h} /\ UNCHANGED spent
           /\ q.took = {} /\ caller'[r].took = Enabled /\ SameDay(r)
    BY <1>14 DEF Unrecords
  <2>2. Cardinality(Recorded(d)') = IF q.day = d THEN R - 1 ELSE R
    BY <2>1, RecordDropped
  <2>3. Cardinality(Held(k, d)') = IF q.day = d THEN H + 1 ELSE H
    BY <1>3, <2>1 DEF Has, SameDay
  <2>4. spent'[k][d] = s /\ Standing(k, d)' = R + H + G
    BY <1>1, <1>5, <2>1, <2>2, <2>3
  <2> QED BY <1>1, <1>7, <1>8, <1>9, <1>10, <2>4
<1>15. CASE Credits(r)
  <2>1. PICK j \in q.took :
           /\ spent' = Subtract(j, q.day) /\ UNCHANGED record
           /\ caller'[r].took = q.took \ {j} /\ SameDay(r)
    BY <1>15 DEF Credits
  <2>2. spent'[k][d] = IF j = k /\ q.day = d /\ s > 0 THEN s - 1 ELSE s
    BY <1>1, <2>1, Arithmetic
  <2>3. Cardinality(Held(k, d)') = IF j = k /\ q.day = d THEN H - 1 ELSE H
    BY <1>3, <2>1 DEF SameDay, Has
  <2>4. j = k /\ q.day = d => H >= 1
    <3>1. j = k /\ q.day = d => r \in Held(k, d)
      BY <2>1 DEF Held
    <3>2. H = 0 => Held(k, d) = {}
      BY FiniteCounts, FS_EmptySet
    <3> QED BY <1>1, <3>1, <3>2
  <2>5. Standing(k, d)' = IF j = k /\ q.day = d THEN R + H + G - 1 ELSE R + H + G
    BY <1>1, <1>5, <1>6, <2>1, <2>3
  <2> QED BY <1>1, <1>7, <1>8, <1>9, <1>10, <2>2, <2>4, <2>5
<1>16. CASE ~(Loss \subseteq {"unknown"}) /\ Unheard(r)
  <2>1. ASSUME NEW n2 \in Nat, NEW s2 \in Nat, Standing(k, d)' = n2, spent'[k][d] = s2,
               s2 + Slack' >= n2
        PROVE  Counted(k, d)'
    BY <1>10, <1>16, <2>1
  <2>2. ASSUME NEW j \in Enabled, spent' = TryAdd(j, q.day), UNCHANGED record,
               caller'[r].took = q.took, SameDay(r)
        PROVE  Counted(k, d)'
    <3>1. spent'[k][d] = IF j = k /\ q.day = d THEN s + 1 ELSE s
      BY <1>1, <2>2, Arithmetic, EnabledIsCounter
    <3>2. Standing(k, d)' = R + H + G
      BY <1>1, <1>3, <1>5, <1>6, <2>2 DEF Has, SameDay
    <3> QED BY <1>1, <1>7, <1>8, <1>9, <2>1, <3>1, <3>2
  <2>3. ASSUME NEW h \in HoldKey, "lostClaim" \in Loss, losses' = losses + 1,
               record' = record \cup {h}, UNCHANGED spent,
               caller'[r].took = q.took, SameDay(r)
        PROVE  Counted(k, d)'
    <3>1. Cardinality(Recorded(d)') = R \/ Cardinality(Recorded(d)') = R + 1
      BY <2>3, RecordAdded
    <3>2. Cardinality(Held(k, d)') = H
      BY <1>3, <2>3 DEF Has, SameDay
    <3>3. Slack' = Slack + 1 /\ spent'[k][d] = s
      BY <1>7, <2>3 DEF Slack
    <3>4. Standing(k, d)' = R + H + G \/ Standing(k, d)' = R + H + G + 1
      BY <1>1, <1>5, <3>1, <3>2
    <3>5. Standing(k, d)' \in Nat /\ s + Slack' >= Standing(k, d)'
      BY <1>1, <1>7, <1>9, <3>3, <3>4
    <3> QED BY <1>1, <2>1, <3>3, <3>5
  <2>4. ASSUME NEW h \in record, record' = record \ {h}, UNCHANGED spent,
               q.took = {}, caller'[r].took = {}
        PROVE  Counted(k, d)'
    <3>1. \/ Cardinality(Recorded(d)') = R
          \/ Cardinality(Recorded(d)') = R - 1 /\ R - 1 \in Nat
      <4>1. h[1] = d => Recorded(d) # {}
        BY DEF Recorded
      <4>2. h[1] = d => R # 0
        BY <4>1, FiniteCounts, FS_EmptySet
      <4> QED BY <1>1, <2>4, <4>2, RecordDropped
    <3>2. Cardinality(Held(k, d)') = H
      BY <1>3, <2>4 DEF Has
    <3> QED BY <1>1, <1>5, <1>7, <1>8, <1>9, <2>1, <2>4, <3>1, <3>2
  <2>5. caller'[r].took = {} =>
           \/ Cardinality(Held(k, d)') = H /\ ~Has(q, k, d)
           \/ Cardinality(Held(k, d)') = H - 1 /\ H - 1 \in Nat
    <3>1. Has(q, k, d) => Held(k, d) # {}
      BY DEF Has, Held
    <3>2. Has(q, k, d) => H # 0
      BY <3>1, FiniteCounts, FS_EmptySet
    <3> QED BY <1>1, <1>3, <3>2 DEF Has
  <2>6. ASSUME UNCHANGED <<spent, record>>, caller'[r].took = {}
        PROVE  Counted(k, d)'
    BY <1>1, <1>5, <1>6, <1>7, <1>8, <1>9, <2>1, <2>5, <2>6
  <2>7. ASSUME NEW j \in q.took, spent' = Subtract(j, q.day), UNCHANGED record,
               caller'[r].took = {}
        PROVE  Counted(k, d)'
    <3>1. spent'[k][d] = IF j = k /\ q.day = d /\ s > 0 THEN s - 1 ELSE s
      BY <1>1, <2>7, Arithmetic
    <3>2. j = k /\ q.day = d => Has(q, k, d)
      BY DEF Has
    <3>3. Standing(k, d)' \in Nat
          /\ Standing(k, d)' <= IF j = k /\ q.day = d THEN R + H + G - 1 ELSE R + H + G
      BY <1>1, <1>5, <1>6, <2>5, <2>7, <3>2
    <3> QED BY <1>1, <1>7, <1>8, <1>9, <2>1, <3>1, <3>3
  <2> QED BY <1>16, <2>2, <2>3, <2>4, <2>6, <2>7 DEF Unheard
<1> QED BY <1>11, <1>12, <1>13, <1>14, <1>15, <1>16 DEF MovesHold

----------------------------------------------------------------------------
(* The steps of turns.                                                     *)
TurnsTyped == row \in [Turn -> RowRec] /\ ender \in [Turn -> EnderRec]

LEMMA TurnTypes == BudgetTypeOK => TurnsTyped
BY DEF BudgetTypeOK, TurnsTyped, RowRec, EnderRec

(* A step that leaves the reservations where they are.                     *)
LEMMA RestCounts ==
    ASSUME BudgetAssumption, BudgetTypeOK, UNCHANGED <<spent, record, caller>>,
           losses' \in Nat, losses' >= losses,
           \A t \in Turn : ender'[t].took = ender[t].took /\ row'[t].day = row[t].day,
           NEW k \in Enabled, NEW d \in Day, Counted(k, d)
    PROVE  Counted(k, d)'
<1>1. Recorded(d)' = Recorded(d) /\ Held(k, d)' = Held(k, d) /\ Returning(k, d)' = Returning(k, d)
  BY DEF Recorded, Held, Returning
<1>2. Standing(k, d)' = Standing(k, d) /\ Standing(k, d) \in Nat
  BY <1>1, FiniteCounts DEF Standing
<1>3. spent'[k][d] = spent[k][d] /\ spent[k][d] \in Nat /\ losses \in Nat
  BY EnabledIsCounter DEF BudgetTypeOK
<1> QED BY <1>2, <1>3 DEF Counted, Slack

(* One ender moves: what it drops, it credits.                             *)
EnderDrops(t) ==
    \E h \in record :
        /\ h[1] = row[t].day /\ record' = record \ {h} /\ UNCHANGED spent
        /\ ender[t].took = {} /\ ender'[t].took = Enabled

EnderCredits(t) ==
    \E k \in ender[t].took :
        /\ spent' = Subtract(k, row[t].day) /\ UNCHANGED record
        /\ ender'[t].took = ender[t].took \ {k}

EnderLoses(t) ==
    \/ \E h \in record :
          /\ record' = record \ {h} /\ UNCHANGED spent
          /\ ender[t].took = {} /\ ender'[t].took = {}
    \/ UNCHANGED <<spent, record>> /\ ender'[t].took = {}

EnderMoves(t) ==
    /\ ender' \in [Turn -> EnderRec] /\ UNCHANGED <<row, caller>>
    /\ \A o \in Turn \ {t} : ender'[o] = ender[o]
    /\ losses' = losses \/ losses' = losses + 1
    /\ losses' \in 0 .. MaxLosses
    /\ \/ UNCHANGED <<spent, record>> /\ ender'[t].took = ender[t].took
       \/ EnderDrops(t) \/ EnderCredits(t)
       \/ ~(Loss \subseteq {"unknown"}) /\ EnderLoses(t)

LEMMA EndersMove ==
    ASSUME BudgetAssumption, BudgetTypeOK, Parties, NEW t \in Turn,
           EnderRelease(t) \/ EnderCredit(t) \/ CrashEnder(t)
    PROVE  EnderMoves(t)
<1> DEFINE e == ender[t]  h == KeyOf(t)
<1>1. e \in EnderRec /\ ender \in [Turn -> EnderRec] /\ row[t] \in RowRec
      /\ losses \in 0 .. MaxLosses
  BY TurnTypes DEF TurnsTyped, BudgetTypeOK
<1>2. e.pc # "credit" => e.took = {}
  BY DEF Parties, EnderFits
<1>3. ASSUME NEW x \in EnderRec, ender' = [ender EXCEPT ![t] = x]
      PROVE  /\ ender' \in [Turn -> EnderRec] /\ ender'[t] = x
             /\ \A o \in Turn \ {t} : ender'[o] = ender[o]
  BY <1>1, <1>3
<1>4. [e EXCEPT !.pc = "end"] \in EnderRec /\ [e EXCEPT !.pc = "end"].took = e.took
  BY <1>1 DEF EnderRec
<1>5. /\ [pc |-> "credit", took |-> Enabled] \in EnderRec
      /\ [pc |-> "end", took |-> {}] \in EnderRec
  BY EnabledIsCounter DEF EnderRec
<1>9. ASSUME ender' = [ender EXCEPT ![t] = [pc |-> "end", took |-> {}]],
             NEW f \in Loss \ {"unknown"}, Breaks(f), UNCHANGED <<spent, record, row, caller>>
      PROVE  EnderMoves(t)
  <2>1. ender' \in [Turn -> EnderRec] /\ \A o \in Turn \ {t} : ender'[o] = ender[o]
    BY <1>3, <1>5, <1>9
  <2>2. ender'[t].took = {}
    BY <1>3, <1>5, <1>9
  <2>3. ~(Loss \subseteq {"unknown"})
    OBVIOUS
  <2>4. losses' = losses + 1 /\ losses' \in 0 .. MaxLosses
    BY <1>9, BreaksCount
  <2> QED BY <1>9, <2>1, <2>2, <2>3, <2>4 DEF EnderMoves, EnderLoses
<1>6. CASE EnderRelease(t)
  <2>1. e.took = {} /\ UNCHANGED <<spent, row, caller>> /\ h[1] = row[t].day
    BY <1>2, <1>6 DEF EnderRelease, KeyOf
  <2>2. CASE /\ h \in record /\ record' = record \ {h} /\ UNCHANGED losses
             /\ ender' = [ender EXCEPT ![t] = [pc |-> "credit", took |-> Enabled]]
    BY <1>1, <1>3, <1>5, <2>1, <2>2 DEF EnderMoves, EnderDrops
  <2>3. ASSUME ender' = [ender EXCEPT ![t].pc = "end"]
        PROVE  /\ ender' \in [Turn -> EnderRec] /\ ender'[t].took = {}
               /\ \A o \in Turn \ {t} : ender'[o] = ender[o]
    <3>1. ender' = [ender EXCEPT ![t] = [e EXCEPT !.pc = "end"]]
      BY <1>1, <2>3
    <3> QED BY <1>3, <1>4, <2>1, <3>1
  <2>4. CASE ender' = [ender EXCEPT ![t].pc = "end"] /\ UNCHANGED <<record, losses>>
    BY <1>1, <2>1, <2>3, <2>4 DEF EnderMoves
  <2>5. CASE ender' = [ender EXCEPT ![t].pc = "end"] /\ UNCHANGED record /\ Breaks("refused")
    BY <2>1, <2>3, <2>5, BreaksCount DEF EnderMoves
  <2>6. CASE /\ ender' = [ender EXCEPT ![t].pc = "end"] /\ record' = record \ {h}
             /\ Breaks("lost")
    <3>1. h \notin record => UNCHANGED record
      BY <2>6
    <3> QED BY <2>1, <2>3, <2>6, <3>1, BreaksCount DEF EnderMoves, EnderLoses
  <2> QED BY <1>6, <2>2, <2>4, <2>5, <2>6 DEF EnderRelease, Drops, KeyOf
<1>7. CASE EnderCredit(t)
  <2> DEFINE k == NextCredit(e.took)
  <2>1. e.took # {} => k \in e.took
    BY <1>1 DEF EnderRec, Counter, NextCredit
  <2>2. UNCHANGED <<record, row, caller>>
    BY <1>7 DEF EnderCredit
  <2>3. CASE ender' = [ender EXCEPT ![t].pc = "end"] /\ UNCHANGED <<spent, losses>>
    <3>1. ender' = [ender EXCEPT ![t] = [e EXCEPT !.pc = "end"]]
      BY <1>1, <2>3
    <3> QED BY <1>1, <1>3, <1>4, <2>2, <2>3, <3>1 DEF EnderMoves
  <2>4. CASE /\ e.took # {} /\ spent' = Subtract(k, row[t].day) /\ UNCHANGED losses
             /\ ender' = [ender EXCEPT ![t].took = @ \ {k}]
    <3>1. ender' = [ender EXCEPT ![t] = [e EXCEPT !.took = e.took \ {k}]]
      BY <1>1, <2>4
    <3>2. [e EXCEPT !.took = e.took \ {k}] \in EnderRec
          /\ [e EXCEPT !.took = e.took \ {k}].took = e.took \ {k}
      BY <1>1 DEF EnderRec
    <3> QED BY <1>1, <1>3, <2>1, <2>2, <2>4, <3>1, <3>2 DEF EnderMoves, EnderCredits
  <2>5. CASE /\ ender' = [ender EXCEPT ![t] = [pc |-> "end", took |-> {}]]
             /\ Breaks("refused") /\ UNCHANGED spent
    BY <1>9, <2>2, <2>5, BreaksCount
  <2> QED BY <1>7, <2>3, <2>4, <2>5 DEF EnderCredit
<1>8. CASE CrashEnder(t)
  <2>1. /\ ender' = [ender EXCEPT ![t] = [pc |-> "end", took |-> {}]]
        /\ Breaks("crash") /\ UNCHANGED <<spent, record, row, caller>>
    BY <1>8 DEF CrashEnder
  <2> QED BY <1>9, <2>1, BreaksCount
<1> QED BY <1>6, <1>7, <1>8

LEMMA EndersCount ==
    ASSUME BudgetAssumption, BudgetTypeOK, NEW t \in Turn, EnderMoves(t),
           NEW k \in Enabled, NEW d \in Day, Counted(k, d)
    PROVE  Counted(k, d)'
<1> DEFINE e == ender[t]
           R == Cardinality(Recorded(d))
           H == Cardinality(Held(k, d))
           G == Cardinality(Returning(k, d))
           s == spent[k][d]
           before == k \in e.took /\ row[t].day = d
           after == k \in ender'[t].took /\ row[t].day = d
<1>1. R \in Nat /\ H \in Nat /\ G \in Nat /\ s \in Nat /\ losses \in Nat
      /\ row[t].day \in Day /\ e.took \subseteq Counter /\ k \in Counter
  BY FiniteCounts, EnabledIsCounter, TurnTypes DEF BudgetTypeOK, TurnsTyped, RowRec, EnderRec
<1>2. Cardinality(Held(k, d)') = H
  <2>1. Held(k, d)' = Held(k, d)
    BY DEF Held, EnderMoves
  <2> QED BY <2>1
<1>3. Cardinality(Returning(k, d)') =
         IF before = after THEN G ELSE IF before THEN G - 1 ELSE G + 1
  BY ReturningMoves DEF EnderMoves
<1>4. Standing(k, d) = R + H + G
  BY DEF Standing
<1>5. Standing(k, d)' = Cardinality(Recorded(d)') + H + Cardinality(Returning(k, d)')
  BY <1>2 DEF Standing
<1>6. record' = record => Cardinality(Recorded(d)') = R
  <2>1. record' = record => Recorded(d)' = Recorded(d)
    BY DEF Recorded
  <2> QED BY <2>1
<1>7. Slack \in Nat /\ Slack' \in Nat /\ Slack' >= Slack
  BY <1>1 DEF Slack, EnderMoves
<1>8. /\ s + Slack >= R + H + G
      /\ Loss \subseteq {"unknown"} => s = R + H + G
  BY <1>4 DEF Counted
<1>9. ASSUME NEW s2 \in Nat, NEW n2 \in Nat, spent'[k][d] = s2, Standing(k, d)' = n2,
             s2 + Slack' >= n2, Loss \subseteq {"unknown"} => s2 = n2
      PROVE  Counted(k, d)'
  BY <1>9 DEF Counted
<1>10. before => G # 0
  <2>1. before => Returning(k, d) # {}
    BY DEF Returning
  <2> QED BY <2>1, FiniteCounts, FS_EmptySet
<1>11. CASE UNCHANGED <<spent, record>> /\ ender'[t].took = e.took
  <2>1. spent'[k][d] = s /\ Standing(k, d)' = R + H + G
    BY <1>1, <1>3, <1>5, <1>6, <1>11
  <2>2. R + H + G \in Nat /\ s + Slack' >= R + H + G
    BY <1>1, <1>7, <1>8
  <2> QED BY <1>1, <1>8, <1>9, <2>1, <2>2
<1>12. CASE EnderDrops(t)
  <2>1. PICK h \in record :
           /\ h[1] = row[t].day /\ record' = record \ {h} /\ UNCHANGED spent
           /\ e.took = {} /\ ender'[t].took = Enabled
    BY <1>12 DEF EnderDrops
  <2>2. Cardinality(Recorded(d)') = IF row[t].day = d THEN R - 1 ELSE R
    BY <2>1, RecordDropped
  <2>3. Cardinality(Returning(k, d)') = IF row[t].day = d THEN G + 1 ELSE G
    BY <1>3, <2>1
  <2>4. spent'[k][d] = s /\ Standing(k, d)' = R + H + G
    BY <1>1, <1>5, <2>1, <2>2, <2>3
  <2>5. R + H + G \in Nat /\ s + Slack' >= R + H + G
    BY <1>1, <1>7, <1>8
  <2> QED BY <1>1, <1>8, <1>9, <2>4, <2>5
<1>13. CASE EnderCredits(t)
  <2>1. PICK j \in e.took :
           /\ spent' = Subtract(j, row[t].day) /\ UNCHANGED record
           /\ ender'[t].took = e.took \ {j}
    BY <1>13 DEF EnderCredits
  <2>2. spent'[k][d] = IF j = k /\ row[t].day = d /\ s > 0 THEN s - 1 ELSE s
    BY <1>1, <2>1, Arithmetic
  <2>3. Cardinality(Returning(k, d)') = IF j = k /\ row[t].day = d THEN G - 1 ELSE G
    BY <1>3, <2>1
  <2>4. j = k /\ row[t].day = d => G # 0
    BY <1>10, <2>1
  <2>5. Standing(k, d)' = IF j = k /\ row[t].day = d THEN R + H + G - 1 ELSE R + H + G
    BY <1>1, <1>5, <1>6, <2>1, <2>3
  <2>6. CASE j = k /\ row[t].day = d
    <3> DEFINE s2 == IF s > 0 THEN s - 1 ELSE s
    <3>1. R + H + G - 1 \in Nat /\ s2 \in Nat /\ s2 + Slack' >= R + H + G - 1
      BY <1>1, <1>7, <1>8, <2>4, <2>6
    <3>2. Loss \subseteq {"unknown"} => s2 = R + H + G - 1
      BY <1>1, <1>8, <2>4, <2>6
    <3>3. spent'[k][d] = s2 /\ Standing(k, d)' = R + H + G - 1
      BY <2>2, <2>5, <2>6
    <3> QED BY <1>9, <3>1, <3>2, <3>3
  <2>7. CASE ~(j = k /\ row[t].day = d)
    <3>1. spent'[k][d] = s /\ Standing(k, d)' = R + H + G
      BY <2>2, <2>5, <2>7
    <3>2. R + H + G \in Nat /\ s + Slack' >= R + H + G
      BY <1>1, <1>7, <1>8
    <3> QED BY <1>1, <1>8, <1>9, <3>1, <3>2
  <2> QED BY <2>6, <2>7
<1>14. CASE ~(Loss \subseteq {"unknown"}) /\ EnderLoses(t)
  <2>1. ender'[t].took = {} => Cardinality(Returning(k, d)') \in {n \in Nat : n <= G}
    BY <1>1, <1>3, <1>10
  <2>2. Cardinality(Recorded(d)') \in {n \in Nat : n <= R} /\ spent'[k][d] = s
    <3>1. CASE UNCHANGED <<spent, record>>
      BY <1>1, <1>6, <3>1
    <3>2. CASE \E h \in record : record' = record \ {h} /\ UNCHANGED spent
      <4>1. PICK h \in record : record' = record \ {h} /\ UNCHANGED spent
        BY <3>2
      <4>2. h[1] = d => Recorded(d) # {}
        BY DEF Recorded
      <4>3. h[1] = d => R # 0
        BY <4>2, FiniteCounts, FS_EmptySet
      <4> QED BY <1>1, <4>1, <4>3, RecordDropped
    <3> QED BY <1>14, <3>1, <3>2 DEF EnderLoses
  <2>3. ender'[t].took = {}
    BY <1>14 DEF EnderLoses
  <2>4. Standing(k, d)' \in Nat /\ Standing(k, d)' <= R + H + G
    BY <1>1, <1>5, <2>1, <2>2, <2>3
  <2>5. s + Slack' >= Standing(k, d)'
    BY <1>1, <1>7, <1>8, <2>4
  <2> QED BY <1>1, <1>9, <1>14, <2>2, <2>4, <2>5
<1> QED BY <1>11, <1>12, <1>13, <1>14 DEF EnderMoves

----------------------------------------------------------------------------
(* Where a request is after it moved.                                      *)
LEMMA Lands ==
    ASSUME BudgetTypeOK, NEW r \in Caller, NEW q, Update(r, q)
    PROVE  /\ caller'[r] = IF q.pc = "end" THEN Over ELSE q
           /\ \A o \in Caller \ {r} : caller'[o] = caller[o]
BY DEF BudgetTypeOK, Update, Over

LEMMA LandsAt ==
    ASSUME BudgetTypeOK, NEW r \in Caller, NEW pc, Goto(r, pc)
    PROVE  /\ caller'[r] = IF pc = "end" THEN Over ELSE [caller[r] EXCEPT !.pc = pc]
           /\ \A o \in Caller \ {r} : caller'[o] = caller[o]
<1> DEFINE q2 == [caller[r] EXCEPT !.pc = pc]
<1>1. caller[r] \in CallerRec
  BY DEF BudgetTypeOK, CallerRec
<1>2. q2.pc = pc
  BY <1>1 DEF CallerRec
<1>3. Update(r, q2)
  BY DEF Goto
<1>4. /\ caller'[r] = IF pc = "end" THEN Over ELSE q2
      /\ \A o \in Caller \ {r} : caller'[o] = caller[o]
  <2> HIDE DEF q2
  <2> QED BY <1>2, <1>3, Lands
<1> QED BY <1>4

LEMMA OverFits == CallerFits(Over)
BY DEF CallerFits, Over, NewRequest, Enabled

(* What a request has on the counters keeps following from where it is.    *)
LEMMA CallerFitsOn ==
    ASSUME BudgetAssumption, BudgetTypeOK, Parties, NEW r \in Caller, CallerStep(r)
    PROVE  CallerFits(caller'[r])
<1> DEFINE q == caller[r]
<1>1. q \in CallerRec /\ CallerFits(q)
  BY DEF BudgetTypeOK, CallerRec, Parties
<1>2. Enabled \subseteq {"company", "global"}
  BY DEF Enabled, Counter
<1>3. CASE \E c \in ClientCommand, route \in Route : Begin(r, c, route)
  <2>1. PICK c \in ClientCommand, route \in Route : Begin(r, c, route)
    BY <1>3
  <2>2. caller'[r] = [NewRequest EXCEPT !.pc = "company", !.cmd = c, !.route = route, !.day = day]
    BY <2>1, Lands DEF Begin, NewRequest
  <2> QED BY <2>2 DEF CallerFits, NewRequest
<1>4. ASSUME NEW k \in {"company", "global"}, NEW next \in {"global", "claim"},
             (k = "company") = (next = "global"), Reserve(r, k, next)
      PROVE  CallerFits(caller'[r])
  <2>1. q.pc = k /\ ~q.created /\ q.route \in Route
    BY <1>1, <1>4 DEF Reserve, CallerAt, CallerFits
  <2>2. q.took = IF k = "company" THEN {} ELSE Enabled \cap {"company"}
    BY <1>1, <2>1 DEF CallerFits
  <2>3. CASE k \notin Enabled /\ Goto(r, next)
    <3>1. caller'[r] = [q EXCEPT !.pc = next]
      BY <2>3, LandsAt
    <3> QED BY <1>1, <1>2, <1>4, <2>1, <2>2, <2>3, <3>1 DEF CallerFits, CallerRec
  <2>4. CASE k \in Enabled /\ Update(r, [q EXCEPT !.pc = next, !.took = @ \cup {k}])
    <3> DEFINE q2 == [q EXCEPT !.pc = next, !.took = @ \cup {k}]
    <3>1. q2.pc = next /\ q2.took = q.took \cup {k} /\ ~q2.created /\ q2.route = q.route
      BY <1>1, <2>1 DEF CallerRec
    <3>2. caller'[r] = q2
      BY <2>4, <3>1, Lands
    <3> QED BY <1>2, <1>4, <2>1, <2>2, <2>4, <3>1, <3>2 DEF CallerFits
  <2>5. CASE Update(r, Refuse(q))
    <3>1. Refuse(q).pc = "credit" /\ Refuse(q).took = q.took /\ ~Refuse(q).created
          /\ Refuse(q).route = q.route
      BY <1>1, <2>1 DEF CallerRec, Refuse
    <3>2. caller'[r] = Refuse(q)
      BY <2>5, <3>1, Lands
    <3> QED BY <1>1, <2>1, <3>1, <3>2 DEF CallerFits
  <2> QED BY <1>4, <2>3, <2>4, <2>5 DEF Reserve
<1>5. CASE ReserveCompany(r) \/ ReserveGlobal(r)
  BY <1>4, <1>5 DEF ReserveCompany, ReserveGlobal
<1>6. CASE ClaimHold(r)
  <2>1. q.pc = "claim" /\ ~q.created /\ q.route \in Route
    BY <1>1, <1>6 DEF ClaimHold, CallerAt, CallerFits
  <2>2. CASE Update(r, [q EXCEPT !.pc = "limit", !.took = {}, !.created = TRUE])
    <3> DEFINE q2 == [q EXCEPT !.pc = "limit", !.took = {}, !.created = TRUE]
    <3>1. q2.pc = "limit" /\ q2.took = {} /\ q2.route = q.route
      BY <1>1 DEF CallerRec
    <3>2. caller'[r] = q2
      BY <2>2, <3>1, Lands
    <3> QED BY <2>1, <3>1, <3>2 DEF CallerFits
  <2>3. CASE Update(r, [q EXCEPT !.pc = "credit", !.then = "limit"])
    <3> DEFINE q2 == [q EXCEPT !.pc = "credit", !.then = "limit"]
    <3>1. q2.pc = "credit" /\ q2.took = q.took /\ ~q2.created /\ q2.route = q.route
      BY <1>1, <2>1 DEF CallerRec
    <3>2. Update(r, q2) /\ q2.pc # "end"
      BY <2>3, <3>1
    <3> HIDE DEF q2
    <3>3. caller'[r] = q2
      BY <3>2, Lands
    <3> QED BY <1>1, <2>1, <3>1, <3>3 DEF CallerFits
  <2>4. CASE Update(r, Refuse(q))
    <3>1. Refuse(q).pc = "credit" /\ Refuse(q).took = q.took /\ ~Refuse(q).created
          /\ Refuse(q).route = q.route
      BY <1>1, <2>1 DEF CallerRec, Refuse
    <3>2. caller'[r] = Refuse(q)
      BY <2>4, <3>1, Lands
    <3> QED BY <1>1, <2>1, <3>1, <3>2 DEF CallerFits
  <2> QED BY <1>6, <2>2, <2>3, <2>4 DEF ClaimHold
<1>7. ASSUME NEW pc \in {"handler", "release", "free", "end", "accept"},
             q.pc \in {"limit", "handler", "accept", "release", "free"}, Goto(r, pc)
      PROVE  CallerFits(caller'[r])
  <2>1. CASE pc = "end"
    BY <1>7, <2>1, LandsAt, OverFits
  <2>2. CASE pc # "end"
    <3>1. caller'[r] = [q EXCEPT !.pc = pc]
      BY <1>7, <2>2, LandsAt
    <3>2. q.took = {} /\ q.route \in Route
      BY <1>1, <1>7 DEF CallerFits
    <3> QED BY <1>1, <1>7, <2>2, <3>1, <3>2 DEF CallerFits, CallerRec
  <2> QED BY <2>1, <2>2
<1>8. CASE TurnLimit(r) \/ FreeReceipt(r) \/ AnswerWithoutTaking(r) \/ TakeCommand(r)
           \/ StopBeforeAccept(r) \/ SettleBySho(r) \/ Accepted(r)
  BY <1>7, <1>8 DEF TurnLimit, FreeReceipt, AnswerWithoutTaking, TakeCommand, StopBeforeAccept,
                    SettleBySho, Accepted, CallerAt
<1>9. CASE Release(r)
  <2>1. q.pc = "release" /\ q.route \in Route
    BY <1>1, <1>9 DEF Release, CallerAt, CallerFits
  <2>2. CASE Goto(r, "free")
    BY <1>7, <2>1, <2>2
  <2>3. CASE Update(r, [q EXCEPT !.pc = "credit", !.then = "free", !.took = Enabled])
    <3> DEFINE q2 == [q EXCEPT !.pc = "credit", !.then = "free", !.took = Enabled]
    <3>1. q2.pc = "credit" /\ q2.took = Enabled /\ q2.then = "free" /\ q2.route = q.route
      BY <1>1 DEF CallerRec
    <3>2. caller'[r] = q2
      BY <2>3, <3>1, Lands
    <3> QED BY <2>1, <3>1, <3>2 DEF CallerFits
  <2> QED BY <1>9, <2>2, <2>3 DEF Release
<1>10. CASE Credit(r)
  <2>1. q.pc = "credit" /\ q.route \in Route /\ (q.created => q.then = "free")
    BY <1>1, <1>10 DEF Credit, CallerAt, CallerFits
  <2>2. q.then \in {"end", "limit", "free"}
    BY <1>1 DEF CallerRec
  <2>3. CASE q.took = {} /\ Goto(r, q.then)
    <3>1. CASE q.then = "end"
      BY <2>3, <3>1, LandsAt, OverFits
    <3>2. CASE q.then # "end"
      <4>1. caller'[r] = [q EXCEPT !.pc = q.then]
        BY <2>3, <3>2, LandsAt
      <4> QED BY <1>1, <2>1, <2>2, <2>3, <3>2, <4>1 DEF CallerFits, CallerRec
    <3> QED BY <3>1, <3>2
  <2>4. CASE \E k : Update(r, [q EXCEPT !.took = @ \ {k}])
    <3>1. PICK k : Update(r, [q EXCEPT !.took = @ \ {k}])
      BY <2>4
    <3> DEFINE q2 == [q EXCEPT !.took = @ \ {k}]
    <3>2. q2.pc = "credit" /\ q2.took = q.took \ {k} /\ q2.then = q.then
          /\ q2.created = q.created /\ q2.route = q.route
      BY <1>1, <2>1 DEF CallerRec
    <3>3. caller'[r] = q2
      BY <3>1, <3>2, Lands
    <3> QED BY <1>1, <2>1, <3>2, <3>3 DEF CallerFits
  <2>5. CASE Update(r, AfterFailedCredit(q))
    <3> DEFINE q2 == AfterFailedCredit(q)
    <3>1. q2.pc = q.then /\ q2.took = {} /\ q2.created = q.created /\ q2.route = q.route
      BY <1>1 DEF CallerRec, AfterFailedCredit
    <3>2. caller'[r] = IF q.then = "end" THEN Over ELSE q2
      BY <2>5, <3>1, Lands
    <3> QED BY <2>1, <2>2, <3>1, <3>2, OverFits DEF CallerFits
  <2> QED BY <1>10, <2>3, <2>4, <2>5 DEF Credit
<1>11. CASE NotStored(r)
  <2>1. q.pc = "accept" /\ q.took = {} /\ q.route \in Route
    BY <1>1, <1>11 DEF NotStored, CallerAt, CallerFits
  <2>2. PICK q2 : /\ Update(r, q2)
                  /\ \/ q2 = [q EXCEPT !.pc = "release"]
                     \/ q2 = [q EXCEPT !.pc = "release", !.frees = TRUE]
    BY <1>11 DEF NotStored
  <2>3. q2.pc = "release" /\ q2.took = {} /\ q2.route = q.route
    BY <1>1, <2>1, <2>2 DEF CallerRec
  <2>4. caller'[r] = q2
    BY <2>2, <2>3, Lands
  <2> QED BY <2>1, <2>3, <2>4 DEF CallerFits
<1>12. CASE AcceptUnknown(r)
  <2> DEFINE q2 == [q EXCEPT !.pc = "free", !.frees = q.route \in {"chat", "continue"}]
  <2>1. q.pc = "accept" /\ q.took = {} /\ q.route \in Route /\ Update(r, q2)
    BY <1>1, <1>12 DEF AcceptUnknown, CallerAt, CallerFits
  <2>2. q2.pc = "free" /\ q2.took = {} /\ q2.route = q.route
    BY <1>1, <2>1 DEF CallerRec
  <2>3. caller'[r] = q2
    BY <2>1, <2>2, Lands
  <2> QED BY <2>1, <2>2, <2>3 DEF CallerFits
<1>13. CASE CrashRequest(r)
  <2>1. [q EXCEPT !.pc = "end", !.took = {}].pc = "end"
    BY <1>1 DEF CallerRec
  <2>2. caller'[r] = Over
    BY <1>13, <2>1, Lands DEF CrashRequest
  <2> QED BY <2>2, OverFits
<1> QED BY <1>3, <1>5, <1>6, <1>8, <1>9, <1>10, <1>11, <1>12, <1>13 DEF CallerStep

(* The one way in which a request changes a turn row: it stores it.        *)
Stores(r) ==
    \E st \in {"queued", "settled"} :
        /\ caller[r].pc = "accept" /\ Acceptable(TurnOf(caller[r]))
        /\ StoreTurn(TurnOf(caller[r]), st, caller[r].day)

LEMMA CallerStores ==
    ASSUME NEW r \in Caller, CallerStep(r)
    PROVE  UNCHANGED <<ender, day>> /\ (UNCHANGED row \/ Stores(r))
BY DEF CallerStep, Begin, ReserveCompany, ReserveGlobal, Reserve, ClaimHold, TurnLimit, Release,
       Credit, FreeReceipt, AnswerWithoutTaking, TakeCommand, StopBeforeAccept, SettleBySho,
       Accepted, NotStored, AcceptUnknown, CrashRequest, Stores, CallerAt

(* Ends of turns keep fitting their rows.                                  *)
LEMMA EndersFitOn ==
    ASSUME BudgetAssumption, BudgetTypeOK, Parties,
           \/ \E r \in Caller : CallerStep(r)
           \/ \E t \in Turn : HoldStep(t),
           NEW o \in Turn
    PROVE  EnderFits(o)'
<1>1. TurnsTyped /\ EnderFits(o)
  BY TurnTypes DEF Parties
<1>2. Enabled' = Enabled
  BY DEF Enabled
<1>3. CASE UNCHANGED <<row, ender>>
  BY <1>1, <1>2, <1>3 DEF EnderFits
<1>4. ASSUME NEW r \in Caller, CallerStep(r), Stores(r) PROVE EnderFits(o)'
  <2>1. ender' = ender
    BY <1>4, CallerStores
  <2>2. row[o].st # "none" => row'[o] = row[o]
    BY <1>1, <1>4, KeysTyped DEF Stores, StoreTurn, Acceptable, TurnsTyped
  <2> QED BY <1>1, <1>2, <2>1, <2>2 DEF EnderFits
<1>5. ASSUME NEW t \in Turn, StartTurn(t) \/ ReachModel(t) \/ EndTurn(t) PROVE EnderFits(o)'
  <2>1. row[t].st \in {"queued", "running", "reached"} /\ ender[t].pc = "none" /\ ender[t].took = {}
    BY <1>5 DEF StartTurn, ReachModel, EndTurn, Holding, Parties, EnderFits
  <2>2. CASE o # t
    <3>1. row'[o] = row[o] /\ ender'[o] = ender[o]
      BY <1>1, <1>5, <2>2 DEF StartTurn, ReachModel, EndTurn, SetTurn, TurnsTyped
    <3> QED BY <1>1, <1>2, <3>1 DEF EnderFits
  <2>3. CASE o = t
    <3>1. \/ ender'[t] = ender[t]
          \/ ender'[t].pc = "release" /\ ender'[t].took = {} /\ row'[t].st = "ended"
      BY <1>1, <1>5, <2>1 DEF StartTurn, ReachModel, EndTurn, SetTurn, TurnsTyped, RowRec, EnderRec
    <3> QED BY <1>2, <2>1, <2>3, <3>1 DEF EnderFits
  <2> QED BY <2>2, <2>3
<1>6. ASSUME NEW t \in Turn, EnderRelease(t) \/ EnderCredit(t) \/ CrashEnder(t)
      PROVE  EnderFits(o)'
  <2>1. EnderMoves(t)
    BY <1>6, EndersMove
  <2>2. row' = row /\ (o # t => ender'[o] = ender[o])
    BY <2>1 DEF EnderMoves
  <2>3. ender[t].pc \in {"release", "credit"} /\ row[t].st = "ended"
    BY <1>6 DEF EnderRelease, EnderCredit, CrashEnder, Parties, EnderFits
  <2>4. ender'[t].took \subseteq Enabled /\ (ender'[t].pc # "credit" => ender'[t].took = {})
    <3>1. EnderFits(t) /\ ender[t] \in EnderRec /\ ender \in [Turn -> EnderRec]
      BY <1>1 DEF Parties, TurnsTyped
    <3>2. CASE ender' = [ender EXCEPT ![t] = [pc |-> "credit", took |-> Enabled]]
      BY <3>1, <3>2
    <3>3. CASE ender' = [ender EXCEPT ![t] = [pc |-> "end", took |-> {}]]
      BY <3>1, <3>3
    <3>4. CASE ender' = [ender EXCEPT ![t].pc = "end"] /\ ender[t].took = {}
      BY <3>1, <3>4 DEF EnderRec
    <3>5. CASE ender[t].pc = "credit" /\ \E k : ender' = [ender EXCEPT ![t].took = @ \ {k}]
      BY <3>1, <3>5 DEF EnderFits, EnderRec
    <3>6. ender[t].pc = "release" => ender[t].took = {}
      BY <3>1 DEF EnderFits
    <3> QED BY <1>6, <3>2, <3>3, <3>4, <3>5, <3>6 DEF EnderRelease, EnderCredit, CrashEnder
  <2> QED BY <1>1, <1>2, <2>2, <2>3, <2>4 DEF EnderFits
<1> QED BY <1>3, <1>4, <1>5, <1>6, CallerStores DEF HoldStep

(* Parties keep fitting.                                                   *)
LEMMA PartiesOn ==
    ASSUME BudgetAssumption, BudgetTypeOK, Parties, BudgetNext
    PROVE  Parties'
<1>1. CASE \E r \in Caller : CallerStep(r)
  <2>1. PICK r \in Caller : CallerStep(r)
    BY <1>1
  <2>2. \A o \in Caller \ {r} : caller'[o] = caller[o]
    BY <2>1, CallerMoves DEF MovesHold
  <2>3. ASSUME NEW o \in Caller PROVE CallerFits(caller'[o])
    <3>1. CASE o = r
      BY <2>1, <3>1, CallerFitsOn
    <3>2. CASE o # r
      BY <2>2, <3>2 DEF Parties
    <3> QED BY <3>1, <3>2
  <2> QED BY <1>1, <2>3, EndersFitOn DEF Parties, CallerFits, Enabled
<1>2. CASE \E t \in Turn : HoldStep(t)
  <2>1. caller' = caller
    BY <1>2 DEF HoldStep, StartTurn, ReachModel, EndTurn, EnderRelease, EnderCredit, CrashEnder
  <2> QED BY <1>2, <2>1, EndersFitOn DEF Parties, CallerFits, Enabled
<1>3. CASE (\E x \in taken : ExpireReceipt(x)) \/ Midnight
  <2>1. UNCHANGED <<caller, ender, row>>
    BY <1>3 DEF ExpireReceipt, Midnight
  <2> QED BY <2>1 DEF Parties, CallerFits, EnderFits, Enabled
<1> QED BY <1>1, <1>2, <1>3 DEF BudgetNext

----------------------------------------------------------------------------
(* Types.                                                                  *)
LEMMA TypesOn ==
    ASSUME BudgetAssumption, BudgetTypeOK, Parties, BudgetNext
    PROVE  BudgetTypeOK'
<1> DEFINE Keys == {"chat", "answer", "continue"} \X ClientCommand
<1>1. /\ spent \in [Counter -> [Day -> Nat]] /\ record \subseteq HoldKey /\ taken \subseteq Keys
      /\ row \in [Turn -> RowRec] /\ ender \in [Turn -> EnderRec]
      /\ caller \in [Caller -> CallerRec] /\ day \in Day /\ losses \in 0 .. MaxLosses
  BY DEF BudgetTypeOK, RowRec, EnderRec, CallerRec
<1>2. ASSUME spent' \in [Counter -> [Day -> Nat]], record' \subseteq HoldKey, taken' \subseteq Keys,
             row' \in [Turn -> RowRec], ender' \in [Turn -> EnderRec],
             caller' \in [Caller -> CallerRec], day' \in Day, losses' \in 0 .. MaxLosses
      PROVE  BudgetTypeOK'
  BY <1>2 DEF BudgetTypeOK, RowRec, EnderRec, CallerRec
<1>3. ASSUME NEW r \in Caller, CallerStep(r) PROVE BudgetTypeOK'
  <2>1. MovesHold(r)
    BY <1>3, CallerMoves
  <2>2. spent' \in [Counter -> [Day -> Nat]]
    <3>1. \A k \in Counter, d \in Day : /\ TryAdd(k, d) \in [Counter -> [Day -> Nat]]
                                        /\ Subtract(k, d) \in [Counter -> [Day -> Nat]]
      BY Arithmetic
    <3>2. caller[r].day \in Day /\ caller[r].took \subseteq Counter
      BY <1>1 DEF CallerRec
    <3> QED BY <1>1, <2>1, <3>1, <3>2, EnabledIsCounter
            DEF MovesHold, Stays, Takes, Records, Unrecords, Credits, Unheard
  <2>3. record' \subseteq HoldKey
    BY <1>1, <2>1 DEF MovesHold, Stays, Takes, Records, Unrecords, Credits, Unheard
  <2>4. taken' \subseteq Keys
    <3>1. ReceiptOf(caller[r]) \in Keys
      BY KeysTyped
    <3> QED BY <1>1, <1>3, <3>1
       DEF CallerStep, Begin, ReserveCompany, ReserveGlobal, Reserve, ClaimHold, TurnLimit, Release,
           Credit, FreeReceipt, AnswerWithoutTaking, TakeCommand, StopBeforeAccept, SettleBySho,
           Accepted, NotStored, AcceptUnknown, CrashRequest
  <2>5. row' \in [Turn -> RowRec] /\ ender' = ender /\ day' = day
    <3>1. CASE Stores(r)
      <4>1. caller[r].day \in Day /\ TurnOf(caller[r]) \in Turn
        BY KeysTyped DEF CallerRec
      <4>2. PICK st \in {"queued", "settled"} : StoreTurn(TurnOf(caller[r]), st, caller[r].day)
        BY <3>1 DEF Stores
      <4>3. [st |-> st, day |-> caller[r].day] \in RowRec
        BY <4>1 DEF RowRec, Holding
      <4>4. row' = [row EXCEPT ![TurnOf(caller[r])] = [st |-> st, day |-> caller[r].day]]
        BY <4>2 DEF StoreTurn
      <4> QED BY <1>1, <1>3, <4>1, <4>3, <4>4, CallerStores
    <3> QED BY <1>1, <1>3, <3>1, CallerStores
  <2> QED BY <1>1, <1>2, <2>1, <2>2, <2>3, <2>4, <2>5 DEF MovesHold
<1>4. ASSUME NEW t \in Turn, StartTurn(t) \/ ReachModel(t) \/ EndTurn(t) PROVE BudgetTypeOK'
  <2>1. row' \in [Turn -> RowRec]
    <3>1. PICK st \in {"running", "reached", "ended", "charged"} : SetTurn(t, st)
      BY <1>4 DEF StartTurn, ReachModel, EndTurn
    <3>2. [row[t] EXCEPT !.st = st] \in RowRec
      BY <1>1 DEF RowRec, Holding
    <3>3. row' = [row EXCEPT ![t] = [row[t] EXCEPT !.st = st]]
      BY <1>1, <3>1 DEF SetTurn
    <3> QED BY <1>1, <3>2, <3>3
  <2>2. ender' \in [Turn -> EnderRec]
    <3>1. [ender[t] EXCEPT !.pc = "release"] \in EnderRec
      BY <1>1 DEF EnderRec
    <3>2. ender' = ender \/ ender' = [ender EXCEPT ![t] = [ender[t] EXCEPT !.pc = "release"]]
      BY <1>1, <1>4 DEF StartTurn, ReachModel, EndTurn
    <3> QED BY <1>1, <3>1, <3>2
  <2> QED BY <1>1, <1>2, <1>4, <2>1, <2>2 DEF StartTurn, ReachModel, EndTurn
<1>5. ASSUME NEW t \in Turn, EnderRelease(t) \/ EnderCredit(t) \/ CrashEnder(t)
      PROVE  BudgetTypeOK'
  <2>1. EnderMoves(t)
    BY <1>5, EndersMove
  <2>2. spent' \in [Counter -> [Day -> Nat]]
    <3>1. \A k \in Counter, d \in Day : Subtract(k, d) \in [Counter -> [Day -> Nat]]
      BY Arithmetic
    <3>2. row[t].day \in Day /\ ender[t].took \subseteq Counter
      BY <1>1 DEF RowRec, EnderRec
    <3> QED BY <1>1, <2>1, <3>1, <3>2 DEF EnderMoves, EnderDrops, EnderCredits, EnderLoses
  <2>3. record' \subseteq HoldKey
    BY <1>1, <2>1 DEF EnderMoves, EnderDrops, EnderCredits, EnderLoses
  <2>4. UNCHANGED <<taken, day>>
    BY <1>5 DEF EnderRelease, EnderCredit, CrashEnder
  <2> QED BY <1>1, <1>2, <2>1, <2>2, <2>3, <2>4 DEF EnderMoves
<1>6. CASE \E x \in taken : ExpireReceipt(x)
  BY <1>1, <1>2, <1>6 DEF ExpireReceipt
<1>7. CASE Midnight
  BY <1>1, <1>2, <1>7 DEF Midnight, Day, BudgetAssumption
<1> QED BY <1>3, <1>4, <1>5, <1>6, <1>7 DEF BudgetNext, HoldStep

(* The counters keep matching what stands on them.                         *)
LEMMA CountersOn ==
    ASSUME BudgetAssumption, BudgetTypeOK, Parties, BudgetNext,
           NEW k \in Enabled, NEW d \in Day, Counted(k, d)
    PROVE  Counted(k, d)'
<1>1. TurnsTyped /\ losses \in Nat
  BY TurnTypes DEF BudgetTypeOK
<1>2. ASSUME NEW r \in Caller, CallerStep(r) PROVE Counted(k, d)'
  <2>1. MovesHold(r) /\ UNCHANGED ender
    BY <1>2, CallerMoves, CallerStores
  <2>2. ASSUME NEW t \in Turn, ender[t].took # {} PROVE row'[t].day = row[t].day
    <3>1. row[t].st = "ended"
      BY <2>2 DEF Parties, EnderFits
    <3> QED BY <1>1, <1>2, <3>1, CallerStores, KeysTyped
            DEF Stores, StoreTurn, Acceptable, TurnsTyped
  <2> QED BY <2>1, <2>2, MovesCount
<1>3. ASSUME NEW t \in Turn, StartTurn(t) \/ ReachModel(t) \/ EndTurn(t) PROVE Counted(k, d)'
  <2>1. \A o \in Turn : ender'[o].took = ender[o].took /\ row'[o].day = row[o].day
    BY <1>1, <1>3 DEF StartTurn, ReachModel, EndTurn, SetTurn, TurnsTyped, RowRec, EnderRec
  <2> QED BY <1>1, <1>3, <2>1, RestCounts DEF StartTurn, ReachModel, EndTurn
<1>4. ASSUME NEW t \in Turn, EnderRelease(t) \/ EnderCredit(t) \/ CrashEnder(t)
      PROVE  Counted(k, d)'
  BY <1>4, EndersMove, EndersCount
<1>5. CASE (\E x \in taken : ExpireReceipt(x)) \/ Midnight
  <2>1. UNCHANGED <<spent, record, caller, ender, row, losses>>
    BY <1>5 DEF ExpireReceipt, Midnight
  <2> QED BY <1>1, <2>1, RestCounts
<1> QED BY <1>2, <1>3, <1>4, <1>5 DEF BudgetNext, HoldStep

----------------------------------------------------------------------------
(* Whose records are whose.                                                *)
Identity(q) == <<q.cmd, q.route, q.day>>

(* A request ends, begins, goes on, joins the record of its key or deletes *)
(* it.                                                                     *)
Begins(r) ==
    /\ ~InFlight(r) /\ caller'[r].pc = "company" /\ ~caller'[r].created
    /\ Overlap \/ \A o \in Caller : InFlight(o) => caller[o].cmd # caller'[r].cmd
    /\ UNCHANGED record

GoesOn(r) ==
    /\ InFlight(r) /\ Identity(caller'[r]) = Identity(caller[r])
    /\ caller'[r].created = caller[r].created
    /\ Under(caller'[r]) => Under(caller[r])
    /\ caller'[r].pc = "release" => Under(caller[r])
    /\ record \subseteq record'

Joins(r) ==
    /\ caller[r].pc = "claim" /\ Identity(caller'[r]) = Identity(caller[r])
    /\ record' = record \cup {HoldKeyOf(caller[r])} /\ UNCHANGED row
    /\ caller'[r].created => HoldKeyOf(caller[r]) \notin record

Deletes(r) ==
    /\ caller[r].pc = "release" /\ Identity(caller'[r]) = Identity(caller[r])
    /\ caller[r].created /\ record' = record \ {HoldKeyOf(caller[r])} /\ UNCHANGED row
    /\ ~Under(caller'[r]) /\ caller'[r].pc # "release"

Path(r) ==
    \/ InFlight(r) /\ caller'[r] = Over /\ record \subseteq record'
    \/ Begins(r) \/ GoesOn(r) \/ Joins(r) \/ Deletes(r)

LEMMA NotUnder == ~Under(Over) /\ ~Over.created /\ Over.pc = "end"
BY DEF Under, Over, NewRequest

LEMMA CallerPath ==
    ASSUME BudgetAssumption, BudgetTypeOK, Parties, NEW r \in Caller, CallerStep(r)
    PROVE  Path(r)
<1> DEFINE q == caller[r]
<1>1. q \in CallerRec /\ CallerFits(q)
  BY DEF BudgetTypeOK, CallerRec, Parties
<1>2. CASE \E c \in ClientCommand, route \in Route : Begin(r, c, route)
  <2>1. PICK c \in ClientCommand, route \in Route : Begin(r, c, route)
    BY <1>2
  <2>2. caller'[r] = [NewRequest EXCEPT !.pc = "company", !.cmd = c, !.route = route, !.day = day]
    BY <2>1, Lands DEF Begin, NewRequest
  <2>3. caller'[r].pc = "company" /\ ~caller'[r].created /\ caller'[r].cmd = c
    BY <2>2 DEF NewRequest
  <2> QED BY <2>1, <2>3 DEF Begin, CallerAt, Begins, Path, InFlight
<1>3. ASSUME NEW q2, Update(r, q2), q2.pc # "end", Identity(q2) = Identity(q),
             q.pc \notin {"idle", "end"}, q2.created = q.created,
             Under(q2) => Under(q), q2.pc = "release" => Under(q), record \subseteq record'
      PROVE  Path(r)
  <2>1. caller'[r] = q2
    BY <1>3, Lands
  <2> QED BY <1>3, <2>1 DEF Path, GoesOn, InFlight
<1>4. ASSUME NEW pc \in PC, Goto(r, pc), q.pc \notin {"idle", "end"},
             pc \in {"limit", "handler", "accept", "release"} => Under(q),
             pc # "credit", record \subseteq record'
      PROVE  Path(r)
  <2>1. CASE pc = "end"
    <3>1. caller'[r] = Over
      BY <1>4, <2>1, LandsAt
    <3> QED BY <1>4, <3>1 DEF Path, InFlight
  <2>2. CASE pc # "end"
    <3> DEFINE q2 == [q EXCEPT !.pc = pc]
    <3>1. q2.pc = pc /\ Identity(q2) = Identity(q) /\ q2.created = q.created
      BY <1>1 DEF CallerRec, Identity
    <3>2. Update(r, q2)
      BY <1>4 DEF Goto
    <3> HIDE DEF q2
    <3> QED BY <1>3, <1>4, <2>2, <3>1, <3>2 DEF Under
  <2> QED BY <2>1, <2>2
<1>5. Refuse(q).pc = "credit" /\ Refuse(q).then = "end" /\ Identity(Refuse(q)) = Identity(q)
      /\ Refuse(q).created = q.created
  BY <1>1 DEF Refuse, CallerRec, Identity
<1>6. ASSUME Update(r, Refuse(q)), q.pc \notin {"idle", "end"}, record \subseteq record'
      PROVE  Path(r)
  BY <1>3, <1>5, <1>6 DEF Under
<1>7. ASSUME NEW k \in {"company", "global"}, NEW next \in {"global", "claim"}, Reserve(r, k, next)
      PROVE  Path(r)
  <2>1. q.pc = k /\ record' = record
    BY <1>7 DEF Reserve, CallerAt
  <2>2. CASE Goto(r, next)
    BY <1>4, <2>1, <2>2 DEF PC
  <2>3. CASE Update(r, [q EXCEPT !.pc = next, !.took = @ \cup {k}])
    <3> DEFINE q2 == [q EXCEPT !.pc = next, !.took = @ \cup {k}]
    <3>1. q2.pc = next /\ Identity(q2) = Identity(q) /\ q2.created = q.created
      BY <1>1 DEF CallerRec, Identity
    <3>2. Update(r, q2)
      BY <2>3
    <3> HIDE DEF q2
    <3> QED BY <1>3, <2>1, <3>1, <3>2 DEF Under
  <2>4. CASE Update(r, Refuse(q))
    BY <1>6, <2>1, <2>4
  <2> QED BY <1>7, <2>2, <2>3, <2>4 DEF Reserve
<1>8. CASE ReserveCompany(r) \/ ReserveGlobal(r)
  BY <1>7, <1>8 DEF ReserveCompany, ReserveGlobal
<1>9. CASE ClaimHold(r)
  <2> DEFINE h == HoldKeyOf(q)
  <2>1. q.pc = "claim" /\ UNCHANGED row /\ ~q.created
    BY <1>1, <1>9 DEF ClaimHold, CallerAt, CallerFits
  <2>2. CASE /\ h \notin record /\ record' = record \cup {h}
             /\ Update(r, [q EXCEPT !.pc = "limit", !.took = {}, !.created = TRUE])
    <3> DEFINE q2 == [q EXCEPT !.pc = "limit", !.took = {}, !.created = TRUE]
    <3>1. q2.pc = "limit" /\ Identity(q2) = Identity(q)
      BY <1>1 DEF CallerRec, Identity
    <3>2. Update(r, q2)
      BY <2>2
    <3> HIDE DEF q2
    <3>3. caller'[r] = q2
      BY <3>1, <3>2, Lands
    <3> QED BY <2>1, <2>2, <3>1, <3>3 DEF Path, Joins
  <2>3. CASE /\ h \in record /\ UNCHANGED record
             /\ Update(r, [q EXCEPT !.pc = "credit", !.then = "limit"])
    <3> DEFINE q2 == [q EXCEPT !.pc = "credit", !.then = "limit"]
    <3>1. q2.pc = "credit" /\ Identity(q2) = Identity(q) /\ ~q2.created
      BY <1>1, <2>1 DEF CallerRec, Identity
    <3>2. Update(r, q2)
      BY <2>3
    <3> HIDE DEF q2
    <3>3. caller'[r] = q2
      BY <3>1, <3>2, Lands
    <3>4. record' = record \cup {h}
      BY <2>3
    <3> QED BY <2>1, <3>1, <3>3, <3>4 DEF Path, Joins
  <2>4. CASE Update(r, Refuse(q)) /\ record \subseteq record'
    BY <1>6, <2>1, <2>4
  <2> QED BY <1>9, <2>2, <2>3, <2>4 DEF ClaimHold
<1>10. CASE TurnLimit(r) \/ FreeReceipt(r) \/ AnswerWithoutTaking(r) \/ TakeCommand(r)
           \/ StopBeforeAccept(r) \/ SettleBySho(r) \/ Accepted(r)
  <2>1. /\ \/ q.pc \in {"limit", "handler", "accept"}
              /\ \E pc \in {"handler", "release", "accept", "end"} : Goto(r, pc)
           \/ q.pc = "free" /\ Goto(r, "end")
        /\ UNCHANGED record
    BY <1>10 DEF TurnLimit, FreeReceipt, AnswerWithoutTaking, TakeCommand, StopBeforeAccept,
                 SettleBySho, Accepted, CallerAt
  <2> QED BY <1>4, <2>1 DEF Under, PC
<1>11. CASE Release(r)
  <2>1. q.pc = "release" /\ UNCHANGED row
    BY <1>11 DEF Release, CallerAt
  <2>2. CASE Goto(r, "free") /\ UNCHANGED record
    BY <1>4, <2>1, <2>2 DEF PC
  <2>3. CASE /\ q.created /\ record' = record \ {HoldKeyOf(q)}
             /\ \/ Goto(r, "free")
                \/ Update(r, [q EXCEPT !.pc = "credit", !.then = "free", !.took = Enabled])
    <3>1. PICK q2 : Update(r, q2) /\ \/ q2 = [q EXCEPT !.pc = "free"]
                                     \/ q2 = [q EXCEPT !.pc = "credit", !.then = "free",
                                                       !.took = Enabled]
      BY <2>3 DEF Goto
    <3>2. Identity(q2) = Identity(q) /\ (q2.pc = "free" \/ (q2.pc = "credit" /\ q2.then = "free"))
      <4>1. CASE q2 = [q EXCEPT !.pc = "free"]
        BY <1>1, <4>1 DEF CallerRec, Identity
      <4>2. CASE q2 = [q EXCEPT !.pc = "credit", !.then = "free", !.took = Enabled]
        BY <1>1, <4>2 DEF CallerRec, Identity
      <4> QED BY <3>1, <4>1, <4>2
    <3>3. caller'[r] = q2
      BY <3>1, <3>2, Lands
    <3> QED BY <2>1, <2>3, <3>2, <3>3 DEF Path, Deletes, Under
  <2> QED BY <1>11, <2>2, <2>3 DEF Release, MayRelease, Drops
<1>12. CASE Credit(r)
  <2>1. q.pc = "credit" /\ UNCHANGED record /\ q.then \in {"end", "limit", "free"}
    BY <1>1, <1>12 DEF Credit, CallerAt, CallerRec
  <2>2. CASE Goto(r, q.then)
    BY <1>4, <2>1, <2>2 DEF PC, Under
  <2>3. CASE \E k : Update(r, [q EXCEPT !.took = @ \ {k}])
    <3>1. PICK q2 : Update(r, q2) /\ \E k : q2 = [q EXCEPT !.took = @ \ {k}]
      BY <2>3
    <3>2. q2.pc = "credit" /\ Identity(q2) = Identity(q) /\ q2.then = q.then
          /\ q2.created = q.created
      BY <1>1, <2>1, <3>1 DEF CallerRec, Identity
    <3> QED BY <1>3, <2>1, <3>1, <3>2 DEF Under
  <2>4. CASE Update(r, AfterFailedCredit(q))
    <3> DEFINE q2 == AfterFailedCredit(q)
    <3>1. q2.pc = q.then /\ Identity(q2) = Identity(q) /\ q2.created = q.created
      BY <1>1 DEF CallerRec, Identity, AfterFailedCredit
    <3>2. CASE q.then = "end"
      <4>1. caller'[r] = Over
        BY <2>4, <3>1, <3>2, Lands
      <4> QED BY <2>1, <4>1 DEF Path, InFlight
    <3>3. CASE q.then # "end"
      BY <1>3, <2>1, <2>4, <3>1, <3>3 DEF Under
    <3> QED BY <3>2, <3>3
  <2> QED BY <1>12, <2>2, <2>3, <2>4 DEF Credit
<1>13. CASE NotStored(r) \/ AcceptUnknown(r)
  <2>1. q.pc = "accept" /\ UNCHANGED record
    BY <1>13 DEF NotStored, AcceptUnknown, CallerAt
  <2>2. PICK q2 : Update(r, q2)
               /\ \/ q2 = [q EXCEPT !.pc = "release"]
                  \/ q2 = [q EXCEPT !.pc = "release", !.frees = TRUE]
                  \/ q2 = [q EXCEPT !.pc = "free", !.frees = q.route \in {"chat", "continue"}]
    BY <1>13 DEF NotStored, AcceptUnknown
  <2>3. q2.pc \in {"release", "free"} /\ Identity(q2) = Identity(q) /\ q2.created = q.created
    BY <1>1, <2>2 DEF CallerRec, Identity
  <2> QED BY <1>3, <2>1, <2>2, <2>3 DEF Under
<1>14. CASE CrashRequest(r)
  <2>1. [q EXCEPT !.pc = "end", !.took = {}].pc = "end"
    BY <1>1 DEF CallerRec
  <2>2. caller'[r] = Over /\ UNCHANGED record /\ InFlight(r)
    BY <1>14, <2>1, Lands DEF CrashRequest
  <2> QED BY <2>2 DEF Path
<1> QED BY <1>2, <1>8, <1>9, <1>10, <1>11, <1>12, <1>13, <1>14 DEF CallerStep

(* No two requests of a command are in flight.                             *)
LEMMA OneAtATimeOn ==
    ASSUME BudgetAssumption, BudgetTypeOK, Parties, OneAtATime, BudgetNext
    PROVE  OneAtATime'
<1>1. ASSUME NEW r \in Caller, CallerStep(r) PROVE OneAtATime'
  <2>1. Path(r) /\ \A o \in Caller \ {r} : caller'[o] = caller[o]
    BY <1>1, CallerPath, CallerMoves DEF MovesHold
  <2>2. SUFFICES ASSUME ~Overlap, NEW a \in Caller, NEW b \in Caller, a # b,
                        InFlight(a)', InFlight(b)'
                 PROVE  caller'[a].cmd # caller'[b].cmd
    BY DEF OneAtATime
  <2>3. ASSUME NEW o \in Caller, o # r, InFlight(r)', InFlight(o)'
        PROVE  caller'[r].cmd # caller'[o].cmd
    <3>1. caller'[o] = caller[o] /\ InFlight(o)
      BY <2>1, <2>3 DEF InFlight
    <3>2. CASE Begins(r)
      BY <2>2, <3>1, <3>2 DEF Begins
    <3>3. CASE InFlight(r) /\ caller'[r].cmd = caller[r].cmd
      BY <2>2, <2>3, <3>1, <3>3 DEF OneAtATime
    <3>4. caller'[r] # Over
      BY <2>3, NotUnder DEF InFlight
    <3> QED BY <2>1, <3>2, <3>3, <3>4 DEF Path, GoesOn, Joins, Deletes, Identity, InFlight
  <2>4. CASE a = r
    BY <2>2, <2>3, <2>4
  <2>5. CASE b = r
    BY <2>2, <2>3, <2>5
  <2>6. CASE a # r /\ b # r
    BY <2>1, <2>2, <2>6 DEF OneAtATime, InFlight
  <2> QED BY <2>4, <2>5, <2>6
<1>2. CASE UNCHANGED caller
  BY <1>2 DEF OneAtATime, InFlight
<1> QED BY <1>1, <1>2
        DEF BudgetNext, HoldStep, StartTurn, ReachModel, EndTurn, EnderRelease, EnderCredit,
            CrashEnder, ExpireReceipt, Midnight

(* With one kind, the key under which a request holds names its turn.      *)
LEMMA KeyNamesTurn ==
    ASSUME BudgetAssumption, BudgetTypeOK, Parties, SameKind, NEW r \in Caller, InFlight(r)
    PROVE  LET q == caller[r] IN
           /\ HoldKeyOf(q) = <<q.day, TurnOf(q)[1], TurnOf(q)[2]>>
           /\ TurnOf(q)[2] = q.cmd
<1>1. caller[r].route # "typed"
  BY DEF Parties, CallerFits, SameKind, InFlight
<1> QED BY <1>1 DEF HoldKeyOf, TurnOf, HoldKind, RowKind

(* What a key depends on.                                                  *)
LEMMA IdentityNames ==
    ASSUME NEW q, NEW q2, Identity(q) = Identity(q2)
    PROVE  /\ HoldKeyOf(q) = HoldKeyOf(q2) /\ TurnOf(q) = TurnOf(q2)
           /\ q.cmd = q2.cmd /\ q.day = q2.day /\ q.route = q2.route
BY DEF Identity, HoldKeyOf, TurnOf, HoldKind, RowKind

(* A request that stored an active turn leaves without giving back.        *)
LEMMA StoredLeaves ==
    ASSUME BudgetTypeOK, NEW r \in Caller, CallerStep(r), Stores(r)
    PROVE  LET t == TurnOf(caller[r]) IN
           /\ row' = [row EXCEPT ![t] = [st |-> row'[t].st, day |-> caller[r].day]]
           /\ row[t].st = "none" /\ Under(caller[r]) /\ InFlight(r)
           /\ row'[t].st \in {"queued", "settled"} /\ row'[t].day = caller[r].day
           /\ row'[t].st = "queued" => ~Under(caller'[r]) /\ caller'[r].pc # "release"
           /\ ~Under(caller'[r])
<1> DEFINE q == caller[r]  t == TurnOf(q)
<1>1. q \in CallerRec /\ t \in Turn /\ row \in [Turn -> RowRec]
  BY KeysTyped, TurnTypes DEF TurnsTyped
<1>2. PICK st \in {"queued", "settled"} :
         q.pc = "accept" /\ Acceptable(t) /\ row' = [row EXCEPT ![t] = [st |-> st, day |-> q.day]]
  BY DEF Stores, StoreTurn
<1>3. row'[t] = [st |-> st, day |-> q.day] /\ row[t].st = "none"
  BY <1>1, <1>2 DEF Acceptable
<1>4. row'[t].st = st /\ row'[t].day = q.day /\ row' # row
  BY <1>2, <1>3
<1>5. SettleBySho(r) \/ Accepted(r) \/ AcceptUnknown(r)
  BY <1>2, <1>4 DEF CallerStep, Begin, ReserveCompany, ReserveGlobal, Reserve, ClaimHold, TurnLimit,
        Release, Credit, FreeReceipt, AnswerWithoutTaking, TakeCommand, StopBeforeAccept,
        NotStored, CrashRequest, CallerAt
<1>6. CASE SettleBySho(r)
  <2>1. caller'[r] = [q EXCEPT !.pc = "release"]
    BY <1>6, LandsAt DEF SettleBySho
  <2>2. caller'[r].pc = "release"
    BY <1>1, <2>1 DEF CallerRec
  <2>3. row'[t].st = "settled"
    <3>1. StoreTurn(t, "settled", q.day)
      BY <1>3, <1>6 DEF SettleBySho
    <3> QED BY <1>1, <3>1 DEF StoreTurn
  <2> QED BY <1>2, <1>3, <1>4, <2>2, <2>3 DEF Under, InFlight
<1>7. CASE Accepted(r)
  <2>1. caller'[r] = Over
    BY <1>7, LandsAt DEF Accepted
  <2> QED BY <1>2, <1>3, <1>4, <2>1, NotUnder DEF Under, InFlight
<1>8. CASE AcceptUnknown(r)
  <2> DEFINE q2 == [q EXCEPT !.pc = "free", !.frees = q.route \in {"chat", "continue"}]
  <2>1. Update(r, q2)
    BY <1>8 DEF AcceptUnknown
  <2>2. q2.pc = "free"
    BY <1>1 DEF CallerRec
  <2> HIDE DEF q2
  <2>3. caller'[r].pc = "free"
    BY <2>1, <2>2, Lands
  <2> QED BY <1>2, <1>3, <1>4, <2>3 DEF Under, InFlight
<1> QED BY <1>5, <1>6, <1>7, <1>8

(* A turn that owes its hold keeps its record, and no request gets hold of *)
(* it, where the requests of a command come one after the other.           *)
LEMMA CallersKeepHolds ==
    ASSUME BudgetAssumption, BudgetTypeOK, Parties, OneAtATime, ~Overlap, SameKind,
           HoldsRecorded, NEW r \in Caller, CallerStep(r)
    PROVE  HoldsRecorded'
<1> DEFINE q == caller[r]  t0 == TurnOf(q)
<1>1. Path(r) /\ \A o \in Caller \ {r} : caller'[o] = caller[o]
  BY CallerPath, CallerMoves DEF MovesHold
<1>2. row \in [Turn -> RowRec] /\ t0 \in Turn
  BY TurnTypes, KeysTyped DEF TurnsTyped
<1>3. \A o \in Caller : Under(caller[o]) \/ caller[o].pc = "release" => InFlight(o)
  BY DEF Under, InFlight
<1>4. \A o \in Caller \ {r} : InFlight(o) /\ InFlight(r) => caller[o].cmd # q.cmd
  BY DEF OneAtATime
<1>5. ASSUME Stores(r)
      PROVE  /\ row'[t0].st \in {"queued", "settled"} /\ row'[t0].day = q.day /\ row[t0].st = "none"
             /\ \A t \in Turn \ {t0} : row'[t] = row[t]
             /\ Under(q) /\ InFlight(r) /\ ~Under(caller'[r])
             /\ row'[t0].st = "queued" => caller'[r].pc # "release"
  BY <1>2, <1>5, StoredLeaves
<1>6. UNCHANGED row \/ Stores(r)
  BY CallerStores
<1>7. ASSUME NEW t \in Turn, Owes(t)' PROVE KeyOf(t)' \in record'
  <2>1. CASE t = t0 /\ Stores(r)
    <3>1. KeyOf(t)' = HoldKeyOf(q)
      BY <1>5, <2>1, KeyNamesTurn DEF KeyOf
    <3>2. HoldKeyOf(q) \in record
      BY <1>5, <2>1 DEF HoldsRecorded
    <3>3. record \subseteq record'
      BY <1>1, <1>5, <2>1 DEF Path, Begins, GoesOn, Joins, Deletes, Under
    <3> QED BY <3>1, <3>2, <3>3
  <2>2. CASE ~(t = t0 /\ Stores(r))
    <3>1. row'[t] = row[t] /\ Owes(t)
      <4>1. row'[t] = row[t]
        BY <1>5, <1>6, <2>2
      <4> QED BY <1>7, <4>1 DEF Owes
    <3>2. KeyOf(t) \in record /\ KeyOf(t)' = KeyOf(t)
      BY <3>1 DEF HoldsRecorded, KeyOf
    <3>3. CASE record \subseteq record'
      BY <3>2, <3>3
    <3>4. CASE Deletes(r)
      <4>1. InFlight(r) /\ q.created /\ q.pc = "release" /\ record' = record \ {HoldKeyOf(q)}
        BY <3>4 DEF Deletes, InFlight
      <4>2. HoldKeyOf(q) # KeyOf(t)
        <5>1. SUFFICES ASSUME HoldKeyOf(q) = KeyOf(t) PROVE FALSE
          OBVIOUS
        <5>2. row[t].day = q.day /\ t[1] = t0[1] /\ t[2] = t0[2]
          BY <4>1, <5>1, KeyNamesTurn DEF KeyOf
        <5>3. t = t0
          BY <1>2, <5>2 DEF Turn
        <5> QED BY <3>1, <4>1, <5>2, <5>3 DEF HoldsRecorded
      <4> QED BY <3>2, <4>1, <4>2
    <3> QED BY <1>1, <3>3, <3>4 DEF Path, Begins, GoesOn, Joins
  <2> QED BY <2>1, <2>2
<1>8. ASSUME NEW o \in Caller, Under(caller'[o]), row'[TurnOf(caller'[o])].st = "none"
      PROVE  HoldKeyOf(caller'[o]) \in record'
  <2>1. CASE o # r
    <3>1. caller'[o] = caller[o] /\ InFlight(o) /\ TurnOf(caller[o]) \in Turn
      BY <1>1, <1>3, <1>8, <2>1, KeysTyped
    <3>2. row[TurnOf(caller[o])].st = "none"
      <4>1. CASE UNCHANGED row
        BY <1>8, <3>1, <4>1
      <4>2. CASE Stores(r)
        <5>1. TurnOf(caller[o]) # t0
          BY <1>5, <1>8, <3>1, <4>2
        <5> QED BY <1>5, <1>8, <3>1, <4>2, <5>1
      <4> QED BY <1>6, <4>1, <4>2
    <3>3. HoldKeyOf(caller[o]) \in record
      BY <1>8, <3>1, <3>2 DEF HoldsRecorded
    <3>4. CASE record \subseteq record'
      BY <3>1, <3>3, <3>4
    <3>5. CASE Deletes(r)
      <4>1. InFlight(r) /\ record' = record \ {HoldKeyOf(q)}
        BY <3>5 DEF Deletes, InFlight
      <4>2. HoldKeyOf(caller[o]) # HoldKeyOf(q)
        BY <1>4, <2>1, <3>1, <4>1 DEF HoldKeyOf
      <4> QED BY <3>1, <3>3, <4>1, <4>2
    <3> QED BY <1>1, <3>4, <3>5 DEF Path, Begins, GoesOn, Joins
  <2>2. CASE o = r
    <3>1. CASE Joins(r)
      <4>1. HoldKeyOf(caller'[r]) = HoldKeyOf(q)
        BY <3>1, IdentityNames DEF Joins
      <4> QED BY <2>2, <3>1, <4>1 DEF Joins
    <3>2. CASE GoesOn(r)
      <4>1. /\ HoldKeyOf(caller'[r]) = HoldKeyOf(q) /\ TurnOf(caller'[r]) = t0
        BY <3>2, IdentityNames DEF GoesOn
      <4>2. Under(q) /\ record \subseteq record'
        BY <1>8, <2>2, <3>2 DEF GoesOn
      <4>3. row[t0].st = "none"
        BY <1>5, <1>6, <1>8, <2>2, <4>1
      <4> QED BY <2>2, <4>1, <4>2, <4>3 DEF HoldsRecorded
    <3>3. ~Begins(r) /\ ~Deletes(r) /\ caller'[r] # Over
      BY <1>8, <2>2, NotUnder DEF Begins, Deletes, Under
    <3> QED BY <1>1, <3>1, <3>2, <3>3 DEF Path
  <2> QED BY <2>1, <2>2
<1>9. ASSUME NEW o \in Caller, caller'[o].created, Under(caller'[o]) \/ caller'[o].pc = "release",
             row'[TurnOf(caller'[o])].st \in Holding \cup {"charged"}
      PROVE  row'[TurnOf(caller'[o])].day # caller'[o].day
  <2>1. CASE o # r
    <3>1. caller'[o] = caller[o] /\ InFlight(o) /\ TurnOf(caller[o]) \in Turn
      BY <1>1, <1>3, <1>9, <2>1, KeysTyped
    <3>2. row'[TurnOf(caller[o])] = row[TurnOf(caller[o])]
      <4>1. CASE Stores(r)
        <5>1. TurnOf(caller[o]) # t0
          BY <1>4, <1>5, <2>1, <3>1, <4>1 DEF TurnOf
        <5> QED BY <1>5, <3>1, <4>1, <5>1
      <4> QED BY <1>6, <4>1
    <3> QED BY <1>9, <3>1, <3>2 DEF HoldsRecorded, Owes
  <2>2. CASE o = r
    <3>1. CASE Joins(r)
      <4>1. /\ HoldKeyOf(caller'[r]) = HoldKeyOf(q) /\ TurnOf(caller'[r]) = t0
            /\ caller'[r].day = q.day
        BY <3>1, IdentityNames DEF Joins
      <4>2. row' = row /\ HoldKeyOf(q) \notin record /\ InFlight(r)
        BY <1>9, <2>2, <3>1 DEF Joins, InFlight
      <4>3. Owes(t0) /\ KeyOf(t0) \in record
        <5>1. Owes(t0)
          BY <1>9, <2>2, <4>1, <4>2 DEF Owes
        <5> QED BY <1>2, <5>1 DEF HoldsRecorded
      <4>4. row[t0].day = q.day => KeyOf(t0) = HoldKeyOf(q)
        BY <4>2, KeyNamesTurn DEF KeyOf
      <4> QED BY <2>2, <4>1, <4>2, <4>3, <4>4
    <3>2. CASE GoesOn(r)
      <4>1. TurnOf(caller'[r]) = t0 /\ caller'[r].day = q.day /\ q.created
        BY <1>9, <2>2, <3>2, IdentityNames DEF GoesOn
      <4>2. ~Stores(r)
        <5>1. SUFFICES ASSUME Stores(r) PROVE FALSE
          OBVIOUS
        <5>2. caller'[r].pc = "release" /\ row'[t0].st = "settled"
          BY <1>5, <1>9, <2>2, <5>1
        <5> QED BY <1>9, <2>2, <4>1, <5>2 DEF Owes, Holding
      <4>3. row' = row /\ Under(q)
        BY <1>6, <1>9, <2>2, <3>2, <4>2 DEF GoesOn
      <4> QED BY <1>9, <2>2, <4>1, <4>3 DEF HoldsRecorded, Owes
    <3>3. ~Begins(r) /\ ~Deletes(r) /\ caller'[r] # Over
      BY <1>9, <2>2, NotUnder DEF Begins, Deletes, Under
    <3> QED BY <1>1, <3>1, <3>2, <3>3 DEF Path
  <2> QED BY <2>1, <2>2
<1>10. \A t \in Turn : Owes(t)' => KeyOf(t)' \in record'
  BY <1>7
<1>11. \A o \in Caller : (LET p == caller[o]  t == TurnOf(p) IN
          /\ Under(p) /\ row[t].st = "none" => HoldKeyOf(p) \in record
          /\ p.created /\ (Under(p) \/ p.pc = "release") /\ Owes(t) => row[t].day # p.day)'
  BY <1>8, <1>9 DEF Owes
<1> QED BY <1>10, <1>11 DEF HoldsRecorded

(* What a step of a turn does to its row: it starts, ends, or does not     *)
(* change while its ender gives back.                                      *)
LEMMA TurnPath ==
    ASSUME BudgetAssumption, BudgetTypeOK, Parties, NEW t \in Turn, HoldStep(t)
    PROVE  /\ caller' = caller /\ row' \in [Turn -> RowRec]
           /\ \A o \in Turn \ {t} : row'[o] = row[o] /\ ender'[o] = ender[o]
           /\ row'[t].day = row[t].day /\ (row'[t].st = "none" <=> row[t].st = "none")
           /\ Owes(t)' => Owes(t)
           /\ \/ /\ record' = record
                 /\ Owes(t) => Owes(t)' \/ ender'[t].pc = "release"
                 /\ ender[t].pc = "release" => ~(Loss = {})
                       \/ ender'[t].pc = "release" \/ KeyOf(t) \notin record
              \/ record' = record \ {KeyOf(t)} /\ row[t].st = "ended"
<1>1. row \in [Turn -> RowRec] /\ ender \in [Turn -> EnderRec] /\ EnderFits(t)
  BY TurnTypes DEF TurnsTyped, Parties
<1>2. CASE StartTurn(t) \/ ReachModel(t) \/ EndTurn(t)
  <2>1. row[t].st \in {"queued", "running", "reached"} /\ ender[t].pc = "none"
    BY <1>1, <1>2 DEF StartTurn, ReachModel, EndTurn, Holding, EnderFits
  <2>2. PICK st \in {"running", "reached", "ended", "charged"} :
           /\ row' = [row EXCEPT ![t] = [row[t] EXCEPT !.st = st]]
           /\ \/ st # "ended" /\ ender' = ender
              \/ st = "ended" /\ ender' = [ender EXCEPT ![t] = [ender[t] EXCEPT !.pc = "release"]]
    BY <1>1, <1>2 DEF StartTurn, ReachModel, EndTurn, SetTurn
  <2>3. /\ [row[t] EXCEPT !.st = st] \in RowRec /\ [row[t] EXCEPT !.st = st].st = st
        /\ [row[t] EXCEPT !.st = st].day = row[t].day
        /\ [ender[t] EXCEPT !.pc = "release"].pc = "release"
    BY <1>1 DEF RowRec, EnderRec, Holding
  <2>4. row'[t].st = st /\ row'[t].day = row[t].day /\ row' \in [Turn -> RowRec]
        /\ \A o \in Turn \ {t} : row'[o] = row[o] /\ ender'[o] = ender[o]
    BY <1>1, <2>2, <2>3
  <2>5. st = "ended" => ender'[t].pc = "release"
    BY <1>1, <2>2, <2>3
  <2>6. UNCHANGED <<record, caller>>
    BY <1>2 DEF StartTurn, ReachModel, EndTurn
  <2> QED BY <2>1, <2>4, <2>5, <2>6 DEF Owes, Holding
<1>3. CASE EnderRelease(t) \/ EnderCredit(t) \/ CrashEnder(t)
  <2>1. EnderMoves(t)
    BY <1>3, EndersMove
  <2>2. row' = row /\ caller' = caller /\ \A o \in Turn \ {t} : ender'[o] = ender[o]
    BY <2>1 DEF EnderMoves
  <2>3. row[t].st = "ended" /\ ~Owes(t)
    BY <1>1, <1>3 DEF EnderRelease, EnderCredit, CrashEnder, EnderFits, Owes, Holding
  <2>4. \/ record' = record \ {KeyOf(t)}
        \/ record' = record /\ (ender[t].pc = "release" => ~(Loss = {}) \/ KeyOf(t) \notin record)
    BY <1>3 DEF EnderRelease, EnderCredit, CrashEnder, Drops, KeyOf, Breaks
  <2> QED BY <1>1, <2>2, <2>3, <2>4 DEF Owes
<1> QED BY <1>2, <1>3 DEF HoldStep

LEMMA EndersKeepHolds ==
    ASSUME BudgetAssumption, BudgetTypeOK, Parties, SameKind, HoldsRecorded,
           NEW t \in Turn, HoldStep(t)
    PROVE  HoldsRecorded'
<1>1. /\ caller' = caller
      /\ \A o \in Turn \ {t} : row'[o] = row[o]
      /\ row'[t].day = row[t].day /\ (row'[t].st = "none" <=> row[t].st = "none")
      /\ Owes(t)' => Owes(t)
      /\ record' = record \/ (record' = record \ {KeyOf(t)} /\ row[t].st = "ended")
  BY TurnPath
<1>2. \A o \in Turn : /\ row'[o].day = row[o].day /\ KeyOf(o)' = KeyOf(o)
                      /\ row'[o].st = "none" <=> row[o].st = "none"
                      /\ Owes(o)' => Owes(o)
  BY <1>1 DEF Owes, KeyOf
<1>3. ASSUME NEW o \in Turn, Owes(o)' PROVE KeyOf(o)' \in record'
  <2>1. KeyOf(o) \in record /\ Owes(o)
    BY <1>2, <1>3 DEF HoldsRecorded
  <2>2. row[t].st = "ended" => KeyOf(o) # KeyOf(t)
    <3>1. SUFFICES ASSUME row[t].st = "ended", KeyOf(o) = KeyOf(t) PROVE FALSE
      OBVIOUS
    <3>2. o = t
      BY <3>1 DEF KeyOf, Turn
    <3> QED BY <2>1, <3>1, <3>2 DEF Owes, Holding
  <2> QED BY <1>1, <1>2, <2>1, <2>2
<1>4. ASSUME NEW r \in Caller, Under(caller[r]), row'[TurnOf(caller[r])].st = "none"
      PROVE  HoldKeyOf(caller[r]) \in record'
  <2>1. TurnOf(caller[r]) \in Turn /\ InFlight(r)
    BY <1>4, KeysTyped DEF Under, InFlight
  <2>2. row[TurnOf(caller[r])].st = "none"
    BY <1>2, <1>4, <2>1
  <2>3. HoldKeyOf(caller[r]) \in record
    BY <1>4, <2>2 DEF HoldsRecorded
  <2>4. row[t].st = "ended" => HoldKeyOf(caller[r]) # KeyOf(t)
    <3>1. SUFFICES ASSUME row[t].st = "ended", HoldKeyOf(caller[r]) = KeyOf(t) PROVE FALSE
      OBVIOUS
    <3>2. TurnOf(caller[r]) = t
      BY <2>1, <3>1, KeyNamesTurn DEF KeyOf, Turn
    <3> QED BY <2>2, <3>1, <3>2
  <2> QED BY <1>1, <2>3, <2>4
<1>5. ASSUME NEW r \in Caller, caller[r].created, Under(caller[r]) \/ caller[r].pc = "release",
             Owes(TurnOf(caller[r]))'
      PROVE  row'[TurnOf(caller[r])].day # caller[r].day
  <2>1. TurnOf(caller[r]) \in Turn
    BY KeysTyped
  <2>2. Owes(TurnOf(caller[r]))
    BY <1>1, <1>2, <1>5, <2>1
  <2> QED BY <1>2, <1>5, <2>1, <2>2 DEF HoldsRecorded
<1>6. \A o \in Turn : Owes(o)' => KeyOf(o)' \in record'
  BY <1>3
<1>7. \A r \in Caller : (LET p == caller[r]  o == TurnOf(p) IN
          /\ Under(p) /\ row[o].st = "none" => HoldKeyOf(p) \in record
          /\ p.created /\ (Under(p) \/ p.pc = "release") /\ Owes(o) => row[o].day # p.day)'
  BY <1>1, <1>4, <1>5 DEF Owes
<1> QED BY <1>6, <1>7 DEF HoldsRecorded

(* Without a loss every record has somebody who answers for it.            *)
LEMMA CallersAnswer ==
    ASSUME BudgetAssumption, BudgetTypeOK, Parties, SameKind, Loss = {},
           NEW r \in Caller, CallerStep(r), NEW h \in record', h \in record => Answered(h)
    PROVE  Answered(h)'
<1> DEFINE q == caller[r]  t == <<h[2], h[3]>>
<1>1. Path(r) /\ \A o \in Caller \ {r} : caller'[o] = caller[o]
  BY CallerPath, CallerMoves DEF MovesHold
<1>2. q \in CallerRec /\ TurnOf(q) \in Turn /\ row \in [Turn -> RowRec] /\ h \in HoldKey
      /\ HoldKeyOf(q) \in HoldKey
  <2>1. BudgetTypeOK'
    BY TypesOn DEF BudgetNext
  <2> QED BY <2>1, KeysTyped, TurnTypes DEF TurnsTyped, BudgetTypeOK
<1>3. UNCHANGED ender /\ (UNCHANGED row \/ Stores(r))
  BY CallerStores
<1>4. ASSUME Stores(r)
      PROVE  /\ row[TurnOf(q)].st = "none"
             /\ \A o \in Turn \ {TurnOf(q)} : row'[o] = row[o]
  BY <1>2, <1>4, StoredLeaves
<1>5. t \in Turn /\ h = <<h[1], t[1], t[2]>>
  BY <1>2 DEF HoldKey, Turn
<1>6. \A f : ~Breaks(f)
  BY DEF Breaks
<1>7. CASE h \in record /\ Owes(t) /\ row[t].day = h[1]
  <2>1. row'[t] = row[t]
    BY <1>3, <1>4, <1>5, <1>7 DEF Owes, Holding
  <2> QED BY <1>7, <2>1 DEF Answered, Owes
<1>8. CASE h \in record /\ ender[t].pc = "release" /\ row[t].day = h[1]
  <2>1. row[t].st = "ended"
    BY <1>5, <1>8 DEF Parties, EnderFits
  <2>2. row'[t] = row[t]
    BY <1>3, <1>4, <1>5, <2>1
  <2> QED BY <1>3, <1>8, <2>2 DEF Answered
<1>9. CASE \E o \in Caller \ {r} :
              /\ caller[o].created /\ caller[o].pc \in {"limit", "handler", "accept", "release"}
              /\ HoldKeyOf(caller[o]) = h
  BY <1>1, <1>9 DEF Answered
<1>10. CASE /\ h \in record /\ q.created /\ q.pc \in {"limit", "handler", "accept", "release"}
            /\ HoldKeyOf(q) = h
  <2>1. ASSUME NEW q2, Update(r, q2), q2.created, Identity(q2) = Identity(q),
               q2.pc \in {"limit", "handler", "accept", "release"}
        PROVE  Answered(h)'
    <3>1. caller'[r] = q2
      BY <2>1, Lands
    <3>2. HoldKeyOf(q2) = h
      BY <1>10, <2>1, IdentityNames
    <3> QED BY <2>1, <3>1, <3>2 DEF Answered
  <2>2. ASSUME NEW pc \in {"limit", "handler", "accept", "release"}, Goto(r, pc)
        PROVE  Answered(h)'
    <3> DEFINE q2 == [q EXCEPT !.pc = pc]
    <3>1. q2.pc = pc /\ q2.created /\ Identity(q2) = Identity(q)
      BY <1>2, <1>10 DEF CallerRec, Identity
    <3>2. Update(r, q2)
      BY <2>2 DEF Goto
    <3> HIDE DEF q2
    <3> QED BY <2>1, <3>1, <3>2
  <2>3. CASE TurnLimit(r) \/ AnswerWithoutTaking(r) \/ TakeCommand(r) \/ StopBeforeAccept(r)
             \/ SettleBySho(r)
    BY <2>2, <2>3 DEF TurnLimit, AnswerWithoutTaking, TakeCommand, StopBeforeAccept, SettleBySho
  <2>4. CASE NotStored(r)
    <3>1. PICK q2 : Update(r, q2) /\ \/ q2 = [q EXCEPT !.pc = "release"]
                                     \/ q2 = [q EXCEPT !.pc = "release", !.frees = TRUE]
      BY <2>4 DEF NotStored
    <3>2. q2.pc = "release" /\ q2.created /\ Identity(q2) = Identity(q)
      BY <1>2, <1>10, <3>1 DEF CallerRec, Identity
    <3> QED BY <2>1, <3>1, <3>2
  <2>5. CASE Accepted(r)
    <3>1. InFlight(r) /\ t = TurnOf(q) /\ h[1] = q.day
      <4>1. InFlight(r)
        BY <1>10 DEF InFlight
      <4> QED BY <1>2, <1>5, <1>10, <4>1, KeyNamesTurn DEF Turn
    <3>2. row'[t] = [st |-> "queued", day |-> q.day]
      BY <1>2, <2>5, <3>1 DEF Accepted, StoreTurn
    <3> QED BY <3>1, <3>2 DEF Answered, Owes, Holding
  <2>6. CASE Release(r)
    BY <1>6, <1>10, <2>6 DEF Release, MayRelease, Drops
  <2>7. CASE AcceptUnknown(r) \/ CrashRequest(r)
    BY <1>6, <2>7 DEF AcceptUnknown, CrashRequest
  <2> QED BY <1>10, <2>3, <2>4, <2>5, <2>6, <2>7
      DEF CallerStep, Begin, ReserveCompany, ReserveGlobal, Reserve, ClaimHold, Credit, FreeReceipt,
          CallerAt
<1>11. CASE h \notin record
  <2>1. q.pc = "claim" /\ record' = record \cup {HoldKeyOf(q)} /\ h = HoldKeyOf(q)
    BY <1>6, <1>11 DEF CallerStep, Begin, ReserveCompany, ReserveGlobal, Reserve, ClaimHold,
       TurnLimit, Release, Credit, FreeReceipt, AnswerWithoutTaking, TakeCommand, StopBeforeAccept,
       SettleBySho, Accepted, NotStored, AcceptUnknown, CrashRequest, CallerAt
  <2>2. Update(r, [q EXCEPT !.pc = "limit", !.took = {}, !.created = TRUE])
    BY <1>6, <1>11, <2>1 DEF CallerStep, Begin, ReserveCompany, ReserveGlobal, Reserve, ClaimHold,
       TurnLimit, Release, Credit, FreeReceipt, AnswerWithoutTaking, TakeCommand, StopBeforeAccept,
       SettleBySho, Accepted, NotStored, AcceptUnknown, CrashRequest, CallerAt
  <2> DEFINE q2 == [q EXCEPT !.pc = "limit", !.took = {}, !.created = TRUE]
  <2>3. q2.pc = "limit" /\ q2.created /\ Identity(q2) = Identity(q)
    BY <1>2 DEF CallerRec, Identity
  <2>4. Update(r, q2)
    BY <2>2
  <2> HIDE DEF q2
  <2>5. caller'[r] = q2 /\ HoldKeyOf(q2) = h
    BY <2>1, <2>3, <2>4, Lands, IdentityNames
  <2> QED BY <2>3, <2>5 DEF Answered
<1> QED BY <1>7, <1>8, <1>9, <1>10, <1>11 DEF Answered

LEMMA EndersAnswer ==
    ASSUME BudgetAssumption, BudgetTypeOK, Parties, Loss = {},
           NEW t \in Turn, HoldStep(t), NEW h \in record', h \in record => Answered(h)
    PROVE  Answered(h)'
<1> DEFINE o == <<h[2], h[3]>>
<1>1. /\ caller' = caller
      /\ \A x \in Turn \ {t} : row'[x] = row[x] /\ ender'[x] = ender[x]
      /\ row'[t].day = row[t].day
      /\ \/ /\ record' = record
            /\ Owes(t) => Owes(t)' \/ ender'[t].pc = "release"
            /\ ender[t].pc = "release" => ender'[t].pc = "release" \/ KeyOf(t) \notin record
         \/ record' = record \ {KeyOf(t)} /\ row[t].st = "ended"
  BY TurnPath
<1>2. h \in record /\ Answered(h)
  BY <1>1
<1>3. h \in HoldKey /\ o \in Turn
  BY <1>2 DEF BudgetTypeOK, HoldKey, Turn
<1>4. CASE \E r \in Caller :
              /\ caller[r].created /\ caller[r].pc \in {"limit", "handler", "accept", "release"}
              /\ HoldKeyOf(caller[r]) = h
  BY <1>1, <1>4 DEF Answered
<1>5. CASE (Owes(o) \/ ender[o].pc = "release") /\ row[o].day = h[1]
  <2>1. CASE o # t
    BY <1>1, <1>3, <1>5, <2>1 DEF Answered, Owes
  <2>2. CASE o = t
    <3>1. KeyOf(t) = h
      BY <1>3, <1>5, <2>2 DEF KeyOf, HoldKey
    <3>2. record' = record /\ (Owes(t)' \/ ender'[t].pc = "release") /\ row'[t].day = h[1]
      BY <1>1, <1>2, <1>5, <2>2, <3>1
    <3> QED BY <2>2, <3>2 DEF Answered, Owes
  <2> QED BY <2>1, <2>2
<1> QED BY <1>2, <1>4, <1>5 DEF Answered

----------------------------------------------------------------------------
(* The invariant.                                                          *)
LEMMA BudgetInvStarts == BudgetAssumption /\ BudgetInit => BudgetInv
<1> SUFFICES ASSUME BudgetAssumption, BudgetInit PROVE BudgetInv
  OBVIOUS
<1>1. NewRequest \in CallerRec /\ 1 \in Day /\ MaxLosses \in Nat
  BY NewIsCaller DEF BudgetAssumption, Day
<1>2. BudgetTypeOK
  BY <1>1 DEF BudgetInit, BudgetTypeOK, CallerRec, Counter
<1>3. Parties
  BY DEF BudgetInit, Parties, CallerFits, EnderFits, NewRequest, Enabled
<1>4. OneAtATime
  BY DEF BudgetInit, OneAtATime, InFlight, NewRequest
<1>5. ASSUME NEW k \in Enabled, NEW d \in Day PROVE Counted(k, d)
  <2>1. Recorded(d) = {} /\ Held(k, d) = {} /\ Returning(k, d) = {}
    BY DEF BudgetInit, Recorded, Held, Returning, NewRequest
  <2>2. Standing(k, d) = 0
    BY <2>1, FS_EmptySet DEF Standing
  <2>3. spent[k][d] = 0 /\ losses = 0
    BY EnabledIsCounter DEF BudgetInit
  <2> QED BY <2>2, <2>3 DEF Counted, Slack
<1>6. HoldsRecorded
  BY DEF BudgetInit, HoldsRecorded, Owes, Holding, Under, NewRequest
<1> QED BY <1>2, <1>3, <1>4, <1>5, <1>6, CountedParts DEF BudgetInv, BudgetInit

LEMMA BudgetInvStays ==
    ASSUME BudgetAssumption, BudgetInv, [BudgetNext]_budgetVars
    PROVE  BudgetInv'
<1>1. BudgetTypeOK /\ Parties /\ OneAtATime /\ \A k \in Enabled, d \in Day : Counted(k, d)
  BY CountedParts DEF BudgetInv
<1>2. CASE BudgetNext
  <2>1. BudgetTypeOK' /\ Parties' /\ OneAtATime'
    BY <1>1, <1>2, TypesOn, PartiesOn, OneAtATimeOn
  <2>2. \A k \in Enabled, d \in Day : Counted(k, d)'
    BY <1>1, <1>2, CountersOn
  <2>3. (CountersMatchRecords /\ FailuresOnlyOvercharge)'
    BY <2>2 DEF Counted, CountersMatchRecords, FailuresOnlyOvercharge, Slack, Enabled
  <2>4. CASE (\E x \in taken : ExpireReceipt(x)) \/ Midnight
    <3>1. UNCHANGED <<record, row, ender, caller>>
      BY <2>4 DEF ExpireReceipt, Midnight
    <3>2. HoldsRecorded => HoldsRecorded'
      BY <3>1 DEF HoldsRecorded, Owes, KeyOf
    <3>3. \A h : Answered(h) => Answered(h)'
      BY <3>1 DEF Answered, Owes
    <3> QED BY <2>1, <2>3, <3>1, <3>2, <3>3 DEF BudgetInv
  <2>5. CASE \E r \in Caller : CallerStep(r)
    <3>1. PICK r \in Caller : CallerStep(r)
      BY <2>5
    <3>2. ~Overlap /\ SameKind => HoldsRecorded'
      BY <1>1, <3>1, CallersKeepHolds DEF BudgetInv
    <3>3. Loss = {} /\ SameKind => \A h \in record' : Answered(h)'
      BY <1>1, <3>1, CallersAnswer DEF BudgetInv
    <3> QED BY <2>1, <2>3, <3>2, <3>3 DEF BudgetInv
  <2>6. CASE \E t \in Turn : HoldStep(t)
    <3>1. PICK t \in Turn : HoldStep(t)
      BY <2>6
    <3>2. ~Overlap /\ SameKind => HoldsRecorded'
      BY <1>1, <3>1, EndersKeepHolds DEF BudgetInv
    <3>3. Loss = {} /\ SameKind => \A h \in record' : Answered(h)'
      BY <1>1, <3>1, EndersAnswer DEF BudgetInv
    <3> QED BY <2>1, <2>3, <3>2, <3>3 DEF BudgetInv
  <2> QED BY <1>2, <2>4, <2>5, <2>6 DEF BudgetNext
<1>3. CASE UNCHANGED budgetVars
  <2>1. BudgetTypeOK'
    BY <1>1, <1>3 DEF BudgetTypeOK, budgetVars
  <2>2. Parties' /\ OneAtATime'
    BY <1>1, <1>3 DEF Parties, CallerFits, EnderFits, OneAtATime, InFlight, budgetVars
  <2>3. (CountersMatchRecords /\ FailuresOnlyOvercharge)'
    <3>1. \A k \in Enabled, d \in Day : Standing(k, d)' = Standing(k, d)
      BY <1>3 DEF Standing, Recorded, Held, Returning, budgetVars
    <3>2. \A k \in Enabled, d \in Day : Counted(k, d)'
      BY <1>1, <1>3, <3>1 DEF Counted, Slack, budgetVars
    <3> QED BY <3>2 DEF Counted, CountersMatchRecords, FailuresOnlyOvercharge, Slack, Enabled
  <2>4. HoldsRecorded => HoldsRecorded'
    BY <1>3 DEF HoldsRecorded, Owes, KeyOf, budgetVars
  <2>5. \A h : Answered(h) => Answered(h)'
    BY <1>3 DEF Answered, Owes, budgetVars
  <2>6. record' = record
    BY <1>3 DEF budgetVars
  <2> QED BY <2>1, <2>2, <2>3, <2>4, <2>5, <2>6 DEF BudgetInv
<1> QED BY <1>2, <1>3

(* A turn that owes its hold has a record of its own on the counters.      *)
LEMMA OwedIsCounted ==
    ASSUME BudgetAssumption, BudgetTypeOK, FailuresOnlyOvercharge, HoldsRecorded,
           "lostClaim" \notin Loss, NEW k \in Enabled, NEW d \in Day
    PROVE  spent[k][d] >= Cardinality(Owing(d))
<1> DEFINE f == [t \in Owing(d) |-> KeyOf(t)]
<1>1. f \in [Owing(d) -> Recorded(d)]
  BY DEF Owing, Recorded, HoldsRecorded, Owes, KeyOf
<1>2. ASSUME NEW a \in Owing(d), NEW b \in Owing(d), f[a] = f[b] PROVE a = b
  <2>1. f[a] = KeyOf(a) /\ f[b] = KeyOf(b)
    OBVIOUS
  <2>2. a[1] = b[1] /\ a[2] = b[2]
    BY <1>2, <2>1 DEF KeyOf
  <2>3. a \in Kind \X ClientCommand /\ b \in Kind \X ClientCommand
    BY DEF Owing, Turn
  <2> QED BY <2>2, <2>3
<1>3. f \in Injection(Owing(d), Recorded(d))
  BY <1>1, <1>2 DEF Injection, IsInjective
<1>4. IsFiniteSet(Recorded(d)) /\ {Cardinality(Recorded(d)), Cardinality(Held(k, d)),
                                    Cardinality(Returning(k, d))} \subseteq Nat
  BY FiniteCounts
<1>5. IsFiniteSet(Owing(d)) /\ Cardinality(Owing(d)) <= Cardinality(Recorded(d))
  BY <1>3, <1>4, FS_Injection
<1>6. Cardinality(Owing(d)) \in Nat
  BY <1>5, FS_CardinalityType
<1>7. spent[k][d] \in Nat /\ spent[k][d] + 0 >= Standing(k, d)
  BY EnabledIsCounter DEF BudgetTypeOK, FailuresOnlyOvercharge
<1> QED BY <1>4, <1>5, <1>6, <1>7 DEF Standing

(* The day's budget: without faults each counter is exactly the            *)
(* reservations that stand, and at rest every record has its turn; with    *)
(* them a counter errs upwards, by what lost replies of claimHold cost at  *)
(* most; and it covers every turn that runs or ran, where requests of a    *)
(* command come one after the other (reserveStaffAssistantBudget,          *)
(* claimHold, releaseUnusedReservation, subtractHold).                     *)
THEOREM BudgetIsSound == BudgetAssumption => (BudgetSpec => []BudgetSound)
<1> SUFFICES ASSUME BudgetAssumption PROVE BudgetSpec => []BudgetSound
  OBVIOUS
<1>1. BudgetInv => BudgetSound
  <2> SUFFICES ASSUME BudgetInv PROVE BudgetSound
    OBVIOUS
  <2>1. BudgetTypeOK /\ CountersMatchRecords /\ FailuresOnlyOvercharge
    BY DEF BudgetInv
  <2>2. NeverUndercharged
    BY <2>1, OwedIsCounted DEF BudgetInv, NeverUndercharged
  <2>3. RecordsHaveTheirTurn
    <3>1. SUFFICES ASSUME Loss = {}, SameKind, AtRest, NEW h \in record
                   PROVE  <<h[2], h[3]>> \in Owing(h[1])
      BY DEF RecordsHaveTheirTurn
    <3>2. Answered(h) /\ <<h[2], h[3]>> \in Turn
      BY <2>1, <3>1 DEF BudgetInv, BudgetTypeOK, HoldKey, Turn
    <3> QED BY <3>1, <3>2 DEF Answered, AtRest, InFlight, Owing, Owes
  <2> QED BY <2>1, <2>2, <2>3 DEF BudgetSound
<1> QED BY <1>1, BudgetInvStarts, BudgetInvStays, PTL DEF BudgetSpec

============================================================================
