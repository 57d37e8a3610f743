---------------------------- MODULE StorageProofs ----------------------------
(***************************************************************************)
(* What handlers write beside their answer, proved for any sets of actors. *)
(*   - The flush of buffered events, for any transactions, aggregates and  *)
(*     emissions: FlushSound holds in every reachable state, and the       *)
(*     outbox implements AggregateLog.                                     *)
(*   - Uploads of catalog images, for any finalizers, files, renditions    *)
(*     and legacy files.  UInv holds whether handlers outlive their        *)
(*     transactions or not; QInv when they do not.                         *)
(***************************************************************************)
EXTENDS EmitFlush, CatalogUpload, FiniteSetTheorems, TLAPS

----------------------------------------------------------------------------
(* The flush.                                                              *)

(* The inductive invariant.                                                *)

(* Which buffers are sealed, and used, at which stage.                     *)
SealedByStage ==
    \A t \in Tx :
        /\ stage[t] = "idle" => used[t] = FALSE /\ sealed[t] = {}
        /\ stage[t] \in {"handler", "callee", "calleeFlush"} => "root" \notin sealed[t]
        /\ stage[t] \in {"rootFlush", "tail", "committed"} => "root" \in sealed[t]
        /\ stage[t] = "callee" => used[t] /\ "callee" \notin sealed[t]
        /\ stage[t] = "calleeFlush" => used[t]
        /\ stage[t] \in {"handler", "calleeFlush", "rootFlush", "tail", "committed"} /\ used[t]
              => "callee" \in sealed[t]
        /\ ~used[t] => "callee" \notin sealed[t] /\ buffered[t]["callee"] = <<>>

(* Outside its transaction an invocation has neither rows nor locks.       *)
Rested ==
    \A t \in Tx : stage[t] \notin Open =>
        rows[t] = {} /\ \A a \in Aggregates : locked[t][a] = 0

(* One transaction at a time holds the sequence row of an aggregate.       *)
LocksExclusive ==
    \A t, u \in Tx, a \in Aggregates :
        locked[t][a] # 0 /\ locked[u][a] # 0 => t = u

(* A transaction's rows of an aggregate carry the numbers that follow the  *)
(* committed ones, up to what it wrote into the sequence row, each once.   *)
OwnNumbers ==
    \A t \in Tx, a \in Aggregates :
        /\ last[a] <= current(t, a)
        /\ \A r \in rows[t] : r.agg = a => last[a] < r.n /\ r.n <= current(t, a)
        /\ \A n \in Nat : last[a] < n /\ n <= current(t, a) =>
              \E r \in rows[t] : r.agg = a /\ r.n = n
        /\ \A r, s \in rows[t] : r.agg = a /\ s.agg = a /\ r.n = s.n => r = s

(* A row is numbered for an emission of a sealed buffer.                   *)
OwnRows ==
    \A t \in Tx : \A r \in rows[t] :
        /\ r.ev[1] = t /\ r.ev[2] \in sealed[t]
        /\ r.ev[3] \in DOMAIN buffered[t][r.ev[2]]
        /\ r.agg = buffered[t][r.ev[2]][r.ev[3]]

(* The emissions of a sealed buffer that wait for their number.            *)
Pending(t, b) == IF stage[t] \in Flushing /\ b = buffer(t) THEN todo[t] ELSE {}

(* What waits was emitted; aggregates are numbered as a whole.             *)
WaitWhole ==
    \A t \in Tx : stage[t] \in Flushing =>
        /\ todo[t] \subseteq DOMAIN buffered[t][buffer(t)]
        /\ \A i \in todo[t], j \in DOMAIN buffered[t][buffer(t)] :
              buffered[t][buffer(t)][j] = buffered[t][buffer(t)][i] => j \in todo[t]

(* Every other emission of a sealed buffer has its row, and no row is of   *)
(* an emission that waits.                                                 *)
FlushedAt(t, b) ==
    \A i \in DOMAIN buffered[t][b] :
        (\E r \in rows[t] : r.ev = <<t, b, i>>) <=> i \notin Pending(t, b)
Flushed ==
    \A t \in Tx, b \in Buffers : stage[t] \in Open /\ b \in sealed[t] =>
        FlushedAt(t, b)

(* Rows of one buffer and aggregate are numbered in emission order.        *)
NumberedInOrder ==
    \A t \in Tx : \A r, s \in rows[t] :
        r.agg = s.agg /\ r.ev[2] = s.ev[2] => (r.n < s.n) = (r.ev[3] < s.ev[3])

(* AllOrNothing, event by event.                                           *)
Published ==
    /\ \A s \in outbox :
          /\ stage[s.ev[1]] = "committed"
          /\ s.ev[3] \in DOMAIN buffered[s.ev[1]][s.ev[2]]
          /\ s.agg = buffered[s.ev[1]][s.ev[2]][s.ev[3]]
    /\ \A t \in Tx, b \in Buffers : stage[t] = "committed" =>
          \A i \in DOMAIN buffered[t][b] : \E s \in outbox : s.ev = <<t, b, i>>

(* Gapless, number by number.                                              *)
Numbered ==
    \A a \in Aggregates :
        /\ \A s \in outbox : s.agg = a => 1 <= s.n /\ s.n <= last[a]
        /\ \A n \in Nat : 1 <= n /\ n <= last[a] =>
              \E s \in outbox : s.agg = a /\ s.n = n
        /\ \A r, s \in outbox : r.agg = a /\ s.agg = a /\ r.n = s.n => r = s

FInv ==
    /\ TypeOK /\ SealedByStage /\ Rested /\ LocksExclusive /\ OwnNumbers
    /\ OwnRows /\ WaitWhole /\ Flushed /\ NumberedInOrder /\ Published
    /\ Numbered /\ EmitOrder

-----------------------------------------------------------------------------
(* The places of a finite group are the numbers from 1 to its size, in the *)
(* order of the emissions.                                                 *)
LEMMA PlaceNumbers ==
  ASSUME NEW m \in Nat, NEW g \in SUBSET (1 .. m)
  PROVE  /\ Cardinality(g) \in Nat
         /\ g # {} => Cardinality(g) > 0
         /\ \A i \in g : place(g, i) \in 1 .. Cardinality(g)
         /\ \A i, j \in g : (place(g, i) < place(g, j)) <=> (i < j)
         /\ \A n \in 1 .. Cardinality(g) : \E i \in g : place(g, i) = n
<1> DEFINE upto(i) == {j \in g : j <= i}
<1>0. \A i \in g : i \in Nat
  OBVIOUS
<1>1. IsFiniteSet(g) /\ Cardinality(g) \in Nat
  <2>1. IsFiniteSet(1 .. m)
    BY FS_Interval
  <2>2. IsFiniteSet(g)
    BY <2>1, FS_Subset
  <2> QED BY <2>2, FS_CardinalityType
<1>2. g # {} => Cardinality(g) > 0
  BY <1>1, FS_EmptySet
<1>3. ASSUME NEW i \in g
      PROVE  /\ IsFiniteSet(upto(i)) /\ place(g, i) \in 1 .. Cardinality(g)
             /\ place(g, i) \in Nat
  <2>1. upto(i) \in SUBSET g /\ i \in upto(i)
    OBVIOUS
  <2>2. IsFiniteSet(upto(i)) /\ Cardinality(upto(i)) <= Cardinality(g)
    BY <1>1, <2>1, FS_Subset
  <2>3. Cardinality(upto(i)) \in Nat /\ Cardinality(upto(i)) # 0
    BY <2>1, <2>2, FS_EmptySet, FS_CardinalityType
  <2> QED BY <1>1, <2>2, <2>3 DEF place
<1>4. ASSUME NEW i \in g, NEW j \in g, i < j
      PROVE  place(g, i) < place(g, j)
  <2>1. upto(i) \in SUBSET upto(j) /\ j \in upto(j) /\ j \notin upto(i)
    <3>1. i \in Nat /\ j \in Nat /\ \A k \in g : k \in Nat
      BY <1>0
    <3>2. \A k \in g : k <= i => k <= j
      BY <1>4, <3>1
    <3>3. ~(j <= i) /\ j <= j
      BY <1>4, <3>1
    <3> QED BY <3>2, <3>3
  <2>2. /\ Cardinality(upto(i)) <= Cardinality(upto(j))
        /\ Cardinality(upto(i)) # Cardinality(upto(j))
    BY <1>3, <2>1, FS_Subset
  <2>3. Cardinality(upto(i)) \in Nat /\ Cardinality(upto(j)) \in Nat
    BY <1>3, FS_CardinalityType
  <2> QED BY <2>2, <2>3 DEF place
<1>7. \A i \in g : place(g, i) \in Nat
  BY <1>3
<1>5. \A i, j \in g : (place(g, i) < place(g, j)) <=> (i < j)
  <2> TAKE i, j \in g
  <2>1. place(g, i) \in Nat /\ place(g, j) \in Nat
    BY <1>7
  <2>0. i \in Nat /\ j \in Nat
    BY <1>0
  <2>2. CASE i < j
    BY <1>4, <2>2
  <2>3. CASE j < i
    BY <1>4, <2>1, <2>3
  <2>4. CASE i = j
    BY <2>1, <2>4
  <2> QED BY <2>1, <2>2, <2>3, <2>4
<1>6. \A n \in 1 .. Cardinality(g) : \E i \in g : place(g, i) = n
  <2> DEFINE f == [i \in g |-> place(g, i)]
             N == 1 .. Cardinality(g)
  <2>1. f \in [g -> N]
    BY <1>3
  <2>2. \A i, j \in g : f[i] = f[j] => i = j
    <3> SUFFICES ASSUME NEW i \in g, NEW j \in g, f[i] = f[j] PROVE i = j
      OBVIOUS
    <3>1. place(g, i) \in Nat /\ place(g, j) \in Nat
      BY <1>7
    <3>0. i \in Nat /\ j \in Nat
      BY <1>0
    <3> QED BY <1>5, <3>1
  <2>3. f \in Injection(g, N)
    BY <2>1, <2>2 DEF Injection, IsInjective
  <2>4. IsFiniteSet(N) /\ Cardinality(N) = Cardinality(g)
    BY <1>1, FS_Interval
  <2>5. f \in Surjection(g, N)
    BY <2>3, <2>4, FS_Injection
  <2> QED BY <2>5 DEF Surjection
<1> QED BY <1>1, <1>2, <1>3, <1>5, <1>6

(* The emissions of a buffer are numbered from 1.                          *)
LEMMA BufferDomain ==
  ASSUME TypeOK, NEW t \in Tx, NEW b \in Buffers
  PROVE  /\ Len(buffered[t][b]) \in Nat
         /\ DOMAIN buffered[t][b] = 1 .. Len(buffered[t][b])
         /\ \A i \in DOMAIN buffered[t][b] : buffered[t][b][i] \in Aggregates
BY DEF TypeOK

(* buffer(t) is one of the two buffers.                                    *)
LEMMA BufferKnown == \A t : buffer(t) \in Buffers
BY DEF buffer, Buffers

(* A step of a handler, before and between the flushes: buffers, seals and *)
(* stages of one transaction, no row, number or lock.                      *)
LEMMA HandlersKeepTypes ==
  ASSUME EmitAssumption, TypeOK, NEW t \in Tx,
         \/ begin(t) \/ callAtomic(t) \/ calleeReturns(t) \/ rootReturns(t)
         \/ calleeFails(t)
         \/ \E b \in Buffers, a \in Aggregates : emit(t, b, a)
  PROVE  TypeOK'
<1> USE DEF EmitAssumption
<1>1. CASE begin(t) \/ callAtomic(t)
  BY <1>1 DEF begin, callAtomic, TypeOK, Stages
<1>2. ASSUME NEW b \in Buffers, seal(t, b), UNCHANGED buffered
      PROVE  /\ sealed' \in [Tx -> SUBSET Buffers]
             /\ todo' \in [Tx -> SUBSET (1 .. MaxEmits)]
  <2>1. 1 .. Len(buffered[t][b]) \in SUBSET (1 .. MaxEmits)
    BY DEF TypeOK
  <2> QED BY <1>2, <2>1 DEF seal, TypeOK
<1>3. CASE calleeReturns(t)
  BY <1>2, <1>3 DEF calleeReturns, TypeOK, Stages, Buffers
<1>4. CASE rootReturns(t)
  BY <1>2, <1>4 DEF rootReturns, TypeOK, Stages, Buffers
<1>5. ASSUME NEW b \in Buffers, NEW a \in Aggregates, emit(t, b, a)
      PROVE  TypeOK'
  <2>1. Append(buffered[t][b], a) \in Seq(Aggregates)
        /\ Len(Append(buffered[t][b], a)) = Len(buffered[t][b]) + 1
    BY DEF TypeOK
  <2>2. \A u \in Tx, c \in Buffers : buffered'[u][c] =
           IF u = t /\ c = b THEN Append(buffered[t][b], a) ELSE buffered[u][c]
    BY <1>5 DEF emit, TypeOK
  <2>3. buffered' \in [Tx -> [Buffers -> Seq(Aggregates)]]
    BY <1>5, <2>1 DEF emit, TypeOK
  <2>4. \A u \in Tx, c \in Buffers : Len(buffered'[u][c]) <= MaxEmits
    <3> SUFFICES ASSUME NEW u \in Tx, NEW c \in Buffers
                 PROVE  Len(buffered'[u][c]) <= MaxEmits
      OBVIOUS
    <3>1. CASE u = t /\ c = b
      <4>1. Len(buffered[t][b]) < MaxEmits /\ Len(buffered[t][b]) \in Nat
        BY <1>5 DEF emit, TypeOK
      <4>2. Len(buffered'[u][c]) = Len(buffered[t][b]) + 1
        BY <2>1, <2>2, <3>1
      <4> QED BY <4>1, <4>2
    <3>2. CASE ~(u = t /\ c = b)
      BY <2>2, <3>2 DEF TypeOK
    <3> QED BY <3>1, <3>2
  <2> QED BY <1>5, <2>3, <2>4 DEF emit, TypeOK
<1>6. CASE calleeFails(t)
  <2>1. \A u \in Tx, c \in Buffers :
          buffered'[u][c] = IF u = t /\ c = "callee" THEN <<>> ELSE buffered[u][c]
    BY <1>6 DEF calleeFails, TypeOK, Buffers
  <2>2. <<>> \in Seq(Aggregates) /\ Len(<<>>) = 0
    OBVIOUS
  <2>3. buffered' \in [Tx -> [Buffers -> Seq(Aggregates)]]
    BY <1>6, <2>2 DEF calleeFails, TypeOK
  <2>4. \A u \in Tx, c \in Buffers : Len(buffered'[u][c]) <= MaxEmits
    BY <2>1, <2>2 DEF TypeOK
  <2> QED BY <1>6, <2>3, <2>4 DEF calleeFails, TypeOK, Stages, Buffers
<1> QED BY <1>1, <1>3, <1>4, <1>5, <1>6

(* The group that is numbered next: all emissions of its buffer for the    *)
(* aggregate, none of which has a number.                                  *)
LEMMA GroupWhole ==
  ASSUME TypeOK, WaitWhole, NEW t \in Tx, NEW a \in Aggregates,
         stage[t] \in Flushing,
         \E i \in group(t) : a = buffered[t][buffer(t)][i]
  PROVE  LET b == buffer(t) IN
         /\ group(t) = {i \in DOMAIN buffered[t][b] : buffered[t][b][i] = a}
         /\ group(t) \subseteq todo[t] /\ group(t) # {}
         /\ group(t) \in SUBSET (1 .. Len(buffered[t][b]))
         /\ Len(buffered[t][b]) \in Nat
<1> DEFINE b == buffer(t)  g == group(t)  B == buffered[t][b]
<1>1. /\ Len(B) \in Nat /\ DOMAIN B = 1 .. Len(B)
      /\ todo[t] \subseteq DOMAIN B
      /\ \A i \in todo[t], j \in DOMAIN B : B[j] = B[i] => j \in todo[t]
  BY BufferDomain, BufferKnown DEF WaitWhole
<1>2. PICK k \in g : a = B[k]
  OBVIOUS
<1>3. PICK f \in todo[t] : (\A j \in todo[t] : f <= j) /\ B[k] = B[f] /\ k \in todo[t]
  BY <1>2 DEF group
<1> HIDE DEF b, B
<1>4. \A i \in todo[t] : B[i] = a => i \in g
  BY <1>2, <1>3 DEF group, b, B
<1>5. \A i \in g : i \in todo[t] /\ B[i] = a
  <2> SUFFICES ASSUME NEW i \in g PROVE i \in todo[t] /\ B[i] = a
    OBVIOUS
  <2>1. PICK h \in todo[t] : (\A j \in todo[t] : h <= j) /\ B[i] = B[h] /\ i \in todo[t]
    BY DEF group, b, B
  <2>2. h <= f /\ f <= h /\ h \in Nat /\ f \in Nat
    BY <1>1, <1>3, <2>1
  <2>3. h = f
    BY <2>2
  <2> QED BY <1>2, <1>3, <2>1, <2>3
<1> HIDE DEF g
<1>6. \A i \in DOMAIN B : B[i] = a => i \in g
  BY <1>1, <1>2, <1>3, <1>4
<1>7. g = {i \in DOMAIN B : B[i] = a}
  BY <1>1, <1>5, <1>6
<1>8. g \subseteq todo[t] /\ g # {}
  BY <1>2, <1>5
<1>9. g \in SUBSET (1 .. Len(B))
  BY <1>1, <1>8
<1> QED BY <1>1, <1>7, <1>8, <1>9 DEF b, B, g

(* What advanceAggregateSequence writes: the numbers after those the       *)
(* transaction found, in emission order.                                   *)
LEMMA AdvanceWrites ==
  ASSUME TypeOK, WaitWhole, NEW t \in Tx, NEW a \in Aggregates, advance(t, a)
  PROVE  LET b == buffer(t)  g == group(t)  base == current(t, a)
             new == {[agg |-> a, n |-> base + place(g, i), ev |-> <<t, b, i>>] : i \in g}
         IN
         /\ b \in Buffers /\ base \in Nat /\ stage[t] \in Flushing
         /\ g = {i \in DOMAIN buffered[t][b] : buffered[t][b][i] = a}
         /\ g \subseteq todo[t] /\ todo[t] \subseteq DOMAIN buffered[t][b]
         /\ todo' = [todo EXCEPT ![t] = todo[t] \ g]
         /\ rows' = [rows EXCEPT ![t] = rows[t] \cup new]
         /\ locked' = [locked EXCEPT ![t] =
                         [locked[t] EXCEPT ![a] = base + Cardinality(g)]]
         /\ Cardinality(g) \in Nat /\ Cardinality(g) > 0
         /\ \A i \in g : place(g, i) \in 1 .. Cardinality(g)
         /\ \A i, j \in g : (place(g, i) < place(g, j)) <=> (i < j)
         /\ \A n \in 1 .. Cardinality(g) : \E i \in g : place(g, i) = n
         /\ \A u \in Tx : u # t => locked[u][a] = 0
         /\ UNCHANGED <<stage, buffered, sealed, used, last, outbox>>
<1> DEFINE b == buffer(t)  g == group(t)
<1>1. /\ stage[t] \in Flushing /\ \E i \in g : a = buffered[t][b][i]
      /\ holders(t, a) = {} /\ current(t, a) \in Nat
  BY DEF advance, current, TypeOK
<1>2. /\ g = {i \in DOMAIN buffered[t][b] : buffered[t][b][i] = a}
      /\ g \subseteq todo[t] /\ g # {}
      /\ g \in SUBSET (1 .. Len(buffered[t][b])) /\ Len(buffered[t][b]) \in Nat
  BY <1>1, GroupWhole
<1>3. todo[t] \subseteq DOMAIN buffered[t][b]
  BY <1>1 DEF WaitWhole
<1>4. /\ Cardinality(g) \in Nat /\ Cardinality(g) > 0
      /\ \A i \in g : place(g, i) \in 1 .. Cardinality(g)
      /\ \A i, j \in g : (place(g, i) < place(g, j)) <=> (i < j)
      /\ \A n \in 1 .. Cardinality(g) : \E i \in g : place(g, i) = n
  BY <1>2, PlaceNumbers
<1>5. \A u \in Tx : u # t => locked[u][a] = 0
  BY <1>1 DEF holders
<1>6. /\ todo' = [todo EXCEPT ![t] = todo[t] \ g]
      /\ rows' = [rows EXCEPT ![t] = rows[t] \cup
            {[agg |-> a, n |-> current(t, a) + place(g, i), ev |-> <<t, b, i>>] : i \in g}]
      /\ locked' = [locked EXCEPT ![t] =
                      [locked[t] EXCEPT ![a] = current(t, a) + Cardinality(g)]]
      /\ UNCHANGED <<stage, buffered, sealed, used, last, outbox>>
  BY DEF advance
<1> QED BY <1>1, <1>2, <1>3, <1>4, <1>5, <1>6, BufferKnown

(* The statements of the flush, and the end of the transaction, keep the   *)
(* types.                                                                  *)
LEMMA FlushKeepsTypes ==
  ASSUME EmitAssumption, TypeOK, WaitWhole, NEW t \in Tx,
         \/ insertRows(t) \/ commit(t) \/ fail(t) \/ deadlockVictim(t)
         \/ \E a \in Aggregates : advance(t, a)
  PROVE  TypeOK'
<1>1. CASE insertRows(t)
  BY <1>1 DEF insertRows, afterFlush, TypeOK, Stages
<1>2. CASE commit(t)
  <2>1. last' \in [Aggregates -> Nat]
    BY <1>2 DEF commit, current, TypeOK
  <2>2. outbox' \in SUBSET Row /\ rows' \in [Tx -> SUBSET Row]
    BY <1>2 DEF commit, TypeOK
  <2>3. locked' \in [Tx -> [Aggregates -> Nat]] /\ stage' \in [Tx -> Stages]
    BY <1>2 DEF commit, TypeOK, Stages
  <2> QED BY <1>2, <2>1, <2>2, <2>3 DEF commit, TypeOK
<1>3. CASE fail(t) \/ deadlockVictim(t)
  <2>1. rollback(t)
    BY <1>3 DEF fail, deadlockVictim
  <2>2. locked' \in [Tx -> [Aggregates -> Nat]] /\ stage' \in [Tx -> Stages]
        /\ rows' \in [Tx -> SUBSET Row]
    BY <2>1 DEF rollback, TypeOK, Stages
  <2> QED BY <2>1, <2>2 DEF rollback, TypeOK
<1>4. ASSUME NEW a \in Aggregates, advance(t, a)
      PROVE  TypeOK'
  <2> DEFINE b == buffer(t)  g == group(t)  base == current(t, a)
             new == {[agg |-> a, n |-> base + place(g, i), ev |-> <<t, b, i>>] : i \in g}
  <2>1. /\ b \in Buffers /\ base \in Nat
        /\ g \subseteq todo[t]
        /\ todo' = [todo EXCEPT ![t] = todo[t] \ g]
        /\ rows' = [rows EXCEPT ![t] = rows[t] \cup new]
        /\ locked' = [locked EXCEPT ![t] =
                        [locked[t] EXCEPT ![a] = base + Cardinality(g)]]
        /\ Cardinality(g) \in Nat
        /\ \A i \in g : place(g, i) \in 1 .. Cardinality(g)
        /\ UNCHANGED <<stage, buffered, sealed, used, last, outbox>>
    BY <1>4, AdvanceWrites
  <2>2. \A i \in g : base + place(g, i) \in Nat /\ i \in 1 .. MaxEmits
    <3>1. todo[t] \subseteq 1 .. MaxEmits
      BY DEF TypeOK
    <3> HIDE DEF g, base
    <3> QED BY <2>1, <3>1
  <2>3. new \subseteq Row
    <3> HIDE DEF g, base, b
    <3> QED BY <2>1, <2>2 DEF Row, Event
  <2>4. base + Cardinality(g) \in Nat
    <3> HIDE DEF g, base
    <3> QED BY <2>1
  <2> HIDE DEF g, base, b, new
  <2>5. rows' \in [Tx -> SUBSET Row] /\ todo' \in [Tx -> SUBSET (1 .. MaxEmits)]
    BY <2>1, <2>3 DEF TypeOK
  <2>6. locked' \in [Tx -> [Aggregates -> Nat]]
    BY <2>1, <2>4 DEF TypeOK
  <2> QED BY <2>1, <2>5, <2>6 DEF TypeOK
<1> QED BY <1>1, <1>2, <1>3, <1>4

-----------------------------------------------------------------------------
(* The parts that depend on numbers, locks and committed rows only.        *)
LEMMA NumbersKept ==
  ASSUME FInv, UNCHANGED <<rows, locked, last, outbox>>
  PROVE  LocksExclusive' /\ OwnNumbers' /\ NumberedInOrder' /\ Numbered' /\ EmitOrder'
BY DEF FInv, LocksExclusive, OwnNumbers, NumberedInOrder, Numbered, EmitOrder, current

(* An outbox row names a transaction and a buffer.                         *)
LEMMA OutboxTyped ==
  ASSUME TypeOK, NEW s \in outbox
  PROVE  /\ s.ev[1] \in Tx /\ s.ev[2] \in Buffers /\ s.ev[3] \in Nat
         /\ s.agg \in Aggregates /\ s.n \in Nat /\ s.ev \in Event
         /\ s.ev = <<s.ev[1], s.ev[2], s.ev[3]>>
BY DEF TypeOK, Row, Event

(* So does a row that is not committed yet.                                *)
LEMMA RowTyped ==
  ASSUME TypeOK, NEW t \in Tx, NEW s \in rows[t]
  PROVE  /\ s.ev[1] \in Tx /\ s.ev[2] \in Buffers /\ s.ev[3] \in Nat
         /\ s.agg \in Aggregates /\ s.n \in Nat /\ s.ev \in Event
         /\ s.ev = <<s.ev[1], s.ev[2], s.ev[3]>>
BY DEF TypeOK, Row, Event

(* While buffers of committed transactions are left alone, so is what they *)
(* published.                                                              *)
LEMMA PublishedKept ==
  ASSUME FInv, NEW t \in Tx, stage[t] # "committed", stage'[t] # "committed",
         \A u \in Tx : u # t => stage'[u] = stage[u] /\ buffered'[u] = buffered[u],
         UNCHANGED outbox
  PROVE  Published'
<1>1. \A s \in outbox : s.ev[1] \in Tx /\ s.ev[1] # t
  BY OutboxTyped DEF FInv, Published
<1> QED BY <1>1 DEF FInv, Published

(* A buffer keeps its rows while nothing is numbered or added to it.       *)
LEMMA FlushedKept ==
  ASSUME NEW t \in Tx, NEW b \in Buffers, FlushedAt(t, b),
         rows'[t] = rows[t], buffered'[t][b] = buffered[t][b],
         Pending(t, b)' = Pending(t, b)
  PROVE  FlushedAt(t, b)'
BY DEF FlushedAt

(* The handlers' steps keep FInv.                                          *)
LEMMA HandlersKeepFInv ==
  ASSUME FInv, TypeOK', NEW t \in Tx,
         \/ begin(t) \/ callAtomic(t) \/ calleeReturns(t) \/ rootReturns(t)
         \/ calleeFails(t)
         \/ \E b \in Buffers, a \in Aggregates : emit(t, b, a)
  PROVE  FInv'
<1>0. UNCHANGED <<rows, locked, last, outbox>>
  BY DEF begin, callAtomic, calleeReturns, rootReturns, calleeFails, emit
<1>1. LocksExclusive' /\ OwnNumbers' /\ NumberedInOrder' /\ Numbered' /\ EmitOrder'
  BY <1>0, NumbersKept
<1> USE DEF FInv
<1>2. CASE begin(t)
  <2>1. /\ stage[t] = "idle" /\ stage' = [stage EXCEPT ![t] = "handler"]
        /\ UNCHANGED <<buffered, sealed, used, todo>>
    BY <1>2 DEF begin
  <2>2. stage'[t] = "handler" /\ \A u \in Tx : u # t => stage'[u] = stage[u]
    BY <2>1 DEF TypeOK
  <2>3. SealedByStage'
    BY <2>1, <2>2 DEF SealedByStage
  <2>4. Rested'
    BY <1>0, <2>2 DEF Rested, Open, Stages
  <2>5. OwnRows'
    BY <1>0, <2>1 DEF OwnRows
  <2>6. WaitWhole'
    BY <2>1, <2>2 DEF WaitWhole, buffer, Flushing
  <2>7. Flushed'
    <3> SUFFICES ASSUME NEW u \in Tx, NEW c \in Buffers, stage'[u] \in Open,
                        c \in sealed[u]
                 PROVE  FlushedAt(u, c)'
      BY <2>1 DEF Flushed
    <3>1. u # t
      BY <2>1 DEF SealedByStage
    <3>2. Pending(u, c)' = Pending(u, c) /\ FlushedAt(u, c)
      BY <2>1, <2>2, <3>1 DEF Pending, buffer, Flushed
    <3> QED BY <1>0, <2>1, <3>2, FlushedKept
  <2>8. Published'
    BY <1>0, <2>1, <2>2, PublishedKept
  <2> QED BY <1>1, <2>3, <2>4, <2>5, <2>6, <2>7, <2>8
<1>3. CASE callAtomic(t)
  <2>1. /\ stage[t] = "handler" /\ ~used[t]
        /\ stage' = [stage EXCEPT ![t] = "callee"]
        /\ used' = [used EXCEPT ![t] = TRUE]
        /\ UNCHANGED <<buffered, sealed, todo>>
    BY <1>3 DEF callAtomic
  <2>2. /\ stage'[t] = "callee" /\ used'[t]
        /\ \A u \in Tx : u # t => stage'[u] = stage[u] /\ used'[u] = used[u]
    BY <2>1 DEF TypeOK
  <2>3. SealedByStage'
    BY <2>1, <2>2 DEF SealedByStage
  <2>4. Rested'
    BY <1>0, <2>2 DEF Rested, Open, Stages
  <2>5. OwnRows'
    BY <1>0, <2>1 DEF OwnRows
  <2>6. WaitWhole'
    BY <2>1, <2>2 DEF WaitWhole, buffer, Flushing
  <2>7. Flushed'
    <3> SUFFICES ASSUME NEW u \in Tx, NEW c \in Buffers, stage'[u] \in Open,
                        c \in sealed[u]
                 PROVE  FlushedAt(u, c)'
      BY <2>1 DEF Flushed
    <3>1. Pending(u, c)' = Pending(u, c)
      BY <2>1, <2>2 DEF Pending, buffer, Flushing
    <3>2. FlushedAt(u, c)
      BY <2>1, <2>2 DEF Flushed, Open, Stages
    <3> QED BY <1>0, <2>1, <3>1, <3>2, FlushedKept
  <2>8. Published'
    BY <1>0, <2>1, <2>2, PublishedKept
  <2> QED BY <1>1, <2>3, <2>4, <2>5, <2>6, <2>7, <2>8
<1>4. ASSUME NEW b \in Buffers, seal(t, b), UNCHANGED <<buffered, used>>,
             \/ b = "callee" /\ stage[t] = "callee" /\ stage' = [stage EXCEPT ![t] = "calleeFlush"]
             \/ b = "root" /\ stage[t] = "handler" /\ stage' = [stage EXCEPT ![t] = "rootFlush"]
      PROVE  FInv'
  <2>1. /\ stage'[t] \in Flushing /\ buffer(t)' = b /\ stage[t] \notin Flushing
        /\ stage'[t] \in Open /\ stage[t] \in Open
        /\ \A u \in Tx : u # t => stage'[u] = stage[u]
    BY <1>4 DEF TypeOK, Flushing, Open, Stages, buffer
  <2>2. /\ todo'[t] = 1 .. Len(buffered[t][b]) /\ sealed'[t] = sealed[t] \cup {b}
        /\ \A u \in Tx : u # t => todo'[u] = todo[u] /\ sealed'[u] = sealed[u]
    BY <1>4 DEF seal, TypeOK
  <2>3. b \notin sealed[t]
    BY <1>4 DEF SealedByStage
  <2>4. SealedByStage'
    <3> SUFFICES ASSUME NEW u \in Tx
                 PROVE  SealedByStage!(u)'
      BY DEF SealedByStage
    <3>1. CASE u # t
      BY <1>4, <2>1, <2>2, <3>1 DEF SealedByStage
    <3>2. CASE u = t /\ b = "callee"
      BY <1>4, <2>2, <3>2 DEF SealedByStage, TypeOK
    <3>3. CASE u = t /\ b = "root"
      BY <1>4, <2>2, <3>3 DEF SealedByStage, TypeOK
    <3> QED BY <1>4, <3>1, <3>2, <3>3
  <2>5. Rested'
    BY <1>0, <2>1 DEF Rested
  <2>6. OwnRows'
    BY <1>0, <1>4, <2>2 DEF OwnRows
  <2>7. WaitWhole'
    <3>1. todo'[t] = DOMAIN buffered[t][b]
      BY <2>2, BufferDomain
    <3> QED BY <1>4, <2>1, <2>2, <3>1 DEF WaitWhole, buffer
  <2>8. Flushed'
    <3> SUFFICES ASSUME NEW u \in Tx, NEW c \in Buffers, stage'[u] \in Open,
                        c \in sealed'[u]
                 PROVE  FlushedAt(u, c)'
      BY DEF Flushed
    <3>1. CASE u # t
      <4>1. Pending(u, c)' = Pending(u, c) /\ FlushedAt(u, c)
        BY <2>1, <2>2, <3>1 DEF Pending, buffer, Flushed
      <4> QED BY <1>0, <1>4, <4>1, FlushedKept
    <3>2. CASE u = t /\ c = b
      <4>1. Pending(u, c)' = DOMAIN buffered[t][b]
        BY <2>1, <2>2, <3>2, BufferDomain DEF Pending
      <4>2. \A r \in rows[u] : \A i : r.ev # <<u, c, i>>
        BY <2>3, <3>2 DEF OwnRows
      <4> QED BY <1>0, <1>4, <3>2, <4>1, <4>2 DEF FlushedAt
    <3>3. CASE u = t /\ c # b
      <4>1. Pending(u, c)' = {} /\ Pending(u, c) = {}
        BY <2>1, <3>3 DEF Pending
      <4>2. FlushedAt(u, c)
        BY <2>1, <2>2, <3>3 DEF Flushed
      <4> QED BY <1>0, <1>4, <4>1, <4>2, FlushedKept
    <3> QED BY <3>1, <3>2, <3>3
  <2>9. Published'
    <3>1. stage[t] # "committed" /\ stage'[t] # "committed"
      BY <2>1 DEF Open
    <3> QED BY <1>0, <1>4, <2>1, <3>1, PublishedKept
  <2> QED BY <1>1, <2>4, <2>5, <2>6, <2>7, <2>8, <2>9
<1>5. CASE calleeReturns(t)
  BY <1>4, <1>5 DEF calleeReturns, Buffers
<1>6. CASE rootReturns(t)
  BY <1>4, <1>6 DEF rootReturns, Buffers
<1>7. ASSUME NEW b \in Buffers, NEW a \in Aggregates, emit(t, b, a)
      PROVE  FInv'
  <2>1. /\ stage[t] \in Open /\ b \notin sealed[t] /\ (b = "callee" => used[t])
        /\ UNCHANGED <<stage, sealed, used, todo>>
    BY <1>7 DEF emit, accepts
  <2>2. \A u \in Tx, c \in Buffers : ~(u = t /\ c = b) => buffered'[u][c] = buffered[u][c]
    BY <1>7 DEF emit, TypeOK
  <2>3. SealedByStage'
    <3>1. \A u \in Tx : ~used[u] => buffered'[u]["callee"] = buffered[u]["callee"]
      BY <2>1, <2>2 DEF Buffers
    <3> QED BY <2>1, <3>1 DEF SealedByStage
  <2>4. Rested'
    BY <1>0, <2>1 DEF Rested
  <2>5. OwnRows'
    <3> SUFFICES ASSUME NEW u \in Tx, NEW r \in rows[u]
                 PROVE  /\ r.ev[1] = u /\ r.ev[2] \in sealed[u]
                        /\ r.ev[3] \in DOMAIN buffered'[u][r.ev[2]]
                        /\ r.agg = buffered'[u][r.ev[2]][r.ev[3]]
      BY <1>0, <2>1 DEF OwnRows
    <3>1. r.ev[2] \in sealed[u] /\ r.ev[2] \in Buffers
      BY RowTyped DEF OwnRows
    <3>2. buffered'[u][r.ev[2]] = buffered[u][r.ev[2]]
      BY <2>1, <2>2, <3>1
    <3> QED BY <3>2 DEF OwnRows
  <2>6. WaitWhole'
    <3> SUFFICES ASSUME NEW u \in Tx, stage[u] \in Flushing
                 PROVE  buffered'[u][buffer(u)] = buffered[u][buffer(u)]
      BY <2>1 DEF WaitWhole, buffer
    <3>1. buffer(u) \in sealed[u]
      BY DEF SealedByStage, buffer, Flushing
    <3> QED BY <2>1, <2>2, <3>1, BufferKnown
  <2>7. Flushed'
    <3>1. \A u \in Tx, c \in Buffers : c \in sealed[u] => buffered'[u][c] = buffered[u][c]
      BY <2>1, <2>2
    <3>2. \A u \in Tx, c \in Buffers : Pending(u, c)' = Pending(u, c)
      BY <2>1 DEF Pending, buffer
    <3> QED BY <1>0, <2>1, <3>1, <3>2, FlushedKept DEF Flushed
  <2>8. Published'
    <3>1. stage[t] # "committed" /\ stage'[t] # "committed"
      BY <2>1 DEF Open
    <3>2. \A u \in Tx : u # t => stage'[u] = stage[u] /\ buffered'[u] = buffered[u]
      BY <1>7, <2>1 DEF emit, TypeOK
    <3> QED BY <1>0, <3>1, <3>2, PublishedKept
  <2> QED BY <1>1, <2>3, <2>4, <2>5, <2>6, <2>7, <2>8
<1>8. CASE calleeFails(t)
  <2>1. /\ stage[t] = "callee" /\ stage' = [stage EXCEPT ![t] = "handler"]
        /\ sealed' = [sealed EXCEPT ![t] = @ \cup {"callee"}]
        /\ UNCHANGED <<used, todo>>
    BY <1>8 DEF calleeFails
  <2>2. stage'[t] = "handler" /\ \A u \in Tx : u # t => stage'[u] = stage[u]
    BY <2>1 DEF TypeOK
  <2>3. \A u \in Tx, c \in Buffers :
          buffered'[u][c] = IF u = t /\ c = "callee" THEN <<>> ELSE buffered[u][c]
    BY <1>8 DEF calleeFails, TypeOK, Buffers
  <2>4. \A u \in Tx : sealed'[u] = IF u = t THEN sealed[u] \cup {"callee"} ELSE sealed[u]
    BY <2>1 DEF TypeOK
  <2>5. SealedByStage'
    <3>1. \A u \in Tx : ~used[u] => u # t
      BY <2>1 DEF SealedByStage
    <3>2. \A u \in Tx : buffered[u]["callee"] = <<>> => buffered'[u]["callee"] = <<>>
      BY <2>3 DEF Buffers
    <3> QED BY <2>1, <2>2, <2>4, <3>1, <3>2 DEF SealedByStage
  <2>6. Rested'
    BY <1>0, <2>2 DEF Rested, Open, Stages
  <2>7. OwnRows'
    <3> SUFFICES ASSUME NEW u \in Tx, NEW r \in rows[u]
                 PROVE  /\ r.ev[1] = u /\ r.ev[2] \in sealed'[u]
                        /\ r.ev[3] \in DOMAIN buffered'[u][r.ev[2]]
                        /\ r.agg = buffered'[u][r.ev[2]][r.ev[3]]
      BY <1>0 DEF OwnRows
    <3>1. r.ev[2] \in sealed[u] /\ r.ev[2] \in Buffers
      BY RowTyped DEF OwnRows
    <3>2. ~(u = t /\ r.ev[2] = "callee")
      BY <2>1, <3>1 DEF SealedByStage
    <3>3. buffered'[u][r.ev[2]] = buffered[u][r.ev[2]] /\ r.ev[2] \in sealed'[u]
      BY <2>3, <2>4, <3>1, <3>2
    <3> QED BY <3>3 DEF OwnRows
  <2>8. WaitWhole'
    <3> SUFFICES ASSUME NEW u \in Tx, stage'[u] \in Flushing
                 PROVE  /\ u # t /\ stage[u] \in Flushing
                        /\ buffer(u)' = buffer(u) /\ buffered'[u] = buffered[u]
      BY <2>1 DEF WaitWhole
    <3>1. u # t
      BY <2>2 DEF Flushing
    <3> QED BY <1>8, <2>2, <3>1 DEF calleeFails, TypeOK, buffer
  <2>9. Flushed'
    <3> SUFFICES ASSUME NEW u \in Tx, NEW c \in Buffers, stage'[u] \in Open,
                        c \in sealed'[u]
                 PROVE  FlushedAt(u, c)'
      BY DEF Flushed
    <3>1. CASE u = t /\ c = "callee"
      <4>1. DOMAIN (buffered'[u][c]) = {}
        BY <2>3, <3>1
      <4> QED BY <4>1 DEF FlushedAt
    <3>2. CASE ~(u = t /\ c = "callee")
      <4>1. buffered'[u][c] = buffered[u][c] /\ c \in sealed[u]
        BY <2>3, <2>4, <3>2
      <4>2. stage[u] \in Open
        BY <2>1, <2>2 DEF Open, Stages
      <4>3. Pending(u, c)' = Pending(u, c)
        BY <2>1, <2>2 DEF Pending, buffer, Flushing
      <4> QED BY <1>0, <4>1, <4>2, <4>3, FlushedKept DEF Flushed
    <3> QED BY <3>1, <3>2
  <2>10. Published'
    <3>1. \A u \in Tx : u # t => stage'[u] = stage[u] /\ buffered'[u] = buffered[u]
      BY <1>8, <2>2 DEF calleeFails, TypeOK
    <3> QED BY <1>0, <2>1, <2>2, <3>1, PublishedKept
  <2> QED BY <1>1, <2>5, <2>6, <2>7, <2>8, <2>9, <2>10
<1> QED BY <1>2, <1>3, <1>5, <1>6, <1>7, <1>8

(* The multi-row insert ends a flush in which nothing waits.               *)
LEMMA InsertKeepsFInv ==
  ASSUME FInv, TypeOK', NEW t \in Tx, insertRows(t)
  PROVE  FInv'
<1> USE DEF FInv
<1>1. /\ stage[t] \in Flushing /\ todo[t] = {}
      /\ stage' = [stage EXCEPT ![t] = afterFlush(t)]
      /\ UNCHANGED <<buffered, sealed, used, todo, rows, locked, last, outbox>>
  BY DEF insertRows
<1>2. /\ \/ stage[t] = "calleeFlush" /\ stage'[t] = "handler"
         \/ stage[t] = "rootFlush" /\ stage'[t] = "tail"
      /\ \A u \in Tx : u # t => stage'[u] = stage[u]
  BY <1>1 DEF TypeOK, afterFlush, Flushing
<1>3. LocksExclusive' /\ OwnNumbers' /\ NumberedInOrder' /\ Numbered' /\ EmitOrder'
  BY <1>1, NumbersKept
<1>4. SealedByStage'
  BY <1>1, <1>2 DEF SealedByStage
<1>5. Rested'
  BY <1>1, <1>2 DEF Rested, Open, Stages
<1>6. OwnRows'
  BY <1>1 DEF OwnRows
<1>7. WaitWhole'
  BY <1>1, <1>2 DEF WaitWhole, buffer, Flushing
<1>8. Flushed'
  <2> SUFFICES ASSUME NEW u \in Tx, NEW c \in Buffers, stage'[u] \in Open,
                      c \in sealed[u]
               PROVE  FlushedAt(u, c)'
    BY <1>1 DEF Flushed
  <2>1. Pending(u, c)' = Pending(u, c)
    <3>1. CASE u = t
      BY <1>1, <1>2, <3>1 DEF Pending, Flushing
    <3>2. CASE u # t
      BY <1>1, <1>2, <3>2 DEF Pending, buffer
    <3> QED BY <3>1, <3>2
  <2>2. FlushedAt(u, c)
    BY <1>2 DEF Flushed, Open, Stages
  <2> QED BY <1>1, <2>1, <2>2, FlushedKept
<1>9. Published'
  BY <1>1, <1>2, PublishedKept
<1> QED BY <1>3, <1>4, <1>5, <1>6, <1>7, <1>8, <1>9

(* A rollback takes the rows, the increments and the locks with it.        *)
LEMMA RollbackKeepsFInv ==
  ASSUME FInv, TypeOK', NEW t \in Tx, stage[t] \in Open, rollback(t)
  PROVE  FInv'
<1> USE DEF FInv
<1>1. /\ stage'[t] = "aborted" /\ rows'[t] = {}
      /\ \A a \in Aggregates : locked'[t][a] = 0
      /\ \A u \in Tx : u # t =>
            stage'[u] = stage[u] /\ rows'[u] = rows[u] /\ locked'[u] = locked[u]
      /\ UNCHANGED <<buffered, sealed, used, todo, last, outbox>>
  BY DEF rollback, TypeOK
<1>2. SealedByStage'
  BY <1>1 DEF SealedByStage
<1>3. Rested'
  BY <1>1 DEF Rested
<1>4. LocksExclusive'
  BY <1>1 DEF LocksExclusive
<1>5. OwnNumbers'
  <2> SUFFICES ASSUME NEW u \in Tx, NEW a \in Aggregates
               PROVE  OwnNumbers!(u, a)'
    BY DEF OwnNumbers
  <2>1. CASE u # t
    <3>1. current(u, a)' = current(u, a)
      BY <1>1, <2>1 DEF current
    <3> QED BY <1>1, <2>1, <3>1 DEF OwnNumbers
  <2>2. CASE u = t
    <3>1. current(t, a)' = last[a] /\ last[a] \in Nat
      BY <1>1 DEF current, TypeOK
    <3> QED BY <1>1, <2>2, <3>1
  <2> QED BY <2>1, <2>2
<1>6. OwnRows' /\ NumberedInOrder'
  BY <1>1 DEF OwnRows, NumberedInOrder
<1>7. WaitWhole'
  BY <1>1 DEF WaitWhole, buffer, Flushing
<1>8. Flushed'
  <2> SUFFICES ASSUME NEW u \in Tx, NEW c \in Buffers, stage'[u] \in Open,
                      c \in sealed[u]
               PROVE  FlushedAt(u, c)'
    BY <1>1 DEF Flushed
  <2>1. u # t
    BY <1>1 DEF Open
  <2>2. Pending(u, c)' = Pending(u, c) /\ FlushedAt(u, c)
    BY <1>1, <2>1 DEF Pending, buffer, Flushed
  <2> QED BY <1>1, <2>1, <2>2, FlushedKept
<1>9. Published'
  BY <1>1, PublishedKept DEF Open
<1>10. Numbered' /\ EmitOrder'
  BY <1>1 DEF Numbered, EmitOrder
<1> QED BY <1>2, <1>3, <1>4, <1>5, <1>6, <1>7, <1>8, <1>9, <1>10

(* advanceAggregateSequence numbers one aggregate's group as a whole.      *)
LEMMA AdvanceKeepsFInv ==
  ASSUME FInv, TypeOK', NEW t \in Tx, NEW a \in Aggregates, advance(t, a)
  PROVE  FInv'
<1> USE DEF FInv
<1> DEFINE b == buffer(t)  g == group(t)  base == current(t, a)
           rowOf(i) == [agg |-> a, n |-> base + place(g, i), ev |-> <<t, b, i>>]
<1>1. /\ b \in Buffers /\ base \in Nat /\ stage[t] \in Flushing
      /\ g = {i \in DOMAIN buffered[t][b] : buffered[t][b][i] = a}
      /\ g \subseteq todo[t] /\ todo[t] \subseteq DOMAIN buffered[t][b]
      /\ todo' = [todo EXCEPT ![t] = todo[t] \ g]
      /\ rows' = [rows EXCEPT ![t] = rows[t] \cup {rowOf(i) : i \in g}]
      /\ locked' = [locked EXCEPT ![t] =
                      [locked[t] EXCEPT ![a] = base + Cardinality(g)]]
      /\ Cardinality(g) \in Nat /\ Cardinality(g) > 0
      /\ \A i \in g : place(g, i) \in 1 .. Cardinality(g)
      /\ \A i, j \in g : (place(g, i) < place(g, j)) <=> (i < j)
      /\ \A n \in 1 .. Cardinality(g) : \E i \in g : place(g, i) = n
      /\ \A u \in Tx : u # t => locked[u][a] = 0
      /\ UNCHANGED <<stage, buffered, sealed, used, last, outbox>>
  BY AdvanceWrites
<1> DEFINE top == base + Cardinality(g)
<1> HIDE DEF g, base, b
<1>0. /\ UNCHANGED <<stage, buffered, sealed, used, last, outbox>>
      /\ base \in Nat /\ Cardinality(g) \in Nat
      /\ \A i \in g : place(g, i) \in Nat /\ 0 < place(g, i) /\ place(g, i) <= Cardinality(g)
  BY <1>1
<1>2. \A i \in g : /\ rowOf(i).agg = a /\ rowOf(i).n = base + place(g, i)
                   /\ rowOf(i).ev = <<t, b, i>>
                   /\ rowOf(i).ev[1] = t /\ rowOf(i).ev[2] = b /\ rowOf(i).ev[3] = i
  OBVIOUS
<1> HIDE DEF rowOf
<1>3. /\ rows'[t] = rows[t] \cup {rowOf(i) : i \in g} /\ todo'[t] = todo[t] \ g
      /\ \A u \in Tx : u # t => /\ rows'[u] = rows[u] /\ todo'[u] = todo[u]
                                /\ locked'[u] = locked[u]
  BY <1>1 DEF TypeOK
<1>4. locked'[t][a] = top /\ \A c \in Aggregates : c # a => locked'[t][c] = locked[t][c]
  <2>1. locked[t] \in [Aggregates -> Nat]
    BY DEF TypeOK
  <2>2. locked'[t] = [locked[t] EXCEPT ![a] = top]
    BY <1>1 DEF TypeOK
  <2> QED BY <2>1, <2>2
<1>5. top \in Nat /\ top # 0 /\ base < top
  BY <1>1
<1> HIDE DEF top
<1>6. current(t, a)' = top
  BY <1>4, <1>5 DEF current
<1>7. \A u \in Tx, c \in Aggregates : ~(u = t /\ c = a) => current(u, c)' = current(u, c)
  <2> SUFFICES ASSUME NEW u \in Tx, NEW c \in Aggregates, ~(u = t /\ c = a)
               PROVE  current(u, c)' = current(u, c)
    OBVIOUS
  <2>1. locked'[u][c] = locked[u][c]
    BY <1>3, <1>4
  <2> QED BY <1>1, <2>1 DEF current
<1>8. SealedByStage' /\ Rested'
  <2>1. stage[t] \in Open
    BY <1>1 DEF Flushing, Open, Stages
  <2> QED BY <1>1, <1>3, <2>1 DEF SealedByStage, Rested
<1>9. LocksExclusive'
  <2> SUFFICES ASSUME NEW u \in Tx, NEW v \in Tx, NEW c \in Aggregates,
                      locked'[u][c] # 0, locked'[v][c] # 0
               PROVE  u = v
    BY DEF LocksExclusive
  <2>1. CASE c # a
    <3>1. locked'[u][c] = locked[u][c] /\ locked'[v][c] = locked[v][c]
      BY <1>3, <1>4, <2>1
    <3> QED BY <3>1 DEF LocksExclusive
  <2>2. CASE c = a
    BY <1>1, <1>3, <2>2
  <2> QED BY <2>1, <2>2
<1>10. OwnNumbers'
  <2> SUFFICES ASSUME NEW u \in Tx, NEW c \in Aggregates
               PROVE  OwnNumbers!(u, c)'
    BY DEF OwnNumbers
  <2>1. CASE u # t
    <3>1. current(u, c)' = current(u, c) /\ rows'[u] = rows[u] /\ last' = last
      BY <1>1, <1>3, <1>7, <2>1
    <3> QED BY <3>1 DEF OwnNumbers
  <2>2. CASE u = t /\ c # a
    <3>1. current(u, c)' = current(u, c) /\ last' = last
      BY <1>1, <1>7, <2>2
    <3>2. \A r : r.agg = c => (r \in rows'[u] <=> r \in rows[u])
      BY <1>2, <1>3, <2>2
    <3> QED BY <3>1, <3>2 DEF OwnNumbers
  <2>3. CASE u = t /\ c = a
    <3>1. /\ last[a] \in Nat /\ last[a] <= base
          /\ \A r \in rows[t] : r.agg = a => last[a] < r.n /\ r.n <= base /\ r.n \in Nat
          /\ \A n \in Nat : last[a] < n /\ n <= base =>
                \E r \in rows[t] : r.agg = a /\ r.n = n
          /\ \A r, s \in rows[t] : r.agg = a /\ s.agg = a /\ r.n = s.n => r = s
      <4>1. last[a] \in Nat /\ \A r \in rows[t] : r.n \in Nat
        BY RowTyped DEF TypeOK
      <4>2. OwnNumbers!(t, a)
        BY DEF OwnNumbers
      <4> QED BY <4>1, <4>2 DEF base
    <3>2. \A i \in g : base < rowOf(i).n /\ rowOf(i).n <= top /\ rowOf(i).n \in Nat
      BY <1>0, <1>2 DEF top
    <3>3. \A n \in Nat : base < n /\ n <= top => \E i \in g : rowOf(i).n = n
      <4> SUFFICES ASSUME NEW n \in Nat, base < n, n <= top
                   PROVE  \E i \in g : rowOf(i).n = n
        OBVIOUS
      <4>1. n - base \in 1 .. Cardinality(g)
        BY <1>1 DEF top
      <4>2. PICK i \in g : place(g, i) = n - base
        BY <1>1, <4>1
      <4> QED BY <1>1, <1>2, <4>2
    <3>4. \A i, j \in g : rowOf(i).n = rowOf(j).n => i = j
      <4> SUFFICES ASSUME NEW i \in g, NEW j \in g, rowOf(i).n = rowOf(j).n
                   PROVE  i = j
        OBVIOUS
      <4>1. place(g, i) = place(g, j) /\ place(g, i) \in Nat
        BY <1>1, <1>2
      <4>2. i \in Nat /\ j \in Nat
        BY <1>1, BufferDomain
      <4> QED BY <1>1, <4>1, <4>2
    <3>5. last[a] <= top
      BY <1>5, <1>1, <3>1
    <3>6. \A r \in rows'[t] : r.agg = a => last[a] < r.n /\ r.n <= top
      BY <1>1, <1>3, <1>5, <3>1, <3>2
    <3>7. \A n \in Nat : last[a] < n /\ n <= top =>
             \E r \in rows'[t] : r.agg = a /\ r.n = n
      <4> SUFFICES ASSUME NEW n \in Nat, last[a] < n, n <= top
                   PROVE  \E r \in rows'[t] : r.agg = a /\ r.n = n
        OBVIOUS
      <4>1. CASE n <= base
        BY <1>3, <3>1, <4>1
      <4>2. CASE base < n
        BY <1>2, <1>3, <3>3, <4>2
      <4> QED BY <1>0, <4>1, <4>2
    <3>8. \A r, s \in rows'[t] : r.agg = a /\ s.agg = a /\ r.n = s.n => r = s
      BY <1>1, <1>3, <3>1, <3>2, <3>4
    <3> QED BY <1>1, <1>6, <2>3, <3>5, <3>6, <3>7, <3>8
  <2> QED BY <2>1, <2>2, <2>3
<1>11. OwnRows'
  <2>1. b \in sealed[t]
    BY <1>1 DEF SealedByStage, buffer, Flushing, b
  <2>2. \A i \in g : i \in DOMAIN buffered[t][b] /\ buffered[t][b][i] = a
    BY <1>1
  <2> SUFFICES ASSUME NEW u \in Tx, NEW r \in rows'[u]
               PROVE  /\ r.ev[1] = u /\ r.ev[2] \in sealed[u]
                      /\ r.ev[3] \in DOMAIN buffered[u][r.ev[2]]
                      /\ r.agg = buffered[u][r.ev[2]][r.ev[3]]
    BY <1>0 DEF OwnRows
  <2>3. CASE r \in rows[u]
    BY <2>3 DEF OwnRows
  <2>4. CASE r \notin rows[u]
    <3>1. u = t
      BY <1>3, <2>4
    <3>2. PICK i \in g : r = rowOf(i)
      BY <1>3, <2>4, <3>1
    <3> QED BY <1>2, <2>1, <2>2, <3>1, <3>2
  <2> QED BY <2>3, <2>4
<1>12. WaitWhole'
  <2> SUFFICES ASSUME NEW u \in Tx, stage[u] \in Flushing
               PROVE  WaitWhole!(u)!2'
    BY <1>1 DEF WaitWhole
  <2>1. CASE u # t
    BY <1>1, <1>3, <2>1 DEF WaitWhole, buffer
  <2>2. CASE u = t
    BY <1>1, <1>3, <2>2 DEF WaitWhole, buffer, b
  <2> QED BY <2>1, <2>2
<1>13. Flushed'
  <2> SUFFICES ASSUME NEW u \in Tx, NEW c \in Buffers, stage[u] \in Open,
                      c \in sealed[u]
               PROVE  FlushedAt(u, c)'
    BY <1>1 DEF Flushed
  <2>0. FlushedAt(u, c)
    BY DEF Flushed
  <2>1. CASE u # t
    <3>1. Pending(u, c)' = Pending(u, c)
      BY <1>1, <1>3, <2>1 DEF Pending, buffer
    <3> QED BY <1>1, <1>3, <2>0, <2>1, <3>1, FlushedKept
  <2>2. CASE u = t /\ c # b
    <3>1. Pending(u, c)' = {} /\ Pending(u, c) = {}
      BY <1>1, <2>2 DEF Pending, buffer, b
    <3>2. \A i : \A r \in rows'[t] : r.ev = <<u, c, i>> => r \in rows[t]
      BY <1>2, <1>3, <2>2
    <3> QED BY <1>1, <1>3, <2>0, <2>2, <3>1, <3>2 DEF FlushedAt
  <2>3. CASE u = t /\ c = b
    <3>1. Pending(u, c)' = todo[t] \ g /\ Pending(u, c) = todo[t]
      BY <1>1, <1>3, <2>3 DEF Pending, buffer, b
    <3>2. \A i \in g : rowOf(i) \in rows'[t] /\ rowOf(i).ev = <<u, c, i>>
      BY <1>2, <1>3, <2>3
    <3>3. \A i : i \notin g => \A r \in rows'[t] : r.ev = <<u, c, i>> => r \in rows[t]
      BY <1>2, <1>3, <2>3
    <3>4. g \subseteq todo[t] /\ rows[t] \subseteq rows'[t]
      BY <1>1, <1>3
    <3> SUFFICES ASSUME NEW i \in DOMAIN buffered[u][c]
                 PROVE  (\E r \in rows'[u] : r.ev = <<u, c, i>>) <=> i \notin todo[t] \ g
      BY <1>0, <3>1 DEF FlushedAt
    <3>5. (\E r \in rows[u] : r.ev = <<u, c, i>>) <=> i \notin todo[t]
      BY <2>0, <3>1 DEF FlushedAt
    <3>6. CASE i \in g
      BY <2>3, <3>2, <3>6
    <3>7. CASE i \notin g
      BY <2>3, <3>3, <3>4, <3>5, <3>7
    <3> QED BY <3>6, <3>7
  <2> QED BY <2>1, <2>2, <2>3
<1>14. NumberedInOrder'
  <2>1. \A r \in rows[t] : ~(r.agg = a /\ r.ev[2] = b)
    <3> SUFFICES ASSUME NEW r \in rows[t], r.agg = a, r.ev[2] = b
                 PROVE  FALSE
      OBVIOUS
    <3>1. /\ r.ev[1] = t /\ b \in sealed[t] /\ r.ev[3] \in DOMAIN buffered[t][b]
          /\ buffered[t][b][r.ev[3]] = a /\ r.ev = <<t, b, r.ev[3]>>
      BY RowTyped DEF OwnRows
    <3>2. r.ev[3] \in Pending(t, b)
      BY <1>1, <3>1 DEF Pending, b
    <3>3. FlushedAt(t, b)
      BY <1>1, <3>1 DEF Flushed, Flushing, Open, Stages
    <3> QED BY <3>1, <3>2, <3>3 DEF FlushedAt
  <2>2. \A i, j \in g : (rowOf(i).n < rowOf(j).n) = (i < j)
    <3> SUFFICES ASSUME NEW i \in g, NEW j \in g
                 PROVE  (rowOf(i).n < rowOf(j).n) = (i < j)
      OBVIOUS
    <3>1. place(g, i) \in Nat /\ place(g, j) \in Nat
      BY <1>1
    <3> QED BY <1>1, <1>2, <3>1
  <2> SUFFICES ASSUME NEW u \in Tx, NEW r \in rows'[u], NEW s \in rows'[u],
                      r.agg = s.agg, r.ev[2] = s.ev[2]
               PROVE  (r.n < s.n) = (r.ev[3] < s.ev[3])
    BY DEF NumberedInOrder
  <2>3. CASE r \in rows[u] /\ s \in rows[u]
    BY <2>3 DEF NumberedInOrder
  <2>4. CASE ~(r \in rows[u] /\ s \in rows[u])
    <3>1. u = t
      BY <1>3, <2>4
    <3>2. PICK i \in g, j \in g : r = rowOf(i) /\ s = rowOf(j)
      BY <1>2, <1>3, <2>1, <2>4, <3>1
    <3> QED BY <1>2, <2>2, <3>2
  <2> QED BY <2>3, <2>4
<1>15. Published' /\ Numbered' /\ EmitOrder'
  <2>1. UNCHANGED <<stage, buffered, last, outbox>>
    BY <1>0
  <2>2. Published'
    BY <2>1 DEF Published
  <2>3. Numbered' /\ EmitOrder'
    BY <2>1 DEF Numbered, EmitOrder
  <2> QED BY <2>2, <2>3
<1> QED BY <1>8, <1>9, <1>10, <1>11, <1>12, <1>13, <1>14, <1>15

(* What COMMIT makes visible: all the emissions of the transaction, under  *)
(* the numbers that follow the committed ones.                             *)
LEMMA CommitWrites ==
  ASSUME FInv, NEW t \in Tx, commit(t)
  PROVE  /\ stage[t] = "tail" /\ stage'[t] = "committed"
         /\ rows'[t] = {} /\ \A a \in Aggregates : locked'[t][a] = 0
         /\ \A u \in Tx : u # t =>
               stage'[u] = stage[u] /\ rows'[u] = rows[u] /\ locked'[u] = locked[u]
         /\ \A a \in Aggregates : last'[a] = current(t, a)
         /\ \A a \in Aggregates : last[a] \in Nat /\ last'[a] \in Nat /\ last[a] <= last'[a]
         /\ outbox' = outbox \cup rows[t]
         /\ UNCHANGED <<buffered, sealed, used, todo>>
<1>1. \A a \in Aggregates : last'[a] = current(t, a)
  BY DEF commit
<1>2. \A a \in Aggregates : last[a] \in Nat /\ current(t, a) \in Nat /\ last[a] <= current(t, a)
  BY DEF FInv, TypeOK, OwnNumbers, current
<1>3. /\ stage[t] = "tail" /\ stage'[t] = "committed"
      /\ rows'[t] = {} /\ outbox' = outbox \cup rows[t]
      /\ UNCHANGED <<buffered, sealed, used, todo>>
  BY DEF commit, FInv, TypeOK
<1>4. \A a \in Aggregates : locked'[t][a] = 0
  BY DEF commit, FInv, TypeOK
<1>5. \A u \in Tx : u # t =>
         stage'[u] = stage[u] /\ rows'[u] = rows[u] /\ locked'[u] = locked[u]
  BY DEF commit, FInv, TypeOK
<1> QED BY <1>1, <1>2, <1>3, <1>4, <1>5

(* COMMIT keeps FInv.                                                      *)
LEMMA CommitKeepsFInv ==
  ASSUME FInv, TypeOK', NEW t \in Tx, commit(t)
  PROVE  FInv'
<1> USE DEF FInv
<1>1. /\ stage[t] = "tail" /\ stage'[t] = "committed"
      /\ rows'[t] = {} /\ \A a \in Aggregates : locked'[t][a] = 0
      /\ \A u \in Tx : u # t =>
            stage'[u] = stage[u] /\ rows'[u] = rows[u] /\ locked'[u] = locked[u]
      /\ outbox' = outbox \cup rows[t]
      /\ UNCHANGED <<buffered, sealed, used, todo>>
  BY CommitWrites
<1>2. \A a \in Aggregates :
         /\ last'[a] = current(t, a)
         /\ last[a] \in Nat /\ last'[a] \in Nat /\ last[a] <= last'[a]
  BY CommitWrites
<1>3. stage[t] \in Open /\ stage[t] \notin Flushing /\ stage'[t] \notin Open
  BY <1>1 DEF Open, Stages, Flushing
<1>4. SealedByStage'
  BY <1>1 DEF SealedByStage
<1>5. Rested' /\ LocksExclusive' /\ OwnRows' /\ NumberedInOrder'
  <2>1. Rested'
    BY <1>1, <1>3 DEF Rested
  <2>2. LocksExclusive'
    BY <1>1 DEF LocksExclusive
  <2>3. OwnRows' /\ NumberedInOrder'
    BY <1>1 DEF OwnRows, NumberedInOrder
  <2> QED BY <2>1, <2>2, <2>3
<1>6. OwnNumbers'
  <2> SUFFICES ASSUME NEW u \in Tx, NEW a \in Aggregates
               PROVE  OwnNumbers!(u, a)'
    BY DEF OwnNumbers
  <2>1. CASE u = t
    <3>1. current(u, a)' = last'[a]
      BY <1>1, <2>1 DEF current
    <3> QED BY <1>1, <1>2, <2>1, <3>1
  <2>2. CASE u # t /\ locked[u][a] # 0
    <3>1. locked[t][a] = 0
      BY <2>2 DEF LocksExclusive
    <3>2. last'[a] = last[a] /\ current(u, a)' = current(u, a) /\ rows'[u] = rows[u]
      BY <1>1, <1>2, <2>2, <3>1 DEF current
    <3> QED BY <3>2 DEF OwnNumbers
  <2>3. CASE u # t /\ locked[u][a] = 0
    <3>1. current(u, a) = last[a] /\ current(u, a)' = last'[a] /\ rows'[u] = rows[u]
      BY <1>1, <2>3 DEF current
    <3>2. \A r \in rows[u] : r.agg # a
      <4>1. \A r \in rows[u] : r.agg = a => last[a] < r.n /\ r.n <= last[a] /\ r.n \in Nat
        BY <3>1, RowTyped DEF OwnNumbers
      <4> QED BY <1>2, <4>1
    <3> QED BY <1>2, <3>1, <3>2
  <2> QED BY <2>1, <2>2, <2>3
<1>7. WaitWhole'
  BY <1>1 DEF WaitWhole, buffer, Flushing
<1>8. Flushed'
  <2> SUFFICES ASSUME NEW u \in Tx, NEW c \in Buffers, stage'[u] \in Open,
                      c \in sealed[u]
               PROVE  FlushedAt(u, c)'
    BY <1>1 DEF Flushed
  <2>1. u # t
    BY <1>3
  <2>2. Pending(u, c)' = Pending(u, c) /\ FlushedAt(u, c)
    BY <1>1, <2>1 DEF Pending, buffer, Flushed
  <2> QED BY <1>1, <2>1, <2>2, FlushedKept
<1>9. Published'
  <2>1. \A s \in outbox' :
           /\ stage'[s.ev[1]] = "committed"
           /\ s.ev[3] \in DOMAIN buffered[s.ev[1]][s.ev[2]]
           /\ s.agg = buffered[s.ev[1]][s.ev[2]][s.ev[3]]
    <3> SUFFICES ASSUME NEW s \in outbox'
                 PROVE  /\ stage'[s.ev[1]] = "committed"
                        /\ s.ev[3] \in DOMAIN buffered[s.ev[1]][s.ev[2]]
                        /\ s.agg = buffered[s.ev[1]][s.ev[2]][s.ev[3]]
      OBVIOUS
    <3>1. CASE s \in rows[t]
      BY <1>1, <3>1 DEF OwnRows
    <3>2. CASE s \in outbox
      BY <1>1, <3>2, OutboxTyped DEF Published
    <3> QED BY <1>1, <3>1, <3>2
  <2>2. ASSUME NEW u \in Tx, NEW b \in Buffers, stage'[u] = "committed",
               NEW i \in DOMAIN buffered[u][b]
        PROVE  \E s \in outbox' : s.ev = <<u, b, i>>
    <3>1. CASE u # t
      BY <1>1, <2>2, <3>1 DEF Published
    <3>2. CASE u = t
      <4>1. b \in sealed[t]
        <5>1. CASE b = "root"
          BY <1>1, <5>1 DEF SealedByStage
        <5>2. CASE b = "callee" /\ used[t]
          BY <1>1, <5>2 DEF SealedByStage
        <5>3. CASE b = "callee" /\ ~used[t]
          <6>1. buffered[t][b] = <<>>
            BY <5>3 DEF SealedByStage
          <6> QED BY <3>2, <6>1
        <5> QED BY <5>1, <5>2, <5>3 DEF Buffers
      <4>2. FlushedAt(t, b) /\ Pending(t, b) = {}
        BY <1>3, <4>1 DEF Flushed, Pending
      <4>3. \E r \in rows[t] : r.ev = <<t, b, i>>
        BY <3>2, <4>2 DEF FlushedAt
      <4> QED BY <1>1, <3>2, <4>3
    <3> QED BY <3>1, <3>2
  <2> QED BY <1>1, <2>1, <2>2 DEF Published
<1>10. \A a \in Aggregates :
          /\ \A s \in outbox : s.agg = a => 1 <= s.n /\ s.n <= last[a] /\ s.n \in Nat
          /\ \A s \in rows[t] : s.agg = a => last[a] < s.n /\ s.n <= last'[a] /\ s.n \in Nat
  BY <1>2, OutboxTyped, RowTyped DEF Numbered, OwnNumbers
<1>11. Numbered'
  <2> SUFFICES ASSUME NEW a \in Aggregates
               PROVE  Numbered!(a)'
    BY DEF Numbered
  <2>1. \A s \in outbox' : s.agg = a => 1 <= s.n /\ s.n <= last'[a]
    BY <1>1, <1>2, <1>10
  <2>2. ASSUME NEW n \in Nat, 1 <= n, n <= last'[a]
        PROVE  \E s \in outbox' : s.agg = a /\ s.n = n
    <3>1. CASE n <= last[a]
      BY <1>1, <2>2, <3>1 DEF Numbered
    <3>2. CASE last[a] < n
      BY <1>1, <1>2, <2>2, <3>2 DEF OwnNumbers
    <3> QED BY <1>2, <3>1, <3>2
  <2>3. \A r, s \in outbox' : r.agg = a /\ s.agg = a /\ r.n = s.n => r = s
    <3> SUFFICES ASSUME NEW r \in outbox', NEW s \in outbox', r.agg = a, s.agg = a,
                        r.n = s.n
                 PROVE  r = s
      OBVIOUS
    <3>1. CASE r \in outbox /\ s \in outbox
      BY <3>1 DEF Numbered
    <3>2. CASE r \in rows[t] /\ s \in rows[t]
      BY <3>2 DEF OwnNumbers
    <3>3. CASE r \in outbox /\ s \in rows[t]
      BY <1>2, <1>10, <3>3
    <3>4. CASE r \in rows[t] /\ s \in outbox
      BY <1>2, <1>10, <3>4
    <3> QED BY <1>1, <3>1, <3>2, <3>3, <3>4
  <2> QED BY <2>1, <2>2, <2>3
<1>12. EmitOrder'
  <2> SUFFICES ASSUME NEW r \in outbox', NEW s \in outbox', r.agg = s.agg,
                      r.ev[1] = s.ev[1], r.ev[2] = s.ev[2]
               PROVE  /\ (r.n < s.n) = (r.ev[3] < s.ev[3])
                      /\ \A q \in outbox' :
                            q.agg = r.agg /\ r.n < q.n /\ q.n < s.n => q.ev[1] = r.ev[1]
    BY DEF EmitOrder
  <2>1. \A q \in rows[t] : q.ev[1] = t /\ q.agg \in Aggregates
    BY RowTyped DEF OwnRows
  <2>2. \A q \in outbox : q.ev[1] # t /\ q.agg \in Aggregates
    BY <1>1, OutboxTyped DEF Published
  <2>3. CASE r \in outbox
    <3>1. s \in outbox
      BY <1>1, <2>1, <2>2, <2>3
    <3>2. (r.n < s.n) = (r.ev[3] < s.ev[3])
      BY <2>3, <3>1 DEF EmitOrder
    <3>3. \A q \in outbox' : q.agg = r.agg /\ r.n < q.n /\ q.n < s.n => q.ev[1] = r.ev[1]
      <4> SUFFICES ASSUME NEW q \in outbox', q.agg = r.agg, r.n < q.n, q.n < s.n
                   PROVE  q.ev[1] = r.ev[1]
        OBVIOUS
      <4>1. CASE q \in outbox
        BY <2>3, <3>1, <4>1 DEF EmitOrder
      <4>2. CASE q \in rows[t]
        BY <1>2, <1>10, <2>1, <3>1, <4>2
      <4> QED BY <1>1, <4>1, <4>2
    <3> QED BY <3>2, <3>3
  <2>4. CASE r \in rows[t]
    <3>1. s \in rows[t]
      BY <1>1, <2>1, <2>2, <2>4
    <3>2. (r.n < s.n) = (r.ev[3] < s.ev[3])
      BY <2>4, <3>1 DEF NumberedInOrder
    <3>3. \A q \in outbox' : q.agg = r.agg /\ r.n < q.n /\ q.n < s.n => q.ev[1] = r.ev[1]
      <4> SUFFICES ASSUME NEW q \in outbox', q.agg = r.agg, r.n < q.n, q.n < s.n
                   PROVE  q.ev[1] = r.ev[1]
        OBVIOUS
      <4>1. CASE q \in outbox
        BY <1>2, <1>10, <2>1, <2>4, <4>1
      <4>2. CASE q \in rows[t]
        BY <2>1, <2>4, <4>2
      <4> QED BY <1>1, <4>1, <4>2
    <3> QED BY <3>2, <3>3
  <2> QED BY <1>1, <2>3, <2>4
<1> QED BY <1>4, <1>5, <1>6, <1>7, <1>8, <1>9, <1>11, <1>12

-----------------------------------------------------------------------------
(* FInv is inductive.                                                      *)

LEMMA InitFInv == EmitAssumption /\ Init => FInv
<1> SUFFICES ASSUME EmitAssumption, Init PROVE FInv
  OBVIOUS
<1>1. TypeOK
  BY DEF Init, TypeOK, Stages, EmitAssumption
<1>2. \A t \in Tx : \A b \in Buffers : buffered[t][b] = <<>>
  BY DEF Init
<1>3. SealedByStage
  BY <1>2 DEF Init, SealedByStage, Buffers
<1>4. Rested /\ LocksExclusive /\ OwnRows /\ WaitWhole /\ NumberedInOrder
  BY DEF Init, Rested, LocksExclusive, OwnRows, WaitWhole, NumberedInOrder, Flushing
<1>5. OwnNumbers
  BY DEF Init, OwnNumbers, current
<1>6. Flushed /\ Published
  BY DEF Init, Flushed, Published, Open
<1>7. Numbered /\ EmitOrder
  BY DEF Init, Numbered, EmitOrder
<1> QED BY <1>1, <1>3, <1>4, <1>5, <1>6, <1>7 DEF FInv

(* A victim of the deadlock detector waits in a flush.                     *)
LEMMA VictimIsOpen ==
  ASSUME NEW t \in Tx, deadlocked(t)
  PROVE  stage[t] \in Open
BY DEF deadlocked, waitsFor, Flushing, Open, Stages

LEMMA NextKeepsFInv ==
  ASSUME EmitAssumption, FInv, [Next]_vars
  PROVE  FInv'
<1>1. CASE UNCHANGED vars
  <2>1. LocksExclusive' /\ OwnNumbers' /\ NumberedInOrder' /\ Numbered' /\ EmitOrder'
    BY <1>1, NumbersKept DEF vars
  <2>2. TypeOK' /\ Rested' /\ OwnRows'
    BY <1>1 DEF vars, FInv, TypeOK, Rested, OwnRows
  <2>4. SealedByStage'
    BY <1>1 DEF vars, FInv, SealedByStage
  <2>5. Published'
    BY <1>1 DEF vars, FInv, Published
  <2>3. WaitWhole' /\ Flushed'
    BY <1>1 DEF vars, FInv, WaitWhole, Flushed, FlushedAt, Pending, buffer
  <2> QED BY <2>1, <2>2, <2>3, <2>4, <2>5 DEF FInv
<1>2. ASSUME NEW t \in Tx,
             \/ begin(t) \/ callAtomic(t) \/ calleeReturns(t) \/ rootReturns(t)
             \/ calleeFails(t)
             \/ \E b \in Buffers, a \in Aggregates : emit(t, b, a)
      PROVE  FInv'
  <2>1. TypeOK'
    BY <1>2, HandlersKeepTypes DEF FInv
  <2> QED BY <1>2, <2>1, HandlersKeepFInv
<1>3. ASSUME NEW t \in Tx,
             \/ insertRows(t) \/ commit(t) \/ fail(t) \/ deadlockVictim(t)
             \/ \E a \in Aggregates : advance(t, a)
      PROVE  FInv'
  <2>1. TypeOK'
    BY <1>3, FlushKeepsTypes DEF FInv
  <2>2. CASE insertRows(t)
    BY <2>1, <2>2, InsertKeepsFInv
  <2>3. CASE commit(t)
    BY <2>1, <2>3, CommitKeepsFInv
  <2>4. CASE fail(t)
    BY <2>1, <2>4, RollbackKeepsFInv DEF fail
  <2>5. CASE deadlockVictim(t)
    BY <2>1, <2>5, RollbackKeepsFInv, VictimIsOpen DEF deadlockVictim
  <2>6. ASSUME NEW a \in Aggregates, advance(t, a) PROVE FInv'
    BY <2>1, <2>6, AdvanceKeepsFInv
  <2> QED BY <1>3, <2>2, <2>3, <2>4, <2>5, <2>6
<1>4. CASE Next
  BY <1>2, <1>3, <1>4 DEF Next
<1> QED BY <1>1, <1>4

LEMMA FInvAlways == EmitAssumption => (Spec => []FInv)
<1> SUFFICES ASSUME EmitAssumption PROVE Spec => []FInv
  OBVIOUS
<1>1. Init => FInv
  BY InitFInv
<1>2. FInv /\ [Next]_vars => FInv'
  BY NextKeepsFInv
<1> QED BY <1>1, <1>2, PTL DEF Spec

(* The element-wise parts of FInv are the properties of EmitFlush.         *)
LEMMA FInvIsSound == ASSUME FInv PROVE FlushSound
<1> USE DEF FInv
<1>1. Gapless
  <2> SUFFICES ASSUME NEW a \in Aggregates
               PROVE  Gapless!(a)
    BY DEF Gapless
  <2>1. last[a] \in Nat
    BY DEF TypeOK
  <2>2. \A s \in outbox : s.agg = a => s.n \in 1 .. last[a]
    BY <2>1, OutboxTyped DEF Numbered
  <2>3. \A n \in 1 .. last[a] : \E s \in outbox : s.agg = a /\ s.n = n
    BY <2>1 DEF Numbered
  <2>4. {r.n : r \in {s \in outbox : s.agg = a}} = 1 .. last[a]
    BY <2>2, <2>3
  <2>5. \A r, s \in outbox : r.agg = a /\ s.agg = a /\ r.n = s.n => r = s
    BY DEF Numbered
  <2> QED BY <2>4, <2>5
<1>2. AllOrNothing
  <2> SUFFICES ASSUME NEW t \in Tx, NEW b \in Buffers
               PROVE  AllOrNothing!(t, b)
    BY DEF AllOrNothing
  <2> DEFINE mine == {s \in outbox : s.ev[1] = t /\ s.ev[2] = b}
             B == buffered[t][b]
  <2>1. CASE stage[t] # "committed"
    <3>1. mine = {}
      BY <2>1 DEF Published
    <3> QED BY <2>1, <3>1
  <2>2. CASE stage[t] = "committed"
    <3>1. ASSUME NEW s \in mine
          PROVE  s.ev[3] \in DOMAIN B /\ s.agg = B[s.ev[3]]
      BY DEF Published
    <3>2. ASSUME NEW i \in DOMAIN B
          PROVE  \E s \in mine : s.ev[3] = i /\ s.agg = B[i]
      <4>1. PICK s \in outbox : s.ev = <<t, b, i>>
        BY <2>2 DEF Published
      <4>2. s.ev[1] = t /\ s.ev[2] = b /\ s.ev[3] = i
        BY <4>1
      <4> QED BY <3>1, <4>2
    <3> HIDE DEF mine, B
    <3>3. {<<r.ev[3], r.agg>> : r \in mine} = {<<i, B[i]>> : i \in DOMAIN B}
      BY <3>1, <3>2
    <3> QED BY <2>2, <3>3 DEF mine, B
  <2> QED BY <2>1, <2>2
<1> QED BY <1>1, <1>2 DEF FlushSound

(* In every reachable state the committed events of each aggregate are     *)
(* numbered without gap or duplicate, an invocation's events are there all *)
(* or not at all, and one buffer's events for an aggregate stand together  *)
(* in emission order: for any number of concurrent transactions that       *)
(* commit, fail or lose a deadlock (events/emit.ts flush).                 *)
THEOREM FlushIsSound == EmitAssumption => (Spec => []FlushSound)
<1> SUFFICES ASSUME EmitAssumption PROVE Spec => []FlushSound
  OBVIOUS
<1>1. FInv => FlushSound
  BY FInvIsSound
<1> QED BY <1>1, FInvAlways, PTL

-----------------------------------------------------------------------------
(* The committed rows implement AggregateLog.                              *)

(* The committed row with number n of aggregate a.                         *)
RowAt(a, n) == CHOOSE r \in outbox : r.agg = a /\ r.n = n

(* There is exactly one.                                                   *)
LEMMA RowAtIs ==
  ASSUME FInv, NEW a \in Aggregates, NEW n \in 1 .. last[a]
  PROVE  /\ RowAt(a, n) \in outbox /\ RowAt(a, n).agg = a /\ RowAt(a, n).n = n
         /\ \A r \in outbox : r.agg = a /\ r.n = n => r = RowAt(a, n)
<1>1. last[a] \in Nat /\ n \in Nat /\ 1 <= n /\ n <= last[a]
  BY DEF FInv, TypeOK
<1>2. \E r \in outbox : r.agg = a /\ r.n = n
  BY <1>1 DEF FInv, Numbered
<1>3. RowAt(a, n) \in outbox /\ RowAt(a, n).agg = a /\ RowAt(a, n).n = n
  BY <1>2 DEF RowAt
<1> QED BY <1>3 DEF FInv, Numbered

(* The log of an aggregate is a sequence as long as its lastSequence.      *)
LEMMA LogOf ==
  ASSUME FInv, NEW a \in Aggregates
  PROVE  /\ last[a] \in Nat /\ Len(logOf(a)) = last[a]
         /\ \A n \in 1 .. last[a] : logOf(a)[n] = RowAt(a, n).ev
<1>1. last[a] \in Nat
  BY DEF FInv, TypeOK
<1>2. logOf(a) = [n \in 1 .. last[a] |-> RowAt(a, n).ev]
  BY DEF logOf, RowAt
<1>3. \A n \in 1 .. last[a] : RowAt(a, n).ev \in Event
  BY RowAtIs, OutboxTyped DEF FInv
<1>4. logOf(a) \in Seq(Event)
  BY <1>1, <1>2, <1>3
<1>5. DOMAIN logOf(a) = 1 .. last[a]
  BY <1>2
<1>6. DOMAIN logOf(a) = 1 .. Len(logOf(a)) /\ Len(logOf(a)) \in Nat
  BY <1>4
<1>7. Len(logOf(a)) = last[a]
  BY <1>1, <1>5, <1>6
<1> QED BY <1>1, <1>2, <1>7

(* Both, of any state and so of the next one.                              *)
LogsAre ==
    \A a \in Aggregates :
        /\ last[a] \in Nat /\ Len(logOf(a)) = last[a]
        /\ \A n \in 1 .. last[a] :
              /\ logOf(a)[n] = RowAt(a, n).ev
              /\ RowAt(a, n) \in outbox /\ RowAt(a, n).agg = a /\ RowAt(a, n).n = n
              /\ \A r \in outbox : r.agg = a /\ r.n = n => r = RowAt(a, n)

LEMMA LogsAreNext == FInv' => LogsAre'
<1>1. FInv => LogsAre
  BY LogOf, RowAtIs DEF LogsAre
<1> QED BY <1>1, PTL

(* A commit writes to the abstract log.                                    *)
LEMMA CommitIsWrite ==
  ASSUME FInv, FInv', NEW t \in Tx, commit(t)
  PROVE  Log!Write(t)
<1>1. /\ stage[t] = "tail" /\ stage'[t] = "committed"
      /\ \A u \in Tx : u # t => stage'[u] = stage[u]
      /\ \A a \in Aggregates : last'[a] = current(t, a)
      /\ \A a \in Aggregates : last[a] \in Nat /\ last'[a] \in Nat /\ last[a] <= last'[a]
      /\ outbox' = outbox \cup rows[t]
  BY CommitWrites
<1>2. /\ t \notin {u \in Tx : stage[u] = "committed"}
      /\ {u \in Tx : stage[u] = "committed"}' = {u \in Tx : stage[u] = "committed"} \cup {t}
  BY <1>1
<1>3. ASSUME NEW a \in Aggregates
      PROVE  /\ Len(logOf(a)) <= Len(logOf(a)')
             /\ \A n \in 1 .. Len(logOf(a)) : logOf(a)'[n] = logOf(a)[n]
             /\ \A n \in (Len(logOf(a)) + 1) .. Len(logOf(a)') : OwnerOf(logOf(a)'[n]) = t
  <2>1. /\ last[a] \in Nat /\ Len(logOf(a)) = last[a]
        /\ \A n \in 1 .. last[a] : logOf(a)[n] = RowAt(a, n).ev
    BY LogOf
  <2>2. /\ last'[a] \in Nat /\ Len(logOf(a)') = last'[a]
        /\ \A n \in 1 .. last'[a] : logOf(a)'[n] = (RowAt(a, n)').ev
    BY LogsAreNext DEF LogsAre
  <2>3. ASSUME NEW n \in 1 .. last'[a]
        PROVE  /\ RowAt(a, n)' \in outbox' /\ (RowAt(a, n)').agg = a /\ (RowAt(a, n)').n = n
               /\ \A r \in outbox' : r.agg = a /\ r.n = n => r = RowAt(a, n)'
    BY LogsAreNext DEF LogsAre
  <2>4. last[a] <= last'[a]
    BY <1>1
  <2>5. ASSUME NEW n \in 1 .. last[a]
        PROVE  RowAt(a, n)' = RowAt(a, n)
    <3>1. RowAt(a, n) \in outbox /\ RowAt(a, n).agg = a /\ RowAt(a, n).n = n
      BY RowAtIs
    <3>2. n \in 1 .. last'[a] /\ RowAt(a, n) \in outbox'
      BY <1>1, <2>1, <2>2, <2>4, <3>1
    <3> QED BY <2>3, <3>1, <3>2
  <2>6. ASSUME NEW n \in (last[a] + 1) .. last'[a]
        PROVE  (RowAt(a, n)').ev[1] = t
    <3>0. n \in 1 .. last'[a] /\ n \in Nat /\ last[a] < n /\ n <= current(t, a)
      BY <1>1, <2>1, <2>2
    <3>1. PICK r \in rows[t] : r.agg = a /\ r.n = n
      BY <3>0 DEF FInv, OwnNumbers
    <3>2. r = RowAt(a, n)'
      BY <1>1, <2>3, <3>0, <3>1
    <3> QED BY <3>2 DEF FInv, OwnRows
  <2>7. \A n \in (last[a] + 1) .. last'[a] : n \in 1 .. last'[a]
    BY <2>1, <2>2
  <2>8. \A n \in 1 .. last[a] : n \in 1 .. last'[a]
    BY <2>1, <2>2, <2>4
  <2>9. \A n \in 1 .. last[a] : logOf(a)'[n] = logOf(a)[n]
    BY <2>1, <2>2, <2>5, <2>8
  <2>10. \A n \in (last[a] + 1) .. last'[a] : OwnerOf(logOf(a)'[n]) = t
    BY <2>2, <2>6, <2>7 DEF OwnerOf
  <2> QED BY <2>1, <2>2, <2>4, <2>9, <2>10
<1> QED BY <1>2, <1>3 DEF Log!Write

(* Every other step leaves the abstract log alone.                         *)
LEMMA OthersStutter ==
  ASSUME FInv, [Next]_vars, \A t \in Tx : ~commit(t)
  PROVE  /\ UNCHANGED [a \in Aggregates |-> logOf(a)]
         /\ UNCHANGED {t \in Tx : stage[t] = "committed"}
<1>1. UNCHANGED <<last, outbox>>
  BY DEF Next, vars, begin, emit, callAtomic, calleeReturns, calleeFails,
         rootReturns, advance, insertRows, fail, deadlockVictim, rollback
<1>2. UNCHANGED [a \in Aggregates |-> logOf(a)]
  BY <1>1 DEF logOf
<1>3. ASSUME NEW t \in Tx, NEW s, s # "committed", stage[t] # "committed",
             stage' = [stage EXCEPT ![t] = s]
      PROVE  UNCHANGED {u \in Tx : stage[u] = "committed"}
  BY <1>3 DEF FInv, TypeOK
<1>4. ASSUME UNCHANGED stage
      PROVE  UNCHANGED {u \in Tx : stage[u] = "committed"}
  BY <1>4
<1>5. ASSUME NEW t \in Tx,
             \/ begin(t) \/ callAtomic(t) \/ calleeReturns(t) \/ rootReturns(t)
             \/ calleeFails(t) \/ insertRows(t) \/ fail(t) \/ deadlockVictim(t)
      PROVE  UNCHANGED {u \in Tx : stage[u] = "committed"}
  <2>1. CASE begin(t)
    BY <1>3, <2>1 DEF begin
  <2>2. CASE callAtomic(t)
    BY <1>3, <2>2 DEF callAtomic
  <2>3. CASE calleeReturns(t)
    BY <1>3, <2>3 DEF calleeReturns
  <2>4. CASE rootReturns(t)
    BY <1>3, <2>4 DEF rootReturns
  <2>5. CASE insertRows(t)
    BY <1>3, <2>5 DEF insertRows, afterFlush, Flushing
  <2>6. CASE fail(t)
    BY <1>3, <2>6 DEF fail, rollback, Open
  <2>7. CASE deadlockVictim(t)
    <3>1. stage[t] # "committed"
      BY <2>7, VictimIsOpen DEF deadlockVictim, Open
    <3> QED BY <1>3, <2>7, <3>1 DEF deadlockVictim, rollback
  <2>8. CASE calleeFails(t)
    BY <1>3, <2>8 DEF calleeFails
  <2> QED BY <1>5, <2>1, <2>2, <2>3, <2>4, <2>5, <2>6, <2>7, <2>8
<1>6. \/ UNCHANGED stage
      \/ \E t \in Tx : \/ begin(t) \/ callAtomic(t) \/ calleeReturns(t)
                       \/ calleeFails(t) \/ rootReturns(t) \/ insertRows(t)
                       \/ fail(t) \/ deadlockVictim(t)
  BY DEF Next, vars, emit, advance
<1>7. UNCHANGED {t \in Tx : stage[t] = "committed"}
  BY <1>4, <1>5, <1>6
<1> QED BY <1>2, <1>7

(* Readers of the outbox see logs that only grow at their ends, a whole    *)
(* transaction at a time: no event turns up behind one that is visible.    *)
THEOREM ImplementsAggregateLog == EmitAssumption => (Spec => RefinesLog)
<1> SUFFICES ASSUME EmitAssumption PROVE Spec => RefinesLog
  OBVIOUS
<1> DEFINE seen == <<[a \in Aggregates |-> logOf(a)], {t \in Tx : stage[t] = "committed"}>>
<1>1. Init => Log!Init
  <2> SUFFICES ASSUME Init PROVE Log!Init
    OBVIOUS
  <2>1. \A a \in Aggregates : logOf(a) = <<>>
    <3> SUFFICES ASSUME NEW a \in Aggregates PROVE logOf(a) = <<>>
      OBVIOUS
    <3>1. FInv
      BY InitFInv
    <3>2. 1 .. last[a] = {}
      BY DEF Init
    <3> QED BY <3>2 DEF logOf
  <2>2. {t \in Tx : stage[t] = "committed"} = {}
    BY DEF Init
  <2> QED BY <2>1, <2>2 DEF Log!Init
<1>2. FInv /\ FInv' /\ [Next]_vars => [Log!Next]_seen
  <2> SUFFICES ASSUME FInv, FInv', [Next]_vars PROVE [Log!Next]_seen
    OBVIOUS
  <2>1. CASE \E t \in Tx : commit(t)
    BY <2>1, CommitIsWrite DEF Log!Next
  <2>2. CASE \A t \in Tx : ~commit(t)
    BY <2>2, OthersStutter
  <2> QED BY <2>1, <2>2
<1> QED BY <1>1, <1>2, FInvAlways, PTL DEF Spec, RefinesLog, Log!Spec, seen

----------------------------------------------------------------------------
(* Uploads.                                                                *)

(* A call that goes out is one of those that are left.                     *)
LEMMA FirstIsLeft ==
  ASSUME NEW s, NEW k \in first(s)
  PROVE  k \in s
BY DEF first

(* What the record of a handler holds, and which records it may hold.      *)
LEMMA RowFields ==
  ASSUME NEW r \in RowType
  PROVE  /\ r.old \in BOOLEAN /\ r.purged \in BOOLEAN
         /\ \A s \in {"absent", "pending", "ready", "deleted"} :
              [r EXCEPT !.status = s] \in RowType
         /\ [r EXCEPT !.old = TRUE] \in RowType
         /\ [r EXCEPT !.purged = TRUE] \in RowType
BY DEF RowType

LEMMA FinalizerFields ==
  ASSUME NEW r \in FinalizerType
  PROVE  /\ r.file \in Files \cup {None} /\ r.bytes \in Bytes \cup {None}
         /\ r.todo \subseteq Served
         /\ \A t \in SUBSET Served :
              /\ [r EXCEPT !.todo = t] \in FinalizerType
              /\ [r EXCEPT !.at = "putting", !.todo = t] \in FinalizerType
BY DEF FinalizerType

LEMMA FinalizerRecord ==
  ASSUME NEW a \in {"idle", "staged", "putting", "filling"},
         NEW f \in Files \cup {None}, NEW b \in Bytes \cup {None},
         NEW t \in SUBSET Served
  PROVE  [at |-> a, file |-> f, bytes |-> b, todo |-> t] \in FinalizerType
BY DEF FinalizerType

LEMMA SweepFields ==
  /\ sweep \in SweepType =>
       /\ sweep.file \in Files \cup {None} /\ sweep.todo \subseteq Keys
       /\ \A t \in SUBSET Keys : [sweep EXCEPT !.todo = t] \in SweepType
  /\ \A a \in {"idle", "abandoned", "leftover"}, f \in Files \cup {None},
        t \in SUBSET Keys : [at |-> a, file |-> f, todo |-> t] \in SweepType
BY DEF SweepType

LEMMA BackfillFields ==
  /\ backfill \in BackfillType =>
       /\ backfill.file \in Files \cup {None}
       /\ backfill.bytes \in Bytes \cup {None} /\ backfill.todo \subseteq Derived
       /\ \A t \in SUBSET Derived : [backfill EXCEPT !.todo = t] \in BackfillType
  /\ \A f \in Files \cup {None}, b \in Bytes \cup {None}, t \in SUBSET Derived :
       [file |-> f, bytes |-> b, todo |-> t] \in BackfillType
BY DEF BackfillType

LEMMA CallFields ==
  /\ \A z \in CallType :
       /\ z.file \in Files /\ z.bytes \in Bytes \cup {None} /\ z.todo \subseteq Keys
       /\ \A t \in SUBSET Keys : [z EXCEPT !.todo = t] \in CallType
  /\ \A f \in Files, b \in Bytes \cup {None}, t \in SUBSET Keys :
       [file |-> f, bytes |-> b, todo |-> t] \in CallType
BY DEF CallType

(* Whose file a handler works on, and that it carries the declared bytes;  *)
(* a call without bytes is a delete.                                       *)
BytesKnown ==
  /\ \A p \in Finalizers : fin[p].at # "idle" =>
       fin[p].file \in Files /\ fin[p].bytes = "declared"
  /\ sweep.at # "idle" \/ sweep.todo # {} => sweep.file \in Files
  /\ backfill.todo # {} => backfill.file \in Files /\ backfill.bytes = "declared"
  /\ \A z \in zombies : z.bytes \in {"declared", None}

UInv == UploadTypeOK /\ BytesKnown /\ ServedIsDeclared

(* What a handler that fills renditions, or the backfill, sets out with.    *)
LEMMA FillRecord ==
  ASSUME UploadAssumption, UInv, NEW f \in Files
  PROVE  /\ missing(f) \subseteq Derived
         /\ fills(f) => object[f]["original"] = "declared"
         /\ fills(f) => [at |-> "filling", file |-> f, bytes |-> object[f]["original"],
                         todo |-> missing(f)] \in FinalizerType
         /\ NoFinalizer \in FinalizerType
<1>1. missing(f) \subseteq Derived /\ missing(f) \subseteq Served
  BY DEF missing, Served
<1>2. fills(f) => object[f]["original"] = "declared"
  BY DEF fills, UInv, ServedIsDeclared, Served
<1>3. "declared" \in Bytes
  BY DEF Bytes
<1> QED BY <1>1, <1>2, <1>3, FinalizerRecord DEF NoFinalizer

(* One object is put or deleted.                                           *)
LEMMA StoreKeeps ==
  ASSUME UploadTypeOK, ServedIsDeclared, NEW f \in Files, NEW k \in Keys,
         NEW b \in Bytes \cup {None}, store(f, k, b),
         k \in Served => b \in {"declared", None}
  PROVE  /\ object' \in [Files -> [Keys -> Bytes \cup {None}]]
         /\ ServedIsDeclared'
         /\ \A g \in Files, j \in Keys :
              object'[g][j] = IF g = f /\ j = k THEN b ELSE object[g][j]
<1>1. object \in [Files -> [Keys -> Bytes \cup {None}]]
  BY DEF UploadTypeOK
<1>2. object' = [object EXCEPT ![f] = [object[f] EXCEPT ![k] = b]]
  BY <1>1 DEF store
<1>3. [object[f] EXCEPT ![k] = b] \in [Keys -> Bytes \cup {None}]
  BY <1>1
<1>4. object' \in [Files -> [Keys -> Bytes \cup {None}]]
  BY <1>1, <1>2, <1>3
<1>5. \A g \in Files, j \in Keys :
         object'[g][j] = IF g = f /\ j = k THEN b ELSE object[g][j]
  BY <1>1, <1>2
<1> QED
  BY <1>4, <1>5 DEF ServedIsDeclared, Keys

LEMMA RequestUploadKeeps ==
  ASSUME UploadAssumption, UInv, NEW f \in Files, requestUpload(f)
  PROVE  UInv'
<1> USE DEF UInv, UploadAssumption
<1>1. row' \in [Files -> RowType]
  BY RowFields DEF UploadTypeOK, BytesKnown, requestUpload
<1>2. BytesKnown'
  BY RowFields DEF UploadTypeOK, BytesKnown, Bytes, requestUpload
<1>3. ServedIsDeclared'
  BY DEF ServedIsDeclared, requestUpload
<1> QED
  BY <1>1, <1>2, <1>3 DEF UploadTypeOK, requestUpload

LEMMA PassesCutoffKeeps ==
  ASSUME UploadAssumption, UInv, NEW f \in Files, passesCutoff(f)
  PROVE  UInv'
<1> USE DEF UInv, UploadAssumption
<1>1. row' \in [Files -> RowType]
  BY RowFields DEF UploadTypeOK, BytesKnown, passesCutoff
<1>2. BytesKnown'
  BY RowFields DEF UploadTypeOK, BytesKnown, Bytes, passesCutoff
<1>3. ServedIsDeclared'
  BY DEF ServedIsDeclared, passesCutoff
<1> QED
  BY <1>1, <1>2, <1>3 DEF UploadTypeOK, passesCutoff

LEMMA ReadStagingKeeps ==
  ASSUME UploadAssumption, UInv, NEW p \in Finalizers, NEW f \in Files, readStaging(p, f)
  PROVE  UInv'
<1> USE DEF UInv, UploadAssumption
<1>1. fin' \in [Finalizers -> FinalizerType]
  <2>1. "declared" \in Bytes /\ object[f]["staging"] = "declared"
    BY DEF readStaging, validStaging, Bytes
  <2>2. [at |-> "staged", file |-> f, bytes |-> object[f]["staging"], todo |-> {}]
          \in FinalizerType
    BY <2>1, FinalizerRecord
  <2> QED BY <2>2 DEF UploadTypeOK, readStaging
<1>2. BytesKnown'
  BY FinalizerRecord DEF UploadTypeOK, BytesKnown, readStaging, validStaging
<1>3. ServedIsDeclared'
  BY DEF ServedIsDeclared, readStaging
<1> QED
  BY <1>1, <1>2, <1>3 DEF UploadTypeOK, readStaging

LEMMA FinalizeReadyKeeps ==
  ASSUME UploadAssumption, UInv, NEW p \in Finalizers, NEW f \in Files, finalizeReady(p, f)
  PROVE  UInv'
<1> USE DEF UInv, UploadAssumption
<1>1. fin' \in [Finalizers -> FinalizerType]
  BY FillRecord DEF UploadTypeOK, finalizeReady, fillStep
<1>2. BytesKnown'
  <2>1. \A q \in Finalizers : fin'[q].at # "idle" =>
           fin'[q].file \in Files /\ fin'[q].bytes = "declared"
    BY FillRecord DEF UploadTypeOK, BytesKnown, finalizeReady, fillStep, NoFinalizer
  <2> QED BY <2>1 DEF BytesKnown, finalizeReady
<1>3. ServedIsDeclared'
  BY DEF ServedIsDeclared, finalizeReady
<1> QED
  BY <1>1, <1>2, <1>3 DEF UploadTypeOK, finalizeReady

LEMMA LockPendingKeeps ==
  ASSUME UploadAssumption, UInv, NEW p \in Finalizers, lockPending(p)
  PROVE  UInv'
<1> USE DEF UInv, UploadAssumption
<1>0. /\ fin[p] \in FinalizerType
      /\ fin' = [fin EXCEPT ![p] = [fin[p] EXCEPT !.at = "putting", !.todo = Served]]
  BY DEF UploadTypeOK, lockPending
<1>1. lock' \in [Files -> Finalizers \cup {Sweep, None}]
  BY DEF UploadTypeOK, lockPending, takesRow
<1>2. fin' \in [Finalizers -> FinalizerType]
  BY <1>0, FinalizerFields DEF UploadTypeOK
<1>3. BytesKnown'
  <2>1. fin[p].file \in Files /\ fin[p].bytes = "declared"
    BY DEF BytesKnown, lockPending
  <2>2. \A q \in Finalizers : fin'[q].at # "idle" =>
           fin'[q].file \in Files /\ fin'[q].bytes = "declared"
    BY <1>0, <2>1 DEF UploadTypeOK, BytesKnown, FinalizerType
  <2> QED BY <2>2 DEF BytesKnown, lockPending
<1>4. ServedIsDeclared'
  BY DEF ServedIsDeclared, lockPending
<1> QED
  BY <1>1, <1>2, <1>3, <1>4 DEF UploadTypeOK, lockPending

LEMMA LockRefusedKeeps ==
  ASSUME UploadAssumption, UInv, NEW p \in Finalizers, lockRefused(p)
  PROVE  UInv'
<1> USE DEF UInv, UploadAssumption
<1>1. fin' \in [Finalizers -> FinalizerType]
  BY FinalizerRecord DEF UploadTypeOK, BytesKnown, lockRefused, NoFinalizer
<1>2. BytesKnown'
  BY FinalizerRecord DEF UploadTypeOK, BytesKnown, Bytes, lockRefused, NoFinalizer
<1>3. ServedIsDeclared'
  BY DEF ServedIsDeclared, lockRefused
<1> QED
  BY <1>1, <1>2, <1>3 DEF UploadTypeOK, lockRefused

LEMMA LockReadyKeeps ==
  ASSUME UploadAssumption, UInv, NEW p \in Finalizers, lockReady(p)
  PROVE  UInv'
<1> USE DEF UInv, UploadAssumption
<1>0. fin[p].file \in Files
  BY DEF BytesKnown, lockReady
<1>1. lock' \in [Files -> Finalizers \cup {Sweep, None}]
  BY <1>0 DEF UploadTypeOK, lockReady
<1>2. fin' \in [Finalizers -> FinalizerType]
  BY <1>0, FillRecord DEF UploadTypeOK, lockReady, fillStep
<1>3. BytesKnown'
  <2>1. \A q \in Finalizers : fin'[q].at # "idle" =>
           fin'[q].file \in Files /\ fin'[q].bytes = "declared"
    BY <1>0, FillRecord DEF UploadTypeOK, BytesKnown, lockReady, fillStep, NoFinalizer
  <2> QED BY <2>1 DEF BytesKnown, lockReady
<1>4. ServedIsDeclared'
  BY DEF ServedIsDeclared, lockReady
<1> QED
  BY <1>1, <1>2, <1>3, <1>4 DEF UploadTypeOK, lockReady

LEMMA FinishKeeps ==
  ASSUME UploadAssumption, UInv, NEW p \in Finalizers, finish(p)
  PROVE  UInv'
<1> USE DEF UInv, UploadAssumption
<1>0. fin[p].file \in Files /\ fin[p].at # "idle"
  BY DEF BytesKnown, finish
<1>1. row' \in [Files -> RowType]
  <2>1. row[fin[p].file] \in RowType
    BY <1>0 DEF UploadTypeOK
  <2> QED BY <1>0, <2>1, RowFields DEF UploadTypeOK, finish
<1>2. lock' \in [Files -> Finalizers \cup {Sweep, None}]
  BY DEF UploadTypeOK, finish, unlock
<1>3. fin' \in [Finalizers -> FinalizerType]
  BY <1>0, FillRecord DEF UploadTypeOK, finish
<1>4. BytesKnown'
  BY FinalizerRecord DEF UploadTypeOK, BytesKnown, finish, NoFinalizer
<1>5. ServedIsDeclared'
  BY DEF ServedIsDeclared, finish
<1> QED
  BY <1>1, <1>2, <1>3, <1>4, <1>5 DEF UploadTypeOK, finish

LEMMA RollBackKeeps ==
  ASSUME UploadAssumption, UInv, NEW p \in Finalizers, rollBack(p)
  PROVE  UInv'
<1> USE DEF UInv, UploadAssumption
<1>0. /\ fin[p] \in FinalizerType /\ fin[p].file \in Files /\ fin[p].bytes = "declared"
      /\ "declared" \in Bytes /\ fin[p].todo \subseteq Keys
  BY FinalizerFields DEF UploadTypeOK, BytesKnown, rollBack, Bytes, Keys
<1>1. lock' \in [Files -> Finalizers \cup {Sweep, None}]
  BY DEF UploadTypeOK, rollBack, unlock
<1>2. fin' \in [Finalizers -> FinalizerType]
  BY <1>0, FillRecord DEF UploadTypeOK, rollBack
<1>3. zombies' \subseteq CallType /\ \A z \in zombies' : z.bytes \in {"declared", None}
  <2>1. [file |-> fin[p].file, bytes |-> fin[p].bytes, todo |-> fin[p].todo] \in CallType
    BY <1>0, CallFields
  <2> QED BY <1>0, <2>1 DEF UploadTypeOK, BytesKnown, rollBack, haunt
<1>4. BytesKnown'
  BY <1>3 DEF UploadTypeOK, BytesKnown, rollBack, NoFinalizer
<1>5. ServedIsDeclared'
  BY DEF ServedIsDeclared, rollBack
<1> QED
  BY <1>1, <1>2, <1>3, <1>4, <1>5 DEF UploadTypeOK, rollBack

LEMMA SweepSelectsKeeps ==
  ASSUME UploadAssumption, UInv, NEW f \in Files, sweepSelects(f)
  PROVE  UInv'
<1> USE DEF UInv, UploadAssumption
<1>1. lock' \in [Files -> Finalizers \cup {Sweep, None}]
  BY DEF UploadTypeOK, sweepSelects
<1>2. sweep' \in SweepType
  <2>1. Keys \subseteq Keys /\ {"staging"} \subseteq Keys
    BY DEF Keys
  <2> QED BY <2>1, SweepFields DEF UploadTypeOK, sweepSelects, abandonedKeys
<1>3. BytesKnown'
  BY DEF BytesKnown, sweepSelects
<1>4. ServedIsDeclared'
  BY DEF ServedIsDeclared, sweepSelects
<1> QED
  BY <1>1, <1>2, <1>3, <1>4 DEF UploadTypeOK, sweepSelects

LEMMA SweepCommitsKeeps ==
  ASSUME UploadAssumption, UInv, sweepCommits
  PROVE  UInv'
<1> USE DEF UInv, UploadAssumption
<1>1. row' \in [Files -> RowType]
  BY RowFields, SweepFields DEF UploadTypeOK, BytesKnown, sweepCommits, unlock, sweptRow, NoSweep
<1>2. lock' \in [Files -> Finalizers \cup {Sweep, None}]
  BY RowFields, SweepFields DEF UploadTypeOK, BytesKnown, sweepCommits, unlock, sweptRow, NoSweep
<1>3. sweep' \in SweepType
  BY RowFields, SweepFields DEF UploadTypeOK, BytesKnown, sweepCommits, unlock, sweptRow, NoSweep
<1>4. BytesKnown'
  BY RowFields, SweepFields DEF UploadTypeOK, BytesKnown, Bytes, sweepCommits, unlock, sweptRow, NoSweep
<1>5. ServedIsDeclared'
  BY DEF ServedIsDeclared, sweepCommits
<1> QED
  BY <1>1, <1>2, <1>3, <1>4, <1>5 DEF UploadTypeOK, sweepCommits

LEMMA SweepRollsBackKeeps ==
  ASSUME UploadAssumption, UInv, sweepRollsBack
  PROVE  UInv'
<1> USE DEF UInv, UploadAssumption
<1>0. sweep.file \in Files /\ sweep.todo \subseteq Keys
  BY SweepFields DEF UploadTypeOK, BytesKnown, sweepRollsBack
<1>1. lock' \in [Files -> Finalizers \cup {Sweep, None}]
  BY DEF UploadTypeOK, sweepRollsBack, unlock
<1>2. sweep' \in SweepType
  BY SweepFields DEF UploadTypeOK, sweepRollsBack, NoSweep
<1>3. zombies' \subseteq CallType /\ \A z \in zombies' : z.bytes \in {"declared", None}
  <2>1. [file |-> sweep.file, bytes |-> None, todo |-> sweep.todo] \in CallType
    BY <1>0, CallFields
  <2> QED BY <2>1 DEF UploadTypeOK, BytesKnown, sweepRollsBack, haunt
<1>4. BytesKnown'
  BY <1>3 DEF BytesKnown, sweepRollsBack, NoSweep
<1>5. ServedIsDeclared'
  BY DEF ServedIsDeclared, sweepRollsBack
<1> QED
  BY <1>1, <1>2, <1>3, <1>4, <1>5 DEF UploadTypeOK, sweepRollsBack

LEMMA BackfillInspectsKeeps ==
  ASSUME UploadAssumption, UInv, NEW f \in Files, backfillInspects(f)
  PROVE  UInv'
<1> USE DEF UInv, UploadAssumption
<1>0. /\ object[f]["original"] = "declared" /\ missing(f) \subseteq Derived
      /\ "declared" \in Bytes
  BY FillRecord DEF backfillInspects, incomplete, Bytes
<1>1. backfill' \in BackfillType
  BY <1>0, BackfillFields DEF backfillInspects
<1>2. BytesKnown'
  BY <1>0 DEF BytesKnown, backfillInspects
<1>3. ServedIsDeclared'
  BY DEF ServedIsDeclared, backfillInspects
<1> QED
  BY <1>1, <1>2, <1>3 DEF UploadTypeOK, backfillInspects

LEMMA BackfillFailsKeeps ==
  ASSUME UploadAssumption, UInv, backfillFails
  PROVE  UInv'
<1> USE DEF UInv, UploadAssumption
<1>1. backfill' \in BackfillType
  BY BackfillFields DEF backfillFails, NoBackfill
<1>2. zombies' \subseteq CallType /\ \A z \in zombies' : z.bytes \in {"declared", None}
  <2>1. ASSUME NEW k \in backfill.todo
        PROVE  /\ [file |-> backfill.file, bytes |-> backfill.bytes, todo |-> {k}]
                    \in CallType
               /\ backfill.bytes = "declared"
    <3>1. /\ backfill.file \in Files /\ backfill.bytes = "declared"
          /\ "declared" \in Bytes /\ {k} \subseteq Keys
      BY BackfillFields DEF UploadTypeOK, BytesKnown, Bytes, Keys, Served
    <3> QED BY <3>1, CallFields
  <2>2. ASSUME NEW z \in zombies'
        PROVE  z \in CallType /\ z.bytes \in {"declared", None}
    <3>1. CASE z \in zombies
      BY <3>1 DEF UploadTypeOK, BytesKnown
    <3>2. CASE z \notin zombies
      <4>1. PICK k \in backfill.todo :
              z = [file |-> backfill.file, bytes |-> backfill.bytes, todo |-> {k}]
        BY <2>2, <3>2 DEF backfillFails
      <4> QED BY <2>1, <4>1
    <3> QED BY <3>1, <3>2
  <2> QED BY <2>2
<1>3. BytesKnown'
  BY <1>2 DEF BytesKnown, backfillFails, NoBackfill
<1>4. ServedIsDeclared'
  BY DEF ServedIsDeclared, backfillFails
<1> QED
  BY <1>1, <1>2, <1>3, <1>4 DEF UploadTypeOK, backfillFails

LEMMA PutObjectKeeps ==
  ASSUME UploadAssumption, UInv, NEW f \in Files, putObject(f)
  PROVE  UInv'
<1>1. PICK b \in Bytes : store(f, "staging", b)
  BY DEF putObject
<1>2. "staging" \in Keys /\ "staging" \notin Served
  BY DEF Keys, Served, UploadAssumption
<1>3. /\ object' \in [Files -> [Keys -> Bytes \cup {None}]]
      /\ ServedIsDeclared'
  BY <1>1, <1>2, StoreKeeps DEF UInv
<1> QED BY <1>3 DEF UInv, UploadTypeOK, BytesKnown, putObject

LEMMA PutNextKeeps ==
  ASSUME UploadAssumption, UInv, NEW p \in Finalizers, putNext(p)
  PROVE  UInv'
<1> USE DEF UInv
<1>1. PICK k \in first(fin[p].todo) :
        /\ store(fin[p].file, k, promoted(p))
        /\ fin' = [fin EXCEPT ![p].todo = @ \ {k}]
  BY DEF putNext
<1>2. /\ fin[p] \in FinalizerType /\ fin[p].file \in Files
      /\ promoted(p) = "declared" /\ k \in fin[p].todo
  BY FirstIsLeft DEF UploadTypeOK, BytesKnown, putNext, promoted
<1>3. k \in Keys /\ fin[p].todo \ {k} \in SUBSET Served /\ "declared" \in Bytes
  BY <1>2, FinalizerFields DEF Keys, Bytes
<1>4. /\ object' \in [Files -> [Keys -> Bytes \cup {None}]]
      /\ ServedIsDeclared'
  BY <1>1, <1>2, <1>3, StoreKeeps
<1>5. fin' \in [Finalizers -> FinalizerType]
  <2>1. fin' = [fin EXCEPT ![p] = [fin[p] EXCEPT !.todo = fin[p].todo \ {k}]]
    BY <1>1
  <2> QED BY <1>2, <1>3, <2>1, FinalizerFields DEF UploadTypeOK
<1>6. BytesKnown'
  BY <1>1, <1>2 DEF UploadTypeOK, BytesKnown, FinalizerType, putNext
<1> QED BY <1>4, <1>5, <1>6 DEF UploadTypeOK, putNext

LEMMA ZombieCallsKeeps ==
  ASSUME UploadAssumption, UInv, NEW z \in zombies, zombieCalls(z)
  PROVE  UInv'
<1> USE DEF UInv
<1>1. PICK k \in first(z.todo) :
        /\ store(z.file, k, z.bytes)
        /\ zombies' = (zombies \ {z}) \cup
             (IF z.todo = {k} THEN {} ELSE {[z EXCEPT !.todo = @ \ {k}]})
  BY DEF zombieCalls
<1>2. /\ z \in CallType /\ z.file \in Files /\ z.todo \subseteq Keys
      /\ z.bytes \in {"declared", None} /\ z.bytes \in Bytes \cup {None}
      /\ k \in z.todo
  BY FirstIsLeft, CallFields DEF UploadTypeOK, BytesKnown
<1>3. /\ object' \in [Files -> [Keys -> Bytes \cup {None}]]
      /\ ServedIsDeclared'
  BY <1>1, <1>2, StoreKeeps
<1>4. zombies' \subseteq CallType /\ \A y \in zombies' : y.bytes \in {"declared", None}
  <2>1. [z EXCEPT !.todo = z.todo \ {k}] \in CallType
    BY <1>2, CallFields
  <2>2. [z EXCEPT !.todo = z.todo \ {k}].bytes = z.bytes
    BY <1>2 DEF CallType
  <2> QED BY <1>1, <1>2, <2>1, <2>2 DEF UploadTypeOK, BytesKnown
<1> QED BY <1>3, <1>4 DEF UploadTypeOK, BytesKnown, zombieCalls

LEMMA SweepDeletesKeeps ==
  ASSUME UploadAssumption, UInv, sweepDeletes
  PROVE  UInv'
<1> USE DEF UInv
<1>1. PICK k \in first(sweep.todo) :
        /\ store(sweep.file, k, None)
        /\ sweep' = [sweep EXCEPT !.todo = @ \ {k}]
  BY DEF sweepDeletes
<1>2. /\ k \in sweep.todo /\ sweep.file \in Files /\ sweep.todo \subseteq Keys
  BY FirstIsLeft, SweepFields DEF UploadTypeOK, BytesKnown
<1>3. /\ object' \in [Files -> [Keys -> Bytes \cup {None}]]
      /\ ServedIsDeclared'
  BY <1>1, <1>2, StoreKeeps
<1>4. sweep' \in SweepType /\ sweep'.file = sweep.file
  BY <1>1, <1>2, SweepFields DEF UploadTypeOK, SweepType
<1> QED BY <1>2, <1>3, <1>4 DEF UploadTypeOK, BytesKnown, sweepDeletes

LEMMA BackfillPutsKeeps ==
  ASSUME UploadAssumption, UInv, backfillPuts
  PROVE  UInv'
<1> USE DEF UInv
<1>1. PICK k \in backfill.todo :
        /\ store(backfill.file, k, backfill.bytes)
        /\ backfill' = IF backfill.todo = {k} THEN NoBackfill
                       ELSE [backfill EXCEPT !.todo = @ \ {k}]
  BY DEF backfillPuts
<1>2. /\ backfill.file \in Files /\ backfill.bytes = "declared"
      /\ backfill.todo \subseteq Derived /\ k \in Keys /\ "declared" \in Bytes
  BY BackfillFields DEF UploadTypeOK, BytesKnown, Keys, Served, Bytes
<1>3. /\ object' \in [Files -> [Keys -> Bytes \cup {None}]]
      /\ ServedIsDeclared'
  BY <1>1, <1>2, StoreKeeps
<1>4. /\ backfill' \in BackfillType
      /\ backfill'.todo # {} => backfill'.file \in Files /\ backfill'.bytes = "declared"
  <2>1. CASE backfill.todo = {k}
    BY <1>1, <2>1, BackfillFields DEF NoBackfill
  <2>2. CASE backfill.todo # {k}
    <3>1. backfill' = [backfill EXCEPT !.todo = backfill.todo \ {k}]
      BY <1>1, <2>2
    <3> QED BY <1>2, <3>1, BackfillFields DEF UploadTypeOK, BackfillType
  <2> QED BY <2>1, <2>2
<1> QED BY <1>3, <1>4 DEF UploadTypeOK, BytesKnown, backfillPuts

LEMMA InitUInv ==
  ASSUME UploadAssumption, UploadInit
  PROVE  UInv
<1>1. UploadTypeOK
  <2>1. row \in [Files -> RowType]
    BY DEF UploadInit, RowType
  <2>2. object \in [Files -> [Keys -> Bytes \cup {None}]]
    BY DEF UploadInit, Bytes
  <2>3. NoFinalizer \in FinalizerType
    BY FinalizerRecord DEF NoFinalizer
  <2>4. sweep \in SweepType /\ backfill \in BackfillType
    BY SweepFields, BackfillFields DEF UploadInit, NoSweep, NoBackfill
  <2> QED BY <2>1, <2>2, <2>3, <2>4 DEF UploadTypeOK, UploadInit
<1>2. BytesKnown
  BY DEF UploadInit, BytesKnown, NoFinalizer, NoSweep, NoBackfill
<1>3. ServedIsDeclared
  BY DEF UploadInit, ServedIsDeclared, Keys
<1> QED BY <1>1, <1>2, <1>3 DEF UInv

LEMMA NextKeepsUInv ==
  ASSUME UploadAssumption, UInv, [UploadNext]_uploadVars
  PROVE  UInv'
<1>1. CASE UNCHANGED uploadVars
  BY <1>1 DEF uploadVars, UInv, UploadTypeOK, BytesKnown, ServedIsDeclared
<1>2. ASSUME NEW f \in Files, client(f)
      PROVE  UInv'
  BY <1>2, RequestUploadKeeps, PutObjectKeeps, PassesCutoffKeeps DEF client
<1>3. ASSUME NEW p \in Finalizers, finalize(p)
      PROVE  UInv'
  BY <1>3, ReadStagingKeeps, FinalizeReadyKeeps, LockPendingKeeps, LockRefusedKeeps,
     LockReadyKeeps, PutNextKeeps, FinishKeeps, RollBackKeeps DEF finalize
<1>4. CASE maintain
  BY <1>4, SweepSelectsKeeps, SweepDeletesKeeps, SweepCommitsKeeps,
     SweepRollsBackKeeps, BackfillInspectsKeeps, BackfillPutsKeeps,
     BackfillFailsKeeps DEF maintain
<1>5. ASSUME NEW z \in zombies, zombieCalls(z)
      PROVE  UInv'
  BY <1>5, ZombieCallsKeeps
<1> QED BY <1>1, <1>2, <1>3, <1>4, <1>5 DEF UploadNext

(* A call that is left over goes on with less.                             *)
LEMMA CallTodo ==
  ASSUME NEW z \in CallType, NEW k, NEW y, y = [z EXCEPT !.todo = @ \ {k}]
  PROVE  y.file = z.file /\ y.bytes = z.bytes /\ y.todo \subseteq z.todo
BY DEF CallType

(* Where no handler outlives its transaction.                              *)

(* What lands late fills a ready image.                                    *)
LateFills ==
  \A z \in zombies : /\ z.bytes = "declared" /\ row[z.file].status = "ready"
                     /\ z.todo \subseteq Derived

(* So does a handler that fills, and the backfill.                         *)
FillsReady ==
  /\ \A p \in Finalizers : fin[p].at = "filling" =>
       row[fin[p].file].status = "ready" /\ fin[p].todo \subseteq Derived
  /\ backfill.todo # {} => row[backfill.file].status = "ready"

(* Who promotes holds the row, still pending, and has put what is not left.*)
PutsHeld ==
  \A p \in Finalizers : fin[p].at = "putting" =>
    /\ lock[fin[p].file] = p /\ row[fin[p].file].status = "pending"
    /\ \A k \in Served \ fin[p].todo : object[fin[p].file][k] = "declared"

(* The sweep holds its row; of an abandoned one what is not left is gone.  *)
SweepHeld ==
  /\ sweep.at # "idle" => lock[sweep.file] = Sweep
  /\ sweep.at = "idle" => sweep.todo = {}
  /\ sweep.at = "abandoned" =>
       /\ row[sweep.file].status = "pending" /\ row[sweep.file].old
       /\ \A k \in Keys \ sweep.todo : object[sweep.file][k] = None
  /\ sweep.at = "leftover" =>
       row[sweep.file].status = "ready" /\ sweep.todo \subseteq {"staging"}

QInv ==
  /\ LateFills /\ FillsReady /\ PutsHeld /\ SweepHeld
  /\ ReadyIsComplete /\ NothingOutlivesTheRow

LEMMA RequestUploadKeepsQuiet ==
  ASSUME UploadAssumption, ~Zombies, UInv, QInv, NEW f \in Files, requestUpload(f)
  PROVE  QInv'
<1> USE DEF QInv, UInv, UploadTypeOK, UploadAssumption
<1>1. /\ row[f].status = "absent"
      /\ \A g \in Files : row'[g].status = IF g = f THEN "pending" ELSE row[g].status
      /\ \A g \in Files : row'[g].old = row[g].old
      /\ UNCHANGED <<object, lock, fin, sweep, backfill, zombies>>
  BY DEF requestUpload, RowType
<1>2. LateFills'
  BY <1>1, CallFields DEF LateFills, BytesKnown
<1>3. FillsReady'
  BY <1>1 DEF FillsReady, BytesKnown
<1>4. PutsHeld'
  BY <1>1 DEF PutsHeld, BytesKnown
<1>5. SweepHeld'
  BY <1>1 DEF SweepHeld, BytesKnown
<1>6. ReadyIsComplete'
  BY <1>1 DEF ReadyIsComplete, BytesKnown
<1>7. NothingOutlivesTheRow'
  BY <1>1 DEF NothingOutlivesTheRow, BytesKnown
<1> QED BY <1>2, <1>3, <1>4, <1>5, <1>6, <1>7

LEMMA PutObjectKeepsQuiet ==
  ASSUME UploadAssumption, ~Zombies, UInv, QInv, NEW f \in Files, putObject(f)
  PROVE  QInv'
<1> USE DEF QInv, UInv, UploadTypeOK, UploadAssumption
<1>1. /\ row[f].status \in {"pending", "ready"} /\ ~row[f].old
      /\ UNCHANGED <<row, lock, fin, sweep, backfill, zombies>>
  BY DEF putObject
<1>2. PICK b \in Bytes : store(f, "staging", b)
  BY DEF putObject
<1>3. "staging" \in Keys /\ "staging" \notin Served /\ Served \subseteq Keys
  BY DEF Keys, Served
<1>4. \A g \in Files, j \in Keys :
         object'[g][j] = IF g = f /\ j = "staging" THEN b ELSE object[g][j]
  BY <1>2, <1>3, StoreKeeps
<1>5. LateFills'
  BY <1>1, <1>2, <1>3, <1>4, CallFields DEF LateFills, BytesKnown
<1>6. FillsReady'
  BY <1>1, <1>2, <1>3, <1>4 DEF FillsReady, BytesKnown
<1>7. PutsHeld'
  BY <1>1, <1>2, <1>3, <1>4 DEF PutsHeld, BytesKnown
<1>8. SweepHeld'
  BY <1>1, <1>2, <1>3, <1>4 DEF SweepHeld, BytesKnown
<1>9. ReadyIsComplete'
  BY <1>1, <1>2, <1>3, <1>4 DEF ReadyIsComplete, BytesKnown
<1>10. NothingOutlivesTheRow'
  BY <1>1, <1>2, <1>3, <1>4 DEF NothingOutlivesTheRow, BytesKnown
<1> QED BY <1>5, <1>6, <1>7, <1>8, <1>9, <1>10

LEMMA PassesCutoffKeepsQuiet ==
  ASSUME UploadAssumption, ~Zombies, UInv, QInv, NEW f \in Files, passesCutoff(f)
  PROVE  QInv'
<1> USE DEF QInv, UInv, UploadTypeOK, UploadAssumption
<1>1. /\ \A g \in Files : row'[g].status = row[g].status /\ (row[g].old => row'[g].old)
      /\ UNCHANGED <<object, lock, fin, sweep, backfill, zombies>>
  BY DEF passesCutoff, RowType
<1>2. LateFills'
  BY <1>1, CallFields DEF LateFills, BytesKnown
<1>3. FillsReady'
  BY <1>1 DEF FillsReady, BytesKnown
<1>4. PutsHeld'
  BY <1>1 DEF PutsHeld, BytesKnown
<1>5. SweepHeld'
  BY <1>1 DEF SweepHeld, BytesKnown
<1>6. ReadyIsComplete'
  BY <1>1 DEF ReadyIsComplete, BytesKnown
<1>7. NothingOutlivesTheRow'
  BY <1>1 DEF NothingOutlivesTheRow, BytesKnown
<1> QED BY <1>2, <1>3, <1>4, <1>5, <1>6, <1>7

LEMMA ReadStagingKeepsQuiet ==
  ASSUME UploadAssumption, ~Zombies, UInv, QInv, NEW p \in Finalizers, NEW f \in Files, readStaging(p, f)
  PROVE  QInv'
<1> USE DEF QInv, UInv, UploadTypeOK, UploadAssumption
<1>1. /\ fin' = [fin EXCEPT ![p] = [at |-> "staged", file |-> f,
                               bytes |-> object[f]["staging"], todo |-> {}]]
      /\ UNCHANGED <<row, object, lock, sweep, backfill, zombies>>
  BY DEF readStaging
<1>2. LateFills'
  BY <1>1, CallFields DEF LateFills, BytesKnown
<1>3. FillsReady'
  BY <1>1 DEF FillsReady, BytesKnown
<1>4. PutsHeld'
  BY <1>1 DEF PutsHeld, BytesKnown
<1>5. SweepHeld'
  BY <1>1 DEF SweepHeld, BytesKnown
<1>6. ReadyIsComplete'
  BY <1>1 DEF ReadyIsComplete, BytesKnown
<1>7. NothingOutlivesTheRow'
  BY <1>1 DEF NothingOutlivesTheRow, BytesKnown
<1> QED BY <1>2, <1>3, <1>4, <1>5, <1>6, <1>7

LEMMA FinalizeReadyKeepsQuiet ==
  ASSUME UploadAssumption, ~Zombies, UInv, QInv, NEW p \in Finalizers, NEW f \in Files, finalizeReady(p, f)
  PROVE  QInv'
<1> USE DEF QInv, UInv, UploadTypeOK, UploadAssumption
<1>1. /\ row[f].status = "ready" /\ missing(f) \subseteq Derived
      /\ UNCHANGED <<row, object, lock, sweep, backfill, zombies>>
  BY FillRecord DEF finalizeReady
<1>2. \A q \in Finalizers :
         \/ fin'[q] = fin[q]
         \/ fin'[q].at = "idle"
         \/ fin'[q].at = "filling" /\ fin'[q].file = f /\ fin'[q].todo = missing(f)
  BY DEF finalizeReady, fillStep, NoFinalizer
<1>3. LateFills'
  BY <1>1, <1>2, CallFields DEF LateFills, BytesKnown
<1>4. FillsReady'
  BY <1>1, <1>2 DEF FillsReady, BytesKnown
<1>5. PutsHeld'
  BY <1>1, <1>2 DEF PutsHeld, BytesKnown
<1>6. SweepHeld'
  BY <1>1, <1>2 DEF SweepHeld, BytesKnown
<1>7. ReadyIsComplete'
  BY <1>1, <1>2 DEF ReadyIsComplete, BytesKnown
<1>8. NothingOutlivesTheRow'
  BY <1>1, <1>2 DEF NothingOutlivesTheRow, BytesKnown
<1> QED BY <1>3, <1>4, <1>5, <1>6, <1>7, <1>8

LEMMA LockReadyKeepsQuiet ==
  ASSUME UploadAssumption, ~Zombies, UInv, QInv, NEW p \in Finalizers, lockReady(p)
  PROVE  QInv'
<1> USE DEF QInv, UInv, UploadTypeOK, UploadAssumption
<1>1. /\ row[fin[p].file].status = "ready" /\ fin[p].file \in Files
      /\ missing(fin[p].file) \subseteq Derived /\ lock[fin[p].file] = None
      /\ UNCHANGED <<row, object, sweep, backfill, zombies>>
  BY FillRecord DEF lockReady, BytesKnown
<1>2. \A q \in Finalizers :
         \/ fin'[q] = fin[q]
         \/ fin'[q].at = "idle"
         \/ /\ fin'[q].at = "filling" /\ fin'[q].file = fin[p].file
            /\ fin'[q].todo = missing(fin[p].file)
  BY DEF lockReady, fillStep, NoFinalizer
<1>3. \A g \in Files : lock'[g] = lock[g] \/ lock[g] = None
  BY <1>1 DEF lockReady
<1>4. LateFills'
  BY <1>1, <1>2, <1>3, CallFields DEF LateFills, BytesKnown
<1>5. FillsReady'
  BY <1>1, <1>2, <1>3 DEF FillsReady, BytesKnown
<1>6. PutsHeld'
  BY <1>1, <1>2, <1>3 DEF PutsHeld, BytesKnown
<1>7. SweepHeld'
  BY <1>1, <1>2, <1>3 DEF SweepHeld, BytesKnown
<1>8. ReadyIsComplete'
  BY <1>1, <1>2, <1>3 DEF ReadyIsComplete, BytesKnown
<1>9. NothingOutlivesTheRow'
  BY <1>1, <1>2, <1>3 DEF NothingOutlivesTheRow, BytesKnown
<1> QED BY <1>4, <1>5, <1>6, <1>7, <1>8, <1>9

LEMMA LockPendingKeepsQuiet ==
  ASSUME UploadAssumption, ~Zombies, UInv, QInv, NEW p \in Finalizers, lockPending(p)
  PROVE  QInv'
<1> USE DEF QInv, UInv, UploadTypeOK, UploadAssumption
<1>1. /\ row[fin[p].file].status = "pending" /\ fin[p].file \in Files
      /\ lock[fin[p].file] = None
      /\ UNCHANGED <<row, object, sweep, backfill, zombies>>
  BY DEF lockPending, takesRow, BytesKnown
<1>2. /\ fin'[p].at = "putting" /\ fin'[p].file = fin[p].file /\ fin'[p].todo = Served
      /\ \A q \in Finalizers \ {p} : fin'[q] = fin[q]
  BY DEF lockPending, FinalizerType
<1>3. \A g \in Files : lock'[g] = IF g = fin[p].file THEN p ELSE lock[g]
  BY DEF lockPending, takesRow
<1>4. LateFills'
  BY <1>1, <1>2, <1>3, CallFields DEF LateFills, BytesKnown
<1>5. FillsReady'
  BY <1>1, <1>2, <1>3 DEF FillsReady, BytesKnown
<1>6. PutsHeld'
  BY <1>1, <1>2, <1>3 DEF PutsHeld, BytesKnown
<1>7. SweepHeld'
  BY <1>1, <1>2, <1>3 DEF SweepHeld, BytesKnown
<1>8. ReadyIsComplete'
  BY <1>1, <1>2, <1>3 DEF ReadyIsComplete, BytesKnown
<1>9. NothingOutlivesTheRow'
  BY <1>1, <1>2, <1>3 DEF NothingOutlivesTheRow, BytesKnown
<1> QED BY <1>4, <1>5, <1>6, <1>7, <1>8, <1>9

LEMMA LockRefusedKeepsQuiet ==
  ASSUME UploadAssumption, ~Zombies, UInv, QInv, NEW p \in Finalizers, lockRefused(p)
  PROVE  QInv'
<1> USE DEF QInv, UInv, UploadTypeOK, UploadAssumption
<1>1. /\ \A q \in Finalizers : fin'[q] = fin[q] \/ fin'[q].at = "idle"
      /\ UNCHANGED <<row, object, lock, sweep, backfill, zombies>>
  BY DEF lockRefused, NoFinalizer
<1>2. LateFills'
  BY <1>1, CallFields DEF LateFills, BytesKnown
<1>3. FillsReady'
  BY <1>1 DEF FillsReady, BytesKnown
<1>4. PutsHeld'
  BY <1>1 DEF PutsHeld, BytesKnown
<1>5. SweepHeld'
  BY <1>1 DEF SweepHeld, BytesKnown
<1>6. ReadyIsComplete'
  BY <1>1 DEF ReadyIsComplete, BytesKnown
<1>7. NothingOutlivesTheRow'
  BY <1>1 DEF NothingOutlivesTheRow, BytesKnown
<1> QED BY <1>2, <1>3, <1>4, <1>5, <1>6, <1>7

LEMMA PutNextKeepsQuiet ==
  ASSUME UploadAssumption, ~Zombies, UInv, QInv, NEW p \in Finalizers, putNext(p)
  PROVE  QInv'
<1> USE DEF QInv, UInv, UploadTypeOK, UploadAssumption
<1>1. PICK k \in first(fin[p].todo) :
        /\ store(fin[p].file, k, promoted(p))
        /\ fin' = [fin EXCEPT ![p].todo = @ \ {k}]
  BY DEF putNext
<1>2. /\ k \in fin[p].todo /\ k \in Served /\ Served \subseteq Keys
      /\ fin[p].file \in Files /\ promoted(p) = "declared" /\ "declared" \in Bytes
      /\ fin[p].at \in {"putting", "filling"}
      /\ UNCHANGED <<row, lock, sweep, backfill, zombies>>
  BY FirstIsLeft, FinalizerFields DEF putNext, BytesKnown, promoted, Keys, Bytes
<1>3. \A g \in Files, j \in Keys :
         object'[g][j] = IF g = fin[p].file /\ j = k THEN "declared" ELSE object[g][j]
  BY <1>1, <1>2, StoreKeeps
<1>4. /\ fin'[p].at = fin[p].at /\ fin'[p].file = fin[p].file
      /\ fin'[p].todo = fin[p].todo \ {k}
      /\ \A q \in Finalizers \ {p} : fin'[q] = fin[q]
  BY <1>1 DEF FinalizerType
<1>5. row[fin[p].file].status = "pending" \/ row[fin[p].file].status = "ready"
  BY <1>2 DEF PutsHeld, FillsReady
<1>6. fin[p].at = "filling" => row[fin[p].file].status = "ready"
  BY DEF FillsReady
<1>7. fin[p].at = "putting" => lock[fin[p].file] = p /\ p # Sweep
  BY DEF PutsHeld
<1>8. sweep.at = "abandoned" => sweep.file # fin[p].file
  BY <1>2, <1>6, <1>7 DEF SweepHeld
<1>9. LateFills'
  BY <1>1, <1>2, <1>3, <1>4, <1>5, <1>6, <1>7, <1>8, CallFields DEF LateFills, BytesKnown
<1>10. FillsReady'
  BY <1>1, <1>2, <1>3, <1>4, <1>5, <1>6, <1>7, <1>8 DEF FillsReady, BytesKnown
<1>11. PutsHeld'
  BY <1>1, <1>2, <1>3, <1>4, <1>5, <1>6, <1>7, <1>8 DEF PutsHeld, BytesKnown
<1>12. SweepHeld'
  BY <1>1, <1>2, <1>3, <1>4, <1>5, <1>6, <1>7, <1>8 DEF SweepHeld, BytesKnown
<1>13. ReadyIsComplete'
  BY <1>1, <1>2, <1>3, <1>4, <1>5, <1>6, <1>7, <1>8 DEF ReadyIsComplete, BytesKnown
<1>14. NothingOutlivesTheRow'
  BY <1>1, <1>2, <1>3, <1>4, <1>5, <1>6, <1>7, <1>8 DEF NothingOutlivesTheRow, BytesKnown
<1> QED BY <1>9, <1>10, <1>11, <1>12, <1>13, <1>14

LEMMA FinishKeepsQuiet ==
  ASSUME UploadAssumption, ~Zombies, UInv, QInv, NEW p \in Finalizers, finish(p)
  PROVE  QInv'
<1> USE DEF QInv, UInv, UploadTypeOK, UploadAssumption
<1>1. fin[p].todo = {} /\ fin[p].file \in Files /\ p # Sweep
  BY DEF finish, BytesKnown
<1>2. /\ \A q \in Finalizers \ {p} : fin'[q] = fin[q]
      /\ fin'[p].at = "idle"
      /\ \A g \in Files : lock'[g] = IF lock[g] = p THEN None ELSE lock[g]
      /\ UNCHANGED <<object, sweep, backfill, zombies>>
  BY DEF finish, unlock, NoFinalizer
<1>3. /\ \A g \in Files :
           \/ row'[g] = row[g]
           \/ /\ g = fin[p].file /\ fin[p].at = "putting" /\ row[g].status = "pending"
              /\ row'[g].status = "ready"
  BY DEF finish, RowType
<1>4. fin[p].at = "putting" =>
         /\ lock[fin[p].file] = p
         /\ \A k \in Served : object[fin[p].file][k] = "declared"
  BY <1>1 DEF PutsHeld
<1>5. LateFills'
  BY <1>1, <1>2, <1>3, <1>4, CallFields DEF LateFills, BytesKnown
<1>6. FillsReady'
  BY <1>1, <1>2, <1>3, <1>4 DEF FillsReady, BytesKnown
<1>7. PutsHeld'
  <2> SUFFICES ASSUME NEW q \in Finalizers, fin'[q].at = "putting"
               PROVE  /\ lock'[fin'[q].file] = q
                      /\ row'[fin'[q].file].status = "pending"
                      /\ \A k \in Served \ fin'[q].todo :
                           object'[fin'[q].file][k] = "declared"
    BY DEF PutsHeld
  <2>1. q # p /\ fin'[q] = fin[q]
    BY <1>2
  <2>2. /\ fin[q].file \in Files
        /\ lock[fin[q].file] = q /\ row[fin[q].file].status = "pending"
        /\ \A k \in Served \ fin[q].todo : object[fin[q].file][k] = "declared"
    BY <2>1 DEF PutsHeld, BytesKnown
  <2>3. row'[fin[q].file] = row[fin[q].file]
    BY <1>3, <1>4, <2>1, <2>2
  <2> QED BY <1>2, <2>1, <2>2, <2>3
<1>8. SweepHeld'
  BY <1>1, <1>2, <1>3, <1>4 DEF SweepHeld, BytesKnown
<1>9. ReadyIsComplete'
  BY <1>1, <1>2, <1>3, <1>4 DEF ReadyIsComplete, BytesKnown
<1>10. NothingOutlivesTheRow'
  BY <1>1, <1>2, <1>3, <1>4 DEF NothingOutlivesTheRow, BytesKnown
<1> QED BY <1>5, <1>6, <1>7, <1>8, <1>9, <1>10

LEMMA RollBackKeepsQuiet ==
  ASSUME UploadAssumption, ~Zombies, UInv, QInv, NEW p \in Finalizers, rollBack(p)
  PROVE  QInv'
<1> USE DEF QInv, UInv, UploadTypeOK, UploadAssumption
<1>1. /\ \A q \in Finalizers \ {p} : fin'[q] = fin[q]
      /\ fin'[p].at = "idle" /\ p # Sweep
      /\ \A g \in Files : lock'[g] = IF lock[g] = p THEN None ELSE lock[g]
      /\ UNCHANGED <<row, object, sweep, backfill, zombies>>
  BY DEF rollBack, unlock, NoFinalizer, haunt
<1>2. LateFills'
  BY <1>1, CallFields DEF LateFills, BytesKnown
<1>3. FillsReady'
  BY <1>1 DEF FillsReady, BytesKnown
<1>4. PutsHeld'
  BY <1>1 DEF PutsHeld, BytesKnown
<1>5. SweepHeld'
  BY <1>1 DEF SweepHeld, BytesKnown
<1>6. ReadyIsComplete'
  BY <1>1 DEF ReadyIsComplete, BytesKnown
<1>7. NothingOutlivesTheRow'
  BY <1>1 DEF NothingOutlivesTheRow, BytesKnown
<1> QED BY <1>2, <1>3, <1>4, <1>5, <1>6, <1>7

LEMMA ZombieCallsKeepsQuiet ==
  ASSUME UploadAssumption, ~Zombies, UInv, QInv, NEW z \in zombies, zombieCalls(z)
  PROVE  QInv'
<1> USE DEF QInv, UInv, UploadTypeOK, UploadAssumption
<1>1. PICK k \in first(z.todo) :
        /\ store(z.file, k, z.bytes)
        /\ zombies' = (zombies \ {z}) \cup
             (IF z.todo = {k} THEN {} ELSE {[z EXCEPT !.todo = @ \ {k}]})
  BY DEF zombieCalls
<1>2. /\ z \in CallType /\ k \in Derived /\ k \in Served /\ Served \subseteq Keys
      /\ z.file \in Files /\ z.bytes = "declared" /\ "declared" \in Bytes
      /\ row[z.file].status = "ready" /\ z.todo \subseteq Derived
      /\ UNCHANGED <<row, lock, fin, sweep, backfill>>
  BY FirstIsLeft, CallFields DEF zombieCalls, LateFills, Keys, Served, Bytes
<1>3. \A g \in Files, j \in Keys :
         object'[g][j] = IF g = z.file /\ j = k THEN "declared" ELSE object[g][j]
  BY <1>1, <1>2, StoreKeeps
<1>4. zombies' \subseteq zombies \cup {[z EXCEPT !.todo = z.todo \ {k}]}
  BY <1>1
<1>5. \A y \in zombies' :
         \/ y \in zombies
         \/ y.file = z.file /\ y.bytes = z.bytes /\ y.todo \subseteq z.todo
  <2>1. ASSUME NEW y \in zombies', y \notin zombies
        PROVE  y.file = z.file /\ y.bytes = z.bytes /\ y.todo \subseteq z.todo
    <3>1. y = [z EXCEPT !.todo = @ \ {k}]
      BY <1>4, <2>1
    <3> QED BY <1>2, <3>1, CallTodo
  <2> QED BY <2>1
<1>6. LateFills'
  BY <1>1, <1>2, <1>3, <1>4, <1>5, CallFields DEF LateFills, BytesKnown
<1>7. FillsReady'
  BY <1>1, <1>2, <1>3, <1>4, <1>5 DEF FillsReady, BytesKnown
<1>8. PutsHeld'
  BY <1>1, <1>2, <1>3, <1>4, <1>5 DEF PutsHeld, BytesKnown
<1>9. SweepHeld'
  BY <1>1, <1>2, <1>3, <1>4, <1>5 DEF SweepHeld, BytesKnown
<1>10. ReadyIsComplete'
  BY <1>1, <1>2, <1>3, <1>4, <1>5 DEF ReadyIsComplete, BytesKnown
<1>11. NothingOutlivesTheRow'
  BY <1>1, <1>2, <1>3, <1>4, <1>5 DEF NothingOutlivesTheRow, BytesKnown
<1> QED BY <1>6, <1>7, <1>8, <1>9, <1>10, <1>11

LEMMA SweepSelectsKeepsQuiet ==
  ASSUME UploadAssumption, ~Zombies, UInv, QInv, NEW f \in Files, sweepSelects(f)
  PROVE  QInv'
<1> USE DEF QInv, UInv, UploadTypeOK, UploadAssumption
<1>1. /\ sweep.at = "idle" /\ lock[f] = None /\ None \notin Finalizers
      /\ \A g \in Files : lock'[g] = IF g = f THEN Sweep ELSE lock[g]
      /\ UNCHANGED <<row, object, fin, backfill, zombies>>
  BY DEF sweepSelects
<1>2. \/ /\ row[f].status = "pending" /\ row[f].old
         /\ sweep' = [at |-> "abandoned", file |-> f, todo |-> Keys]
      \/ /\ row[f].status = "ready"
         /\ sweep' = [at |-> "leftover", file |-> f, todo |-> {"staging"}]
  BY DEF sweepSelects, abandonedKeys, leftover
<1>3. LateFills'
  BY <1>1, <1>2, CallFields DEF LateFills, BytesKnown
<1>4. FillsReady'
  BY <1>1, <1>2 DEF FillsReady, BytesKnown
<1>5. PutsHeld'
  BY <1>1, <1>2 DEF PutsHeld, BytesKnown
<1>6. SweepHeld'
  BY <1>1, <1>2 DEF SweepHeld, BytesKnown
<1>7. ReadyIsComplete'
  BY <1>1, <1>2 DEF ReadyIsComplete, BytesKnown
<1>8. NothingOutlivesTheRow'
  BY <1>1, <1>2 DEF NothingOutlivesTheRow, BytesKnown
<1> QED BY <1>3, <1>4, <1>5, <1>6, <1>7, <1>8

LEMMA SweepDeletesKeepsQuiet ==
  ASSUME UploadAssumption, ~Zombies, UInv, QInv, sweepDeletes
  PROVE  QInv'
<1> USE DEF QInv, UInv, UploadTypeOK, UploadAssumption
<1>1. PICK k \in first(sweep.todo) :
        /\ store(sweep.file, k, None)
        /\ sweep' = [sweep EXCEPT !.todo = @ \ {k}]
  BY DEF sweepDeletes
<1>2. /\ k \in sweep.todo /\ k \in Keys /\ Served \subseteq Keys /\ sweep.file \in Files
      /\ "staging" \notin Served /\ sweep.at \in {"abandoned", "leftover"}
      /\ Sweep \notin Finalizers
      /\ UNCHANGED <<row, lock, fin, backfill, zombies>>
  BY FirstIsLeft, SweepFields DEF sweepDeletes, BytesKnown, Keys, Served, SweepHeld, SweepType
<1>3. \A g \in Files, j \in Keys :
         object'[g][j] = IF g = sweep.file /\ j = k THEN None ELSE object[g][j]
  BY <1>1, <1>2, StoreKeeps
<1>4. /\ sweep'.at = sweep.at /\ sweep'.file = sweep.file
      /\ sweep'.todo = sweep.todo \ {k}
  BY <1>1 DEF SweepType
<1>5. /\ lock[sweep.file] = Sweep
      /\ \/ row[sweep.file].status = "pending"
         \/ row[sweep.file].status = "ready" /\ k = "staging"
  BY <1>2 DEF SweepHeld
<1>6. LateFills'
  BY <1>1, <1>2, <1>3, <1>4, <1>5, CallFields DEF LateFills, BytesKnown
<1>7. FillsReady'
  BY <1>1, <1>2, <1>3, <1>4, <1>5 DEF FillsReady, BytesKnown
<1>8. PutsHeld'
  BY <1>1, <1>2, <1>3, <1>4, <1>5 DEF PutsHeld, BytesKnown
<1>9. SweepHeld'
  BY <1>1, <1>2, <1>3, <1>4, <1>5 DEF SweepHeld, BytesKnown
<1>10. ReadyIsComplete'
  BY <1>1, <1>2, <1>3, <1>4, <1>5 DEF ReadyIsComplete, BytesKnown
<1>11. NothingOutlivesTheRow'
  BY <1>1, <1>2, <1>3, <1>4, <1>5 DEF NothingOutlivesTheRow, BytesKnown
<1> QED BY <1>6, <1>7, <1>8, <1>9, <1>10, <1>11

LEMMA SweepCommitsKeepsQuiet ==
  ASSUME UploadAssumption, ~Zombies, UInv, QInv, sweepCommits
  PROVE  QInv'
<1> USE DEF QInv, UInv, UploadTypeOK, UploadAssumption
<1>1. /\ sweep.at # "idle" /\ sweep.todo = {} /\ sweep'.at = "idle" /\ sweep'.todo = {}
      /\ sweep.file \in Files /\ lock[sweep.file] = Sweep /\ Sweep \notin Finalizers
      /\ sweep.at \in {"abandoned", "leftover"}
      /\ \A g \in Files : lock'[g] = IF lock[g] = Sweep THEN None ELSE lock[g]
      /\ UNCHANGED <<object, fin, backfill, zombies>>
  BY DEF sweepCommits, NoSweep, unlock, BytesKnown, SweepHeld, SweepType
<1>2. \A g \in Files : row'[g].status =
         IF g = sweep.file /\ sweep.at = "abandoned" THEN "deleted" ELSE row[g].status
  BY <1>1 DEF sweepCommits, sweptRow, RowType
<1>3. sweep.at = "abandoned" =>
         /\ row[sweep.file].status = "pending"
         /\ \A k \in Keys : object[sweep.file][k] = None
  BY <1>1 DEF SweepHeld
<1>4. LateFills'
  BY <1>1, <1>2, <1>3, CallFields DEF LateFills, BytesKnown
<1>5. FillsReady'
  BY <1>1, <1>2, <1>3 DEF FillsReady, BytesKnown
<1>6. PutsHeld'
  BY <1>1, <1>2, <1>3 DEF PutsHeld, BytesKnown
<1>7. SweepHeld'
  BY <1>1, <1>2, <1>3 DEF SweepHeld, BytesKnown
<1>8. ReadyIsComplete'
  BY <1>1, <1>2, <1>3 DEF ReadyIsComplete, BytesKnown
<1>9. NothingOutlivesTheRow'
  BY <1>1, <1>2, <1>3 DEF NothingOutlivesTheRow, BytesKnown
<1> QED BY <1>4, <1>5, <1>6, <1>7, <1>8, <1>9

LEMMA SweepRollsBackKeepsQuiet ==
  ASSUME UploadAssumption, ~Zombies, UInv, QInv, sweepRollsBack
  PROVE  QInv'
<1> USE DEF QInv, UInv, UploadTypeOK, UploadAssumption
<1>1. /\ sweep.at # "idle" /\ sweep'.at = "idle" /\ sweep'.todo = {}
      /\ Sweep \notin Finalizers
      /\ \A g \in Files : lock'[g] = IF lock[g] = Sweep THEN None ELSE lock[g]
      /\ UNCHANGED <<row, object, fin, backfill, zombies>>
  BY DEF sweepRollsBack, NoSweep, unlock, haunt
<1>2. LateFills'
  BY <1>1, CallFields DEF LateFills, BytesKnown
<1>3. FillsReady'
  BY <1>1 DEF FillsReady, BytesKnown
<1>4. PutsHeld'
  BY <1>1 DEF PutsHeld, BytesKnown
<1>5. SweepHeld'
  BY <1>1 DEF SweepHeld, BytesKnown
<1>6. ReadyIsComplete'
  BY <1>1 DEF ReadyIsComplete, BytesKnown
<1>7. NothingOutlivesTheRow'
  BY <1>1 DEF NothingOutlivesTheRow, BytesKnown
<1> QED BY <1>2, <1>3, <1>4, <1>5, <1>6, <1>7

LEMMA BackfillInspectsKeepsQuiet ==
  ASSUME UploadAssumption, ~Zombies, UInv, QInv, NEW f \in Files, backfillInspects(f)
  PROVE  QInv'
<1> USE DEF QInv, UInv, UploadTypeOK, UploadAssumption
<1>1. /\ row[f].status = "ready" /\ backfill'.file = f
      /\ UNCHANGED <<row, object, lock, fin, sweep, zombies>>
  BY DEF backfillInspects
<1>2. LateFills'
  BY <1>1, CallFields DEF LateFills, BytesKnown
<1>3. FillsReady'
  BY <1>1 DEF FillsReady, BytesKnown
<1>4. PutsHeld'
  BY <1>1 DEF PutsHeld, BytesKnown
<1>5. SweepHeld'
  BY <1>1 DEF SweepHeld, BytesKnown
<1>6. ReadyIsComplete'
  BY <1>1 DEF ReadyIsComplete, BytesKnown
<1>7. NothingOutlivesTheRow'
  BY <1>1 DEF NothingOutlivesTheRow, BytesKnown
<1> QED BY <1>2, <1>3, <1>4, <1>5, <1>6, <1>7

LEMMA BackfillPutsKeepsQuiet ==
  ASSUME UploadAssumption, ~Zombies, UInv, QInv, backfillPuts
  PROVE  QInv'
<1> USE DEF QInv, UInv, UploadTypeOK, UploadAssumption
<1>1. PICK k \in backfill.todo :
        /\ store(backfill.file, k, backfill.bytes)
        /\ backfill' = IF backfill.todo = {k} THEN NoBackfill
                       ELSE [backfill EXCEPT !.todo = @ \ {k}]
  BY DEF backfillPuts
<1>2. /\ k \in Served /\ Served \subseteq Keys
      /\ backfill.file \in Files /\ backfill.bytes = "declared" /\ "declared" \in Bytes
      /\ row[backfill.file].status = "ready"
      /\ UNCHANGED <<row, lock, fin, sweep, zombies>>
  BY BackfillFields DEF backfillPuts, BytesKnown, FillsReady, Keys, Served, Bytes
<1>3. \A g \in Files, j \in Keys :
         object'[g][j] = IF g = backfill.file /\ j = k THEN "declared" ELSE object[g][j]
  BY <1>1, <1>2, StoreKeeps
<1>4. backfill'.todo # {} => backfill'.file = backfill.file
  BY <1>1 DEF NoBackfill, BackfillType
<1>5. LateFills'
  BY <1>1, <1>2, <1>3, <1>4, CallFields DEF LateFills, BytesKnown
<1>6. FillsReady'
  BY <1>1, <1>2, <1>3, <1>4 DEF FillsReady, BytesKnown
<1>7. PutsHeld'
  BY <1>1, <1>2, <1>3, <1>4 DEF PutsHeld, BytesKnown
<1>8. SweepHeld'
  BY <1>1, <1>2, <1>3, <1>4 DEF SweepHeld, BytesKnown
<1>9. ReadyIsComplete'
  BY <1>1, <1>2, <1>3, <1>4 DEF ReadyIsComplete, BytesKnown
<1>10. NothingOutlivesTheRow'
  BY <1>1, <1>2, <1>3, <1>4 DEF NothingOutlivesTheRow, BytesKnown
<1> QED BY <1>5, <1>6, <1>7, <1>8, <1>9, <1>10

LEMMA BackfillFailsKeepsQuiet ==
  ASSUME UploadAssumption, ~Zombies, UInv, QInv, backfillFails
  PROVE  QInv'
<1> USE DEF QInv, UInv, UploadTypeOK, UploadAssumption
<1>1. /\ backfill'.todo = {}
      /\ UNCHANGED <<row, object, lock, fin, sweep>>
  BY DEF backfillFails, NoBackfill
<1>2. \A z \in zombies' :
         \/ z \in zombies
         \/ /\ z.file = backfill.file /\ z.bytes = backfill.bytes
            /\ z.todo \subseteq backfill.todo /\ backfill.todo # {}
  BY DEF backfillFails
<1>3. backfill.todo # {} => /\ backfill.bytes = "declared" /\ backfill.todo \subseteq Derived
                               /\ row[backfill.file].status = "ready"
  BY BackfillFields DEF BytesKnown, FillsReady
<1>4. LateFills'
  BY <1>1, <1>2, <1>3, CallFields DEF LateFills, BytesKnown
<1>5. FillsReady'
  BY <1>1, <1>2, <1>3 DEF FillsReady, BytesKnown
<1>6. PutsHeld'
  BY <1>1, <1>2, <1>3 DEF PutsHeld, BytesKnown
<1>7. SweepHeld'
  BY <1>1, <1>2, <1>3 DEF SweepHeld, BytesKnown
<1>8. ReadyIsComplete'
  BY <1>1, <1>2, <1>3 DEF ReadyIsComplete, BytesKnown
<1>9. NothingOutlivesTheRow'
  BY <1>1, <1>2, <1>3 DEF NothingOutlivesTheRow, BytesKnown
<1> QED BY <1>4, <1>5, <1>6, <1>7, <1>8, <1>9

LEMMA InitQInv ==
  ASSUME UploadAssumption, UploadInit
  PROVE  QInv
BY UploadAssumption
   DEF UploadAssumption, UploadInit, QInv, LateFills, FillsReady, PutsHeld, SweepHeld,
       ReadyIsComplete, NothingOutlivesTheRow, NoFinalizer, NoSweep, NoBackfill

LEMMA NextKeepsQInv ==
  ASSUME UploadAssumption, ~Zombies, UInv, QInv, [UploadNext]_uploadVars
  PROVE  QInv'
<1>1. CASE UNCHANGED uploadVars
  BY <1>1 DEF uploadVars, QInv, LateFills, FillsReady, PutsHeld, SweepHeld,
              ReadyIsComplete, NothingOutlivesTheRow
<1>2. ASSUME NEW f \in Files, client(f)
      PROVE  QInv'
  BY <1>2, RequestUploadKeepsQuiet, PutObjectKeepsQuiet, PassesCutoffKeepsQuiet DEF client
<1>3. ASSUME NEW p \in Finalizers, finalize(p)
      PROVE  QInv'
  BY <1>3, ReadStagingKeepsQuiet, FinalizeReadyKeepsQuiet, LockPendingKeepsQuiet,
     LockRefusedKeepsQuiet, LockReadyKeepsQuiet, PutNextKeepsQuiet, FinishKeepsQuiet,
     RollBackKeepsQuiet DEF finalize
<1>4. CASE maintain
  BY <1>4, SweepSelectsKeepsQuiet, SweepDeletesKeepsQuiet, SweepCommitsKeepsQuiet,
     SweepRollsBackKeepsQuiet, BackfillInspectsKeepsQuiet, BackfillPutsKeepsQuiet,
     BackfillFailsKeepsQuiet DEF maintain
<1>5. ASSUME NEW z \in zombies, zombieCalls(z)
      PROVE  QInv'
  BY <1>5, ZombieCallsKeepsQuiet
<1> QED BY <1>1, <1>2, <1>3, <1>4, <1>5 DEF UploadNext

(* Only the declared bytes reach the keys that are served, whatever        *)
(* handlers do after their transaction is gone; and where none does, a     *)
(* ready image is complete and no object outlives a deleted row            *)
(* (finalizeStaffUpload, runAbandonedUploadSweep, the backfill).           *)
THEOREM UploadsAreSound == UploadAssumption => (UploadSpec => []UploadSound)
<1> SUFFICES ASSUME UploadAssumption PROVE UploadSpec => []UploadSound
  OBVIOUS
<1>1. UploadSpec => []UInv
  BY InitUInv, NextKeepsUInv, PTL DEF UploadSpec
<1>2. CASE Zombies
  <2>1. UInv => UploadSound
    BY <1>2 DEF UInv, UploadSound
  <2> QED BY <1>1, <2>1, PTL
<1>3. CASE ~Zombies
  <2>1. UploadInit => QInv
    BY InitQInv
  <2>2. UInv /\ QInv /\ [UploadNext]_uploadVars => QInv'
    BY <1>3, NextKeepsQInv
  <2>3. UInv /\ QInv => UploadSound
    BY DEF UInv, QInv, UploadSound
  <2> QED BY <1>1, <2>1, <2>2, <2>3, PTL DEF UploadSpec
<1> QED BY <1>2, <1>3

=============================================================================
