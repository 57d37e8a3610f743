------------------------ MODULE AssistantTurnProofs ------------------------
(***************************************************************************)
(* The turns of a conversation, proved for any number of commands,         *)
(* requests, runs and faults (AssistantTurn): TurnsSound holds in every    *)
(* reachable state, and no step reopens or writes an ended turn.  And the  *)
(* thread of messages that a phone shows of them (AssistantThread): at     *)
(* rest it shows no turn and every message, and it takes nothing back.     *)
(* The two share no state; the second part has its own inductive           *)
(* invariant, ThreadInv.                                                   *)
(***************************************************************************)
EXTENDS AssistantTurn, AssistantThread, WellFoundedInduction, TLAPS

(* The inductive invariant, of one turn at a time.                         *)

(* A turn is stored with its message, which stays in the log.              *)
Stored(c) ==
    /\ turn[c].status = "none" =>
          msg[c].text = "none" /\ job[c] = "none" /\ turn[c].root = c
    /\ turn[c].status # "none" =>
          msg[c].text # "none" /\ \E i \in 1 .. Len(log) : log[i] = c

(* A job has a run only once it was fetched.                               *)
Fetched(c) == job[c] \in {"none", "created"} => body[c].pc = "none"

(* Where a run has not reached the model, and where its turn was started.  *)
Unreached == {"none", "read", "start", "bind", "ready", "release"}
Working == {"bind", "ready", "run", "write", "store", "stored", "save",
            "finish", "release"}
Started(c) ==
    /\ body[c].pc \in Unreached => ~body[c].reached
    /\ body[c].pc \in Working \/ body[c].reached =>
          turn[c].status \in {"running"} \cup Final
    /\ body[c].pc = "release" => turn[c].status \in Final

(* A hold is given back, or about to be, only after the turn has ended,    *)
(* when its run can no longer reach the model.                             *)
Unused(c) ==
    c \in released \/ rec[c].pc = "release" =>
        /\ turn[c].status \in Final
        /\ ~body[c].reached
        /\ body[c].pc \in {"none", "read", "start", "release", "end", "dead"}

(* Recovery follows the end of the turn, and replaces a streaming text     *)
(* only.                                                                   *)
Recovers(c) ==
    /\ rec[c].pc # "none" => turn[c].status \in Final
    /\ rec[c].pc = "store" =>
          /\ rec[c].seen <= msg[c].rev
          /\ rec[c].seen = msg[c].rev => msg[c].text = "streaming"

(* The text ended, or a newer message has taken its place.                 *)
TextOver(c) == msg[c].text # "streaming" \/ ~IsLatest(c)

(* What a run that still holds its turn reports is what is stored.         *)
Reported(c) ==
    /\ body[c].want = "streaming" => body[c].pc \in {"finish", "release"}
    /\ body[c].failed =>
          /\ body[c].op = "end"
          /\ body[c].pc \in {"write", "store", "stored", "finish", "release"}
    /\ turn[c].status = "running" =>
          /\ body[c].pc = "stored" => TextOver(c)
          /\ body[c].pc = "finish" =>
                /\ body[c].want = "complete" => msg[c].text = "complete"
                /\ body[c].want = "error" => TextOver(c)
                /\ Fault = {} => TextOver(c)

Replied(c) ==
    /\ turn[c].status = "done" => msg[c].text = "complete"
    /\ turn[c].status = "failed" => TextOver(c)

(* Without faults, a text that an ended turn left streaming is in the      *)
(* hands of recovery.                                                      *)
Settles(c) ==
    Fault = {} /\ turn[c].status \in Final /\ ~TextOver(c) =>
        rec[c].pc \in {"release", "bind", "write", "store"}

TurnInv(c) ==
    /\ Stored(c) /\ Fetched(c) /\ Started(c) /\ Unused(c) /\ Recovers(c)
    /\ Reported(c) /\ Replied(c) /\ Settles(c)

(* A request that is about to store a continuation continues a turn that   *)
(* was interrupted and continues nothing itself.                           *)
FirstOfChain(d) == turn[d].status = "interrupted" /\ turn[d].root = d
RequestInv(r) ==
    /\ req[r].pc \in {"insert", "raced"} => req[r].cmd \in Command
    /\ req[r].pc = "insert" /\ req[r].root # None => FirstOfChain(req[r].root)

CInv ==
    /\ TypeOK
    /\ \A c \in Command : TurnInv(c)
    /\ RootsAreFirst
    /\ \A r \in Request : RequestInv(r)

----------------------------------------------------------------------------
(* Facts about the operators.                                              *)

BodyRec == [pc : {"none", "read", "start", "bind", "ready", "run", "write", "store",
                  "stored", "save", "finish", "release", "end", "dead"},
            op : {"card", "text", "part", "end"},
            want : Texts \ {"none"}, seen : Nat, cards : 0 .. MaxCards,
            pause : {"no", "open", "refused"}, aborted : BOOLEAN,
            reached : BOOLEAN, failed : BOOLEAN]
TurnRec == [status : {"none"} \cup Active \cup Final, late : BOOLEAN, root : Command]

LEMMA NoBodyType == ASSUME TurnAssumption PROVE NoBody \in BodyRec
BY DEF NoBody, BodyRec, Texts, TurnAssumption

LEMMA BodyTyped == ASSUME TypeOK, NEW c \in Command PROVE body[c] \in BodyRec
BY DEF TypeOK, BodyRec

(* The end of a run: what it leaves.                                       *)
LEMMA BodyChange ==
  ASSUME TurnAssumption, TypeOK, NEW c \in Command, NEW b \in BodyRec, Body(c, b)
  PROVE  /\ body' \in [Command -> BodyRec]
         /\ \A d \in Command : d # c => body'[d] = body[d]
         /\ body'[c].pc = b.pc /\ body'[c].reached = b.reached
         /\ b.pc \notin {"end", "dead"} => body'[c] = b
         /\ b.pc \in {"end", "dead"} => body'[c].want = "complete" /\ ~body'[c].failed
<1> DEFINE e == [NoBody EXCEPT !.pc = b.pc, !.reached = b.reached]
           n == IF b.pc \in {"end", "dead"} THEN e ELSE b
<1>1. body \in [Command -> BodyRec]
  BY DEF TypeOK, BodyRec
<1>2. /\ e \in BodyRec /\ e.pc = b.pc /\ e.reached = b.reached
      /\ e.want = "complete" /\ ~e.failed
  BY NoBodyType DEF NoBody, BodyRec
<1>3. n \in BodyRec /\ n.pc = b.pc /\ n.reached = b.reached
  BY <1>2
<1>4. body' = [body EXCEPT ![c] = n]
  BY DEF Body
<1>5. body'[c] = n /\ (\A d \in Command : d # c => body'[d] = body[d])
  BY <1>1, <1>4
<1>6. body' \in [Command -> BodyRec]
  BY <1>1, <1>3, <1>4
<1> QED BY <1>2, <1>3, <1>5, <1>6

(* Nothing that TurnInv(d) is about has changed, but that a newer message  *)
(* may have come.                                                          *)
Same(d) ==
    /\ turn'[d] = turn[d] /\ msg'[d] = msg[d] /\ job'[d] = job[d]
    /\ body'[d] = body[d] /\ rec'[d] = rec[d]
    /\ d \in released' <=> d \in released

LEMMA SameKeeps ==
  ASSUME NEW d \in Command, TurnInv(d), Same(d), UNCHANGED log
  PROVE  TurnInv(d)'
BY DEF TurnInv, Same, Stored, Fetched, Started, Unused, Recovers, Reported,
       Replied, Settles, TextOver, IsLatest

(* The turn that continuations start from stays as it is.                  *)
RootsKept ==
    \A d \in Command :
        /\ turn'[d].root = turn[d].root
        /\ turn[d].status = "interrupted" => turn'[d].status = "interrupted"

LEMMA RootsKeep ==
  ASSUME TypeOK, RootsAreFirst, \A r \in Request : RequestInv(r), RootsKept, UNCHANGED req
  PROVE  RootsAreFirst' /\ \A r \in Request : RequestInv(r)'
<1>1. \A d \in Command : turn[d].root \in Command
  BY DEF TypeOK
<1>2. \A r \in Request : req[r].root # None => req[r].root \in Command
  BY DEF TypeOK
<1>3. RootsAreFirst'
  BY <1>1 DEF RootsAreFirst, RootsKept
<1>4. \A r \in Request : RequestInv(r)'
  BY <1>2 DEF RequestInv, FirstOfChain, RootsKept
<1> QED BY <1>3, <1>4

(* A step on one turn.                                                     *)
LEMMA StepOnOne ==
  ASSUME CInv, TypeOK', NEW c \in Command, \A d \in Command : d # c => Same(d),
         UNCHANGED <<log, req>>, RootsKept, TurnInv(c)'
  PROVE  CInv'
<1>1. \A d \in Command : TurnInv(d)'
  BY SameKeeps DEF CInv
<1>2. RootsAreFirst' /\ \A r \in Request : RequestInv(r)'
  BY RootsKeep DEF CInv
<1> QED BY <1>1, <1>2 DEF CInv

----------------------------------------------------------------------------
(* The run of a job.                                                       *)

(* A run may go on as b.                                                   *)
Fits(c, b) ==
    /\ b.pc # "none"
    /\ b.pc \in Unreached => ~b.reached
    /\ b.pc \in Working \/ b.reached => turn[c].status \in {"running"} \cup Final
    /\ b.pc = "release" => turn[c].status \in Final
    /\ c \in released \/ rec[c].pc = "release" =>
          /\ ~b.reached
          /\ b.pc \in {"read", "start", "release", "end", "dead"}
    /\ b.want = "streaming" => b.pc \in {"finish", "release", "end", "dead"}
    /\ b.failed => /\ b.op = "end"
                   /\ b.pc \in {"write", "store", "stored", "finish", "release",
                                "end", "dead"}
    /\ turn[c].status = "running" =>
          /\ b.pc = "stored" => TextOver(c)
          /\ b.pc = "finish" => /\ b.want = "complete" => msg[c].text = "complete"
                                /\ b.want = "error" => TextOver(c)
                                /\ Fault = {} => TextOver(c)

JobStates == {"none", "created", "active", "failed", "completed"}

LEMMA RunStep ==
  ASSUME TurnAssumption, CInv, NEW c \in Command, NEW b \in BodyRec, Body(c, b),
         Fits(c, b), UNCHANGED <<turn, msg, log, listed, rec, released, req>>,
         history' \in Command \cup {None}, card' \in BOOLEAN, faults' \in 0 .. MaxFaults,
         exhausted' \in [Command -> {"none", "created", "done"}],
         job' \in [Command -> JobStates], job[c] # "none", job'[c] \notin {"none", "created"},
         \A d \in Command : d # c => job'[d] = job[d]
  PROVE  CInv'
<1>1. TypeOK
  BY DEF CInv
<1>2. /\ body' \in [Command -> BodyRec]
      /\ \A d \in Command : d # c => body'[d] = body[d]
      /\ body'[c].pc = b.pc /\ body'[c].reached = b.reached
      /\ b.pc \notin {"end", "dead"} => body'[c] = b
      /\ b.pc \in {"end", "dead"} => body'[c].want = "complete" /\ ~body'[c].failed
  BY <1>1, BodyChange
<1>3. TypeOK'
  BY <1>1, <1>2 DEF TypeOK, BodyRec, JobStates
<1>4. TurnInv(c)
  BY DEF CInv
<1>5. Stored(c)' /\ Fetched(c)' /\ Recovers(c)' /\ Replied(c)' /\ Settles(c)'
  <2>2. turn[c].status # "none"
    BY <1>4 DEF TurnInv, Stored
  <2> QED
    BY <1>4, <2>2 DEF TurnInv, Stored, Fetched, Recovers, Replied, Settles, TextOver,
                      IsLatest
<1>6. Started(c)' /\ Unused(c)'
  BY <1>2, <1>4 DEF TurnInv, Started, Unused, Fits
<1>7. Reported(c)'
  BY <1>2, <1>4 DEF TurnInv, Reported, Fits, TextOver, IsLatest
<1>8. TurnInv(c)' /\ RootsKept
  BY <1>5, <1>6, <1>7 DEF TurnInv, RootsKept
<1> QED BY <1>2, <1>3, <1>8, StepOnOne DEF Same

(* A run that has been fetched has a job, and settling it is all that      *)
(* happens to the job.                                                     *)
LEMMA JobSettles ==
  ASSUME CInv, NEW c \in Command, body[c].pc # "none",
         \/ UNCHANGED job
         \/ JobDone(c)
         \/ job' = [job EXCEPT ![c] = IF @ = "active" THEN "failed" ELSE @]
  PROVE  /\ job' \in [Command -> JobStates] /\ job[c] # "none"
         /\ job'[c] \notin {"none", "created"}
         /\ \A d \in Command : d # c => job'[d] = job[d]
<1>1. job \in [Command -> JobStates] /\ job[c] \notin {"none", "created"}
  BY DEF CInv, TypeOK, JobStates, TurnInv, Fetched
<1>2. CASE UNCHANGED job
  BY <1>1, <1>2
<1>3. CASE JobDone(c)
  BY <1>1, <1>3 DEF JobDone, JobStates
<1>4. CASE job' = [job EXCEPT ![c] = IF @ = "active" THEN "failed" ELSE @]
  BY <1>1, <1>4 DEF JobStates
<1> QED BY <1>2, <1>3, <1>4

LEMMA FaultCounted ==
  ASSUME CInv, TurnAssumption, NEW f, Fails(f)
  PROVE  faults' \in 0 .. MaxFaults /\ Fault # {}
BY DEF CInv, TypeOK, Fails, TurnAssumption

LEMMA FailJobTyped ==
  ASSUME CInv, NEW c \in Command, FailJob(c)
  PROVE  exhausted' \in [Command -> {"none", "created", "done"}]
BY DEF CInv, TypeOK, FailJob

(* The catch of a run that works: its text is to end, or it has been tried *)
(* already.                                                                *)
LEMMA CaughtFits ==
  ASSUME CInv, NEW c \in Command,
         body[c].pc \in {"ready", "run", "save", "write", "store"},
         turn[c].status = "running" /\ Fault = {} /\ body[c].failed => TextOver(c)
  PROVE  Caught(body[c]) \in BodyRec /\ Fits(c, Caught(body[c]))
<1> DEFINE b == body[c]
<1>1. b \in BodyRec /\ TurnInv(c)
  BY BodyTyped DEF CInv
<1>2. CASE b.failed
  <2>1. Caught(b) = [b EXCEPT !.pc = "finish", !.want = "interrupted"]
    BY <1>2 DEF Caught
  <2>2. /\ Caught(b) \in BodyRec /\ Caught(b).pc = "finish"
        /\ Caught(b).want = "interrupted" /\ Caught(b).op = b.op
        /\ Caught(b).reached = b.reached /\ Caught(b).failed = b.failed
    BY <1>1, <2>1 DEF BodyRec, Texts
  <2> QED BY <1>1, <1>2, <2>2 DEF Fits, TurnInv, Started, Unused, Reported, Working, Unreached
<1>3. CASE ~b.failed
  <2>1. Caught(b) = [b EXCEPT !.pc = "write", !.op = "end", !.want = "interrupted",
                              !.failed = TRUE]
    BY <1>3 DEF Caught
  <2>2. /\ Caught(b) \in BodyRec /\ Caught(b).pc = "write" /\ Caught(b).op = "end"
        /\ Caught(b).want = "interrupted" /\ Caught(b).reached = b.reached
    BY <1>1, <2>1 DEF BodyRec, Texts
  <2> QED BY <1>1, <2>2 DEF Fits, TurnInv, Started, Unused, Reported, Working, Unreached
<1> QED BY <1>2, <1>3

LEMMA EndTextFits ==
  ASSUME CInv, NEW c \in Command, NEW b \in BodyRec,
         turn[c].status \in {"running"} \cup Final, ~b.failed,
         ~(c \in released \/ rec[c].pc = "release")
  PROVE  EndText(b) \in BodyRec /\ Fits(c, EndText(b))
<1>1. /\ EndText(b) \in BodyRec /\ EndText(b).pc = "write" /\ EndText(b).op = "end"
      /\ EndText(b).want \in {"error", "complete"} /\ EndText(b).reached = b.reached
      /\ EndText(b).failed = b.failed
  BY DEF EndText, BodyRec, Texts
<1> QED BY <1>1 DEF Fits, Unreached

(* A step that only moves the run on.                                      *)
Moves ==
    /\ UNCHANGED <<turn, log, exhausted, listed, rec, released, req, msg>>
    /\ history' \in Command \cup {None} /\ card' \in BOOLEAN
    /\ faults' \in 0 .. MaxFaults

LEMMA MoveKeeps ==
  ASSUME TurnAssumption, CInv, NEW c \in Command, body[c].pc # "none",
         NEW b \in BodyRec, Body(c, b), Fits(c, b), Moves, UNCHANGED job \/ JobDone(c)
  PROVE  CInv'
<1>1. exhausted' \in [Command -> {"none", "created", "done"}]
  BY DEF CInv, TypeOK, Moves
<1> QED BY <1>1, JobSettles, RunStep DEF Moves

LEMMA FetchKeeps ==
  ASSUME TurnAssumption, CInv, NEW c \in Command, fetchJob(c)
  PROVE  CInv'
<1> DEFINE b == [NoBody EXCEPT !.pc = "read"]
<1>1. b \in BodyRec /\ b.pc = "read" /\ ~b.reached /\ b.want = "complete" /\ ~b.failed
  BY NoBodyType DEF NoBody, BodyRec
<1>2. Body(c, b)
  BY DEF fetchJob
<1> HIDE DEF b
<1>3. Fits(c, b)
  BY <1>1 DEF Fits, Working
<1>4. /\ job' \in [Command -> JobStates] /\ job[c] # "none"
      /\ job'[c] \notin {"none", "created"}
      /\ \A d \in Command : d # c => job'[d] = job[d]
  BY DEF CInv, TypeOK, JobStates, fetchJob
<1>5. /\ UNCHANGED <<turn, msg, log, listed, rec, released, req>>
      /\ history' \in Command \cup {None} /\ card' \in BOOLEAN
      /\ faults' \in 0 .. MaxFaults
      /\ exhausted' \in [Command -> {"none", "created", "done"}]
  BY DEF CInv, TypeOK, fetchJob
<1> QED BY <1>1, <1>2, <1>3, <1>4, <1>5, RunStep

(* The run is over: nothing more is asked of it.                           *)
LEMMA EndFits ==
  ASSUME CInv, NEW c \in Command, NEW pc \in {"end", "dead"}, body[c].pc # "none"
  PROVE  /\ [body[c] EXCEPT !.pc = pc] \in BodyRec
         /\ Fits(c, [body[c] EXCEPT !.pc = pc])
<1> DEFINE b == [body[c] EXCEPT !.pc = pc]
<1>1. body[c] \in BodyRec /\ TurnInv(c)
  BY BodyTyped DEF CInv
<1>2. /\ b \in BodyRec /\ b.pc = pc /\ b.reached = body[c].reached
      /\ b.op = body[c].op /\ b.failed = body[c].failed
  BY <1>1 DEF BodyRec
<1> HIDE DEF b
<1>3. Fits(c, b)
  BY <1>1, <1>2 DEF Fits, TurnInv, Started, Unused, Reported, Unreached, Working
<1> QED BY <1>2, <1>3 DEF b

LEMMA QuietMoves ==
  ASSUME CInv, UNCHANGED <<turn, log, exhausted, listed, rec, released, req, msg>>,
         UNCHANGED history \/ history' \in Command, UNCHANGED card,
         UNCHANGED faults \/ faults' \in 0 .. MaxFaults
  PROVE  Moves
BY DEF CInv, TypeOK, Moves

LEMMA ReadKeeps ==
  ASSUME TurnAssumption, CInv, NEW c \in Command, readTurnForJob(c)
  PROVE  CInv'
<1>1. body[c].pc = "read" /\ body[c] \in BodyRec /\ TurnInv(c)
  BY BodyTyped DEF CInv, readTurnForJob, At
<1>2. Moves
  BY QuietMoves DEF readTurnForJob, RowUnchanged
<1>3. CASE turn[c].status = "queued"
  <2> DEFINE b == [body[c] EXCEPT !.pc = "start"]
  <2>1. /\ b \in BodyRec /\ b.pc = "start" /\ b.reached = body[c].reached
        /\ b.want = body[c].want /\ b.failed = body[c].failed
    BY <1>1 DEF BodyRec
  <2>2. Body(c, b) /\ UNCHANGED job
    BY <1>3 DEF readTurnForJob
  <2> HIDE DEF b
  <2>3. Fits(c, b)
    BY <1>1, <2>1 DEF Fits, TurnInv, Started, Unused, Reported, Unreached, Working
  <2> QED BY <1>1, <1>2, <2>1, <2>2, <2>3, MoveKeeps
<1>4. CASE turn[c].status # "queued"
  BY <1>1, <1>2, <1>4, EndFits, MoveKeeps DEF readTurnForJob
<1> QED BY <1>3, <1>4

LEMMA BindKeeps ==
  ASSUME TurnAssumption, CInv, NEW c \in Command, placeholderBind(c)
  PROVE  CInv'
<1> DEFINE ready == [body[c] EXCEPT !.pc = "ready"]
           over == [body[c] EXCEPT !.pc = "finish", !.want = "interrupted"]
<1>1. body[c].pc = "bind" /\ body[c] \in BodyRec /\ TurnInv(c)
  BY BodyTyped DEF CInv, placeholderBind, At
<1>2. Moves /\ UNCHANGED job
  BY QuietMoves, FaultCounted DEF placeholderBind, RowUnchanged
<1>3. /\ ready \in BodyRec /\ ready.pc = "ready" /\ ready.reached = body[c].reached
      /\ ready.want = body[c].want /\ ready.failed = body[c].failed
      /\ over \in BodyRec /\ over.pc = "finish" /\ over.reached = body[c].reached
      /\ over.want = "interrupted" /\ over.failed = body[c].failed
  BY <1>1 DEF BodyRec, Texts
<1>4. \/ Body(c, ready)
      \/ Body(c, over) /\ (~IsLatest(c) \/ Fault # {})
  BY FaultCounted DEF placeholderBind
<1> HIDE DEF ready, over
<1>5. Fits(c, ready)
  BY <1>1, <1>3 DEF Fits, TurnInv, Started, Unused, Reported, Unreached, Working
<1>6. ~IsLatest(c) \/ Fault # {} => Fits(c, over)
  BY <1>1, <1>3 DEF Fits, TurnInv, Started, Unused, Reported, Unreached, Working, TextOver
<1> QED BY <1>1, <1>2, <1>3, <1>4, <1>5, <1>6, MoveKeeps

LEMMA ReachKeeps ==
  ASSUME TurnAssumption, CInv, NEW c \in Command, reachModel(c)
  PROVE  CInv'
<1> DEFINE b == [body[c] EXCEPT !.pc = "run", !.reached = TRUE]
<1>1. body[c].pc = "ready" /\ body[c] \in BodyRec /\ TurnInv(c)
  BY BodyTyped DEF CInv, reachModel, At
<1>2. Moves /\ UNCHANGED job
  BY QuietMoves, FaultCounted DEF reachModel, RowUnchanged
<1>3. /\ b \in BodyRec /\ b.pc = "run" /\ b.want = body[c].want
      /\ b.failed = body[c].failed
  BY <1>1 DEF BodyRec
<1>4. Body(c, b) \/ Body(c, Caught(body[c]))
  BY DEF reachModel
<1> HIDE DEF b
<1>5. Fits(c, b)
  BY <1>1, <1>3 DEF Fits, TurnInv, Started, Unused, Reported, Unreached, Working
<1>6. Caught(body[c]) \in BodyRec /\ Fits(c, Caught(body[c]))
  BY <1>1, CaughtFits DEF TurnInv, Reported
<1> QED BY <1>1, <1>2, <1>3, <1>4, <1>5, <1>6, MoveKeeps

LEMMA CardKeeps ==
  ASSUME TurnAssumption, CInv, NEW c \in Command, toolCard(c)
  PROVE  CInv'
<1> DEFINE b == [body[c] EXCEPT !.pc = "write", !.op = "card", !.cards = @ + 1]
<1>1. body[c].pc = "run" /\ body[c] \in BodyRec /\ TurnInv(c)
  BY BodyTyped DEF CInv, toolCard, At
<1>2. Moves /\ UNCHANGED job
  BY QuietMoves DEF toolCard, RowUnchanged
<1>3. /\ b \in BodyRec /\ b.pc = "write" /\ b.want = body[c].want
      /\ b.failed = body[c].failed /\ b.reached = body[c].reached
  <2>1. body[c].cards \in 0 .. MaxCards /\ body[c].cards < MaxCards
    BY <1>1 DEF BodyRec, toolCard
  <2>2. body[c].cards + 1 \in 0 .. MaxCards
    BY <2>1 DEF TurnAssumption
  <2> QED BY <1>1, <2>2 DEF BodyRec
<1>4. Body(c, b)
  BY DEF toolCard
<1> HIDE DEF b
<1>5. Fits(c, b)
  BY <1>1, <1>3 DEF Fits, TurnInv, Started, Unused, Reported, Unreached, Working
<1> QED BY <1>1, <1>2, <1>3, <1>4, <1>5, MoveKeeps

(* A run that works is neither released nor about to be.                   *)
LEMMA WorksUnreleased ==
  ASSUME CInv, NEW c \in Command, body[c].pc \in Working \ {"release"}
  PROVE  /\ ~(c \in released \/ rec[c].pc = "release")
         /\ turn[c].status \in {"running"} \cup Final
BY DEF CInv, TurnInv, Unused, Started, Working

LEMMA HistoryKeeps ==
  ASSUME TurnAssumption, CInv, NEW c \in Command, saveHistory(c)
  PROVE  CInv'
<1>1. body[c].pc \in {"run", "save"} /\ body[c] \in BodyRec /\ TurnInv(c)
  BY BodyTyped DEF CInv, saveHistory
<1>2. Moves /\ UNCHANGED job
  BY QuietMoves DEF saveHistory, RowUnchanged
<1>3. CASE holdsClaim(c) /\ body[c].pc = "save"
  <2>1. EndText(body[c]) \in BodyRec /\ Fits(c, EndText(body[c]))
    BY <1>1, WorksUnreleased, EndTextFits DEF Working, TurnInv, Reported
  <2> QED BY <1>1, <1>2, <1>3, <2>1, MoveKeeps DEF saveHistory
<1>4. CASE holdsClaim(c) /\ body[c].pc # "save"
  <2>1. UNCHANGED <<turn, msg, job, body, rec, released, log, req>>
    BY <1>2, <1>4 DEF saveHistory, Moves
  <2>2. TypeOK'
    BY <1>2, <2>1 DEF CInv, TypeOK, Moves
  <2>3. \A d \in Command : Same(d)
    BY <2>1 DEF Same
  <2>4. RootsKept
    BY <2>1 DEF RootsKept
  <2>5. TurnInv(c)'
    BY <1>1, <2>1, <2>3, SameKeeps
  <2> QED BY <2>1, <2>2, <2>3, <2>4, <2>5, StepOnOne
<1>5. CASE ~holdsClaim(c)
  <2>1. Caught(body[c]) \in BodyRec /\ Fits(c, Caught(body[c]))
    BY <1>1, <1>5, CaughtFits DEF holdsClaim
  <2> QED BY <1>1, <1>2, <1>5, <2>1, MoveKeeps DEF saveHistory
<1> QED BY <1>3, <1>4, <1>5

LEMMA EndRunKeeps ==
  ASSUME TurnAssumption, CInv, NEW c \in Command, endRun(c)
  PROVE  CInv'
<1>1. body[c].pc = "run" /\ body[c] \in BodyRec /\ TurnInv(c)
  BY BodyTyped DEF CInv, endRun, At
<1>2. Moves /\ UNCHANGED job
  BY DEF endRun, CInv, TypeOK, Moves
<1>3. PICK s \in {"complete", "none", "error", "interrupted"},
           p \in {"no", "open", "refused"} :
         LET e == [body[c] EXCEPT !.pause = p] IN
         Body(c, IF s # "none"
                 THEN [e EXCEPT !.pc = "write", !.op = "text", !.want = s]
                 ELSE IF p = "open" THEN [e EXCEPT !.pc = "write", !.op = "part"]
                 ELSE EndText(e))
  BY DEF endRun
<1> DEFINE e == [body[c] EXCEPT !.pause = p]
           text == [e EXCEPT !.pc = "write", !.op = "text", !.want = s]
           part == [e EXCEPT !.pc = "write", !.op = "part"]
<1>4. /\ e \in BodyRec /\ e.failed = body[c].failed /\ e.reached = body[c].reached
      /\ e.want = body[c].want
  BY <1>1 DEF BodyRec
<1>5. Body(c, IF s # "none" THEN text ELSE IF p = "open" THEN part ELSE EndText(e))
  BY <1>3
<1>6. ~body[c].failed /\ body[c].want # "streaming"
  BY <1>1 DEF TurnInv, Reported
<1> HIDE DEF e
<1>7. s # "none" => text \in BodyRec /\ Fits(c, text)
  <2> HAVE s # "none"
  <2>1. /\ text \in BodyRec /\ text.pc = "write" /\ text.op = "text"
        /\ text.want # "streaming" /\ text.failed = e.failed
    BY <1>4 DEF BodyRec, Texts
  <2> HIDE DEF text
  <2> QED BY <1>1, <1>4, <1>6, <2>1, WorksUnreleased DEF Fits, Working, Unreached
<1>8. part \in BodyRec /\ Fits(c, part)
  <2>1. /\ part \in BodyRec /\ part.pc = "write" /\ part.op = "part"
        /\ part.want = e.want /\ part.failed = e.failed
    BY <1>4 DEF BodyRec
  <2> HIDE DEF part
  <2> QED BY <1>1, <1>4, <1>6, <2>1, WorksUnreleased DEF Fits, Working, Unreached
<1>9. EndText(e) \in BodyRec /\ Fits(c, EndText(e))
  BY <1>1, <1>4, <1>6, WorksUnreleased, EndTextFits DEF Working
<1> HIDE DEF text, part
<1> QED BY <1>1, <1>2, <1>5, <1>7, <1>8, <1>9, MoveKeeps

LEMMA WriteReadKeeps ==
  ASSUME TurnAssumption, CInv, NEW c \in Command, writeRead(c)
  PROVE  CInv'
<1> DEFINE store == [body[c] EXCEPT !.pc = "store", !.seen = msg[c].rev]
           stored == [body[c] EXCEPT !.pc = "stored"]
<1>1. body[c].pc = "write" /\ body[c] \in BodyRec /\ TurnInv(c)
  BY BodyTyped DEF CInv, writeRead, At
<1>2. Moves /\ UNCHANGED job
  BY QuietMoves, FaultCounted DEF writeRead, RowUnchanged
<1>3. \/ Body(c, store)
      \/ Body(c, stored) /\ body[c].op = "end" /\ TextOver(c)
      \/ Body(c, Caught(body[c])) /\ (body[c].op # "end" \/ Fault # {})
  BY FaultCounted DEF writeRead, TextOver
<1>4. /\ store \in BodyRec /\ store.pc = "store" /\ store.op = body[c].op
      /\ store.want = body[c].want /\ store.failed = body[c].failed
  BY <1>1 DEF BodyRec, CInv, TypeOK
<1>5. /\ stored \in BodyRec /\ stored.pc = "stored" /\ stored.op = body[c].op
      /\ stored.want = body[c].want /\ stored.failed = body[c].failed
  BY <1>1 DEF BodyRec
<1> HIDE DEF store, stored
<1>6. Fits(c, store)
  BY <1>1, <1>4, WorksUnreleased DEF Fits, TurnInv, Reported, Unreached, Working
<1>7. TextOver(c) => Fits(c, stored)
  BY <1>1, <1>5, WorksUnreleased DEF Fits, TurnInv, Reported, Unreached, Working
<1>8. body[c].op # "end" \/ Fault # {} =>
        Caught(body[c]) \in BodyRec /\ Fits(c, Caught(body[c]))
  BY <1>1, CaughtFits DEF TurnInv, Reported
<1> QED BY <1>1, <1>2, <1>3, <1>4, <1>5, <1>6, <1>7, <1>8, MoveKeeps

LEMMA ReadStoredKeeps ==
  ASSUME TurnAssumption, CInv, NEW c \in Command, readStored(c)
  PROVE  CInv'
<1> DEFINE w == IF body[c].failed THEN "interrupted"
                ELSE IF body[c].pause = "refused" THEN "error" ELSE storedText(c)
           b == [body[c] EXCEPT !.pc = "finish", !.want = w]
<1>1. body[c].pc = "stored" /\ body[c] \in BodyRec /\ TurnInv(c)
  BY BodyTyped DEF CInv, readStored, At
<1>2. Moves /\ UNCHANGED job
  BY QuietMoves DEF readStored, RowUnchanged
<1>3. Body(c, b)
  BY DEF readStored
<1>4. turn[c].status # "none"
  BY <1>1, WorksUnreleased DEF Working, Final
<1>5. w \in Texts \ {"none"} /\ (w = "complete" => msg[c].text = "complete")
  BY <1>1, <1>4 DEF TurnInv, Stored, Texts, storedText, CInv, TypeOK
<1>6. turn[c].status = "running" => TextOver(c)
  BY <1>1 DEF TurnInv, Reported
<1> HIDE DEF w
<1>7. /\ b \in BodyRec /\ b.pc = "finish" /\ b.want = w /\ b.failed = body[c].failed
      /\ b.op = body[c].op
  BY <1>1, <1>5 DEF BodyRec
<1> HIDE DEF b
<1>8. Fits(c, b)
  BY <1>1, <1>5, <1>6, <1>7, WorksUnreleased
     DEF Fits, TurnInv, Reported, Unreached, Working
<1> QED BY <1>1, <1>2, <1>3, <1>7, <1>8, MoveKeeps

LEMMA CrashBodyKeeps ==
  ASSUME TurnAssumption, CInv, NEW c \in Command, crashBody(c)
  PROVE  CInv'
<1>1. body[c].pc # "none" /\ Moves /\ UNCHANGED job
  BY QuietMoves, FaultCounted DEF crashBody, RowUnchanged, Live
<1> QED BY <1>1, EndFits, MoveKeeps DEF crashBody

LEMMA DeadlineKeeps ==
  ASSUME TurnAssumption, CInv, NEW c \in Command, deadlineFires(c)
  PROVE  CInv'
<1> DEFINE b == [body[c] EXCEPT !.aborted = TRUE]
<1>1. body[c].pc \notin {"none", "end", "dead"} /\ body[c] \in BodyRec /\ TurnInv(c)
  BY BodyTyped DEF CInv, deadlineFires, Live
<1>2. Moves /\ UNCHANGED job
  BY QuietMoves DEF deadlineFires, RowUnchanged
<1>3. /\ b \in BodyRec /\ b.pc = body[c].pc /\ b.reached = body[c].reached
      /\ b.want = body[c].want /\ b.failed = body[c].failed /\ b.op = body[c].op
  BY <1>1 DEF BodyRec
<1>4. Body(c, b)
  BY DEF deadlineFires
<1> HIDE DEF b
<1>5. Fits(c, b)
  BY <1>1, <1>3 DEF Fits, TurnInv, Started, Unused, Reported, Unreached, Working
<1> QED BY <1>1, <1>2, <1>3, <1>4, <1>5, MoveKeeps

LEMMA AbandonKeeps ==
  ASSUME TurnAssumption, CInv, NEW c \in Command, abandonAttempt(c)
  PROVE  CInv'
<1>1. body[c] \in BodyRec /\ TurnInv(c) /\ body \in [Command -> BodyRec]
  BY BodyTyped DEF CInv, TypeOK, BodyRec
<1>2. /\ body' = [body EXCEPT ![c] = [body[c] EXCEPT !.aborted = Live(c)]]
      /\ job' = [job EXCEPT ![c] = "failed"] /\ job[c] = "active"
      /\ UNCHANGED <<turn, msg, log, history, card, listed, rec, released, req, faults>>
  BY DEF abandonAttempt, FailJob, CInv, TypeOK
<1>3. Live(c) \in BOOLEAN
  BY DEF Live
<1> DEFINE b == [body[c] EXCEPT !.aborted = Live(c)]
<1>4. /\ b \in BodyRec /\ b.pc = body[c].pc /\ b.reached = body[c].reached
      /\ b.want = body[c].want /\ b.failed = body[c].failed /\ b.op = body[c].op
  BY <1>1, <1>3 DEF BodyRec
<1> HIDE DEF b
<1>5. /\ body' \in [Command -> BodyRec] /\ body'[c] = b /\ job'[c] = "failed"
      /\ \A d \in Command : d # c => body'[d] = body[d] /\ job'[d] = job[d]
  BY <1>1, <1>2, <1>4 DEF b, CInv, TypeOK
<1>6. TypeOK'
  <2>1. job' \in [Command -> {"none", "created", "active", "failed", "completed"}]
    BY <1>2 DEF CInv, TypeOK
  <2>2. exhausted' \in [Command -> {"none", "created", "done"}]
    BY FailJobTyped DEF abandonAttempt
  <2> QED BY <1>2, <1>5, <2>1, <2>2 DEF CInv, TypeOK, BodyRec
<1>7. Stored(c)' /\ Fetched(c)' /\ Recovers(c)' /\ Replied(c)' /\ Settles(c)'
  BY <1>1, <1>2, <1>5 DEF TurnInv, Stored, Fetched, Recovers, Replied, Settles, TextOver,
                          IsLatest
<1>8. Started(c)' /\ Unused(c)' /\ Reported(c)'
  BY <1>1, <1>2, <1>4, <1>5 DEF TurnInv, Started, Unused, Reported, TextOver, IsLatest
<1>9. TurnInv(c)' /\ RootsKept /\ \A d \in Command : d # c => Same(d)
  BY <1>2, <1>5, <1>7, <1>8 DEF TurnInv, RootsKept, Same
<1> QED BY <1>2, <1>6, <1>9, StepOnOne

----------------------------------------------------------------------------
(* Starting and ending the row.                                            *)

LEMMA StatusChange ==
  ASSUME TypeOK, NEW c \in Command, NEW s \in {"none"} \cup Active \cup Final
  PROVE  LET t == [turn EXCEPT ![c].status = s] IN
         /\ t \in [Command -> TurnRec] /\ t[c].status = s /\ t[c].root = turn[c].root
         /\ \A d \in Command : d # c => t[d] = turn[d]
<1>1. turn \in [Command -> TurnRec]
  BY DEF TypeOK, TurnRec
<1> DEFINE x == [turn[c] EXCEPT !.status = s]
<1>2. x \in TurnRec /\ x.status = s /\ x.root = turn[c].root
  BY <1>1 DEF TurnRec
<1> HIDE DEF x
<1>3. /\ [turn EXCEPT ![c] = x] \in [Command -> TurnRec]
      /\ [turn EXCEPT ![c] = x][c] = x
      /\ \A d \in Command : d # c => [turn EXCEPT ![c] = x][d] = turn[d]
  BY <1>1, <1>2
<1> QED BY <1>2, <1>3 DEF x

LEMMA RowEnds ==
  ASSUME TypeOK, NEW c \in Command, NEW s \in Final, EndRow(c, s)
  PROVE  /\ turn' \in [Command -> TurnRec] /\ turn'[c].status = s
         /\ turn'[c].root = turn[c].root
         /\ \A d \in Command : d # c => turn'[d] = turn[d]
<1> DEFINE t == [turn EXCEPT ![c].status = s]
           x == [t[c] EXCEPT !.late = FALSE]
<1>1. /\ t \in [Command -> TurnRec] /\ t[c].status = s /\ t[c].root = turn[c].root
      /\ \A d \in Command : d # c => t[d] = turn[d]
  BY StatusChange
<1>2. turn' = [t EXCEPT ![c] = x]
  BY DEF EndRow
<1>3. x \in TurnRec /\ x.status = s /\ x.root = turn[c].root
  <2> HIDE DEF t
  <2>1. PICK r \in TurnRec : r = t[c]
    BY <1>1
  <2>2. /\ [r EXCEPT !.late = FALSE] \in TurnRec
        /\ [r EXCEPT !.late = FALSE].status = r.status
        /\ [r EXCEPT !.late = FALSE].root = r.root
    BY DEF TurnRec
  <2> QED BY <1>1, <2>1, <2>2
<1> HIDE DEF t
<1> HIDE DEF x
<1> QED BY <1>1, <1>2, <1>3

(* The run of a job fails or ends without touching the row.                *)
LEMMA EndsKeep ==
  ASSUME TurnAssumption, CInv, NEW c \in Command, body[c].pc # "none",
         Body(c, [body[c] EXCEPT !.pc = "end"]),
         UNCHANGED <<turn, msg, log, history, card, listed, rec, released, req>>,
         UNCHANGED faults \/ faults' \in 0 .. MaxFaults,
         (JobDone(c) /\ UNCHANGED exhausted) \/ FailJob(c)
  PROVE  CInv'
<1>1. exhausted' \in [Command -> {"none", "created", "done"}]
  BY FailJobTyped DEF CInv, TypeOK
<1>2. /\ job' \in [Command -> JobStates] /\ job[c] # "none"
      /\ job'[c] \notin {"none", "created"}
      /\ \A d \in Command : d # c => job'[d] = job[d]
  BY JobSettles DEF FailJob
<1>3. history' \in Command \cup {None} /\ card' \in BOOLEAN /\ faults' \in 0 .. MaxFaults
  BY DEF CInv, TypeOK
<1> QED BY <1>1, <1>2, <1>3, EndFits, RunStep

LEMMA StartKeeps ==
  ASSUME TurnAssumption, CInv, NEW c \in Command, startTurn(c)
  PROVE  CInv'
<1>1. body[c].pc = "start" /\ body[c] \in BodyRec /\ TurnInv(c) /\ TypeOK
  BY BodyTyped DEF CInv, startTurn, At
<1>2. UNCHANGED <<msg, log, history, card, listed, rec, released, req>>
  BY DEF startTurn
<1>3. CASE /\ turn[c].status = "queued"
           /\ turn' = [turn EXCEPT ![c].status = "running"]
           /\ Body(c, [body[c] EXCEPT !.pc = "bind"])
           /\ UNCHANGED <<job, exhausted, faults>>
  <2> DEFINE b == [body[c] EXCEPT !.pc = "bind"]
  <2>1. /\ b \in BodyRec /\ b.pc = "bind" /\ b.reached = body[c].reached
        /\ b.want = body[c].want /\ b.failed = body[c].failed
    BY <1>1 DEF BodyRec
  <2>2. Body(c, b)
    BY <1>3
  <2> HIDE DEF b
  <2>3. /\ body' \in [Command -> BodyRec] /\ body'[c] = b
        /\ \A d \in Command : d # c => body'[d] = body[d]
    BY <1>1, <2>1, <2>2, BodyChange
  <2>4. /\ turn' \in [Command -> TurnRec] /\ turn'[c].status = "running"
        /\ turn'[c].root = turn[c].root
        /\ \A d \in Command : d # c => turn'[d] = turn[d]
    BY <1>1, <1>3, StatusChange DEF Active
  <2>5. TypeOK'
    BY <1>1, <1>2, <1>3, <2>3, <2>4 DEF TypeOK, BodyRec, TurnRec
  <2>6. Stored(c)' /\ Fetched(c)' /\ Recovers(c)' /\ Replied(c)' /\ Settles(c)'
    BY <1>1, <1>2, <1>3, <2>1, <2>3, <2>4
       DEF TurnInv, Stored, Fetched, Recovers, Replied, Settles, Final
  <2>7. Started(c)' /\ Unused(c)' /\ Reported(c)'
    BY <1>1, <1>2, <1>3, <2>1, <2>3, <2>4
       DEF TurnInv, Started, Unused, Reported, Unreached, Final
  <2>8. TurnInv(c)' /\ RootsKept /\ \A d \in Command : d # c => Same(d)
    BY <1>2, <1>3, <2>3, <2>4, <2>6, <2>7 DEF TurnInv, RootsKept, Same
  <2> QED BY <1>2, <2>5, <2>8, StepOnOne
<1>4. CASE /\ Body(c, [body[c] EXCEPT !.pc = "end"]) /\ UNCHANGED turn
           /\ UNCHANGED faults \/ faults' \in 0 .. MaxFaults
           /\ (JobDone(c) /\ UNCHANGED exhausted) \/ FailJob(c)
  BY <1>1, <1>2, <1>4, EndsKeep
<1> QED BY <1>3, <1>4, FaultCounted DEF startTurn

LEMMA FinishKeeps ==
  ASSUME TurnAssumption, CInv, NEW c \in Command, finishTurn(c)
  PROVE  CInv'
<1>1. body[c].pc = "finish" /\ body[c] \in BodyRec /\ TurnInv(c) /\ TypeOK
  BY BodyTyped DEF CInv, finishTurn, At
<1>2. UNCHANGED <<msg, log, history, card, listed, rec, released, req>>
  BY DEF finishTurn
<1>3. CASE /\ eligible(c) /\ EndRow(c, StatusOfText(body[c].want))
           /\ Body(c, [body[c] EXCEPT !.pc = IF body[c].reached THEN "end" ELSE "release"])
           /\ JobDone(c) \/ UNCHANGED job
           /\ UNCHANGED <<exhausted, faults>>
  <2> DEFINE b == [body[c] EXCEPT !.pc = IF body[c].reached THEN "end" ELSE "release"]
  <2>1. /\ b \in BodyRec /\ b.pc \in {"end", "release"} /\ b.reached = body[c].reached
        /\ b.pc = "release" => ~b.reached
        /\ b.failed = body[c].failed /\ b.op = body[c].op
    BY <1>1 DEF BodyRec
  <2>2. Body(c, b)
    BY <1>3
  <2> HIDE DEF b
  <2>3. /\ body' \in [Command -> BodyRec] /\ body'[c].pc = b.pc
        /\ body'[c].reached = b.reached
        /\ \A d \in Command : d # c => body'[d] = body[d]
        /\ b.pc = "release" => body'[c] = b
        /\ b.pc = "end" => body'[c].want = "complete" /\ ~body'[c].failed
    BY <1>1, <2>1, <2>2, BodyChange
  <2>4. turn[c].status = "running"
    BY <1>1, <1>3 DEF eligible, Active, TurnInv, Started, Working, Final
  <2>5. StatusOfText(body[c].want) \in Final
    BY DEF StatusOfText, Final
  <2>6. /\ turn' \in [Command -> TurnRec] /\ turn'[c].status = StatusOfText(body[c].want)
        /\ turn'[c].root = turn[c].root
        /\ \A d \in Command : d # c => turn'[d] = turn[d]
    BY <1>1, <1>3, <2>5, RowEnds
  <2>7. /\ job' \in [Command -> JobStates] /\ job'[c] \notin {"none", "created"}
        /\ \A d \in Command : d # c => job'[d] = job[d]
    BY <1>1, <1>3, JobSettles
  <2>8. TypeOK'
    BY <1>1, <1>2, <1>3, <2>3, <2>6, <2>7 DEF TypeOK, BodyRec, TurnRec, JobStates
  <2>9. Stored(c)' /\ Fetched(c)' /\ Recovers(c)'
    BY <1>1, <1>2, <2>3, <2>4, <2>5, <2>6, <2>7
       DEF TurnInv, Stored, Fetched, Recovers, Final
  <2>10. Replied(c)' /\ Settles(c)'
    BY <1>1, <1>2, <2>4, <2>6
       DEF TurnInv, Reported, Replied, Settles, TextOver, IsLatest, StatusOfText
  <2>11. Started(c)' /\ Unused(c)' /\ Reported(c)'
    BY <1>1, <1>2, <2>1, <2>3, <2>4, <2>5, <2>6
       DEF TurnInv, Started, Unused, Reported, Unreached, Final
  <2>12. TurnInv(c)' /\ RootsKept /\ \A d \in Command : d # c => Same(d)
    BY <1>2, <2>3, <2>4, <2>6, <2>7, <2>9, <2>10, <2>11 DEF TurnInv, RootsKept, Same
  <2> QED BY <1>2, <2>8, <2>12, StepOnOne
<1>4. CASE /\ Body(c, [body[c] EXCEPT !.pc = "end"]) /\ UNCHANGED turn
           /\ UNCHANGED faults \/ faults' \in 0 .. MaxFaults
           /\ (JobDone(c) /\ UNCHANGED exhausted) \/ FailJob(c)
  BY <1>1, <1>2, <1>4, EndsKeep
<1> QED BY <1>3, <1>4, FaultCounted DEF finishTurn

(* Somebody else ends the row, and recovery starts.                        *)
LEMMA InterruptsKeep ==
  ASSUME TurnAssumption, CInv, TypeOK', NEW c \in Command, turn[c].status \in Active,
         EndRow(c, "interrupted"), Recover(c),
         UNCHANGED <<msg, log, job, body, released, req>>
  PROVE  CInv'
<1>1. TurnInv(c) /\ TypeOK
  BY DEF CInv
<1>2. /\ turn'[c].status = "interrupted" /\ turn'[c].root = turn[c].root
      /\ \A d \in Command : d # c => turn'[d] = turn[d]
  BY <1>1, RowEnds DEF Final
<1>3. /\ rec'[c].pc = RecoveryStart(c)
      /\ \A d \in Command : d # c => rec'[d] = rec[d]
  BY <1>1 DEF Recover, TypeOK
<1>4. Stored(c)' /\ Fetched(c)' /\ Recovers(c)' /\ Replied(c)' /\ Settles(c)'
  BY <1>1, <1>2, <1>3 DEF TurnInv, Stored, Fetched, Recovers, Replied, Settles, Final,
                          Active, RecoveryStart
<1>5. Started(c)' /\ Reported(c)'
  BY <1>1, <1>2 DEF TurnInv, Started, Reported, Final
<1>6. Unused(c)'
  <2>1. c \notin released
    BY <1>1 DEF TurnInv, Unused, Active, Final
  <2>2. turn[c].status = "queued" => ~body[c].reached /\ body[c].pc \notin Working
    BY <1>1 DEF TurnInv, Started, Final
  <2>3. body[c].pc \notin Working =>
           body[c].pc \in {"none", "read", "start", "release", "end", "dead"}
    BY <1>1, BodyTyped DEF BodyRec, Working
  <2> QED BY <1>2, <1>3, <2>1, <2>2, <2>3 DEF Unused, Final, RecoveryStart
<1>7. TurnInv(c)' /\ RootsKept /\ \A d \in Command : d # c => Same(d)
  BY <1>2, <1>3, <1>4, <1>5, <1>6 DEF TurnInv, RootsKept, Same, Active
<1> QED BY <1>7, StepOnOne

RecRec == [pc : {"none", "release", "bind", "write", "store", "end"}, seen : Nat]

LEMMA RecMoves ==
  ASSUME TypeOK, NEW c \in Command, NEW p \in {"release", "bind", "write", "store", "end"},
         RecTo(c, p)
  PROVE  /\ rec' \in [Command -> RecRec] /\ rec'[c].pc = p /\ rec'[c].seen = rec[c].seen
         /\ \A d \in Command : d # c => rec'[d] = rec[d]
<1>1. rec \in [Command -> RecRec]
  BY DEF TypeOK, RecRec
<1> DEFINE x == [rec[c] EXCEPT !.pc = p]
<1>2. x \in RecRec /\ x.pc = p /\ x.seen = rec[c].seen
  BY <1>1 DEF RecRec
<1>3. rec' = [rec EXCEPT ![c] = x]
  BY DEF RecTo
<1> HIDE DEF x
<1> QED BY <1>1, <1>2, <1>3

LEMMA InterruptKeeps ==
  ASSUME TurnAssumption, CInv, NEW c \in Command, interruptTurn(c) \/ sweepOverdueTurn(c)
  PROVE  CInv'
<1>1. TypeOK /\ TurnInv(c)
  BY DEF CInv
<1>2. /\ UNCHANGED <<msg, log, history, card, job, body, released, req>>
      /\ exhausted' \in [Command -> {"none", "created", "done"}]
      /\ listed' \subseteq Command /\ faults' \in 0 .. MaxFaults
  <2>1. faults \in 0 .. MaxFaults
    BY <1>1 DEF TypeOK
  <2>2. CASE interruptTurn(c)
    <3>1. exhausted' \in [Command -> {"none", "created", "done"}]
      BY <1>1, <2>2 DEF interruptTurn, TypeOK
    <3>2. listed' = listed /\ listed \subseteq Command
      BY <1>1, <2>2 DEF interruptTurn, TypeOK
    <3>3. faults' \in 0 .. MaxFaults
      BY <2>1, <2>2, FaultCounted DEF interruptTurn
    <3> QED BY <2>2, <3>1, <3>2, <3>3 DEF interruptTurn
  <2>3. CASE sweepOverdueTurn(c)
    <3>1. exhausted' \in [Command -> {"none", "created", "done"}]
      BY <1>1, <2>3 DEF sweepOverdueTurn, TypeOK
    <3>2. listed' \subseteq Command
      BY <1>1, <2>3 DEF sweepOverdueTurn, TypeOK
    <3>3. faults' \in 0 .. MaxFaults
      BY <2>1, <2>3, FaultCounted DEF sweepOverdueTurn
    <3> QED BY <2>3, <3>1, <3>2, <3>3 DEF sweepOverdueTurn
  <2> QED BY <2>2, <2>3
<1>3. CASE turn[c].status \in Active /\ EndRow(c, "interrupted") /\ Recover(c)
  <2>1. turn' \in [Command -> TurnRec]
    BY <1>1, <1>3, RowEnds DEF Final
  <2>2. rec' \in [Command -> RecRec]
    BY <1>1, <1>3, RecMoves DEF Recover, RecTo, RecoveryStart
  <2>3. TypeOK'
    BY <1>1, <1>2, <2>1, <2>2 DEF TypeOK, TurnRec, RecRec
  <2> QED BY <1>2, <1>3, <2>3, InterruptsKeep
<1>4. CASE UNCHANGED <<turn, rec>>
  <2>1. TypeOK'
    BY <1>1, <1>2, <1>4 DEF TypeOK
  <2>2. RootsKept /\ \A d \in Command : Same(d)
    BY <1>2, <1>4 DEF RootsKept, Same
  <2>3. TurnInv(c)'
    BY <1>1, <1>2, <2>2, SameKeeps
  <2> QED BY <1>2, <2>1, <2>2, <2>3, StepOnOne
<1> QED BY <1>3, <1>4 DEF interruptTurn, sweepOverdueTurn, eligible, overdue

LEMMA LateKeeps ==
  ASSUME TurnAssumption, CInv, NEW c \in Command, becomeLate(c)
  PROVE  CInv'
<1>1. TypeOK /\ TurnInv(c)
  BY DEF CInv
<1>2. UNCHANGED <<msg, log, history, card, job, exhausted, body, listed, rec, released,
                  req, faults>>
  BY DEF becomeLate
<1>3. /\ turn' \in [Command -> TurnRec] /\ turn'[c].status = turn[c].status
      /\ turn'[c].root = turn[c].root
      /\ \A d \in Command : d # c => turn'[d] = turn[d]
  <2>1. turn \in [Command -> TurnRec]
    BY <1>1 DEF TypeOK, TurnRec
  <2> DEFINE x == [turn[c] EXCEPT !.late = TRUE]
  <2>2. x \in TurnRec /\ x.status = turn[c].status /\ x.root = turn[c].root
    <3>1. PICK t \in TurnRec : t = turn[c]
      BY <2>1
    <3>2. /\ [t EXCEPT !.late = TRUE] \in TurnRec
          /\ [t EXCEPT !.late = TRUE].status = t.status
          /\ [t EXCEPT !.late = TRUE].root = t.root
      BY DEF TurnRec
    <3> QED BY <3>1, <3>2
  <2>3. turn' = [turn EXCEPT ![c] = x]
    BY DEF becomeLate
  <2> HIDE DEF x
  <2> QED BY <2>1, <2>2, <2>3
<1>4. TypeOK'
  BY <1>1, <1>2, <1>3 DEF TypeOK, TurnRec
<1>5. TurnInv(c)'
  BY <1>1, <1>2, <1>3 DEF TurnInv, Stored, Fetched, Started, Unused, Recovers, Reported,
                          Replied, Settles, TextOver, IsLatest
<1>6. RootsKept /\ \A d \in Command : d # c => Same(d)
  BY <1>2, <1>3 DEF RootsKept, Same
<1> QED BY <1>2, <1>4, <1>5, <1>6, StepOnOne

(* A step of recovery, or of the run that gives its hold back: it touches  *)
(* neither row nor log.                                                    *)
LEMMA RecoveryKeeps ==
  ASSUME TurnAssumption, CInv, NEW c \in Command,
         UNCHANGED <<turn, log, history, card, exhausted, listed, req, job, body>>,
         rec' \in [Command -> RecRec], released' \in {released, released \cup {c}},
         msg' \in [Command -> [text : Texts, rev : Nat]], faults' \in 0 .. MaxFaults,
         \A d \in Command : d # c => rec'[d] = rec[d] /\ msg'[d] = msg[d],
         rec[c].pc # "none", Unused(c)', Recovers(c)', Settles(c)',
         \/ msg'[c] = msg[c]
         \/ msg[c].text = "streaming" /\ msg'[c].text = "interrupted"
  PROVE  CInv'
<1>1. TypeOK /\ TurnInv(c)
  BY DEF CInv
<1>2. TypeOK'
  <2>1. released' \subseteq Command
    BY <1>1 DEF TypeOK
  <2> QED BY <1>1, <2>1 DEF TypeOK, RecRec
<1>3. turn[c].status \in Final
  BY <1>1 DEF TurnInv, Recovers
<1>4. Stored(c)' /\ Fetched(c)' /\ Started(c)'
  BY <1>1, <1>3 DEF TurnInv, Stored, Fetched, Started, Final
<1>5. Reported(c)' /\ Replied(c)'
  BY <1>1, <1>3 DEF TurnInv, Reported, Replied, TextOver, IsLatest, Final
<1>6. TurnInv(c)'
  BY <1>4, <1>5 DEF TurnInv
<1>7. RootsKept /\ \A d \in Command : d # c => Same(d)
  BY DEF RootsKept, Same
<1> QED BY <1>2, <1>6, <1>7, StepOnOne

LEMMA RecoverReleaseKeeps ==
  ASSUME TurnAssumption, CInv, NEW c \in Command, recoverRelease(c)
  PROVE  CInv'
<1>1. TypeOK /\ TurnInv(c) /\ rec[c].pc = "release"
  BY DEF CInv, recoverRelease
<1>2. /\ UNCHANGED <<turn, log, history, card, exhausted, listed, req, job, body, msg>>
      /\ released' \in {released, released \cup {c}}
  BY DEF recoverRelease, RecUnchanged
<1>3. faults' \in 0 .. MaxFaults
  BY <1>1, FaultCounted DEF recoverRelease, TypeOK
<1>4. /\ rec' \in [Command -> RecRec] /\ rec'[c].pc = "bind"
      /\ \A d \in Command : d # c => rec'[d] = rec[d]
  BY <1>1, RecMoves DEF recoverRelease
<1>5. Unused(c)' /\ Recovers(c)' /\ Settles(c)'
  BY <1>1, <1>2, <1>4 DEF TurnInv, Unused, Recovers, Settles
<1>6. msg' \in [Command -> [text : Texts, rev : Nat]]
  BY <1>1, <1>2 DEF TypeOK
<1> QED BY <1>1, <1>2, <1>3, <1>4, <1>5, <1>6, RecoveryKeeps

LEMMA RecoverBindKeeps ==
  ASSUME TurnAssumption, CInv, NEW c \in Command, recoverBind(c) \/ crashRecovery(c)
  PROVE  CInv'
<1>1. TypeOK /\ TurnInv(c) /\ rec[c].pc # "none"
  BY DEF CInv, recoverBind, crashRecovery
<1>2. UNCHANGED <<turn, log, history, card, exhausted, listed, req, job, body, msg,
                  released>>
  BY DEF recoverBind, crashRecovery, RecUnchanged
<1>3. faults' \in 0 .. MaxFaults
  BY <1>1, FaultCounted DEF recoverBind, crashRecovery, TypeOK
<1>4. PICK p \in {"write", "end"} :
        RecTo(c, p) /\ (p = "end" => Fault # {} \/ ~IsLatest(c))
  BY FaultCounted DEF recoverBind, crashRecovery
<1>5. /\ rec' \in [Command -> RecRec] /\ rec'[c].pc = p
      /\ \A d \in Command : d # c => rec'[d] = rec[d]
  BY <1>1, <1>4, RecMoves
<1>6. Unused(c)' /\ Recovers(c)' /\ Settles(c)'
  BY <1>1, <1>2, <1>4, <1>5 DEF TurnInv, Unused, Recovers, Settles, TextOver, IsLatest
<1>7. msg' \in [Command -> [text : Texts, rev : Nat]]
  BY <1>1, <1>2 DEF TypeOK
<1> QED BY <1>1, <1>2, <1>3, <1>5, <1>6, <1>7, RecoveryKeeps

LEMMA RecoverReadKeeps ==
  ASSUME TurnAssumption, CInv, NEW c \in Command, recoverRead(c)
  PROVE  CInv'
<1>1. TypeOK /\ TurnInv(c) /\ rec[c].pc = "write"
  BY DEF CInv, recoverRead
<1>2. UNCHANGED <<turn, log, history, card, exhausted, listed, req, job, body, msg,
                  released, faults>>
  BY DEF recoverRead, RecUnchanged
<1> DEFINE x == IF IsLatest(c) /\ msg[c].text = "streaming"
                THEN [pc |-> "store", seen |-> msg[c].rev]
                ELSE [pc |-> "end", seen |-> 0]
<1>3. /\ x \in RecRec /\ x.pc \in {"store", "end"}
      /\ x.pc = "store" => x.seen = msg[c].rev /\ msg[c].text = "streaming"
      /\ x.pc = "end" => TextOver(c)
  BY <1>1 DEF TypeOK, RecRec, TextOver
<1>4. rec' = [rec EXCEPT ![c] = x] /\ rec \in [Command -> RecRec]
  BY <1>1 DEF recoverRead, TypeOK, RecRec
<1> HIDE DEF x
<1>5. /\ rec' \in [Command -> RecRec] /\ rec'[c] = x
      /\ \A d \in Command : d # c => rec'[d] = rec[d]
  BY <1>3, <1>4
<1>6. Unused(c)' /\ Settles(c)'
  BY <1>1, <1>2, <1>3, <1>5 DEF TurnInv, Unused, Settles, TextOver, IsLatest
<1>7. msg \in [Command -> [text : Texts, rev : Nat]] /\ faults \in 0 .. MaxFaults
  BY <1>1 DEF TypeOK
<1>8. Recovers(c)'
  BY <1>1, <1>2, <1>3, <1>5, <1>7 DEF TurnInv, Recovers
<1> QED BY <1>1, <1>2, <1>5, <1>6, <1>7, <1>8, RecoveryKeeps

LEMMA RecoverStoreKeeps ==
  ASSUME TurnAssumption, CInv, NEW c \in Command, recoverStore(c)
  PROVE  CInv'
<1>1. TypeOK /\ TurnInv(c) /\ rec[c].pc = "store"
  BY DEF CInv, recoverStore
<1>2. UNCHANGED <<turn, log, history, card, exhausted, listed, req, job, body, released,
                  faults>>
  BY DEF recoverStore, RecUnchanged
<1>3. msg \in [Command -> [text : Texts, rev : Nat]] /\ faults \in 0 .. MaxFaults
  BY <1>1 DEF TypeOK
<1>4. CASE msg[c].rev = rec[c].seen
  <2> DEFINE m == [text |-> "interrupted", rev |-> msg[c].rev + 1]
             x == [pc |-> "end", seen |-> 0]
  <2>1. /\ msg' = [msg EXCEPT ![c] = m] /\ rec' = [rec EXCEPT ![c] = x]
        /\ rec \in [Command -> RecRec]
    BY <1>1, <1>4 DEF recoverStore, TypeOK, RecRec
  <2>2. /\ m \in [text : Texts, rev : Nat] /\ m.text = "interrupted"
        /\ x \in RecRec /\ x.pc = "end"
    BY <1>3 DEF Texts, RecRec
  <2> HIDE DEF m
  <2> HIDE DEF x
  <2>3. /\ msg' \in [Command -> [text : Texts, rev : Nat]] /\ msg'[c] = m
        /\ rec' \in [Command -> RecRec] /\ rec'[c] = x
        /\ \A d \in Command : d # c => rec'[d] = rec[d] /\ msg'[d] = msg[d]
    BY <1>3, <2>1, <2>2
  <2>4. Unused(c)' /\ Recovers(c)' /\ Settles(c)'
    BY <1>1, <1>2, <2>2, <2>3 DEF TurnInv, Unused, Recovers, Settles, TextOver
  <2>5. msg[c].text = "streaming"
    BY <1>1, <1>4 DEF TurnInv, Recovers
  <2> QED BY <1>1, <1>2, <1>3, <2>2, <2>3, <2>4, <2>5, RecoveryKeeps
<1>5. CASE msg[c].rev # rec[c].seen
  <2>1. RecTo(c, "write") /\ UNCHANGED msg
    BY <1>5 DEF recoverStore
  <2>2. /\ rec' \in [Command -> RecRec] /\ rec'[c].pc = "write"
        /\ \A d \in Command : d # c => rec'[d] = rec[d]
    BY <1>1, <2>1, RecMoves
  <2>3. Unused(c)' /\ Recovers(c)' /\ Settles(c)'
    BY <1>1, <1>2, <2>1, <2>2 DEF TurnInv, Unused, Recovers, Settles, TextOver, IsLatest
  <2> QED BY <1>1, <1>2, <1>3, <2>1, <2>2, <2>3, RecoveryKeeps
<1> QED BY <1>4, <1>5

(* The run gives the hold back.                                            *)
LEMMA ReleaseKeeps ==
  ASSUME TurnAssumption, CInv, NEW c \in Command, releaseHold(c)
  PROVE  CInv'
<1>1. body[c].pc = "release" /\ body[c] \in BodyRec /\ TurnInv(c) /\ TypeOK
  BY BodyTyped DEF CInv, releaseHold, At
<1>2. /\ UNCHANGED <<turn, msg, log, history, card, exhausted, listed, rec, req>>
      /\ released' \in {released, released \cup {c}} /\ JobDone(c)
  BY DEF releaseHold
<1>3. faults' \in 0 .. MaxFaults
  BY <1>1, FaultCounted DEF releaseHold, TypeOK
<1> DEFINE b == [body[c] EXCEPT !.pc = "end"]
<1>4. b \in BodyRec /\ b.pc = "end" /\ b.reached = body[c].reached
  BY <1>1 DEF BodyRec
<1>5. Body(c, b)
  BY DEF releaseHold
<1> HIDE DEF b
<1>6. /\ body' \in [Command -> BodyRec] /\ body'[c].pc = "end"
      /\ body'[c].reached = body[c].reached
      /\ \A d \in Command : d # c => body'[d] = body[d]
      /\ body'[c].want = "complete" /\ ~body'[c].failed
  BY <1>1, <1>4, <1>5, BodyChange
<1>7. /\ job' \in [Command -> JobStates] /\ job'[c] \notin {"none", "created"}
      /\ \A d \in Command : d # c => job'[d] = job[d]
  BY <1>1, <1>2, JobSettles
<1>8. TypeOK'
  <2>1. released' \subseteq Command
    BY <1>1, <1>2 DEF TypeOK
  <2> QED BY <1>1, <1>2, <1>3, <1>6, <1>7, <2>1 DEF TypeOK, BodyRec, JobStates
<1>9. turn[c].status \in Final /\ ~body[c].reached
  BY <1>1 DEF TurnInv, Started, Unreached
<1>10. Stored(c)' /\ Fetched(c)' /\ Recovers(c)' /\ Replied(c)' /\ Settles(c)'
  BY <1>1, <1>2, <1>7, <1>9 DEF TurnInv, Stored, Fetched, Recovers, Replied, Settles,
                                TextOver, IsLatest, Final
<1>11. Started(c)' /\ Unused(c)' /\ Reported(c)'
  BY <1>1, <1>2, <1>6, <1>9 DEF TurnInv, Started, Unused, Reported, Unreached, Working, Final
<1>12. TurnInv(c)' /\ RootsKept /\ \A d \in Command : d # c => Same(d)
  BY <1>2, <1>6, <1>7, <1>10, <1>11 DEF TurnInv, RootsKept, Same
<1> QED BY <1>2, <1>8, <1>12, StepOnOne

LEMMA ListKeeps ==
  ASSUME CInv, listOverdueTurns
  PROVE  CInv'
<1>1. UNCHANGED <<turn, msg, log, history, card, job, exhausted, body, rec, released, req,
                  faults>>
  BY DEF listOverdueTurns
<1>2. TypeOK'
  <2>1. listed' \subseteq Command
    BY DEF listOverdueTurns, CInv, TypeOK
  <2> QED BY <1>1, <2>1 DEF CInv, TypeOK
<1>3. \A d \in Command : Same(d)
  BY <1>1 DEF Same
<1>4. \A d \in Command : TurnInv(d)'
  BY <1>1, <1>3, SameKeeps DEF CInv
<1>5. RootsKept
  BY <1>1 DEF RootsKept
<1>6. RootsAreFirst' /\ \A r \in Request : RequestInv(r)'
  BY <1>1, <1>5, RootsKeep DEF CInv
<1> QED BY <1>2, <1>4, <1>6 DEF CInv

----------------------------------------------------------------------------
(* A write of the run that still holds its claim.                          *)

LEMMA AfterWriteIs ==
  ASSUME NEW b \in BodyRec, b.want # "streaming", b.failed => b.op = "end"
  PROVE  LET a == AfterWrite(b) IN
         /\ a \in BodyRec /\ a.pc \in {"run", "save", "write", "finish"}
         /\ a.want # "streaming" /\ a.reached = b.reached
         /\ a.failed => a.op = "end" /\ a.pc = "finish"
         /\ a.pc = "finish" => a.want = b.want /\ b.op = "end"
<1>1. CASE b.op = "card"
  <2>1. AfterWrite(b) = [b EXCEPT !.pc = "run"]
    BY <1>1 DEF AfterWrite
  <2> QED BY <1>1, <2>1 DEF BodyRec
<1>2. CASE b.op \in {"text", "part"} /\ b.pause = "open"
  <2>1. AfterWrite(b) = [b EXCEPT !.pc = "save"]
    BY <1>2 DEF AfterWrite
  <2> QED BY <1>2, <2>1 DEF BodyRec
<1>3. CASE b.op \in {"text", "part"} /\ b.pause # "open"
  <2>1. AfterWrite(b) = EndText(b)
    BY <1>3 DEF AfterWrite
  <2>2. /\ EndText(b) \in BodyRec /\ EndText(b).pc = "write"
        /\ EndText(b).want \in {"error", "complete"} /\ EndText(b).reached = b.reached
        /\ EndText(b).failed = b.failed
    BY DEF EndText, BodyRec, Texts
  <2> QED BY <1>3, <2>1, <2>2
<1>4. CASE b.op = "end"
  <2>1. AfterWrite(b) = [b EXCEPT !.pc = "finish"]
    BY <1>4 DEF AfterWrite
  <2> QED BY <1>4, <2>1 DEF BodyRec
<1>5. b.op \in {"card", "text", "part", "end"}
  BY DEF BodyRec
<1> QED BY <1>1, <1>2, <1>3, <1>4, <1>5

LEMMA WriteStoreKeeps ==
  ASSUME TurnAssumption, CInv, NEW c \in Command, writeStore(c)
  PROVE  CInv'
<1> DEFINE b == body[c]
<1>1. b.pc = "store" /\ b \in BodyRec /\ TurnInv(c) /\ TypeOK
  BY BodyTyped DEF CInv, writeStore, At
<1>2. UNCHANGED <<turn, log, card, exhausted, listed, rec, released, req, history, job,
                  faults>>
  BY DEF writeStore, RowUnchanged
<1>3. CASE ~holdsClaim(c)
  <2>1. Body(c, Caught(b)) /\ Moves
    BY <1>1, <1>2, <1>3 DEF writeStore, Moves, TypeOK
  <2>2. Caught(b) \in BodyRec /\ Fits(c, Caught(b))
    BY <1>1, <1>3, CaughtFits DEF holdsClaim
  <2> QED BY <1>1, <1>2, <2>1, <2>2, MoveKeeps
<1>4. CASE holdsClaim(c) /\ msg[c].rev # b.seen
  <2> DEFINE w == [b EXCEPT !.pc = "write"]
  <2>1. Body(c, w) /\ Moves
    BY <1>1, <1>2, <1>4 DEF writeStore, Moves, TypeOK
  <2>2. /\ w \in BodyRec /\ w.pc = "write" /\ w.reached = b.reached /\ w.want = b.want
        /\ w.failed = b.failed /\ w.op = b.op
    BY <1>1 DEF BodyRec
  <2> HIDE DEF w
  <2>3. Fits(c, w)
    BY <1>1, <2>2 DEF Fits, TurnInv, Started, Unused, Reported, Unreached, Working
  <2> QED BY <1>1, <1>2, <2>1, <2>2, <2>3, MoveKeeps
<1>5. CASE holdsClaim(c) /\ msg[c].rev = b.seen
  <2> DEFINE a == AfterWrite(b)
             m == Written(msg[c], b)
  <2>1. msg' = [msg EXCEPT ![c] = m] /\ Body(c, a)
    BY <1>5 DEF writeStore
  <2>2. b.want # "streaming" /\ (b.failed => b.op = "end")
    BY <1>1 DEF TurnInv, Reported
  <2>3. /\ a \in BodyRec /\ a.pc \in {"run", "save", "write", "finish"}
        /\ a.want # "streaming" /\ a.reached = b.reached
        /\ a.failed => a.op = "end" /\ a.pc = "finish"
        /\ a.pc = "finish" => a.want = b.want /\ b.op = "end"
    BY <1>1, <2>2, AfterWriteIs
  <2>4. msg \in [Command -> [text : Texts, rev : Nat]]
    BY <1>1 DEF TypeOK
  <2>5. msg[c].text # "none" /\ turn[c].status = "running"
    BY <1>1, <1>5 DEF TurnInv, Stored, holdsClaim
  <2>6. /\ m \in [text : Texts, rev : Nat] /\ m.text # "none"
        /\ b.op = "end" => m.text = b.want
    BY <1>1, <2>4, <2>5 DEF Written, BodyRec, Texts
  <2> HIDE DEF a
  <2> HIDE DEF m
  <2>7. /\ body' \in [Command -> BodyRec] /\ body'[c] = a
        /\ \A d \in Command : d # c => body'[d] = body[d]
    BY <1>1, <2>1, <2>3, BodyChange
  <2>8. /\ msg' \in [Command -> [text : Texts, rev : Nat]] /\ msg'[c] = m
        /\ \A d \in Command : d # c => msg'[d] = msg[d]
    BY <2>1, <2>4, <2>6
  <2>9. TypeOK'
    BY <1>1, <1>2, <2>7, <2>8 DEF TypeOK, BodyRec
  <2>10. rec[c].pc = "none" /\ c \notin released
    BY <1>1, <2>5 DEF TurnInv, Recovers, Unused, Final
  <2>11. Stored(c)' /\ Fetched(c)' /\ Recovers(c)' /\ Replied(c)' /\ Settles(c)' /\ Unused(c)'
    BY <1>1, <1>2, <2>5, <2>6, <2>8, <2>10
       DEF TurnInv, Stored, Fetched, Recovers, Replied, Settles, Unused, Final
  <2>12. Started(c)'
    BY <1>1, <1>2, <2>3, <2>5, <2>7 DEF Started, Unreached
  <2>13. Reported(c)'
    BY <1>2, <2>3, <2>6, <2>7, <2>8 DEF Reported, TextOver
  <2>14. TurnInv(c)' /\ RootsKept /\ \A d \in Command : d # c => Same(d)
    BY <1>2, <2>7, <2>8, <2>11, <2>12, <2>13 DEF TurnInv, RootsKept, Same
  <2> QED BY <1>2, <2>9, <2>14, StepOnOne
<1> QED BY <1>3, <1>4, <1>5

----------------------------------------------------------------------------
(* Requests: the log grows.                                                *)

(* A newer message than the turn's.                                        *)
LEMMA LogGrows ==
  ASSUME TypeOK, NEW d \in Command, TurnInv(d), Same(d),
         NEW x \in Command \cup {None}, x # d, log' = Append(log, x)
  PROVE  TurnInv(d)'
<1>1. log \in Seq(Command \cup {None})
  BY DEF TypeOK
<1>2. Len(log') = Len(log) + 1 /\ log'[Len(log')] = x
      /\ \A i \in 1 .. Len(log) : log'[i] = log[i]
  BY <1>1
<1>3. ~IsLatest(d)'
  BY <1>2 DEF IsLatest
<1>4. (\E i \in 1 .. Len(log) : log[i] = d) => (\E i \in 1 .. Len(log') : log'[i] = d)
  <2>1. Len(log) \in Nat
    BY <1>1
  <2> QED BY <1>2, <2>1
<1>5. Stored(d)'
  BY <1>4 DEF TurnInv, Same, Stored
<1>6. Fetched(d)' /\ Started(d)' /\ Unused(d)' /\ Recovers(d)'
  BY DEF TurnInv, Same, Fetched, Started, Unused, Recovers
<1>7. Reported(d)' /\ Replied(d)' /\ Settles(d)'
  BY <1>3 DEF TurnInv, Same, Reported, Replied, Settles, TextOver
<1> QED BY <1>5, <1>6, <1>7 DEF TurnInv

LEMMA NoteKeeps ==
  ASSUME TurnAssumption, CInv, appendNote
  PROVE  CInv'
<1>1. /\ UNCHANGED <<turn, msg, history, job, exhausted, body, listed, rec, released, req,
                     faults>>
      /\ log' = Append(log, None) /\ card' \in BOOLEAN
  BY DEF appendNote
<1>2. TypeOK
  BY DEF CInv
<1>3. TypeOK'
  <2>1. log' \in Seq(Command \cup {None})
    BY <1>1, <1>2 DEF TypeOK
  <2> QED BY <1>1, <1>2, <2>1 DEF TypeOK
<1>4. \A d \in Command : Same(d) /\ None # d
  BY <1>1 DEF Same, TurnAssumption
<1>5. \A d \in Command : TurnInv(d)'
  BY <1>1, <1>2, <1>4, LogGrows DEF CInv
<1>6. RootsKept
  BY <1>1 DEF RootsKept
<1>7. RootsAreFirst' /\ \A r \in Request : RequestInv(r)'
  BY <1>1, <1>2, <1>6, RootsKeep DEF CInv
<1> QED BY <1>3, <1>5, <1>7 DEF CInv

(* Among the interrupted turns one was created last.                       *)
LEMMA LatestExists ==
  ASSUME CInv, Interrupted # {}
  PROVE  LatestInterrupted \in Interrupted
<1>1. log \in Seq(Command \cup {None}) /\ Len(log) \in Nat
  BY DEF CInv, TypeOK
<1>2. \A c \in Interrupted : Position(c) \in 1 .. Len(log)
  <2> SUFFICES ASSUME NEW c \in Interrupted PROVE Position(c) \in 1 .. Len(log)
    OBVIOUS
  <2>1. \E i \in 1 .. Len(log) : log[i] = c
    BY DEF CInv, TurnInv, Stored, Interrupted
  <2> QED BY <2>1 DEF Position
<1> DEFINE Before == {Len(log) - Position(c) : c \in Interrupted}
<1>3. Before \subseteq Nat /\ Before # {}
  BY <1>1, <1>2
<1>4. PICK n \in Before : \A k \in Before : ~(<<k, n>> \in OpToRel(<, Nat))
  BY <1>3, WFMin, NatLessThanWellFounded
<1>5. \A k \in Before : ~(k < n)
  BY <1>3, <1>4 DEF OpToRel
<1>6. PICK c \in Interrupted : n = Len(log) - Position(c)
  BY <1>4
<1>7. \A d \in Interrupted : Position(d) <= Position(c)
  <2> SUFFICES ASSUME NEW d \in Interrupted PROVE Position(d) <= Position(c)
    OBVIOUS
  <2>1. ~(Len(log) - Position(d) < Len(log) - Position(c))
    BY <1>5, <1>6
  <2> QED BY <1>1, <1>2, <2>1
<1> QED BY <1>6, <1>7 DEF LatestInterrupted

LEMMA LatestHasRoot ==
  ASSUME CInv, Interrupted # {}
  PROVE  /\ turn[LatestInterrupted].root \in Command
         /\ FirstOfChain(turn[LatestInterrupted].root)
<1>1. LatestInterrupted \in Command /\ turn[LatestInterrupted].status = "interrupted"
  BY LatestExists DEF Interrupted
<1> QED BY <1>1 DEF CInv, RootsAreFirst, FirstOfChain, TypeOK

ReqRec == [pc : {"idle", "insert", "raced", "accepted", "replayed", "busy", "conflict"},
           cmd : Command \cup {None}, root : Command \cup {None}]

(* A request moves on, and nothing else does.                              *)
LEMMA RequestKeeps ==
  ASSUME CInv, NEW r \in Request, NEW q \in ReqRec, req' = [req EXCEPT ![r] = q],
         q.pc \in {"insert", "raced"} => q.cmd \in Command,
         q.pc = "insert" /\ q.root # None => FirstOfChain(q.root),
         UNCHANGED <<turn, msg, log, history, card, job, exhausted, body, listed, rec,
                     released, faults>>
  PROVE  CInv'
<1>1. TypeOK /\ req \in [Request -> ReqRec]
  BY DEF CInv, TypeOK, ReqRec
<1>2. /\ req' \in [Request -> ReqRec] /\ req'[r] = q
      /\ \A p \in Request : p # r => req'[p] = req[p]
  BY <1>1
<1>3. TypeOK'
  BY <1>1, <1>2 DEF TypeOK, ReqRec
<1>4. \A d \in Command : Same(d)
  BY DEF Same
<1>5. \A d \in Command : TurnInv(d)'
  BY <1>4, SameKeeps DEF CInv
<1>6. RootsAreFirst'
  BY DEF CInv, RootsAreFirst
<1>7. \A p \in Request : RequestInv(p)'
  BY <1>2 DEF CInv, RequestInv, FirstOfChain
<1> QED BY <1>3, <1>5, <1>6, <1>7 DEF CInv

LEMMA ReadRequestKeeps ==
  ASSUME TurnAssumption, CInv, NEW r \in Request, NEW c \in Command, acceptRead(r, c)
  PROVE  CInv'
<1>1. PICK root \in {None} \cup (IF Interrupted = {} THEN {}
                                 ELSE {turn[LatestInterrupted].root}) :
         req' = [req EXCEPT ![r] =
                   [pc |-> IF Settled(c) THEN SettledAnswer(c) ELSE "insert",
                    cmd |-> c, root |-> IF Settled(c) THEN None ELSE root]]
  BY DEF acceptRead
<1>2. root \in Command \cup {None} /\ (root # None => FirstOfChain(root))
  BY <1>1, LatestHasRoot
<1> DEFINE q == [pc |-> IF Settled(c) THEN SettledAnswer(c) ELSE "insert",
                 cmd |-> c, root |-> IF Settled(c) THEN None ELSE root]
<1>3. SettledAnswer(c) \in {"replayed", "busy"}
  BY DEF SettledAnswer
<1>4. /\ q \in ReqRec /\ q.cmd \in Command
      /\ q.pc = "insert" /\ q.root # None => FirstOfChain(q.root)
  BY <1>2, <1>3 DEF ReqRec
<1> HIDE DEF q
<1> QED BY <1>1, <1>4, RequestKeeps DEF acceptRead, q

(* An answer without a write.                                              *)
LEMMA AnswerIs ==
  ASSUME CInv, NEW r \in Request,
         NEW a \in {"raced", "accepted", "replayed", "busy", "conflict"}, Answer(r, a)
  PROVE  \E q \in ReqRec : /\ req' = [req EXCEPT ![r] = q]
                           /\ q.pc = a /\ q.cmd = req[r].cmd /\ q.root = None
<1>1. req \in [Request -> ReqRec]
  BY DEF CInv, TypeOK, ReqRec
<1> DEFINE x == [req[r] EXCEPT !.pc = a]
           f == [req EXCEPT ![r] = x]
           q == [f[r] EXCEPT !.root = None]
<1>2. x \in ReqRec /\ x.pc = a /\ x.cmd = req[r].cmd
  BY <1>1 DEF ReqRec
<1>3. req' = [f EXCEPT ![r] = q]
  BY DEF Answer
<1>4. f \in [Request -> ReqRec] /\ f[r] = x
  <2> HIDE DEF x
  <2> QED BY <1>1, <1>2
<1>5. q \in ReqRec /\ q.pc = a /\ q.cmd = req[r].cmd /\ q.root = None
  <2>1. PICK y \in ReqRec : y = f[r]
    BY <1>2, <1>4
  <2> HIDE DEF x
  <2>2. y.pc = a /\ y.cmd = req[r].cmd
    BY <1>2, <1>4, <2>1
  <2> HIDE DEF f
  <2>3. q = [y EXCEPT !.root = None]
    BY <2>1
  <2> HIDE DEF q
  <2> QED BY <2>2, <2>3 DEF ReqRec
<1>6. [f EXCEPT ![r] = q] = [req EXCEPT ![r] = q]
  <2> HIDE DEF q
  <2> HIDE DEF x
  <2> QED BY <1>1
<1> HIDE DEF q
<1> QED BY <1>3, <1>5, <1>6

LEMMA AnswerKeeps ==
  ASSUME TurnAssumption, CInv, NEW r \in Request, acceptRaced(r) \/ acceptResolve(r)
  PROVE  CInv'
<1>1. /\ UNCHANGED <<turn, msg, log, history, card, job, exhausted, body, listed, rec,
                     released, faults>>
      /\ req[r].pc \in {"insert", "raced"}
  BY DEF acceptRaced, acceptResolve
<1>2. PICK a \in {"raced", "replayed", "busy", "conflict"} : Answer(r, a)
  BY DEF acceptRaced, acceptResolve, SettledAnswer
<1>3. PICK q \in ReqRec : /\ req' = [req EXCEPT ![r] = q]
                          /\ q.pc = a /\ q.cmd = req[r].cmd /\ q.root = None
  BY <1>2, AnswerIs
<1>4. req[r].cmd \in Command
  BY <1>1 DEF CInv, RequestInv
<1> QED BY <1>1, <1>2, <1>3, <1>4, RequestKeeps

(* The accept that stores the turn.                                        *)
LEMMA InsertKeeps ==
  ASSUME TurnAssumption, CInv, NEW r \in Request, acceptInsert(r)
  PROVE  CInv'
<1>0. PICK c \in Command : c = req[r].cmd
  BY DEF acceptInsert, CInv, RequestInv
<1>1. /\ TypeOK /\ req[r].pc = "insert" /\ RequestInv(r)
      /\ turn[c].status = "none"
  BY <1>0 DEF acceptInsert, CInv, Settled
<1>2. TurnInv(c)
  BY <1>1 DEF CInv
<1>3. PICK sho \in BOOLEAN :
         /\ sho => req[r].root = None
         /\ turn' = [turn EXCEPT ![c] = [status |-> IF sho THEN "done" ELSE "queued",
                                         late |-> FALSE, root |-> RootOf(r, c)]]
         /\ msg' = [msg EXCEPT ![c] = [text |-> IF sho THEN "complete" ELSE "streaming",
                                       rev |-> 1]]
         /\ job' = [job EXCEPT ![c] = IF sho THEN "none" ELSE "created"]
  BY <1>0 DEF acceptInsert
<1>4. /\ log' = Append(log, c) /\ history' = c /\ card' = FALSE /\ Answer(r, "accepted")
      /\ UNCHANGED <<exhausted, body, listed, rec, released, faults>>
  BY <1>0 DEF acceptInsert
<1>5. PICK q \in ReqRec : req' = [req EXCEPT ![r] = q] /\ q.pc = "accepted"
  BY <1>4, AnswerIs
<1>6. /\ RootOf(r, c) \in Command
      /\ RootOf(r, c) # c => FirstOfChain(RootOf(r, c))
  BY <1>1 DEF RootOf, TypeOK, RequestInv
<1> DEFINE t == [status |-> IF sho THEN "done" ELSE "queued",
                 late |-> FALSE, root |-> RootOf(r, c)]
           m == [text |-> IF sho THEN "complete" ELSE "streaming", rev |-> 1]
           j == IF sho THEN "none" ELSE "created"
<1>7. /\ t \in TurnRec /\ t.status \in {"done", "queued"} /\ t.root = RootOf(r, c)
      /\ m \in [text : Texts, rev : Nat] /\ m.text # "none"
      /\ t.status = "done" => m.text = "complete"
      /\ j \in {"none", "created"}
  BY <1>6 DEF TurnRec, Texts, Active, Final
<1>8. /\ turn \in [Command -> TurnRec] /\ msg \in [Command -> [text : Texts, rev : Nat]]
      /\ job \in [Command -> JobStates] /\ req \in [Request -> ReqRec]
      /\ log \in Seq(Command \cup {None})
  BY <1>1 DEF TypeOK, TurnRec, JobStates, ReqRec
<1>9. /\ turn' = [turn EXCEPT ![c] = t] /\ msg' = [msg EXCEPT ![c] = m]
      /\ job' = [job EXCEPT ![c] = j]
  BY <1>3
<1> HIDE DEF t
<1> HIDE DEF m
<1> HIDE DEF j
<1>10. /\ turn' \in [Command -> TurnRec] /\ turn'[c] = t
       /\ \A d \in Command : d # c => turn'[d] = turn[d]
  BY <1>1, <1>7, <1>8, <1>9
<1>11. /\ msg' \in [Command -> [text : Texts, rev : Nat]] /\ msg'[c] = m
       /\ \A d \in Command : d # c => msg'[d] = msg[d]
  BY <1>1, <1>7, <1>8, <1>9
<1>12. /\ job' \in [Command -> JobStates] /\ job'[c] \in {"none", "created"}
       /\ \A d \in Command : d # c => job'[d] = job[d]
  BY <1>1, <1>7, <1>8, <1>9 DEF JobStates
<1>13. /\ req' \in [Request -> ReqRec] /\ req'[r].pc = "accepted"
       /\ \A p \in Request : p # r => req'[p] = req[p]
  BY <1>5, <1>8
<1>14. /\ log' \in Seq(Command \cup {None}) /\ Len(log') = Len(log) + 1
       /\ log'[Len(log')] = c /\ Len(log) \in Nat
  BY <1>1, <1>4, <1>8
<1>15. TypeOK'
  BY <1>1, <1>4, <1>10, <1>11, <1>12, <1>13, <1>14
     DEF TypeOK, TurnRec, JobStates, ReqRec
<1>16. /\ body[c].pc = "none" /\ ~body[c].reached /\ body[c].want # "streaming"
       /\ ~body[c].failed /\ rec[c].pc = "none" /\ c \notin released
  BY <1>1, <1>2 DEF TurnInv, Stored, Fetched, Started, Unused, Recovers, Reported,
                    Unreached, Final
<1>17. Stored(c)'
  <2>1. Len(log') \in 1 .. Len(log')
    BY <1>14
  <2> QED BY <1>7, <1>10, <1>11, <1>14, <2>1 DEF Stored
<1>18. Fetched(c)' /\ Started(c)' /\ Unused(c)' /\ Recovers(c)'
  BY <1>4, <1>16 DEF Fetched, Started, Unused, Recovers, Working
<1>19. Reported(c)' /\ Replied(c)' /\ Settles(c)'
  BY <1>4, <1>7, <1>10, <1>11, <1>16 DEF Reported, Replied, Settles, TextOver, Final
<1>20. \A d \in Command : d # c => TurnInv(d)'
  <2> SUFFICES ASSUME NEW d \in Command, d # c PROVE TurnInv(d)'
    OBVIOUS
  <2>1. Same(d) /\ TurnInv(d)
    BY <1>4, <1>10, <1>11, <1>12 DEF Same, CInv
  <2> QED BY <1>1, <1>4, <2>1, LogGrows
<1>21. \A d \in Command : FirstOfChain(d) => FirstOfChain(d)'
  BY <1>1, <1>10 DEF FirstOfChain
<1>22. RootsAreFirst'
  <2> SUFFICES ASSUME NEW d \in Command, turn'[d].root # d
               PROVE  /\ turn'[turn'[d].root].status = "interrupted"
                      /\ turn'[turn'[d].root].root = turn'[d].root
    BY DEF RootsAreFirst
  <2> DEFINE e == turn'[d].root
  <2>1. e \in Command /\ turn[e].status = "interrupted" /\ turn[e].root = e
    <3>1. CASE d = c
      BY <1>6, <1>7, <1>10, <3>1 DEF FirstOfChain
    <3>2. CASE d # c
      BY <1>8, <1>10, <3>2 DEF CInv, RootsAreFirst, TurnRec
    <3> QED BY <3>1, <3>2
  <2> HIDE DEF e
  <2> QED BY <1>1, <1>10, <2>1 DEF e
<1>23. \A p \in Request : RequestInv(p)'
  <2> SUFFICES ASSUME NEW p \in Request PROVE RequestInv(p)'
    OBVIOUS
  <2>1. CASE p = r
    BY <1>13, <2>1 DEF RequestInv
  <2>2. CASE p # r
    <3>1. RequestInv(p) /\ (req[p].root = None \/ req[p].root \in Command)
      BY <1>8 DEF CInv, ReqRec
    <3> QED BY <1>13, <1>21, <2>2, <3>1 DEF RequestInv, FirstOfChain
  <2> QED BY <2>1, <2>2
<1>24. \A d \in Command : TurnInv(d)'
  BY <1>17, <1>18, <1>19, <1>20 DEF TurnInv
<1> QED BY <1>15, <1>22, <1>23, <1>24 DEF CInv

----------------------------------------------------------------------------
LEMMA InitCInv ==
  ASSUME TurnAssumption, Init
  PROVE  CInv
<1>1. TypeOK
  <2>1. body \in [Command -> BodyRec]
    BY NoBodyType DEF Init
  <2>2. turn \in [Command -> TurnRec]
    BY DEF Init, TurnRec
  <2>3. log \in Seq(Command \cup {None}) /\ faults \in 0 .. MaxFaults
    BY DEF Init, TurnAssumption
  <2>4. /\ msg \in [Command -> [text : Texts, rev : Nat]]
        /\ rec \in [Command -> RecRec] /\ req \in [Request -> ReqRec]
    BY DEF Init, Texts, RecRec, ReqRec
  <2> QED BY <2>1, <2>2, <2>3, <2>4 DEF Init, TypeOK, BodyRec, TurnRec, RecRec, ReqRec
<1>2. \A c \in Command : TurnInv(c)
  BY DEF Init, TurnInv, Stored, Fetched, Started, Unused, Recovers, Reported, Replied,
         Settles, NoBody, Final, Working
<1>3. RootsAreFirst /\ \A r \in Request : RequestInv(r)
  BY DEF Init, RootsAreFirst, RequestInv
<1> QED BY <1>1, <1>2, <1>3 DEF CInv

LEMMA NextKeepsCInv ==
  ASSUME TurnAssumption, CInv, [Next]_vars
  PROVE  CInv'
<1>1. ASSUME NEW r \in Request, RequestStep(r) PROVE CInv'
  BY <1>1, ReadRequestKeeps, InsertKeeps, AnswerKeeps DEF RequestStep
<1>2. CASE appendNote
  BY <1>2, NoteKeeps
<1>3. CASE listOverdueTurns
  BY <1>3, ListKeeps
<1>4. ASSUME NEW c \in Command, BodyStep(c) PROVE CInv'
  BY <1>4, ReadKeeps, StartKeeps, BindKeeps, ReachKeeps, CardKeeps, HistoryKeeps,
     EndRunKeeps, WriteReadKeeps, WriteStoreKeeps, ReadStoredKeeps, FinishKeeps,
     ReleaseKeeps DEF BodyStep
<1>5. ASSUME NEW c \in Command, EndingStep(c) PROVE CInv'
  BY <1>5, InterruptKeeps, RecoverReleaseKeeps, RecoverBindKeeps, RecoverReadKeeps,
     RecoverStoreKeeps DEF EndingStep
<1>6. ASSUME NEW c \in Command,
             \/ fetchJob(c) \/ deadlineFires(c) \/ abandonAttempt(c) \/ becomeLate(c)
             \/ crashBody(c) \/ crashRecovery(c)
      PROVE  CInv'
  BY <1>6, FetchKeeps, DeadlineKeeps, AbandonKeeps, LateKeeps, CrashBodyKeeps,
     RecoverBindKeeps
<1>7. CASE UNCHANGED vars
  BY <1>7 DEF vars, CInv, TypeOK, TurnInv, Stored, Fetched, Started, Unused, Recovers,
              Reported, Replied, Settles, TextOver, IsLatest, RootsAreFirst, RequestInv,
              FirstOfChain
<1> QED BY <1>1, <1>2, <1>3, <1>4, <1>5, <1>6, <1>7 DEF Next

LEMMA CInvHolds == TurnAssumption => (Spec => []CInv)
<1> SUFFICES ASSUME TurnAssumption PROVE Spec => []CInv
  OBVIOUS
<1>1. Init => CInv
  BY InitCInv
<1>2. CInv /\ [Next]_vars => CInv'
  BY NextKeepsCInv
<1> QED BY <1>1, <1>2, PTL DEF Spec

(* In every state the program can reach, for any number of commands,       *)
(* requests, jobs and faults: a turn that reads done has a complete reply  *)
(* and one that reads failed has none streaming as the latest message      *)
(* (endText), the budget hold of a turn is given back only when its run    *)
(* never reached the model (releaseHold, recoverInterruptedTurn), the keys *)
(* of a continuation come from a turn that was interrupted and continues   *)
(* nothing (readLatestInterruptedTurn), and without faults nobody leaves   *)
(* the latest message of an ended turn streaming.                          *)
THEOREM TurnsAreSound == TurnAssumption => (Spec => []TurnsSound)
<1> SUFFICES ASSUME TurnAssumption PROVE Spec => []TurnsSound
  OBVIOUS
<1>1. CInv => TurnsSound
  <2> SUFFICES ASSUME CInv PROVE TurnsSound
    OBVIOUS
  <2>1. TypeOK /\ RootsAreFirst /\ \A c \in Command : TurnInv(c)
    BY DEF CInv
  <2>2. DoneMeansReply
    BY <2>1 DEF TurnInv, Replied, DoneMeansReply, TextOver
  <2>3. ReleasedNeverReached
    <3>1. released \subseteq Command
      BY <2>1 DEF TypeOK
    <3> QED BY <2>1, <3>1 DEF TurnInv, Unused, ReleasedNeverReached
  <2>4. Fault = {} => QuietTextEnded
    BY <2>1 DEF TurnInv, Settles, QuietTextEnded, Quiet, TextOver
  <2> QED BY <2>1, <2>2, <2>3, <2>4 DEF TurnsSound
<1>2. Spec => []CInv
  BY CInvHolds
<1> QED BY <1>1, <1>2, PTL

----------------------------------------------------------------------------
(* What no step does.                                                      *)

(* Rows change only while they are active.                                 *)
LEMMA OnlyActiveRows ==
  ASSUME TypeOK, NEW c \in Command, turn[c].status \in Active, UNCHANGED <<msg, history>>,
         \A d \in Command : d # c => turn'[d] = turn[d]
  PROVE  EndedStays
BY DEF EndedStays, Active, Final

LEMMA RowSteps ==
  ASSUME CInv, NEW c \in Command,
         startTurn(c) \/ finishTurn(c) \/ interruptTurn(c) \/ sweepOverdueTurn(c) \/ becomeLate(c)
  PROVE  EndedStays
<1>1. TypeOK /\ turn \in [Command -> TurnRec] /\ UNCHANGED <<msg, history>>
  BY DEF CInv, TypeOK, TurnRec, startTurn, finishTurn, interruptTurn, sweepOverdueTurn,
         becomeLate
<1>2. CASE UNCHANGED turn
  BY <1>1, <1>2 DEF EndedStays
<1>3. CASE turn[c].status \in Active /\ \E s \in Final : EndRow(c, s)
  BY <1>1, <1>3, RowEnds, OnlyActiveRows
<1>4. CASE turn[c].status = "queued" /\ turn' = [turn EXCEPT ![c].status = "running"]
  BY <1>1, <1>4, OnlyActiveRows DEF Active
<1>5. CASE turn[c].status \in Active /\ turn' = [turn EXCEPT ![c].late = TRUE]
  BY <1>1, <1>5, OnlyActiveRows
<1>6. \A w : StatusOfText(w) \in Final
  BY DEF StatusOfText, Final
<1> QED
  BY <1>2, <1>3, <1>4, <1>5, <1>6
     DEF startTurn, finishTurn, interruptTurn, sweepOverdueTurn, becomeLate, eligible,
         overdue, Final

LEMMA NextKeepsEnded ==
  ASSUME TurnAssumption, CInv, [Next]_vars
  PROVE  EndedStays
<1>1. TypeOK /\ msg \in [Command -> [text : Texts, rev : Nat]]
  BY DEF CInv, TypeOK
<1>2. CASE UNCHANGED <<turn, msg, history>>
  BY <1>2 DEF EndedStays
<1>3. ASSUME NEW r \in Request, acceptInsert(r) PROVE EndedStays
  <2>1. PICK c \in Command : c = req[r].cmd
    BY <1>3 DEF acceptInsert, CInv, RequestInv
  <2>2. turn[c].status = "none" /\ history' = c
    BY <1>3, <2>1 DEF acceptInsert, Settled
  <2>3. \A d \in Command : d # c => turn'[d] = turn[d] /\ msg'[d] = msg[d]
    BY <1>1, <1>3, <2>1 DEF acceptInsert, TypeOK
  <2> QED BY <2>2, <2>3 DEF EndedStays, Final
<1>4. ASSUME NEW c \in Command, saveHistory(c) PROVE EndedStays
  BY <1>4 DEF saveHistory, RowUnchanged, holdsClaim, EndedStays, Final
<1>5. ASSUME NEW c \in Command, writeStore(c) PROVE EndedStays
  <2>1. UNCHANGED <<turn, history>>
    BY <1>5 DEF writeStore, RowUnchanged
  <2>2. \A d \in Command : msg'[d] = msg[d] \/ (d = c /\ turn[c].status = "running")
    BY <1>1, <1>5 DEF writeStore, holdsClaim
  <2> QED BY <2>1, <2>2 DEF EndedStays, Final
<1>6. ASSUME NEW c \in Command, recoverStore(c) PROVE EndedStays
  <2>1. UNCHANGED <<turn, history>> /\ rec[c].pc = "store"
    BY <1>6 DEF recoverStore, RecUnchanged
  <2>2. \A d \in Command : \/ msg'[d] = msg[d]
                           \/ /\ d = c /\ msg'[c].text = "interrupted"
                              /\ rec[c].seen = msg[c].rev
    BY <1>1, <1>6 DEF recoverStore
  <2>3. rec[c].seen = msg[c].rev => msg[c].text = "streaming"
    BY <2>1 DEF CInv, TurnInv, Recovers
  <2> QED BY <2>1, <2>2, <2>3 DEF EndedStays
<1>7. ASSUME NEW r \in Request, RequestStep(r) PROVE EndedStays
  BY <1>2, <1>3, <1>7 DEF RequestStep, acceptRead, acceptRaced, acceptResolve
<1>8. ASSUME NEW c \in Command, BodyStep(c) PROVE EndedStays
  BY <1>2, <1>4, <1>5, <1>8, RowSteps
     DEF BodyStep, RowUnchanged, readTurnForJob, placeholderBind, reachModel, toolCard,
         endRun, writeRead, readStored, releaseHold
<1>9. ASSUME NEW c \in Command, EndingStep(c) PROVE EndedStays
  BY <1>2, <1>6, <1>9, RowSteps
     DEF EndingStep, RecUnchanged, recoverRelease, recoverBind, recoverRead
<1>10. ASSUME NEW c \in Command,
              \/ fetchJob(c) \/ deadlineFires(c) \/ abandonAttempt(c) \/ becomeLate(c)
              \/ crashBody(c) \/ crashRecovery(c)
       PROVE  EndedStays
  BY <1>2, <1>10, RowSteps
     DEF fetchJob, deadlineFires, abandonAttempt, crashBody, crashRecovery, RowUnchanged,
         RecUnchanged
<1>11. CASE appendNote \/ listOverdueTurns \/ UNCHANGED vars
  BY <1>2, <1>11 DEF appendNote, listOverdueTurns, vars
<1> QED BY <1>7, <1>8, <1>9, <1>10, <1>11 DEF Next

(* The answer of one request.                                              *)
LEMMA AnswerRefuses ==
  ASSUME CInv, NEW r \in Request,
         NEW a \in {"raced", "accepted", "replayed", "busy", "conflict"}, Answer(r, a),
         a \in {"busy", "conflict"} => turn[req[r].cmd].status = "none"
  PROVE  RefusedHasNoTurn
<1>1. PICK q \in ReqRec : /\ req' = [req EXCEPT ![r] = q]
                          /\ q.pc = a /\ q.cmd = req[r].cmd /\ q.root = None
  BY AnswerIs
<1>2. req \in [Request -> ReqRec]
  BY DEF CInv, TypeOK, ReqRec
<1> QED BY <1>1, <1>2 DEF RefusedHasNoTurn

LEMMA NextRefuses ==
  ASSUME CInv, [Next]_vars
  PROVE  RefusedHasNoTurn
<1>1. CASE UNCHANGED req
  BY <1>1 DEF RefusedHasNoTurn
<1>2. ASSUME NEW r \in Request, NEW c \in Command, acceptRead(r, c)
      PROVE  RefusedHasNoTurn
  <2>1. PICK q : /\ req' = [req EXCEPT ![r] = q] /\ q.cmd = c
                 /\ q.pc = IF Settled(c) THEN SettledAnswer(c) ELSE "insert"
    <3>1. PICK x : req' = [req EXCEPT ![r] =
                     [pc |-> IF Settled(c) THEN SettledAnswer(c) ELSE "insert",
                      cmd |-> c, root |-> x]]
      BY <1>2 DEF acceptRead
    <3> DEFINE y == [pc |-> IF Settled(c) THEN SettledAnswer(c) ELSE "insert",
                     cmd |-> c, root |-> x]
    <3>2. y.cmd = c /\ y.pc = IF Settled(c) THEN SettledAnswer(c) ELSE "insert"
      OBVIOUS
    <3> HIDE DEF y
    <3> QED BY <3>1, <3>2 DEF y
  <2>2. q.pc \in {"busy", "conflict"} => turn[c].status = "none"
    BY <2>1 DEF SettledAnswer
  <2>3. /\ req'[r] = q /\ \A p \in Request : p # r => req'[p] = req[p]
    BY <2>1 DEF CInv, TypeOK
  <2> QED BY <2>1, <2>2, <2>3 DEF RefusedHasNoTurn
<1>3. ASSUME NEW r \in Request, acceptInsert(r) \/ acceptRaced(r) PROVE RefusedHasNoTurn
  <2>1. Answer(r, "accepted") \/ Answer(r, "raced")
    BY <1>3 DEF acceptInsert, acceptRaced
  <2> QED BY <2>1, AnswerRefuses
<1>4. ASSUME NEW r \in Request, acceptResolve(r) PROVE RefusedHasNoTurn
  <2>1. \E a \in {"replayed", "busy", "conflict"} :
           /\ Answer(r, a)
           /\ a \in {"busy", "conflict"} => turn[req[r].cmd].status = "none"
    BY <1>4 DEF acceptResolve, Settled, SettledAnswer
  <2> QED BY <2>1, AnswerRefuses
<1>5. ASSUME NEW r \in Request, RequestStep(r) PROVE RefusedHasNoTurn
  BY <1>2, <1>3, <1>4, <1>5 DEF RequestStep
<1>6. ASSUME NEW c \in Command, BodyStep(c) PROVE UNCHANGED req
  BY <1>6 DEF BodyStep, RowUnchanged, readTurnForJob, startTurn, placeholderBind,
              reachModel, toolCard, saveHistory, endRun, writeRead, writeStore,
              readStored, finishTurn, releaseHold
<1>7. ASSUME NEW c \in Command, EndingStep(c) PROVE UNCHANGED req
  BY <1>7 DEF EndingStep, RecUnchanged, interruptTurn, sweepOverdueTurn, recoverRelease,
              recoverBind, recoverRead, recoverStore
<1>8. ASSUME NEW c \in Command,
             \/ fetchJob(c) \/ deadlineFires(c) \/ abandonAttempt(c) \/ becomeLate(c)
             \/ crashBody(c) \/ crashRecovery(c)
      PROVE  UNCHANGED req
  BY <1>8 DEF fetchJob, deadlineFires, abandonAttempt, becomeLate, crashBody,
              crashRecovery, RowUnchanged, RecUnchanged
<1>9. CASE appendNote \/ listOverdueTurns \/ UNCHANGED vars
  BY <1>1, <1>9 DEF appendNote, listOverdueTurns, vars
<1> QED BY <1>1, <1>5, <1>6, <1>7, <1>8, <1>9 DEF Next

(* No step, of whatever party and however late, reopens an ended turn or   *)
(* lets its run write the message or the history again: what is left is    *)
(* recovery ending a text that still streams (finaliseTurn, holdTurnClaim, *)
(* settlePlaceholder).  And no accept is refused as busy or conflicting    *)
(* for a command that has a turn (settledAccept).                          *)
THEOREM TurnsStayEnded == TurnAssumption => (Spec => TurnsKept)
<1> SUFFICES ASSUME TurnAssumption PROVE Spec => TurnsKept
  OBVIOUS
<1>1. CInv /\ [Next]_vars => [EndedStays /\ RefusedHasNoTurn]_vars
  BY NextKeepsEnded, NextRefuses
<1>2. Spec => []CInv
  BY CInvHolds
<1> QED BY <1>1, <1>2, PTL DEF Spec, TurnsKept

-----------------------------------------------------------------------------
(* The thread that a phone shows.                                          *)

(* Every message of one window is in the other, and not at an earlier       *)
(* revision.                                                                *)
Within(r, s) == Len(r) <= Len(s) /\ \A i \in DOMAIN r : r[i] <= s[i]

Times == 1..now
Ids == Messages \cup {Nobody}

(* What the connection has yet to tell, and the ends among it; turns that   *)
(* run, or whose end the phone has yet to hear of.                          *)
Told == {stream.events[i] : i \in DOMAIN stream.events}
EndsTold == {e \in Told : e.type = "turn.finished"}
LiveTurn(m) == m = cur.turn \/ m = ended.turn \/ \E e \in EndsTold : e.turn = m

(* A re-read r that will settle the thread; one that shows a state since n, *)
(* or is followed by one that does.                                         *)
WillSettle(r) == r.since # 0 /\ r.fresh /\ ~r.again
Awaits(r, n) == r.since # 0 /\ (r.again \/ r.since >= n)

StreamEvents ==
  [type : {"turn.started"}, turn : Messages]
    \cup [type : {"message.updated"}, message : Messages, revision : 1..MaxRevision]
    \cup [type : {"turn.finished"}, turn : Messages, window : {{}} \cup {{w} : w \in Windows}]
ThreadStates ==
  [known : BOOLEAN, thread : Windows, tracked : Ids, finished : SUBSET Messages,
   closed : SUBSET Messages]
CommandStates ==
  [kind : {"none", "reload", "send", "answer", "dismiss"},
   todo : Seq({"accept", "close", "trace"}), pause : Ids, since : Nat \ {0}, ok : BOOLEAN]

ThreadTypes ==
  /\ hist \in Seq(Windows) /\ hist # <<>>
  /\ worker \in {"none", "queued", "running", "asking"}
  /\ asked \in [Messages -> 0..MaxRevision]
  /\ ended \in [turn : Ids, since : Nat \ {0}, read : BOOLEAN] /\ ended.since \in Times
  /\ other \in [run : CommandStates, left : Nat] /\ other.run.since \in Times
  /\ stream \in [since : Nat \ {0}, snapshot : BOOLEAN, events : Seq(StreamEvents)]
  /\ stream.since \in Times
  /\ state \in ThreadStates
  /\ command \in CommandStates /\ command.since \in Times
  /\ reread \in [since : Nat, fresh : BOOLEAN, again : BOOLEAN] /\ reread.since \in 0..now
  /\ left \in [commands : Nat, losses : Nat, heard : BOOLEAN]
  /\ ~state.known => state.thread = NoThread /\ state.closed = {}

(* The server.  Its history only grows, a turn is a message appended after  *)
(* every earlier turn, and while an end is owed no other turn ends.         *)
HistoryInv ==
  /\ hist[1] = NoThread
  /\ \A n \in Times : hist[n].turn <= Len(hist[n].revs)
  /\ \A a, b \in Times : a <= b => Within(hist[a].revs, hist[b].revs)
  /\ \A a, b \in Times : a <= b /\ hist[a].turn # Nobody
                           /\ hist[b].turn \notin {Nobody, hist[a].turn} =>
       Len(hist[a].revs) < hist[b].turn
  /\ (worker = "none") = (cur.turn = Nobody)

(* The last end of a turn is where the turn's own last state left it.       *)
LastEnd ==
  cur.turn = Nobody =>
    \E n \in Times :
      /\ n = 1 \/ (hist[n - 1].turn # Nobody /\ hist[n].revs = hist[n - 1].revs)
      /\ \A k \in n..now : hist[k].turn = Nobody

EndIsOwed ==
  ended # NoEnd =>
    /\ ended.turn \in DOMAIN cur.revs /\ ended.turn # cur.turn
    /\ ~ended.read => cur.revs[ended.turn] < MaxRevision
    /\ \A n \in Times : hist[n].turn = ended.turn => n < ended.since
    /\ \A n \in ended.since..now : hist[n].turn \in {Nobody, cur.turn}

(* What an event tells has been: a revision was written during the turn of  *)
(* its message, and the window of an end shows all of its turn.             *)
UpdateTells(e) ==
  e.type = "message.updated" =>
    \E n \in Times :
      /\ hist[n].turn = e.message /\ e.message \in DOMAIN hist[n].revs
      /\ hist[n].revs[e.message] = e.revision
EndTells(e) ==
  e.type = "turn.finished" =>
    /\ e.turn \in DOMAIN cur.revs /\ e.turn # cur.turn
    /\ \A w \in e.window :
         /\ \E n \in Times : w.revs = hist[n].revs
         /\ \A n \in Times : hist[n].turn = e.turn => Within(hist[n].revs, w.revs)
         /\ w.turn # Nobody => \E n \in stream.since..now : hist[n].turn = w.turn
EventsTell == \A e \in Told : UpdateTells(e) /\ EndTells(e)

(* The phone shows nothing that has not been, and has all of the history    *)
(* before its latest message.                                               *)
EndedOnly == state.finished \subseteq DOMAIN cur.revs \ {cur.turn}
NothingAhead == Within(state.thread.revs, cur.revs)
Whole ==
  \A n \in Times : Len(hist[n].revs) < Len(state.thread.revs) =>
    Within(hist[n].revs, state.thread.revs)
SinceSnapshot ==
  /\ \/ Within(hist[stream.since].revs, state.thread.revs)
     \/ (~stream.snapshot /\ Within(state.thread.revs, hist[stream.since].revs))
  /\ stream.snapshot => state.known

(* What a re-read that settles may rely on: no window came since it was     *)
(* issued, what it shows running has not ended for the phone, and where the *)
(* phone is ahead of it, a running turn has written.                        *)
Settling ==
  WillSettle(reread) =>
    /\ stream.snapshot => stream.since <= reread.since
    /\ \A n \in reread.since..now : hist[n].turn \notin state.finished
    /\ Len(state.thread.revs) <= Len(hist[reread.since].revs)
    /\ \A p \in DOMAIN state.thread.revs :
         state.thread.revs[p] > hist[reread.since].revs[p] =>
           \E n \in reread.since..now : hist[n].turn = p

(* Unless a failure went unheard: the phone hears of the end of every turn  *)
(* since its connection began; while it shows a turn, or lacks a message of *)
(* one, something is under way that tells it.                               *)
EndsHeard ==
  \A n \in stream.since..now :
    hist[n].turn # Nobody => LiveTurn(hist[n].turn) \/ hist[n].turn \in state.finished
TurnShown ==
  state.thread.turn # Nobody =>
    (\E m \in Messages : LiveTurn(m)) \/ ~stream.snapshot \/ Awaits(reread, stream.since)
MessagesShown ==
  \A n \in Times : hist[n].turn # Nobody =>
    \/ Within(hist[n].revs, state.thread.revs) \/ LiveTurn(hist[n].turn)
    \/ (~stream.snapshot /\ n <= stream.since)
    \/ Awaits(reread, n)

ServerInv == HistoryInv /\ LastEnd /\ EndIsOwed /\ EventsTell
PhoneInv == EndedOnly /\ NothingAhead /\ Whole /\ SinceSnapshot /\ Settling
HeardInv == left.heard => EndsHeard /\ TurnShown /\ MessagesShown
ThreadInv == ThreadTypes /\ ServerInv /\ PhoneInv /\ HeardInv

-----------------------------------------------------------------------------
(* Windows and histories.                                                  *)

LEMMA FunctionIsSequence ==
  ASSUME NEW S, NEW n \in Nat, NEW r \in [1..n -> S]
  PROVE  r \in Seq(S) /\ Len(r) = n
OBVIOUS

LEMMA SequenceElements ==
  ASSUME NEW S, NEW r \in Seq(S)
  PROVE  /\ Len(r) \in Nat /\ DOMAIN r = 1..Len(r) /\ r \in [1..Len(r) -> S]
         /\ \A i \in DOMAIN r : r[i] \in S
OBVIOUS

LEMMA RevisionsAreSeqs ==
  ASSUME ThreadAssumption
  PROVE  Revisions = {r \in Seq(1..MaxRevision) : Len(r) <= MaxMessages}
<1>1. ASSUME NEW r \in Revisions PROVE r \in Seq(1..MaxRevision) /\ Len(r) <= MaxMessages
  <2>1. PICK n \in 0..MaxMessages : r \in [1..n -> 1..MaxRevision] BY <1>1 DEF Revisions
  <2>2. n \in Nat /\ n <= MaxMessages BY <2>1 DEF ThreadAssumption
  <2>3. r \in Seq(1..MaxRevision) /\ Len(r) = n BY <2>1, <2>2, FunctionIsSequence
  <2> QED BY <2>2, <2>3
<1>2. ASSUME NEW r \in Seq(1..MaxRevision), Len(r) <= MaxMessages PROVE r \in Revisions
  <2>1. Len(r) \in Nat /\ r \in [1..Len(r) -> 1..MaxRevision] BY SequenceElements
  <2>2. Len(r) \in 0..MaxMessages BY <2>1, <1>2 DEF ThreadAssumption
  <2> QED BY <2>1, <2>2 DEF Revisions
<1> QED BY <1>1, <1>2

LEMMA WindowFields ==
  ASSUME ThreadAssumption, NEW w \in Windows
  PROVE  /\ w.revs \in Seq(1..MaxRevision) /\ w.revs \in Seq(Nat) /\ Len(w.revs) \in Nat
         /\ Len(w.revs) <= MaxMessages /\ DOMAIN w.revs = 1..Len(w.revs)
         /\ DOMAIN w.revs \subseteq Messages
         /\ \A i \in DOMAIN w.revs : w.revs[i] \in 1..MaxRevision /\ w.revs[i] \in Nat
         /\ w.turn \in Ids /\ w.turn \in Nat /\ w.pause \in Ids
<1>1. w.revs \in Seq(1..MaxRevision) /\ Len(w.revs) <= MaxMessages /\ w.turn \in Ids /\ w.pause \in Ids
  BY RevisionsAreSeqs DEF Windows, Ids
<1>2. 1..MaxRevision \subseteq Nat /\ MaxMessages \in Nat BY DEF ThreadAssumption
<1>3. /\ Len(w.revs) \in Nat /\ DOMAIN w.revs = 1..Len(w.revs)
      /\ \A i \in DOMAIN w.revs : w.revs[i] \in 1..MaxRevision
  BY <1>1, SequenceElements
<1>4. w.revs \in [1..Len(w.revs) -> Nat] BY <1>1, <1>2, <1>3, SequenceElements
<1>5. w.revs \in Seq(Nat) BY <1>3, <1>4, FunctionIsSequence
<1>6. \A i \in 1..MaxRevision : i \in Nat BY <1>2
<1> QED BY <1>1, <1>2, <1>3, <1>5, <1>6 DEF Ids, Messages, Nobody

LEMMA WindowMade ==
  ASSUME ThreadAssumption, NEW r \in Seq(1..MaxRevision), Len(r) <= MaxMessages,
         NEW p \in Ids, NEW t \in Ids
  PROVE  [revs |-> r, pause |-> p, turn |-> t] \in Windows
BY RevisionsAreSeqs DEF Windows, Ids

LEMMA NoThreadIsWindow ==
  ASSUME ThreadAssumption
  PROVE  NoThread \in Windows /\ NoThread.revs = <<>> /\ NoThread.turn = Nobody
<1>1. <<>> \in Seq(1..MaxRevision) /\ Len(<<>>) = 0 /\ 0 <= MaxMessages BY DEF ThreadAssumption
<1> QED BY <1>1, WindowMade DEF NoThread, Ids

LEMMA WithinReflexive ==
  ASSUME NEW r \in Seq(Nat) PROVE Within(r, r)
BY DEF Within

LEMMA WithinTransitive ==
  ASSUME NEW r \in Seq(Nat), NEW s \in Seq(Nat), NEW t \in Seq(Nat), Within(r, s), Within(s, t)
  PROVE  Within(r, t)
<1>1. Len(r) \in Nat /\ Len(s) \in Nat /\ Len(t) \in Nat OBVIOUS
<1>2. Len(r) <= Len(t) BY <1>1 DEF Within
<1>3. ASSUME NEW i \in DOMAIN r PROVE r[i] <= t[i]
  <2>1. i \in 1..Len(r) /\ i \in 1..Len(s) /\ i \in 1..Len(t) BY <1>1, <1>2, <1>3 DEF Within
  <2>2. r[i] \in Nat /\ s[i] \in Nat /\ t[i] \in Nat BY <2>1
  <2>3. r[i] <= s[i] /\ s[i] <= t[i] BY <2>1 DEF Within
  <2> QED BY <2>2, <2>3
<1> QED BY <1>2, <1>3 DEF Within

LEMMA WithinEmpty ==
  ASSUME NEW r \in Seq(Nat) PROVE Within(<<>>, r)
BY DEF Within

LEMMA HistoryFields ==
  ASSUME ThreadAssumption, ThreadTypes
  PROVE  /\ now \in Nat /\ 1 \in Times /\ now \in Times /\ cur = hist[now]
         /\ \A n \in Times : n \in Nat /\ hist[n] \in Windows
         /\ \A n \in Times : hist[n].revs \in Seq(Nat) /\ hist[n].turn \in Nat
                              /\ Len(hist[n].revs) \in Nat
         /\ cur \in Windows /\ state.thread \in Windows
         /\ state.thread.revs \in Seq(Nat) /\ Len(state.thread.revs) \in Nat
<1>1. hist \in Seq(Windows) /\ hist # <<>> /\ state.thread \in Windows
  BY DEF ThreadTypes, ThreadStates
<1>2. Len(hist) \in Nat /\ Len(hist) > 0 BY <1>1
<1>3. now \in Nat /\ 1 \in Times /\ now \in Times /\ cur = hist[now] BY <1>2 DEF now, Times, cur
<1>4. \A n \in Times : n \in Nat /\ hist[n] \in Windows BY <1>1, <1>3 DEF Times, now
<1> QED BY <1>1, <1>3, <1>4, WindowFields

LEMMA HistoryAppended ==
  ASSUME ThreadAssumption, ThreadTypes, NEW w \in Windows, hist' = Append(hist, w)
  PROVE  /\ now' = now + 1 /\ cur' = w /\ hist'[now + 1] = w
         /\ Times' = Times \cup {now + 1} /\ now + 1 \notin Times
         /\ \A n \in Times : hist'[n] = hist[n]
         /\ hist' \in Seq(Windows) /\ hist' # <<>>
<1>1. hist \in Seq(Windows) /\ now = Len(hist) /\ now \in Nat BY HistoryFields DEF ThreadTypes, now
<1>2. hist' \in Seq(Windows) /\ Len(hist') = now + 1 /\ hist'[now + 1] = w BY <1>1
<1>3. \A n \in 1..now : hist'[n] = hist[n] BY <1>1
<1>4. now' = now + 1 BY <1>2 DEF now
<1>5. 1..(now + 1) = 1..now \cup {now + 1} BY <1>1
<1>6. hist' # <<>> BY <1>1, <1>2
<1> QED BY <1>1, <1>2, <1>3, <1>4, <1>5, <1>6 DEF Times, cur, now

(* What the connection tells, after an event is told or heard.              *)
LEMMA ToldMore ==
  ASSUME stream.events \in Seq(StreamEvents), NEW e \in StreamEvents, tell(e),
        stream \in [since : Nat \ {0}, snapshot : BOOLEAN, events : Seq(StreamEvents)]
  PROVE  /\ Told' = Told \cup {e}
         /\ stream'.since = stream.since /\ stream'.snapshot = stream.snapshot
         /\ stream' \in [since : Nat \ {0}, snapshot : BOOLEAN, events : Seq(StreamEvents)]
<1> DEFINE q == stream.events
           r == stream'.events
<1>1. r = Append(q, e) /\ stream'.since = stream.since /\ stream'.snapshot = stream.snapshot
  BY DEF tell
<1>2. r \in Seq(StreamEvents) /\ Len(r) = Len(q) + 1 /\ DOMAIN q = 1..Len(q)
      /\ DOMAIN r = 1..Len(r) /\ Len(q) \in Nat
  BY <1>1
<1>3. r[Len(q) + 1] = e /\ \A i \in 1..Len(q) : r[i] = q[i] BY <1>1
<1>4. {r[i] : i \in DOMAIN r} = {q[i] : i \in DOMAIN q} \cup {e}
  <2>1. DOMAIN r = DOMAIN q \cup {Len(q) + 1} BY <1>2
  <2> QED BY <2>1, <1>2, <1>3
<1>5. stream' \in [since : Nat \ {0}, snapshot : BOOLEAN, events : Seq(StreamEvents)]
  BY <1>2 DEF tell
<1> QED BY <1>1, <1>4, <1>5 DEF Told

LEMMA ToldLess ==
  ASSUME stream \in [since : Nat \ {0}, snapshot : BOOLEAN, events : Seq(StreamEvents)],
         stream.events # <<>>, stream' = [stream EXCEPT !.events = Tail(@)]
  PROVE  /\ Told = Told' \cup {Head(stream.events)} /\ Head(stream.events) \in StreamEvents
         /\ stream'.since = stream.since /\ stream'.snapshot = stream.snapshot
         /\ stream' \in [since : Nat \ {0}, snapshot : BOOLEAN, events : Seq(StreamEvents)]
<1> DEFINE q == stream.events
           r == stream'.events
<1>1. r = Tail(q) /\ stream'.since = stream.since /\ stream'.snapshot = stream.snapshot
      /\ q \in Seq(StreamEvents) /\ q # <<>>
  OBVIOUS
<1>2. r \in Seq(StreamEvents) /\ Len(r) = Len(q) - 1 /\ DOMAIN q = 1..Len(q)
      /\ DOMAIN r = 1..Len(r) /\ Len(q) \in Nat /\ Len(q) > 0
  BY <1>1
<1>3. Head(q) = q[1] /\ Head(q) \in StreamEvents /\ \A i \in 1..Len(r) : r[i] = q[i + 1]
  BY <1>1, <1>2
<1>4. {q[i] : i \in DOMAIN q} = {r[i] : i \in DOMAIN r} \cup {Head(q)}
  <2>1. ASSUME NEW i \in DOMAIN q PROVE q[i] \in {r[j] : j \in DOMAIN r} \cup {Head(q)}
    <3>1. CASE i = 1 BY <3>1, <1>3
    <3>2. CASE i # 1
      <4>1. i - 1 \in DOMAIN r /\ r[i - 1] = q[i] BY <3>2, <2>1, <1>2, <1>3
      <4> QED BY <4>1
    <3> QED BY <3>1, <3>2
  <2>2. ASSUME NEW i \in DOMAIN r PROVE r[i] \in {q[j] : j \in DOMAIN q}
    <3>1. i + 1 \in DOMAIN q /\ q[i + 1] = r[i] BY <2>2, <1>2, <1>3
    <3> QED BY <3>1
  <2>3. Head(q) \in {q[j] : j \in DOMAIN q} BY <1>2, <1>3
  <2> QED BY <2>1, <2>2, <2>3
<1>5. stream' \in [since : Nat \ {0}, snapshot : BOOLEAN, events : Seq(StreamEvents)]
  BY <1>2
<1> QED BY <1>1, <1>3, <1>4, <1>5 DEF Told

-----------------------------------------------------------------------------
(* The merge.                                                              *)

(* A window that is not behind the thread is past it everywhere, and it is  *)
(* the same window when the thread is past it, too.                         *)
LEMMA OrderFacts ==
  ASSUME ThreadAssumption, NEW h \in Windows, NEW w \in Windows
  PROVE  /\ order(h, w) \in {"behind", "same", "ahead"}
         /\ order(h, w) # "behind" => Within(h.revs, w.revs)
         /\ order(h, w) # "behind" /\ Within(w.revs, h.revs) => order(h, w) = "same"
         /\ order(h, w) = "behind" =>
              \/ Len(w.revs) < Len(h.revs)
              \/ \E i \in DOMAIN h.revs \cap DOMAIN w.revs : w.revs[i] < h.revs[i]
<1> DEFINE n == Len(h.revs)
           k == Len(w.revs)
           low == \E i \in shared(h, w) : w.revs[i] < h.revs[i]
           eq == \A i \in shared(h, w) : w.revs[i] = h.revs[i]
<1>1. /\ n \in Nat /\ k \in Nat /\ DOMAIN h.revs = 1..n /\ DOMAIN w.revs = 1..k
      /\ \A i \in 1..n : h.revs[i] \in Nat
      /\ \A i \in 1..k : w.revs[i] \in Nat
  BY WindowFields
<1>2. w.revs = <<>> <=> k = 0 BY WindowFields
<1>3. shared(h, w) = 1..n \cap 1..k BY <1>1 DEF shared
<1>4. shared(h, w) = {} => n = 0 \/ k = 0
  <2>1. n # 0 /\ k # 0 => 1 \in 1..n \cap 1..k BY <1>1
  <2> QED BY <2>1, <1>3
<1>5. /\ low => order(h, w) = "behind"
      /\ ~low /\ shared(h, w) = {} /\ w.revs # <<>> => order(h, w) = "ahead"
      /\ ~low /\ ~(shared(h, w) = {} /\ w.revs # <<>>) /\ k < n => order(h, w) = "behind"
      /\ ~low /\ ~(shared(h, w) = {} /\ w.revs # <<>>) /\ ~(k < n) =>
           order(h, w) = IF k = n /\ eq THEN "same" ELSE "ahead"
  <2>1. CASE low
    <3>1. ~(shared(h, w) = {} /\ w.revs # <<>>) /\ ~(k = n /\ eq)
      <4>1. PICK i \in shared(h, w) : w.revs[i] < h.revs[i] BY <2>1
      <4>2. w.revs[i] # h.revs[i] BY <4>1, <1>1, <1>3
      <4> QED BY <4>1, <4>2
    <3> QED BY <3>1, <2>1 DEF order
  <2>2. CASE ~low /\ shared(h, w) = {} /\ w.revs # <<>>
    <3>1. ~(k < n) /\ ~(k = n /\ eq) BY <2>2, <1>1, <1>2, <1>4
    <3> QED BY <3>1, <2>2 DEF order
  <2>3. CASE ~low /\ ~(shared(h, w) = {} /\ w.revs # <<>>) /\ k < n
    <3>1. k # n BY <2>3, <1>1
    <3> QED BY <3>1, <2>3 DEF order
  <2>4. CASE ~low /\ ~(shared(h, w) = {} /\ w.revs # <<>>) /\ ~(k < n)
    <3>1. CASE k = n /\ eq BY <3>1, <2>4 DEF order
    <3>2. CASE ~(k = n /\ eq) BY <3>2, <2>4 DEF order
    <3> QED BY <3>1, <3>2
  <2> QED BY <2>1, <2>2, <2>3, <2>4
<1>6. order(h, w) \in {"behind", "same", "ahead"} BY <1>5
<1>7. ASSUME order(h, w) # "behind" PROVE Within(h.revs, w.revs)
  <2>1. ~low BY <1>5, <1>7
  <2>2. n <= k
    <3>1. CASE shared(h, w) = {} /\ w.revs # <<>> BY <3>1, <1>1, <1>2, <1>4
    <3>2. CASE ~(shared(h, w) = {} /\ w.revs # <<>>) BY <3>2, <2>1, <1>1, <1>5, <1>7
    <3> QED BY <3>1, <3>2
  <2>3. ASSUME NEW i \in 1..n PROVE h.revs[i] <= w.revs[i]
    <3>1. i \in 1..k /\ i \in shared(h, w) BY <2>2, <2>3, <1>1, <1>3
    <3>2. ~(w.revs[i] < h.revs[i]) BY <2>1, <3>1
    <3> QED BY <3>1, <3>2, <2>3, <1>1
  <2> QED BY <2>2, <2>3, <1>1 DEF Within
<1>8. ASSUME order(h, w) # "behind", Within(w.revs, h.revs) PROVE order(h, w) = "same"
  <2>1. Within(h.revs, w.revs) BY <1>7, <1>8
  <2>2. k = n BY <2>1, <1>1, <1>8 DEF Within
  <2>3. eq
    <3>1. ASSUME NEW i \in shared(h, w) PROVE w.revs[i] = h.revs[i]
      <4>1. i \in DOMAIN h.revs /\ i \in DOMAIN w.revs /\ i \in 1..n /\ i \in 1..k
        BY <3>1, <1>1, <1>3
      <4>2. h.revs[i] <= w.revs[i] /\ w.revs[i] <= h.revs[i] BY <4>1, <2>1, <1>8 DEF Within
      <4> QED BY <4>1, <4>2, <1>1
    <3> QED BY <3>1
  <2>4. ~(shared(h, w) = {} /\ w.revs # <<>>) BY <2>2, <1>2, <1>4
  <2>5. ~low BY <1>5, <1>8
  <2> QED BY <2>2, <2>3, <2>4, <2>5, <1>1, <1>5
<1>9. ASSUME order(h, w) = "behind"
      PROVE  k < n \/ \E i \in DOMAIN h.revs \cap DOMAIN w.revs : w.revs[i] < h.revs[i]
  <2>1. low \/ k < n BY <1>5, <1>9
  <2> QED BY <2>1, <1>1, <1>3
<1> QED BY <1>6, <1>7, <1>8, <1>9

(* A merge takes a window that is not behind as it is; of one that is       *)
(* behind it takes later revisions of the thread's messages.                *)
LEMMA MergeFacts ==
  ASSUME ThreadAssumption, NEW h \in Windows, NEW w \in Windows
  PROVE  /\ merge(h, w) \in Windows
         /\ order(h, w) # "behind" => merge(h, w) = w
         /\ order(h, w) = "behind" =>
              /\ merge(h, w).turn = h.turn /\ merge(h, w).pause = h.pause
              /\ Len(merge(h, w).revs) = Len(h.revs)
              /\ Within(h.revs, merge(h, w).revs)
              /\ \A i \in DOMAIN h.revs :
                   \/ merge(h, w).revs[i] = h.revs[i]
                   \/ i \in DOMAIN w.revs /\ merge(h, w).revs[i] = w.revs[i]
<1> DEFINE n == Len(h.revs)
           m == merge(h, w)
<1>1. /\ n \in Nat /\ n <= MaxMessages /\ DOMAIN h.revs = 1..n
      /\ h = [revs |-> h.revs, pause |-> h.pause, turn |-> h.turn]
      /\ h.pause \in Ids /\ h.turn \in Ids
      /\ \A i \in 1..n : h.revs[i] \in 1..MaxRevision /\ h.revs[i] \in Nat
      /\ \A i \in DOMAIN w.revs : w.revs[i] \in 1..MaxRevision /\ w.revs[i] \in Nat
  <2>1. h = [revs |-> h.revs, pause |-> h.pause, turn |-> h.turn] BY DEF Windows
  <2> QED BY <2>1, WindowFields
<1>2. CASE order(h, w) = "behind"
  <2> DEFINE r == [i \in DOMAIN h.revs |-> laterOf(h, w, i)]
  <2>1. m = [h EXCEPT !.revs = r] BY <1>2 DEF merge
  <2>2. m = [revs |-> r, pause |-> h.pause, turn |-> h.turn] BY <2>1, <1>1
  <2>3. ASSUME NEW i \in 1..n
        PROVE  /\ r[i] \in 1..MaxRevision /\ h.revs[i] <= r[i]
               /\ r[i] = h.revs[i] \/ (i \in DOMAIN w.revs /\ r[i] = w.revs[i])
    BY <2>3, <1>1 DEF laterOf
  <2>4. r \in [1..n -> 1..MaxRevision] BY <2>3, <1>1
  <2>5. r \in Seq(1..MaxRevision) /\ Len(r) = n BY <2>4, <1>1, FunctionIsSequence
  <2>6. m \in Windows BY <2>2, <2>5, <1>1, WindowMade
  <2>7. m.revs = r /\ m.turn = h.turn /\ m.pause = h.pause BY <2>2
  <2>8. Within(h.revs, r) BY <2>3, <2>5, <1>1 DEF Within
  <2> QED BY <2>3, <2>5, <2>6, <2>7, <2>8, <1>1, <1>2
<1>3. CASE order(h, w) # "behind"
  <2> DEFINE r == [i \in DOMAIN w.revs |->
                     IF i \in DOMAIN h.revs THEN laterOf(h, w, i) ELSE w.revs[i]]
  <2>1. m = [w EXCEPT !.revs = r] BY <1>3 DEF merge
  <2>2. Within(h.revs, w.revs) BY <1>3, OrderFacts
  <2>3. \A i \in DOMAIN w.revs : r[i] = w.revs[i]
    <3>1. ASSUME NEW i \in DOMAIN w.revs PROVE r[i] = w.revs[i]
      <4>1. CASE i \in DOMAIN h.revs
        <5>1. h.revs[i] <= w.revs[i] /\ h.revs[i] \in Nat /\ w.revs[i] \in Nat
          BY <4>1, <3>1, <2>2, <1>1 DEF Within
        <5> QED BY <5>1, <4>1, <3>1 DEF laterOf
      <4>2. CASE i \notin DOMAIN h.revs BY <4>2, <3>1
      <4> QED BY <4>1, <4>2
    <3> QED BY <3>1
  <2>4. w.revs \in [DOMAIN w.revs -> 1..MaxRevision] BY WindowFields, SequenceElements
  <2>5. r = w.revs BY <2>3, <2>4
  <2>6. w = [revs |-> w.revs, pause |-> w.pause, turn |-> w.turn] BY DEF Windows
  <2>7. m = w BY <2>1, <2>5, <2>6
  <2> QED BY <2>7, <1>3
<1> QED BY <1>2, <1>3

(* What a window that joins the thread does to it.                          *)
Joined(s, w, settles, j) ==
  LET t == j.state.thread
  IN /\ j.state \in ThreadStates /\ j.reread \in BOOLEAN /\ t \in Windows
     /\ j.state.known /\ j.state.finished = s.finished /\ j.state.closed = s.closed
     /\ j.state.tracked \in {s.tracked, Nobody}
     /\ \/ t.revs = w.revs /\ Within(s.thread.revs, w.revs)
        \/ /\ j.reread \/ settles
           /\ Len(t.revs) = Len(s.thread.revs) /\ Within(s.thread.revs, t.revs)
           /\ \A i \in DOMAIN t.revs :
                \/ t.revs[i] = s.thread.revs[i]
                \/ i \in DOMAIN w.revs /\ t.revs[i] = w.revs[i]
           /\ \/ Len(w.revs) < Len(s.thread.revs)
              \/ \E i \in DOMAIN s.thread.revs \cap DOMAIN w.revs :
                   w.revs[i] < s.thread.revs[i]
     /\ ~settles /\ ~j.reread =>
          /\ t.turn = w.turn /\ w.turn \notin s.finished
          /\ s.known /\ w.turn # Nobody /\ Within(w.revs, s.thread.revs) =>
               s.thread.turn # Nobody
     /\ settles /\ w.turn \notin s.finished => t.turn = w.turn
     /\ \A q \in s.closed : s.thread.pause # q => t.pause # q

LEMMA JoinFacts ==
  ASSUME ThreadAssumption, NEW s \in ThreadStates,
         ~s.known => s.thread = NoThread /\ s.closed = {},
         NEW w \in Windows, NEW settles \in BOOLEAN
  PROVE  Joined(s, w, settles, joinWindow(s, w, settles))
<1>j. PICK j : j = joinWindow(s, w, settles) OBVIOUS
<1>t. PICK t : t = j.state.thread OBVIOUS
<1> SUFFICES /\ j.state \in ThreadStates /\ j.reread \in BOOLEAN /\ t \in Windows
             /\ j.state.known /\ j.state.finished = s.finished /\ j.state.closed = s.closed
             /\ j.state.tracked \in {s.tracked, Nobody}
             /\ \/ t.revs = w.revs /\ Within(s.thread.revs, w.revs)
                \/ /\ j.reread \/ settles
                   /\ Len(t.revs) = Len(s.thread.revs) /\ Within(s.thread.revs, t.revs)
                   /\ \A i \in DOMAIN t.revs :
                        \/ t.revs[i] = s.thread.revs[i]
                        \/ i \in DOMAIN w.revs /\ t.revs[i] = w.revs[i]
                   /\ \/ Len(w.revs) < Len(s.thread.revs)
                      \/ \E i \in DOMAIN s.thread.revs \cap DOMAIN w.revs :
                           w.revs[i] < s.thread.revs[i]
             /\ ~settles /\ ~j.reread =>
                  /\ t.turn = w.turn /\ w.turn \notin s.finished
                  /\ s.known /\ w.turn # Nobody /\ Within(w.revs, s.thread.revs) =>
                       s.thread.turn # Nobody
             /\ settles /\ w.turn \notin s.finished => t.turn = w.turn
             /\ \A q \in s.closed : s.thread.pause # q => t.pause # q
  BY <1>j, <1>t DEF Joined
<1> DEFINE h == s.thread
           v == vouchedWindow(s, w, settles)
           at == IF s.known THEN order(h, w) ELSE "ahead"
           doubted == at = "same" /\ ~settles
           restores == \/ doubted /\ h.turn = Nobody /\ w.turn # Nobody
                       \/ w.turn \in s.finished
           reopens == reopensClosed(s, w.pause) \/ (doubted /\ reopensAsked(h, w.pause))
           held == withHeldPause(s, w)
           kept == IF restores THEN turnStillRunning(s) ELSE w.turn
           merged == IF s.known THEN merge(h, v.window) ELSE v.window
           thread == IF v.stands THEN [merged EXCEPT !.turn = v.window.turn, !.pause = v.window.pause]
                     ELSE merged
           joined == [s EXCEPT !.known = TRUE, !.thread = thread]
<1>1. /\ h \in Windows /\ s.known \in BOOLEAN /\ s.tracked \in Ids
      /\ s.finished \subseteq Messages /\ s.closed \subseteq Messages
      /\ s = [known |-> s.known, thread |-> h, tracked |-> s.tracked,
              finished |-> s.finished, closed |-> s.closed]
  BY DEF ThreadStates
<1>2. w = [revs |-> w.revs, pause |-> w.pause, turn |-> w.turn] BY DEF Windows
<1>3. /\ held \in Windows /\ held.revs = w.revs /\ held.turn = w.turn
      /\ held.pause = IF s.known THEN h.pause ELSE w.pause
      /\ held = [revs |-> w.revs, pause |-> held.pause, turn |-> w.turn]
  <2>1. h.pause \in Ids /\ w.pause \in Ids /\ w.turn \in Ids
        /\ w.revs \in Seq(1..MaxRevision) /\ Len(w.revs) <= MaxMessages
    BY <1>1, WindowFields
  <2>2. held = [revs |-> w.revs, pause |-> IF s.known THEN h.pause ELSE w.pause,
                turn |-> w.turn]
    BY <1>2 DEF withHeldPause
  <2> QED BY <2>1, <2>2, WindowMade
<1>4. kept \in Ids BY <1>1, WindowFields DEF turnStillRunning, Ids
<1>5. v = IF at = "behind" /\ ~settles
          THEN [window |-> w, reread |-> TRUE, stands |-> FALSE]
          ELSE IF restores \/ reopens
          THEN [window |-> [held EXCEPT !.turn = kept], reread |-> TRUE, stands |-> at = "behind"]
          ELSE [window |-> w, reread |-> FALSE, stands |-> at = "behind"]
  BY <1>3 DEF vouchedWindow
<1>6. /\ v.window \in Windows /\ v.window.revs = w.revs
      /\ v.window.turn = IF ~(at = "behind" /\ ~settles) /\ (restores \/ reopens)
                         THEN kept ELSE w.turn
      /\ v.window.pause = IF ~(at = "behind" /\ ~settles) /\ (restores \/ reopens)
                          THEN held.pause ELSE w.pause
  <2>1. [held EXCEPT !.turn = kept] = [revs |-> w.revs, pause |-> held.pause, turn |-> kept]
    BY <1>3
  <2>2. [held EXCEPT !.turn = kept] \in Windows
    BY <2>1, <1>3, <1>4, WindowFields, WindowMade
  <2> QED BY <1>5, <2>1, <2>2
<1>7. order(h, v.window) = order(h, w)
  BY <1>6 DEF order, shared
<1>8. /\ v.stands <=> at = "behind" /\ settles
      /\ v.reread <=> ((at = "behind" /\ ~settles) \/ restores \/ reopens)
  <2> HIDE DEF at, restores, reopens, kept, held, v
  <2>1. CASE at = "behind" /\ ~settles BY <2>1, <1>5
  <2>2. CASE ~(at = "behind" /\ ~settles) /\ (restores \/ reopens)
    <3>1. v = [window |-> [held EXCEPT !.turn = kept], reread |-> TRUE,
               stands |-> at = "behind"]
      BY <2>2, <1>5
    <3>2. v.reread /\ (v.stands <=> at = "behind") BY <3>1
    <3> QED BY <3>2, <2>2
  <2>3. CASE ~(at = "behind" /\ ~settles) /\ ~(restores \/ reopens)
    <3>1. v = [window |-> w, reread |-> FALSE, stands |-> at = "behind"]
      BY <2>3, <1>5
    <3>2. ~v.reread /\ (v.stands <=> at = "behind") BY <3>1
    <3> QED BY <3>2, <2>3
  <2> QED BY <2>1, <2>2, <2>3
<1>9. merged \in Windows BY <1>1, <1>6, MergeFacts
<1>10. /\ thread \in Windows /\ thread.revs = merged.revs
       /\ thread.turn = IF v.stands THEN v.window.turn ELSE merged.turn
       /\ thread.pause = IF v.stands THEN v.window.pause ELSE merged.pause
  <2>1. v.window.turn \in Ids /\ v.window.pause \in Ids BY <1>6, WindowFields
  <2> HIDE DEF merged, v
  <2> DEFINE x == [merged EXCEPT !.turn = v.window.turn, !.pause = v.window.pause]
  <2>2. /\ x \in Windows /\ x.revs = merged.revs
        /\ x.turn = v.window.turn /\ x.pause = v.window.pause
    <3>1. x = [merged EXCEPT !.turn = v.window.turn, !.pause = v.window.pause] OBVIOUS
    <3> HIDE DEF x
    <3> QED BY <3>1, <2>1, <1>9 DEF Windows, Ids
  <2>3. thread = IF v.stands THEN x ELSE merged OBVIOUS
  <2> HIDE DEF x, thread
  <2> QED BY <2>2, <2>3, <1>9
<1>11. j = [state |-> settleTracked(joined), reread |-> v.reread]
  BY <1>j DEF joinWindow
<1>12. /\ joined \in ThreadStates /\ joined.thread = thread /\ joined.known
       /\ joined.finished = s.finished /\ joined.closed = s.closed /\ joined.tracked = s.tracked
  BY <1>1, <1>10 DEF ThreadStates
<1>13. /\ settleTracked(joined) \in ThreadStates /\ settleTracked(joined).thread = thread
       /\ settleTracked(joined).known
       /\ settleTracked(joined).finished = s.finished /\ settleTracked(joined).closed = s.closed
       /\ settleTracked(joined).tracked \in {s.tracked, Nobody}
  <2>1. Nobody \in Ids BY DEF Ids
  <2> QED BY <2>1, <1>12 DEF settleTracked, ThreadStates
<1>14. t = thread /\ j.reread = v.reread /\ j.state = settleTracked(joined) BY <1>t, <1>11, <1>13
<1>15. v.reread \in BOOLEAN BY <1>5
<1>16. t.revs = merged.revs BY <1>10, <1>14
<1>17. CASE ~s.known
  <2>1. h.revs = <<>> /\ s.closed = {} BY <1>17, NoThreadIsWindow
  <2>2. merged = v.window /\ ~v.stands BY <1>8, <1>17
  <2>3. t.revs = w.revs /\ Within(h.revs, w.revs)
    BY <2>1, <2>2, <1>6, <1>16, WindowFields, WithinEmpty
  <2>4. t.turn = v.window.turn BY <2>2, <1>10, <1>14
  <2>5. ~restores /\ ~reopens => t.turn = w.turn BY <2>4, <1>6
  <2>6. settles /\ w.turn \notin s.finished => t.turn = w.turn
    BY <2>4, <1>6
  <2>7. ~j.reread => t.turn = w.turn /\ w.turn \notin s.finished
    BY <2>5, <1>8, <1>14
  <2> QED BY <2>1, <2>3, <2>6, <2>7, <1>10, <1>13, <1>14, <1>15, <1>17
<1>18. CASE s.known /\ order(h, w) = "behind"
  <2>1. at = "behind" /\ ~doubted BY <1>18
  <2>2. merged = merge(h, v.window) BY <1>18
  <2>3. /\ merged.turn = h.turn /\ merged.pause = h.pause
        /\ Len(merged.revs) = Len(h.revs) /\ Within(h.revs, merged.revs)
        /\ \A i \in DOMAIN h.revs : \/ merged.revs[i] = h.revs[i]
                                    \/ i \in DOMAIN w.revs /\ merged.revs[i] = w.revs[i]
    BY <2>2, <1>1, <1>6, <1>7, <1>18, MergeFacts
  <2>4. DOMAIN merged.revs = DOMAIN h.revs BY <2>3, <1>1, <1>9, WindowFields
  <2>5. \/ Len(w.revs) < Len(h.revs)
        \/ \E i \in DOMAIN h.revs \cap DOMAIN w.revs : w.revs[i] < h.revs[i]
    BY <1>1, <1>18, OrderFacts
  <2>6. j.reread \/ settles BY <2>1, <1>8, <1>14
  <2>7. settles /\ w.turn \notin s.finished => t.turn = w.turn
    <3>1. settles => v.stands /\ t.turn = v.window.turn BY <2>1, <1>8, <1>10, <1>14
    <3>2. w.turn \notin s.finished => ~restores BY <2>1
    <3> QED BY <3>1, <3>2, <1>6
  <2>8. \A q \in s.closed : h.pause # q => t.pause # q
    <3>1. CASE ~settles BY <3>1, <2>3, <1>8, <1>10, <1>14
    <3>2. CASE settles /\ (restores \/ reopens)
      <4>1. v.stands /\ v.window.pause = held.pause BY <3>2, <2>1, <1>6, <1>8
      <4>2. t.pause = held.pause /\ held.pause = h.pause BY <4>1, <1>3, <1>10, <1>14, <1>18
      <4> QED BY <4>2
    <3>3. CASE settles /\ ~reopens /\ ~restores
      <4>1. t.pause = w.pause BY <3>3, <2>1, <1>6, <1>8, <1>10, <1>14
      <4>2. w.pause \notin s.closed BY <3>3 DEF reopensClosed
      <4> QED BY <4>1, <4>2
    <3> QED BY <3>1, <3>2, <3>3
  <2> QED BY <2>3, <2>4, <2>5, <2>6, <2>7, <2>8, <1>10, <1>13, <1>14, <1>15, <1>16
<1>19. CASE s.known /\ order(h, w) # "behind"
  <2>1. merged = v.window /\ ~v.stands
    BY <1>1, <1>6, <1>7, <1>8, <1>19, MergeFacts
  <2>2. t.revs = w.revs /\ Within(h.revs, w.revs)
    BY <2>1, <1>1, <1>6, <1>16, <1>19, OrderFacts
  <2>3. t.turn = v.window.turn /\ t.pause = v.window.pause BY <2>1, <1>10, <1>14
  <2>4. ASSUME ~settles, ~j.reread
        PROVE  /\ t.turn = w.turn /\ w.turn \notin s.finished
               /\ w.turn # Nobody /\ Within(w.revs, h.revs) => h.turn # Nobody
    <3>1. ~restores /\ ~reopens BY <2>4, <1>8, <1>14
    <3>2. t.turn = w.turn /\ w.turn \notin s.finished BY <3>1, <2>3, <1>6
    <3>3. Within(w.revs, h.revs) => doubted BY <2>4, <1>1, <1>19, OrderFacts
    <3> QED BY <3>1, <3>2, <3>3
  <2>5. settles /\ w.turn \notin s.finished => t.turn = w.turn BY <2>3, <1>6
  <2>6. \A q \in s.closed : h.pause # q => t.pause # q
    <3>1. CASE restores \/ reopens
      <4>1. t.pause = h.pause BY <3>1, <2>3, <1>3, <1>6, <1>19
      <4> QED BY <4>1
    <3>2. CASE ~reopens /\ ~restores
      <4>1. t.pause = w.pause BY <3>2, <2>3, <1>6
      <4>2. w.pause \notin s.closed BY <3>2 DEF reopensClosed
      <4> QED BY <4>1, <4>2
    <3> QED BY <3>1, <3>2
  <2> QED BY <2>2, <2>4, <2>5, <2>6, <1>10, <1>13, <1>14, <1>15
<1> QED BY <1>17, <1>18, <1>19

-----------------------------------------------------------------------------
(* What the server does, and what it leaves alone.                         *)

(* The history stays, or the server goes on: a turn begins with a message   *)
(* of its own, and its end writes none.                                     *)
Extends ==
  \/ UNCHANGED hist
  \/ \E w \in Windows :
       /\ hist' = Append(hist, w) /\ Within(cur.revs, w.revs)
       /\ \/ w.turn = cur.turn
          \/ w.turn = Nobody /\ w.revs = cur.revs
          \/ cur.turn = Nobody /\ w.turn = Len(cur.revs) + 1 /\ w.turn <= Len(w.revs)

LEMMA ExtendsFacts ==
  ASSUME ThreadAssumption, ThreadTypes, HistoryInv, Extends
  PROVE  /\ hist' \in Seq(Windows) /\ hist' # <<>>
         /\ now' \in Nat /\ now <= now' /\ now' \in Times' /\ Times' = 1..now'
         /\ cur' = hist'[now'] /\ cur' \in Windows
         /\ \A n \in Times : n \in Times' /\ hist'[n] = hist[n]
         /\ \A n \in Times' : n \in Times \/ (n = now' /\ n = now + 1)
         /\ Within(cur.revs, cur'.revs) /\ cur'.turn <= Len(cur'.revs)
         /\ \/ cur'.turn = cur.turn
            \/ cur'.turn = Nobody /\ cur'.revs = cur.revs /\ now' = now + 1
            \/ cur.turn = Nobody /\ cur'.turn = Len(cur.revs) + 1
<1>1. now \in Nat /\ now \in Times /\ cur = hist[now] /\ cur \in Windows
      /\ cur.revs \in Seq(Nat) /\ cur.turn \in Nat /\ Len(cur.revs) \in Nat
  BY HistoryFields
<1>2. cur.turn <= Len(cur.revs) BY <1>1 DEF HistoryInv
<1>3. Times' = 1..now' BY DEF Times
<1>4. CASE UNCHANGED hist
  <2>1. now' = now /\ cur' = cur /\ Times' = Times BY <1>4 DEF now, cur, Times
  <2>2. Within(cur.revs, cur.revs) BY <1>1, WithinReflexive
  <2>3. hist' = hist /\ hist \in Seq(Windows) /\ hist # <<>> BY <1>4 DEF ThreadTypes
  <2>4. cur' = hist'[now'] BY <2>1, <2>3, <1>1
  <2>5. now <= now' /\ now' \in Times' BY <2>1, <1>1
  <2>6. Within(cur.revs, cur'.revs) /\ cur'.turn <= Len(cur'.revs) BY <2>1, <2>2, <1>2
  <2> QED BY <2>1, <2>3, <2>4, <2>5, <2>6, <1>1, <1>3
<1>5. CASE \E w \in Windows :
             /\ hist' = Append(hist, w) /\ Within(cur.revs, w.revs)
             /\ \/ w.turn = cur.turn
                \/ w.turn = Nobody /\ w.revs = cur.revs
                \/ cur.turn = Nobody /\ w.turn = Len(cur.revs) + 1 /\ w.turn <= Len(w.revs)
  <2>1. PICK w \in Windows :
             /\ hist' = Append(hist, w) /\ Within(cur.revs, w.revs)
             /\ \/ w.turn = cur.turn
                \/ w.turn = Nobody /\ w.revs = cur.revs
                \/ cur.turn = Nobody /\ w.turn = Len(cur.revs) + 1 /\ w.turn <= Len(w.revs)
    BY <1>5
  <2>2. /\ now' = now + 1 /\ cur' = w /\ hist'[now + 1] = w
        /\ Times' = Times \cup {now + 1}
        /\ \A n \in Times : hist'[n] = hist[n]
        /\ hist' \in Seq(Windows) /\ hist' # <<>>
    BY <2>1, HistoryAppended
  <2>3. Len(w.revs) \in Nat BY WindowFields
  <2>4. w.turn <= Len(w.revs)
    <3>1. CASE w.turn = cur.turn BY <3>1, <2>1, <2>3, <1>1, <1>2 DEF Within
    <3>2. CASE w.turn = Nobody BY <3>2, <2>3 DEF Nobody
    <3> QED BY <3>1, <3>2, <2>1
  <2>5. now' \in Nat /\ now <= now' /\ now' \in Times' BY <2>2, <1>1
  <2>6. \A n \in Times : n \in Times' /\ hist'[n] = hist[n] BY <2>2
  <2>7. \A n \in Times' : n \in Times \/ (n = now' /\ n = now + 1) BY <2>2
  <2>8. cur' = hist'[now'] /\ cur' \in Windows BY <2>2
  <2>9. /\ Within(cur.revs, cur'.revs) /\ cur'.turn <= Len(cur'.revs)
        /\ \/ cur'.turn = cur.turn
           \/ cur'.turn = Nobody /\ cur'.revs = cur.revs /\ now' = now + 1
           \/ cur.turn = Nobody /\ cur'.turn = Len(cur.revs) + 1
    BY <2>1, <2>2, <2>4
  <2> QED BY <2>2, <2>5, <2>6, <2>7, <2>8, <2>9, <1>3
<1> QED BY <1>4, <1>5 DEF Extends

LEMMA HistoryKept ==
  ASSUME ThreadAssumption, ThreadTypes, HistoryInv, LastEnd, Extends,
         (worker' = "none") = (cur'.turn = Nobody)
  PROVE  HistoryInv' /\ LastEnd'
<1>1. /\ hist' \in Seq(Windows) /\ now' \in Nat /\ now <= now' /\ now' \in Times' /\ Times' = 1..now'
      /\ cur' = hist'[now'] /\ cur' \in Windows
      /\ \A n \in Times : n \in Times' /\ hist'[n] = hist[n]
      /\ \A n \in Times' : n \in Times \/ (n = now' /\ n = now + 1)
      /\ Within(cur.revs, cur'.revs) /\ cur'.turn <= Len(cur'.revs)
      /\ \/ cur'.turn = cur.turn
         \/ cur'.turn = Nobody /\ cur'.revs = cur.revs /\ now' = now + 1
         \/ cur.turn = Nobody /\ cur'.turn = Len(cur.revs) + 1
  BY ExtendsFacts
<1>2. /\ now \in Nat /\ 1 \in Times /\ now \in Times /\ cur = hist[now]
      /\ \A n \in Times : /\ n \in Nat /\ hist[n].revs \in Seq(Nat) /\ hist[n].turn \in Nat
                          /\ Len(hist[n].revs) \in Nat
      /\ cur'.revs \in Seq(Nat) /\ Len(cur'.revs) \in Nat /\ cur'.turn \in Nat
  BY <1>1, HistoryFields, WindowFields
<1>3. \A n \in Times : n <= now BY DEF Times
<1>4. hist'[1] = NoThread BY <1>1, <1>2 DEF HistoryInv
<1>5. \A n \in Times' : hist'[n].turn <= Len(hist'[n].revs) BY <1>1 DEF HistoryInv
<1>6. ASSUME NEW a \in Times PROVE Within(hist[a].revs, cur'.revs)
  <2>1. Within(hist[a].revs, cur.revs) BY <1>2, <1>3 DEF HistoryInv
  <2> QED BY <2>1, <1>1, <1>2, WithinTransitive
<1>7. ASSUME NEW a \in Times', NEW b \in Times', a <= b
      PROVE  Within(hist'[a].revs, hist'[b].revs)
  <2>1. CASE b \in Times
    <3>1. a \in Times BY <2>1, <1>7, <1>1, <1>2, <1>3
    <3> QED BY <3>1, <2>1, <1>1, <1>7 DEF HistoryInv
  <2>2. CASE b \notin Times /\ a \in Times BY <2>2, <1>1, <1>6
  <2>3. CASE b \notin Times /\ a \notin Times
    <3>1. a = now' /\ b = now' BY <2>3, <1>1
    <3> QED BY <3>1, <1>1, <1>2, WithinReflexive
  <2> QED BY <2>1, <2>2, <2>3
<1>8. ASSUME NEW a \in Times', NEW b \in Times', a <= b, hist'[a].turn # Nobody,
             hist'[b].turn \notin {Nobody, hist'[a].turn}
      PROVE  Len(hist'[a].revs) < hist'[b].turn
  <2>1. CASE b \in Times
    <3>1. a \in Times BY <2>1, <1>8, <1>1, <1>2, <1>3
    <3> QED BY <3>1, <2>1, <1>1, <1>8 DEF HistoryInv
  <2>2. CASE b \notin Times /\ a \in Times
    <3>1. b = now' /\ hist'[b] = cur' /\ hist'[a] = hist[a] BY <2>2, <1>1
    <3>2. CASE cur'.turn = cur.turn
      <4>1. a <= now /\ cur.turn \notin {Nobody, hist[a].turn} /\ hist[a].turn # Nobody
        BY <3>1, <3>2, <2>2, <1>3, <1>8
      <4>2. Len(hist[a].revs) < cur.turn BY <4>1, <2>2, <1>2 DEF HistoryInv
      <4> QED BY <4>2, <3>1, <3>2
    <3>3. CASE cur'.turn = Len(cur.revs) + 1
      <4>1. Len(hist[a].revs) <= Len(cur.revs) BY <2>2, <1>2, <1>3 DEF HistoryInv, Within
      <4> QED BY <4>1, <3>1, <3>3, <2>2, <1>2
    <3> QED BY <3>1, <3>2, <3>3, <1>1, <1>8
  <2>3. CASE b \notin Times /\ a \notin Times
    <3>1. a = now' /\ b = now' BY <2>3, <1>1
    <3> QED BY <3>1, <1>8
  <2> QED BY <2>1, <2>2, <2>3
<1>9. HistoryInv' BY <1>4, <1>5, <1>7, <1>8 DEF HistoryInv
<1>10. ASSUME cur'.turn = Nobody
       PROVE  \E n \in Times' :
                /\ n = 1 \/ (hist'[n - 1].turn # Nobody /\ hist'[n].revs = hist'[n - 1].revs)
                /\ \A k \in n..now' : hist'[k].turn = Nobody
  <2>1. CASE cur.turn = Nobody
    <3>1. PICK n \in Times :
            /\ n = 1 \/ (hist[n - 1].turn # Nobody /\ hist[n].revs = hist[n - 1].revs)
            /\ \A k \in n..now : hist[k].turn = Nobody
      BY <2>1 DEF LastEnd
    <3>2. n = 1 \/ (n - 1 \in Times /\ hist'[n - 1] = hist[n - 1]) BY <1>1, <1>2, <1>3 DEF Times
    <3>3. ASSUME NEW k \in n..now' PROVE hist'[k].turn = Nobody
      <4>1. k \in Times' BY <3>3, <1>1, <1>2
      <4>2. CASE k \in Times
        <5>1. k \in n..now BY <4>2, <3>3, <1>2, <1>3
        <5> QED BY <5>1, <4>2, <3>1, <1>1
      <4>3. CASE k \notin Times BY <4>1, <4>3, <1>1, <1>10
      <4> QED BY <4>2, <4>3
    <3> QED BY <3>1, <3>2, <3>3, <1>1
  <2>2. CASE cur.turn # Nobody
    <3>1. now' = now + 1 /\ cur'.revs = cur.revs /\ now' \in Times'
      BY <2>2, <1>1, <1>10
    <3>2. hist'[now' - 1] = cur BY <3>1, <1>1, <1>2
    <3>3. \A k \in now'..now' : hist'[k].turn = Nobody BY <3>1, <1>1, <1>10
    <3> QED BY <3>1, <3>2, <3>3, <2>2, <1>1
  <2> QED BY <2>1, <2>2
<1>11. LastEnd' BY <1>10 DEF LastEnd
<1> QED BY <1>9, <1>11

(* What an end that is still owed relies on.                                *)
LEMMA EndKept ==
  ASSUME ThreadAssumption, ThreadTypes, HistoryInv, EndIsOwed, Extends, UNCHANGED ended,
         ended # NoEnd => cur'.turn = cur.turn \/ cur.turn = Nobody,
         ended # NoEnd => cur'.revs[ended.turn] = cur.revs[ended.turn]
  PROVE  EndIsOwed'
<1> SUFFICES ASSUME ended # NoEnd
             PROVE  /\ ended.turn \in DOMAIN cur'.revs /\ ended.turn # cur'.turn
                    /\ ~ended.read => cur'.revs[ended.turn] < MaxRevision
                    /\ \A n \in Times' : hist'[n].turn = ended.turn => n < ended.since
                    /\ \A n \in ended.since..now' : hist'[n].turn \in {Nobody, cur'.turn}
  BY DEF EndIsOwed
<1>1. /\ now' \in Nat /\ now <= now' /\ now' \in Times' /\ Times' = 1..now'
      /\ cur' = hist'[now'] /\ cur' \in Windows
      /\ \A n \in Times : n \in Times' /\ hist'[n] = hist[n]
      /\ \A n \in Times' : n \in Times \/ (n = now' /\ n = now + 1)
      /\ Within(cur.revs, cur'.revs)
      /\ \/ cur'.turn = cur.turn
         \/ cur'.turn = Nobody /\ cur'.revs = cur.revs /\ now' = now + 1
         \/ cur.turn = Nobody /\ cur'.turn = Len(cur.revs) + 1
  BY ExtendsFacts
<1>2. /\ now \in Nat /\ cur \in Windows /\ Len(cur.revs) \in Nat /\ DOMAIN cur.revs = 1..Len(cur.revs)
      /\ Len(cur'.revs) \in Nat /\ DOMAIN cur'.revs = 1..Len(cur'.revs)
      /\ ended.since \in Times /\ ended.since \in Nat \ {0}
  BY <1>1, HistoryFields, WindowFields DEF ThreadTypes
<1>3. /\ ended.turn \in DOMAIN cur.revs /\ ended.turn # cur.turn
      /\ ~ended.read => cur.revs[ended.turn] < MaxRevision
      /\ \A n \in Times : hist[n].turn = ended.turn => n < ended.since
      /\ \A n \in ended.since..now : hist[n].turn \in {Nobody, cur.turn}
  BY DEF EndIsOwed
<1>4. ended.turn \in DOMAIN cur'.revs /\ ended.turn # cur'.turn
  <2>1. Len(cur.revs) <= Len(cur'.revs) BY <1>1 DEF Within
  <2>2. ended.turn \in 1..Len(cur.revs) BY <1>2, <1>3
  <2> QED BY <2>1, <2>2, <1>1, <1>2, <1>3 DEF Nobody
<1>5. ~ended.read => cur'.revs[ended.turn] < MaxRevision BY <1>3
<1>6. ASSUME NEW n \in Times', hist'[n].turn = ended.turn PROVE n < ended.since
  <2>1. CASE n \in Times BY <2>1, <1>1, <1>3, <1>6
  <2>2. CASE n \notin Times BY <2>2, <1>1, <1>4, <1>6
  <2> QED BY <2>1, <2>2
<1>7. ASSUME NEW n \in ended.since..now' PROVE hist'[n].turn \in {Nobody, cur'.turn}
  <2>1. n \in Times' BY <1>1, <1>2
  <2>2. CASE n \in Times
    <3>1. n \in ended.since..now BY <2>2, <1>2 DEF Times
    <3> QED BY <3>1, <2>2, <1>1, <1>3
  <2>3. CASE n \notin Times BY <2>1, <2>3, <1>1
  <2> QED BY <2>2, <2>3
<1> QED BY <1>4, <1>5, <1>6, <1>7

(* An event that has been told stays true.                                  *)
LEMMA EventKept ==
  ASSUME ThreadAssumption, ThreadTypes, HistoryInv, Extends, stream'.since = stream.since,
         NEW e \in StreamEvents, UpdateTells(e), EndTells(e)
  PROVE  UpdateTells(e)' /\ EndTells(e)'
<1>1. /\ now' \in Nat /\ now <= now' /\ Times' = 1..now'
      /\ cur' \in Windows
      /\ \A n \in Times : n \in Times' /\ hist'[n] = hist[n]
      /\ \A n \in Times' : n \in Times \/ (n = now' /\ n = now + 1)
      /\ cur' = hist'[now'] /\ Within(cur.revs, cur'.revs)
      /\ \/ cur'.turn = cur.turn
         \/ cur'.turn = Nobody /\ cur'.revs = cur.revs /\ now' = now + 1
         \/ cur.turn = Nobody /\ cur'.turn = Len(cur.revs) + 1
  BY ExtendsFacts
<1>2. /\ now \in Nat /\ Len(cur.revs) \in Nat /\ DOMAIN cur.revs = 1..Len(cur.revs)
      /\ Len(cur'.revs) \in Nat /\ DOMAIN cur'.revs = 1..Len(cur'.revs)
      /\ stream.since \in Times /\ stream.since \in Nat
  BY <1>1, HistoryFields, WindowFields DEF ThreadTypes
<1>3. UpdateTells(e)' BY <1>1 DEF UpdateTells
<1>4. ASSUME e.type = "turn.finished"
      PROVE  /\ e.turn \in DOMAIN cur'.revs /\ e.turn # cur'.turn
             /\ \A w \in e.window :
                  /\ \E n \in Times' : w.revs = hist'[n].revs
                  /\ \A n \in Times' : hist'[n].turn = e.turn => Within(hist'[n].revs, w.revs)
                  /\ w.turn # Nobody => \E n \in stream'.since..now' : hist'[n].turn = w.turn
  <2>1. /\ e.turn \in DOMAIN cur.revs /\ e.turn # cur.turn
        /\ \A w \in e.window :
             /\ \E n \in Times : w.revs = hist[n].revs
             /\ \A n \in Times : hist[n].turn = e.turn => Within(hist[n].revs, w.revs)
             /\ w.turn # Nobody => \E n \in stream.since..now : hist[n].turn = w.turn
    BY <1>4 DEF EndTells
  <2>2. e.turn \in DOMAIN cur'.revs /\ e.turn # cur'.turn
    <3>1. Len(cur.revs) <= Len(cur'.revs) BY <1>1 DEF Within
    <3>2. e.turn \in 1..Len(cur.revs) BY <2>1, <1>2
    <3> QED BY <3>1, <3>2, <2>1, <1>1, <1>2 DEF Nobody
  <2>3. \A n \in Times' : hist'[n].turn = e.turn => n \in Times BY <2>2, <1>1
  <2>4. ASSUME NEW n \in stream.since..now PROVE n \in stream'.since..now' /\ hist'[n] = hist[n]
    <3>1. n \in Times BY <1>2 DEF Times
    <3> QED BY <3>1, <1>1, <1>2
  <2> QED BY <2>1, <2>2, <2>3, <2>4, <1>1
<1>5. EndTells(e)' BY <1>4 DEF EndTells
<1> QED BY <1>3, <1>5

LEMMA PhoneKept ==
  ASSUME ThreadAssumption, ThreadTypes, HistoryInv, PhoneInv, Extends,
         UNCHANGED <<state, reread>>,
         stream'.since = stream.since, stream'.snapshot = stream.snapshot
  PROVE  PhoneInv'
<1>1. /\ now' \in Nat /\ now <= now' /\ Times' = 1..now'
      /\ cur' \in Windows
      /\ \A n \in Times : n \in Times' /\ hist'[n] = hist[n]
      /\ \A n \in Times' : n \in Times \/ (n = now' /\ n = now + 1)
      /\ cur' = hist'[now'] /\ Within(cur.revs, cur'.revs)
      /\ \/ cur'.turn = cur.turn
         \/ cur'.turn = Nobody /\ cur'.revs = cur.revs /\ now' = now + 1
         \/ cur.turn = Nobody /\ cur'.turn = Len(cur.revs) + 1
  BY ExtendsFacts
<1>2. /\ now \in Nat /\ now \in Times /\ cur = hist[now]
      /\ Len(cur.revs) \in Nat /\ DOMAIN cur.revs = 1..Len(cur.revs)
      /\ cur.revs \in Seq(Nat) /\ cur'.revs \in Seq(Nat)
      /\ Len(cur'.revs) \in Nat /\ DOMAIN cur'.revs = 1..Len(cur'.revs)
      /\ stream.since \in Times /\ stream.since \in Nat
      /\ reread.since \in 0..now /\ reread.since \in Nat
      /\ state.thread.revs \in Seq(Nat) /\ Len(state.thread.revs) \in Nat
  BY <1>1, HistoryFields, WindowFields DEF ThreadTypes
<1>3. Len(cur.revs) <= Len(cur'.revs) BY <1>1 DEF Within
<1>4. EndedOnly'
  <2>1. state.finished \subseteq DOMAIN cur.revs \ {cur.turn} BY DEF PhoneInv, EndedOnly
  <2>2. ASSUME NEW m \in state.finished PROVE m \in 1..Len(cur'.revs) /\ m # cur'.turn
    <3>1. m \in 1..Len(cur.revs) /\ m # cur.turn BY <2>1, <1>2
    <3>2. m \in Nat /\ 1 <= m /\ m <= Len(cur.revs) BY <3>1, <1>2
    <3>3. m \in 1..Len(cur'.revs) BY <3>2, <1>2, <1>3
    <3>4. m # Nobody /\ m # Len(cur.revs) + 1 BY <3>2, <1>2 DEF Nobody
    <3>5. m # cur'.turn BY <3>1, <3>4, <1>1
    <3> QED BY <3>3, <3>5
  <2> QED BY <2>2, <1>2 DEF EndedOnly
<1>5. NothingAhead'
  <2>1. Within(state.thread.revs, cur.revs) BY DEF PhoneInv, NothingAhead
  <2>2. Within(state.thread.revs, cur'.revs) BY <2>1, <1>1, <1>2, WithinTransitive
  <2> QED BY <2>2 DEF NothingAhead
<1>6. Whole'
  <2>1. ASSUME NEW n \in Times', Len(hist'[n].revs) < Len(state.thread.revs)
        PROVE  Within(hist'[n].revs, state.thread.revs)
    <3>1. n \in Times
      <4>1. Len(state.thread.revs) <= Len(cur.revs) BY DEF PhoneInv, NothingAhead, Within
      <4>2. n = now' => FALSE
        <5>1. n = now' => ~(Len(cur'.revs) < Len(state.thread.revs))
          BY <4>1, <1>2, <1>3
        <5> QED BY <5>1, <2>1, <1>1
      <4> QED BY <4>2, <1>1
    <3> QED BY <3>1, <2>1, <1>1 DEF PhoneInv, Whole
  <2> QED BY <2>1 DEF Whole
<1>7. SinceSnapshot'
  <2>1. hist'[stream.since] = hist[stream.since] BY <1>1, <1>2
  <2> QED BY <2>1 DEF PhoneInv, SinceSnapshot
<1>8. ASSUME WillSettle(reread)
      PROVE  /\ stream.snapshot => stream.since <= reread.since
             /\ \A n \in reread.since..now' : hist'[n].turn \notin state.finished
             /\ Len(state.thread.revs) <= Len(hist'[reread.since].revs)
             /\ \A p \in DOMAIN state.thread.revs :
                  state.thread.revs[p] > hist'[reread.since].revs[p] =>
                    \E n \in reread.since..now' : hist'[n].turn = p
  <2>1. /\ stream.snapshot => stream.since <= reread.since
        /\ \A n \in reread.since..now : hist[n].turn \notin state.finished
        /\ Len(state.thread.revs) <= Len(hist[reread.since].revs)
        /\ \A p \in DOMAIN state.thread.revs :
             state.thread.revs[p] > hist[reread.since].revs[p] =>
               \E n \in reread.since..now : hist[n].turn = p
    BY <1>8 DEF PhoneInv, Settling
  <2>2. reread.since # 0 BY <1>8 DEF WillSettle
  <2>3. reread.since \in Times /\ hist'[reread.since] = hist[reread.since]
    BY <2>2, <1>1, <1>2 DEF Times
  <2>4. ASSUME NEW n \in reread.since..now
        PROVE  n \in Times /\ n \in reread.since..now' /\ hist'[n] = hist[n]
    <3>1. n \in Times BY <2>2, <1>2 DEF Times
    <3> QED BY <3>1, <1>1, <1>2
  <2>5. ASSUME NEW n \in reread.since..now' PROVE hist'[n].turn \notin state.finished
    <3>1. n \in Times' BY <2>2, <1>1, <1>2
    <3>2. CASE n \in Times
      <4>1. n \in reread.since..now BY <3>2, <1>2 DEF Times
      <4> QED BY <4>1, <2>1, <2>4
    <3>3. CASE n \notin Times
      <4>1. hist'[n] = cur' BY <3>1, <3>3, <1>1
      <4>2. cur'.turn \notin state.finished
        BY <1>2, <1>4 DEF EndedOnly
      <4> QED BY <4>1, <4>2
    <3> QED BY <3>2, <3>3
  <2> QED BY <2>1, <2>3, <2>4, <2>5
<1>9. Settling' BY <1>8 DEF Settling
<1> QED BY <1>4, <1>5, <1>6, <1>7, <1>9 DEF PhoneInv

LEMMA HeardKept ==
  ASSUME ThreadAssumption, ThreadTypes, HistoryInv, HeardInv, Extends,
         UNCHANGED <<state, reread>>,
         stream'.since = stream.since, stream'.snapshot = stream.snapshot,
         left'.heard => left.heard,
         left'.heard => \A m \in Messages : LiveTurn(m) => LiveTurn(m)'
  PROVE  HeardInv'
<1> SUFFICES ASSUME left'.heard PROVE EndsHeard' /\ TurnShown' /\ MessagesShown'
  BY DEF HeardInv
<1>1. /\ now' \in Nat /\ now <= now' /\ Times' = 1..now'
      /\ \A n \in Times : n \in Times' /\ hist'[n] = hist[n]
      /\ \A n \in Times' : n \in Times \/ (n = now' /\ n = now + 1)
      /\ cur' = hist'[now'] 
  BY ExtendsFacts
<1>2. /\ now \in Nat /\ now \in Times
      /\ stream.since \in Times /\ stream.since \in Nat
      /\ \A n \in Times : hist[n].turn # Nobody => hist[n].turn \in Messages
  BY <1>1, HistoryFields, WindowFields DEF ThreadTypes, Ids
<1>3. EndsHeard /\ TurnShown /\ MessagesShown BY DEF HeardInv
<1>4. LiveTurn(cur.turn)' BY DEF LiveTurn
<1>5. ASSUME NEW n \in Times', hist'[n].turn # Nobody
      PROVE  \/ LiveTurn(hist[n].turn)'
             \/ n \in Times /\ hist'[n] = hist[n] /\ ~LiveTurn(hist[n].turn)
  <2>1. CASE n \in Times
    <3>1. hist'[n] = hist[n] /\ hist[n].turn \in Messages BY <2>1, <1>1, <1>2, <1>5
    <3>2. PICK m \in Messages : m = hist[n].turn BY <3>1
    <3>3. LiveTurn(m) => LiveTurn(m)' OBVIOUS
    <3>4. m = hist'[n].turn BY <3>1, <3>2
    <3>5. LiveTurn(m)' => LiveTurn(hist[n].turn)' BY <3>4 DEF LiveTurn
    <3>6. LiveTurn(hist[n].turn) => LiveTurn(m) BY <3>2
    <3> QED BY <3>1, <3>3, <3>5, <3>6, <2>1
  <2>2. CASE n \notin Times
    <3>1. hist'[n] = cur' BY <2>2, <1>1
    <3> QED BY <3>1, <1>4
  <2> QED BY <2>1, <2>2
<1>6. ASSUME NEW n \in stream.since..now', hist'[n].turn # Nobody
      PROVE  LiveTurn(hist[n].turn)' \/ hist'[n].turn \in state.finished
  <2>1. n \in Times' BY <1>1, <1>2
  <2>2. CASE n \in Times /\ hist'[n] = hist[n] /\ ~LiveTurn(hist[n].turn)
    <3>1. n \in stream.since..now BY <2>2, <1>2 DEF Times
    <3> QED BY <3>1, <2>2, <1>3, <1>6 DEF EndsHeard
  <2> QED BY <2>1, <2>2, <1>5, <1>6
<1>7. EndsHeard' BY <1>6 DEF EndsHeard
<1>8. TurnShown' BY <1>3 DEF TurnShown
<1>9. ASSUME NEW n \in Times', hist'[n].turn # Nobody
      PROVE  \/ Within(hist'[n].revs, state.thread.revs) \/ LiveTurn(hist[n].turn)'
             \/ (~stream.snapshot /\ n <= stream.since)
             \/ Awaits(reread, n)
  <2>1. CASE n \in Times /\ hist'[n] = hist[n] /\ ~LiveTurn(hist[n].turn)
    BY <2>1, <1>3, <1>9 DEF MessagesShown
  <2> QED BY <2>1, <1>5, <1>9
<1>10. MessagesShown' BY <1>9 DEF MessagesShown
<1> QED BY <1>7, <1>8, <1>10

(* A step that leaves the phone alone keeps the whole invariant.            *)
LEMMA ServerKeeps ==
  ASSUME ThreadAssumption, ThreadInv, Extends, UNCHANGED <<state, reread>>,
         worker' \in {"none", "queued", "running", "asking"},
         (worker' = "none") = (cur'.turn = Nobody),
         asked' \in [Messages -> 0..MaxRevision],
         ended' \in [turn : Ids, since : Nat \ {0}, read : BOOLEAN], ended'.since \in Times',
         other' \in [run : CommandStates, left : Nat], other'.run.since \in Times',
         stream' \in [since : Nat \ {0}, snapshot : BOOLEAN, events : Seq(StreamEvents)],
         stream'.since = stream.since, stream'.snapshot = stream.snapshot,
         command' \in CommandStates, command'.since \in Times',
         left' \in [commands : Nat, losses : Nat, heard : BOOLEAN],
         left'.heard => left.heard,
         EndIsOwed',
         \A e \in Told' : e \in Told \/ (UpdateTells(e)' /\ EndTells(e)'),
         left'.heard => \A m \in Messages : LiveTurn(m) => LiveTurn(m)'
  PROVE  ThreadInv'
<1>1. ThreadTypes /\ HistoryInv /\ LastEnd /\ EventsTell /\ PhoneInv /\ HeardInv
  BY DEF ThreadInv, ServerInv
<1>2. /\ hist' \in Seq(Windows) /\ hist' # <<>> /\ now' \in Nat /\ now <= now'
      /\ now \in Nat /\ \A n \in Times : n \in Times'
  BY <1>1, ExtendsFacts, HistoryFields
<1>3. ThreadTypes'
  <2>1. reread'.since \in 0..now' BY <1>1, <1>2 DEF ThreadTypes
  <2>2. stream'.since \in Times' BY <1>1, <1>2 DEF ThreadTypes
  <2>3. /\ state' \in ThreadStates /\ reread' \in [since : Nat, fresh : BOOLEAN, again : BOOLEAN]
        /\ ~state'.known => state'.thread = NoThread /\ state'.closed = {}
    BY <1>1 DEF ThreadTypes
  <2> QED BY <1>2, <2>1, <2>2, <2>3 DEF ThreadTypes
<1>4. HistoryInv' /\ LastEnd' BY <1>1, HistoryKept
<1>5. EventsTell'
  <2>1. ASSUME NEW e \in Told', e \in Told PROVE UpdateTells(e)' /\ EndTells(e)'
    <3>1. e \in StreamEvents
      <4>1. stream.events \in Seq(StreamEvents) BY <1>1 DEF ThreadTypes
      <4>2. \A i \in DOMAIN stream.events : stream.events[i] \in StreamEvents
        BY <4>1, SequenceElements
      <4> QED BY <4>2, <2>1 DEF Told
    <3>2. UpdateTells(e) /\ EndTells(e) BY <2>1, <1>1 DEF EventsTell
    <3> QED BY <3>1, <3>2, <1>1, EventKept
  <2> QED BY <2>1 DEF EventsTell
<1>6. PhoneInv' BY <1>1, PhoneKept
<1>7. HeardInv' BY <1>1, HeardKept
<1> QED BY <1>3, <1>4, <1>5, <1>6, <1>7 DEF ThreadInv, ServerInv

LEMMA LiveKept ==
  ASSUME cur'.turn = cur.turn \/ cur.turn = Nobody, UNCHANGED ended, Told \subseteq Told',
         NEW m \in Messages, LiveTurn(m)
  PROVE  LiveTurn(m)'
<1>1. m # Nobody BY DEF Messages, Nobody
<1>2. EndsTold \subseteq EndsTold' BY DEF EndsTold
<1> QED BY <1>1, <1>2 DEF LiveTurn

LEMMA SteppedFacts ==
  ASSUME ThreadAssumption, ThreadTypes, NEW c \in CommandStates, c.todo # <<>>
  PROVE  stepped(c) \in CommandStates /\ stepped(c).since = now + 1
<1>1. Tail(c.todo) \in Seq({"accept", "close", "trace"}) /\ <<>> \in Seq({"accept", "close", "trace"})
  BY DEF CommandStates
<1>2. now + 1 \in Nat \ {0} BY HistoryFields
<1>3. refused(c) \in BOOLEAN BY DEF refused
<1> QED BY <1>1, <1>2, <1>3 DEF stepped, CommandStates

LEMMA NoCommandIs ==
  NoCommand \in CommandStates /\ NoCommand.since = 1 /\ NoCommand.todo = <<>>
BY DEF NoCommand, CommandStates, Ids

(* A message appended, or raised by one revision.                           *)
LEMMA MessageAppended ==
  ASSUME ThreadAssumption, NEW h \in Windows, Len(h.revs) < MaxMessages
  PROVE  /\ Append(h.revs, 1) \in Seq(1..MaxRevision)
         /\ Len(Append(h.revs, 1)) = Len(h.revs) + 1
         /\ Len(h.revs) + 1 <= MaxMessages /\ Len(h.revs) + 1 \in Messages
         /\ Within(h.revs, Append(h.revs, 1))
         /\ \A i \in DOMAIN h.revs : Append(h.revs, 1)[i] = h.revs[i]
<1>1. /\ h.revs \in Seq(1..MaxRevision) /\ Len(h.revs) \in Nat /\ DOMAIN h.revs = 1..Len(h.revs)
      /\ h.revs \in Seq(Nat) /\ \A i \in DOMAIN h.revs : h.revs[i] \in Nat
  BY WindowFields
<1>2. 1 \in 1..MaxRevision /\ MaxMessages \in Nat BY DEF ThreadAssumption
<1>3. \A i \in DOMAIN h.revs : Append(h.revs, 1)[i] = h.revs[i] BY <1>1
<1>4. Len(Append(h.revs, 1)) = Len(h.revs) + 1 BY <1>1
<1>5. Append(h.revs, 1) \in Seq(1..MaxRevision)
  <2> DEFINE S == 1..MaxRevision
  <2>1. h.revs \in Seq(S) /\ 1 \in S BY <1>1, <1>2
  <2> HIDE DEF S
  <2>2. Append(h.revs, 1) \in Seq(S) BY <2>1
  <2> QED BY <2>2 DEF S
<1>6. Len(h.revs) <= Len(Append(h.revs, 1)) BY <1>1, <1>4
<1>7. Within(h.revs, Append(h.revs, 1)) BY <1>1, <1>3, <1>6 DEF Within
<1>8. Len(h.revs) + 1 <= MaxMessages /\ Len(h.revs) + 1 \in Messages BY <1>1, <1>2 DEF Messages
<1> QED BY <1>3, <1>4, <1>5, <1>7, <1>8

LEMMA MessageRaised ==
  ASSUME ThreadAssumption, ThreadTypes, NEW m \in DOMAIN cur.revs, cur.revs[m] < MaxRevision
  PROVE  /\ raised(m) \in Windows /\ raised(m).turn = cur.turn
         /\ Within(cur.revs, raised(m).revs)
         /\ DOMAIN raised(m).revs = DOMAIN cur.revs
         /\ raised(m).revs[m] = cur.revs[m] + 1
         /\ \A i \in DOMAIN cur.revs \ {m} : raised(m).revs[i] = cur.revs[i]
<1> DEFINE r == [cur.revs EXCEPT ![m] = @ + 1]
<1>1. /\ cur \in Windows /\ cur.revs \in Seq(Nat)
      /\ Len(cur.revs) \in Nat /\ Len(cur.revs) <= MaxMessages
      /\ DOMAIN cur.revs = 1..Len(cur.revs)
      /\ \A i \in DOMAIN cur.revs : cur.revs[i] \in 1..MaxRevision /\ cur.revs[i] \in Nat
      /\ cur.pause \in Ids /\ cur.turn \in Ids
  BY HistoryFields, WindowFields
<1>2. cur = [revs |-> cur.revs, pause |-> cur.pause, turn |-> cur.turn] BY <1>1 DEF Windows
<1>3. raised(m) = [revs |-> r, pause |-> cur.pause, turn |-> cur.turn]
  BY <1>2 DEF raised
<1>4. cur.revs[m] + 1 \in 1..MaxRevision BY <1>1 DEF ThreadAssumption
<1>5. DOMAIN r = DOMAIN cur.revs /\ r[m] = cur.revs[m] + 1
      /\ \A i \in DOMAIN cur.revs \ {m} : r[i] = cur.revs[i]
  BY <1>1
<1>6. r \in [1..Len(cur.revs) -> 1..MaxRevision]
  BY <1>1, <1>4, <1>5
<1>7. r \in Seq(1..MaxRevision) /\ Len(r) = Len(cur.revs)
  <2>1. Len(cur.revs) \in Nat BY <1>1
  <2> HIDE DEF r
  <2> QED BY <2>1, <1>6, FunctionIsSequence
<1>8. raised(m) \in Windows BY <1>1, <1>3, <1>7, WindowMade
<1>9. Within(cur.revs, r)
  <2>1. \A i \in DOMAIN cur.revs : cur.revs[i] <= r[i] BY <1>1, <1>5
  <2> QED BY <2>1, <1>1, <1>7 DEF Within
<1>10. raised(m).revs = r /\ raised(m).turn = cur.turn BY <1>3
<1> QED BY <1>5, <1>8, <1>9, <1>10

LEMMA WindowWith ==
  ASSUME NEW h \in Windows, NEW r, NEW t
  PROVE  [h EXCEPT !.revs = r, !.turn = t] = [revs |-> r, pause |-> h.pause, turn |-> t]
<1> DEFINE x == [revs |-> r, pause |-> h.pause, turn |-> h.turn]
<1>1. h = [revs |-> h.revs, pause |-> h.pause, turn |-> h.turn] BY DEF Windows
<1>2. [h EXCEPT !.revs = r] = x BY <1>1
<1>3. [x EXCEPT !.turn = t] = [revs |-> r, pause |-> h.pause, turn |-> t] OBVIOUS
<1>4. [h EXCEPT !.revs = r, !.turn = t] = [[h EXCEPT !.revs = r] EXCEPT !.turn = t] OBVIOUS
<1> QED BY <1>2, <1>3, <1>4

LEMMA StepOfFacts ==
  ASSUME ThreadAssumption, ThreadTypes, HistoryInv,
         NEW c \in CommandStates, c.todo # <<>>, stepOf(c)
  PROVE  /\ Extends /\ now' = now + 1
         /\ worker' \in {"none", "queued", "running", "asking"}
         /\ (worker' = "none") = (cur'.turn = Nobody)
         /\ cur'.turn = cur.turn \/ cur.turn = Nobody
         /\ \A i \in DOMAIN cur.revs : cur'.revs[i] = cur.revs[i]
<1>1. /\ cur \in Windows /\ cur.revs \in Seq(1..MaxRevision) /\ cur.revs \in Seq(Nat)
      /\ Len(cur.revs) \in Nat /\ Len(cur.revs) <= MaxMessages
      /\ cur.pause \in Ids /\ cur.turn \in Ids /\ c.pause \in Ids
      /\ cur = [revs |-> cur.revs, pause |-> cur.pause, turn |-> cur.turn]
  <2>1. cur = [revs |-> cur.revs, pause |-> cur.pause, turn |-> cur.turn]
    BY HistoryFields DEF Windows
  <2> QED BY <2>1, HistoryFields, WindowFields DEF CommandStates
<1>2. worker \in {"none", "queued", "running", "asking"} /\ (worker = "none") = (cur.turn = Nobody)
  BY DEF ThreadTypes, HistoryInv
<1>3. Nobody \in Ids /\ \A i \in Messages : i \in Ids /\ i # Nobody BY DEF Ids, Messages, Nobody
<1>4. Within(cur.revs, cur.revs) BY <1>1, WithinReflexive
<1>5. CASE Head(c.todo) = "accept" /\ cur.turn = Nobody
  <2> DEFINE w == [revs |-> Append(cur.revs, 1), pause |-> cur.pause, turn |-> Len(cur.revs) + 1]
  <2>1. /\ Len(cur.revs) < MaxMessages
        /\ becomes([cur EXCEPT !.revs = Append(@, 1), !.turn = Len(cur.revs) + 1])
        /\ worker' = "queued"
    BY <1>5 DEF stepOf
  <2>2. hist' = Append(hist, w)
    <3>1. [cur EXCEPT !.revs = Append(@, 1), !.turn = Len(cur.revs) + 1] = w
      BY <1>1, WindowWith
    <3> HIDE DEF w
    <3> QED BY <3>1, <2>1 DEF becomes
  <2>3. /\ w.revs \in Seq(1..MaxRevision) /\ Len(w.revs) = Len(cur.revs) + 1
        /\ Len(w.revs) <= MaxMessages /\ w.turn \in Messages /\ Within(cur.revs, w.revs)
        /\ \A i \in DOMAIN cur.revs : w.revs[i] = cur.revs[i]
    BY <2>1, <1>1, MessageAppended
  <2>4. w \in Windows BY <2>3, <1>1, <1>3, WindowMade
  <2>5. now' = now + 1 /\ cur' = w BY <2>2, <2>4, HistoryAppended
  <2>6. w.turn <= Len(w.revs) /\ w.turn = Len(cur.revs) + 1 BY <2>3, <1>1
  <2> HIDE DEF w
  <2>7. Extends BY <2>2, <2>3, <2>4, <2>6, <1>5 DEF Extends
  <2> QED BY <2>1, <2>3, <2>5, <2>7, <1>3, <1>5
<1>6. CASE ~(Head(c.todo) = "accept" /\ cur.turn = Nobody) /\ Head(c.todo) \in {"accept", "close"}
  <2>1. PICK p \in Ids : becomes([cur EXCEPT !.pause = p]) /\ UNCHANGED worker
    <3>1. CASE Head(c.todo) = "accept"
      <4>1. becomes(IF c.kind = "answer" THEN [cur EXCEPT !.pause = c.pause] ELSE cur)
            /\ UNCHANGED worker
        BY <3>1, <1>6 DEF stepOf
      <4>2. cur = [cur EXCEPT !.pause = cur.pause] BY <1>1
      <4> QED BY <4>1, <4>2, <1>1
    <3>2. CASE Head(c.todo) = "close"
      <4>1. becomes([cur EXCEPT !.pause = IF @ = c.pause THEN Nobody ELSE @]) /\ UNCHANGED worker
        BY <3>2 DEF stepOf
      <4>2. becomes([cur EXCEPT !.pause = IF cur.pause = c.pause THEN Nobody ELSE cur.pause])
        BY <4>1, <1>1
      <4> QED BY <4>1, <4>2, <1>1, <1>3
    <3> QED BY <3>1, <3>2, <1>6
  <2> DEFINE w == [revs |-> cur.revs, pause |-> p, turn |-> cur.turn]
  <2>2. hist' = Append(hist, w) BY <2>1, <1>1 DEF becomes
  <2>3. w \in Windows BY <2>1, <1>1, WindowMade
  <2>4. now' = now + 1 /\ cur' = w BY <2>2, <2>3, HistoryAppended
  <2>5. w.revs = cur.revs /\ w.turn = cur.turn OBVIOUS
  <2> HIDE DEF w
  <2>6. Extends BY <2>2, <2>3, <2>5, <1>4 DEF Extends
  <2> QED BY <2>1, <2>4, <2>5, <2>6, <1>2
<1>7. CASE Head(c.todo) \notin {"accept", "close"}
  <2> DEFINE w == [revs |-> Append(cur.revs, 1), pause |-> cur.pause, turn |-> cur.turn]
  <2>1. /\ Len(cur.revs) < MaxMessages
        /\ becomes([cur EXCEPT !.revs = Append(@, 1)]) /\ UNCHANGED worker
    BY <1>7 DEF stepOf
  <2>2. hist' = Append(hist, w) BY <2>1, <1>1 DEF becomes
  <2>3. /\ w.revs \in Seq(1..MaxRevision) /\ Len(w.revs) = Len(cur.revs) + 1
        /\ Len(w.revs) <= MaxMessages /\ Within(cur.revs, w.revs)
        /\ \A i \in DOMAIN cur.revs : w.revs[i] = cur.revs[i]
    BY <2>1, <1>1, MessageAppended
  <2>4. w \in Windows BY <2>3, <1>1, WindowMade
  <2>5. now' = now + 1 /\ cur' = w BY <2>2, <2>4, HistoryAppended
  <2>6. w.turn = cur.turn OBVIOUS
  <2> HIDE DEF w
  <2>7. Extends BY <2>2, <2>3, <2>4, <2>6 DEF Extends
  <2> QED BY <2>1, <2>3, <2>5, <2>6, <2>7, <1>2
<1> QED BY <1>5, <1>6, <1>7

-----------------------------------------------------------------------------
(* Every step of the server keeps the invariant.                           *)

LEMMA InvFacts ==
  ASSUME ThreadAssumption, ThreadInv
  PROVE  /\ ThreadTypes /\ HistoryInv /\ LastEnd /\ EndIsOwed /\ EventsTell /\ PhoneInv /\ HeardInv
         /\ worker \in {"none", "queued", "running", "asking"}
         /\ (worker = "none") = (cur.turn = Nobody)
         /\ asked \in [Messages -> 0..MaxRevision]
         /\ ended \in [turn : Ids, since : Nat \ {0}, read : BOOLEAN] /\ ended.since \in Times
         /\ other \in [run : CommandStates, left : Nat] /\ other.run.since \in Times
         /\ stream \in [since : Nat \ {0}, snapshot : BOOLEAN, events : Seq(StreamEvents)]
         /\ stream.events \in Seq(StreamEvents) /\ stream.since \in Times
         /\ command \in CommandStates /\ command.since \in Times
         /\ left \in [commands : Nat, losses : Nat, heard : BOOLEAN]
         /\ now \in Nat /\ now \in Times /\ 1 \in Times /\ cur = hist[now] /\ cur \in Windows
         /\ cur.revs \in Seq(Nat) /\ Len(cur.revs) \in Nat /\ DOMAIN cur.revs = 1..Len(cur.revs)
         /\ \A i \in DOMAIN cur.revs : cur.revs[i] \in 1..MaxRevision /\ cur.revs[i] \in Nat
         /\ cur.turn \in Ids /\ cur.pause \in Ids
         /\ cur.turn # Nobody => cur.turn \in Messages /\ cur.turn \in DOMAIN cur.revs
<1>1. ThreadTypes /\ HistoryInv /\ LastEnd /\ EndIsOwed /\ EventsTell /\ PhoneInv /\ HeardInv
  BY DEF ThreadInv, ServerInv
<1>2. /\ now \in Nat /\ now \in Times /\ 1 \in Times /\ cur = hist[now] /\ cur \in Windows
      /\ cur.revs \in Seq(Nat) /\ Len(cur.revs) \in Nat /\ DOMAIN cur.revs = 1..Len(cur.revs)
      /\ \A i \in DOMAIN cur.revs : cur.revs[i] \in 1..MaxRevision /\ cur.revs[i] \in Nat
      /\ cur.turn \in Ids /\ cur.pause \in Ids
  BY <1>1, HistoryFields, WindowFields
<1>3. cur.turn # Nobody => cur.turn \in Messages /\ cur.turn \in DOMAIN cur.revs
  <2>1. cur.turn # Nobody => cur.turn \in Messages BY <1>2 DEF Ids
  <2>2. \A m \in Messages : m \in Nat /\ 1 <= m BY DEF Messages
  <2>3. cur.turn <= Len(cur.revs) BY <1>1, <1>2 DEF HistoryInv
  <2> QED BY <2>1, <2>2, <2>3, <1>2
<1>4. (worker = "none") = (cur.turn = Nobody) BY <1>1 DEF HistoryInv
<1>5. stream.events \in Seq(StreamEvents) BY <1>1 DEF ThreadTypes
<1> QED BY <1>1, <1>2, <1>3, <1>4, <1>5 DEF ThreadTypes

LEMMA HistoryStays ==
  ASSUME ThreadAssumption, ThreadTypes, UNCHANGED hist
  PROVE  Extends /\ now' = now /\ cur' = cur /\ Times' = Times
BY DEF Extends, now, cur, Times

(* A step of the server or of the command of a device that ends no turn.    *)
LEMMA TurnGoesOn ==
  ASSUME ThreadAssumption, ThreadInv, Extends, UNCHANGED <<state, reread, ended>>,
         worker' \in {"none", "queued", "running", "asking"},
         (worker' = "none") = (cur'.turn = Nobody),
         asked' \in [Messages -> 0..MaxRevision],
         other' \in [run : CommandStates, left : Nat], other'.run.since \in Times',
         command' \in CommandStates, command'.since \in Times',
         left' \in [commands : Nat, losses : Nat, heard : BOOLEAN],
         left'.heard => left.heard,
         \/ UNCHANGED stream
         \/ \E e \in StreamEvents : tell(e) /\ UpdateTells(e)' /\ EndTells(e)',
         cur'.turn = cur.turn \/ cur.turn = Nobody,
         ended # NoEnd => cur'.revs[ended.turn] = cur.revs[ended.turn]
  PROVE  ThreadInv'
<1>1. ThreadTypes /\ HistoryInv /\ EndIsOwed
      /\ ended \in [turn : Ids, since : Nat \ {0}, read : BOOLEAN] /\ ended.since \in Times
      /\ stream \in [since : Nat \ {0}, snapshot : BOOLEAN, events : Seq(StreamEvents)]
      /\ stream.events \in Seq(StreamEvents)
  BY InvFacts
<1>2. ended'.since \in Times' BY <1>1, ExtendsFacts
<1>3. ended # NoEnd => cur'.turn = cur.turn \/ cur.turn = Nobody OBVIOUS
<1>4. EndIsOwed' BY <1>1, <1>3, EndKept
<1>5. /\ stream' \in [since : Nat \ {0}, snapshot : BOOLEAN, events : Seq(StreamEvents)]
      /\ stream'.since = stream.since /\ stream'.snapshot = stream.snapshot
      /\ Told \subseteq Told'
      /\ \A e \in Told' : e \in Told \/ (UpdateTells(e)' /\ EndTells(e)')
  <2>1. CASE UNCHANGED stream
    <3>1. Told' = Told BY <2>1 DEF Told
    <3> QED BY <3>1, <2>1, <1>1
  <2>2. CASE \E e \in StreamEvents : tell(e) /\ UpdateTells(e)' /\ EndTells(e)'
    <3>1. PICK e \in StreamEvents : tell(e) /\ UpdateTells(e)' /\ EndTells(e)' BY <2>2
    <3>2. /\ Told' = Told \cup {e}
          /\ stream'.since = stream.since /\ stream'.snapshot = stream.snapshot
          /\ stream' \in [since : Nat \ {0}, snapshot : BOOLEAN, events : Seq(StreamEvents)]
      BY <3>1, <1>1, ToldMore
    <3>3. Told \subseteq Told' BY <3>2
    <3>4. ASSUME NEW d \in Told' PROVE d \in Told \/ (UpdateTells(d)' /\ EndTells(d)')
      <4>1. d = e \/ d \in Told BY <3>2, <3>4
      <4> QED BY <4>1, <3>1
    <3> QED BY <3>2, <3>3, <3>4
  <2> QED BY <2>1, <2>2
<1>6. \A m \in Messages : LiveTurn(m) => LiveTurn(m)' BY <1>5, LiveKept
<1>7. ended' \in [turn : Ids, since : Nat \ {0}, read : BOOLEAN] BY <1>1
<1> QED BY <1>2, <1>4, <1>5, <1>6, <1>7, ServerKeeps

LEMMA CommandStepKeeps ==
  ASSUME ThreadAssumption, ThreadInv, commandSteps PROVE ThreadInv'
<1>1. /\ command.todo # <<>> /\ stepOf(command) /\ command' = stepped(command)
      /\ UNCHANGED <<asked, ended, other, stream, state, reread, left>>
  BY DEF commandSteps
<1>2. ThreadTypes /\ HistoryInv /\ EndIsOwed /\ command \in CommandStates
      /\ asked \in [Messages -> 0..MaxRevision]
      /\ other \in [run : CommandStates, left : Nat] /\ other.run.since \in Times
      /\ left \in [commands : Nat, losses : Nat, heard : BOOLEAN]
  BY InvFacts
<1>3. /\ Extends /\ now' = now + 1
      /\ worker' \in {"none", "queued", "running", "asking"}
      /\ (worker' = "none") = (cur'.turn = Nobody)
      /\ cur'.turn = cur.turn \/ cur.turn = Nobody
      /\ \A i \in DOMAIN cur.revs : cur'.revs[i] = cur.revs[i]
  BY <1>1, <1>2, StepOfFacts
<1>4. command' \in CommandStates /\ command'.since = now + 1 BY <1>1, <1>2, SteppedFacts
<1>5. now' \in Times' /\ \A n \in Times : n \in Times' BY <1>2, <1>3, ExtendsFacts
<1>6. ended # NoEnd => cur'.revs[ended.turn] = cur.revs[ended.turn] BY <1>2, <1>3 DEF EndIsOwed
<1>7. command'.since \in Times' BY <1>3, <1>4, <1>5
<1> QED BY <1>1, <1>2, <1>3, <1>4, <1>5, <1>6, <1>7, TurnGoesOn

LEMMA OtherStepKeeps ==
  ASSUME ThreadAssumption, ThreadInv, otherSteps PROVE ThreadInv'
<1> DEFINE run == IF Len(stepped(other.run).todo) = 0 THEN NoCommand ELSE stepped(other.run)
<1>1. ThreadTypes /\ HistoryInv /\ EndIsOwed /\ command \in CommandStates /\ command.since \in Times
      /\ asked \in [Messages -> 0..MaxRevision]
      /\ other \in [run : CommandStates, left : Nat] /\ 1 \in Times
      /\ left \in [commands : Nat, losses : Nat, heard : BOOLEAN]
  BY InvFacts
<1>2. /\ other.run.todo # <<>> /\ stepOf(other.run) /\ other' = [other EXCEPT !.run = run]
      /\ UNCHANGED <<asked, ended, stream, phone, left>>
  BY <1>1 DEF otherSteps
<1>3. other.run \in CommandStates BY <1>1
<1>4. /\ Extends /\ now' = now + 1
      /\ worker' \in {"none", "queued", "running", "asking"}
      /\ (worker' = "none") = (cur'.turn = Nobody)
      /\ cur'.turn = cur.turn \/ cur.turn = Nobody
      /\ \A i \in DOMAIN cur.revs : cur'.revs[i] = cur.revs[i]
  BY <1>1, <1>2, <1>3, StepOfFacts
<1>5. run \in CommandStates /\ run.since \in {1, now + 1}
  <2>1. stepped(other.run) \in CommandStates /\ stepped(other.run).since = now + 1
    BY <1>1, <1>2, <1>3, SteppedFacts
  <2> QED BY <2>1, NoCommandIs
<1>6. now' \in Times' /\ \A n \in Times : n \in Times' BY <1>1, <1>4, ExtendsFacts
<1>7. ended # NoEnd => cur'.revs[ended.turn] = cur.revs[ended.turn] BY <1>1, <1>4 DEF EndIsOwed
<1>8. other' \in [run : CommandStates, left : Nat] /\ other'.run.since \in Times'
  <2> HIDE DEF run
  <2>1. run.since \in Times' BY <1>1, <1>4, <1>5, <1>6
  <2> QED BY <2>1, <1>1, <1>2, <1>5
<1>9. UNCHANGED <<state, command, reread>> BY <1>2 DEF phone
<1>10. command' \in CommandStates /\ command'.since \in Times' BY <1>1, <1>6, <1>9
<1> HIDE DEF run
<1> QED BY <1>1, <1>2, <1>4, <1>7, <1>8, <1>9, <1>10, TurnGoesOn

LEMMA NewCommandFacts ==
  ASSUME ThreadAssumption, ThreadTypes,
         NEW kind \in Commands \cup OtherCommands, NEW pause \in Ids
  PROVE  newCommand(kind, pause) \in CommandStates /\ newCommand(kind, pause).since = now
<1> DEFINE S == {"accept", "close", "trace"}
           todo == CASE kind = "send" -> IF pause = Nobody THEN <<"accept">> ELSE <<"accept", "close">>
                     [] kind = "answer" -> <<"close", "accept">>
                     [] OTHER -> <<"close", "trace">>
<1>1. kind \in {"send", "answer", "dismiss"} BY DEF ThreadAssumption
<1>2. now \in Nat \ {0} BY HistoryFields DEF Times
<1>3. todo \in Seq(S)
  <2>1. <<"accept">> \in Seq(S) /\ <<"accept", "close">> \in Seq(S)
        /\ <<"close", "accept">> \in Seq(S) /\ <<"close", "trace">> \in Seq(S)
    OBVIOUS
  <2> QED BY <2>1, <1>1
<1>4. newCommand(kind, pause) = [kind |-> kind, pause |-> pause, since |-> now, ok |-> TRUE,
                                 todo |-> todo]
  BY DEF newCommand
<1> HIDE DEF todo
<1> QED BY <1>1, <1>2, <1>3, <1>4 DEF CommandStates

(* A step that touches neither the server nor the connection.               *)
LEMMA CommandsAlone ==
  ASSUME ThreadAssumption, ThreadInv, UNCHANGED <<server, stream, state, reread>>,
         other' \in [run : CommandStates, left : Nat], other'.run.since \in Times,
         command' \in CommandStates, command'.since \in Times,
         left' \in [commands : Nat, losses : Nat, heard : BOOLEAN],
         left'.heard => left.heard
  PROVE  ThreadInv'
<1>1. UNCHANGED <<hist, worker, asked, ended>> BY DEF server
<1>2. ThreadTypes /\ worker \in {"none", "queued", "running", "asking"}
      /\ (worker = "none") = (cur.turn = Nobody) /\ asked \in [Messages -> 0..MaxRevision]
  BY InvFacts
<1>3. Extends /\ cur' = cur /\ Times' = Times BY <1>1, <1>2, HistoryStays
<1> QED BY <1>1, <1>2, <1>3, TurnGoesOn

LEMMA BeginsKeeps ==
  ASSUME ThreadAssumption, ThreadInv, NEW kind \in Commands, begins(kind) PROVE ThreadInv'
<1> DEFINE pause == IF kind = "send" THEN cur.pause ELSE state.thread.pause
<1>1. /\ left.commands > 0
      /\ command' = newCommand(kind, pause)
      /\ left' = [left EXCEPT !.commands = @ - 1]
      /\ UNCHANGED <<server, other, stream, state, reread>>
  BY DEF begins
<1>2. ThreadTypes /\ other \in [run : CommandStates, left : Nat] /\ other.run.since \in Times
      /\ left \in [commands : Nat, losses : Nat, heard : BOOLEAN] /\ now \in Times /\ cur.pause \in Ids
  BY InvFacts
<1>3. state.thread.pause \in Ids
  <2>1. state.thread \in Windows BY <1>2, HistoryFields
  <2> QED BY <2>1, WindowFields
<1>4. command' \in CommandStates /\ command'.since = now BY <1>1, <1>2, <1>3, NewCommandFacts
<1>5. left' \in [commands : Nat, losses : Nat, heard : BOOLEAN] /\ left'.heard = left.heard
  BY <1>1, <1>2
<1> QED BY <1>1, <1>2, <1>4, <1>5, CommandsAlone

LEMMA OtherBeginsKeeps ==
  ASSUME ThreadAssumption, ThreadInv, NEW kind \in OtherCommands, otherBegins(kind) PROVE ThreadInv'
<1>1. /\ other.left > 0
      /\ other' = [run |-> newCommand(kind, cur.pause), left |-> other.left - 1]
      /\ UNCHANGED <<server, stream, phone, left>>
  BY DEF otherBegins
<1>2. ThreadTypes /\ other \in [run : CommandStates, left : Nat]
      /\ command \in CommandStates /\ command.since \in Times
      /\ left \in [commands : Nat, losses : Nat, heard : BOOLEAN] /\ now \in Times /\ cur.pause \in Ids
  BY InvFacts
<1>3. newCommand(kind, cur.pause) \in CommandStates /\ newCommand(kind, cur.pause).since = now
  BY <1>2, NewCommandFacts
<1>4. other' \in [run : CommandStates, left : Nat] /\ other'.run.since \in Times
  BY <1>1, <1>2, <1>3
<1>5. UNCHANGED <<state, command, reread>> BY <1>1 DEF phone
<1> QED BY <1>1, <1>2, <1>4, <1>5, CommandsAlone

LEMMA UnreachableKeeps ==
  ASSUME ThreadAssumption, ThreadInv, unreachable PROVE ThreadInv'
<1>1. /\ left.losses > 0 /\ command' = NoCommand /\ left' = [left EXCEPT !.losses = @ - 1]
      /\ UNCHANGED <<server, other, stream, state, reread>>
  BY DEF unreachable
<1>2. other \in [run : CommandStates, left : Nat] /\ other.run.since \in Times
      /\ left \in [commands : Nat, losses : Nat, heard : BOOLEAN] /\ 1 \in Times
  BY InvFacts
<1>3. left' \in [commands : Nat, losses : Nat, heard : BOOLEAN] /\ left'.heard = left.heard
  BY <1>1, <1>2
<1> QED BY <1>1, <1>2, <1>3, NoCommandIs, CommandsAlone

LEMMA RunsTurnKeeps ==
  ASSUME ThreadAssumption, ThreadInv, runsTurn PROVE ThreadInv'
<1>0. PICK e : e = [type |-> "turn.started", turn |-> cur.turn] OBVIOUS
<1>1. /\ worker = "queued" /\ worker' = "running" /\ tell(e)
      /\ UNCHANGED <<hist, asked, ended, other, phone, left>>
  BY <1>0 DEF runsTurn
<1>2. /\ ThreadTypes /\ (worker = "none") = (cur.turn = Nobody)
      /\ asked \in [Messages -> 0..MaxRevision]
      /\ other \in [run : CommandStates, left : Nat] /\ other.run.since \in Times
      /\ command \in CommandStates /\ command.since \in Times
      /\ left \in [commands : Nat, losses : Nat, heard : BOOLEAN]
      /\ cur.turn # Nobody => cur.turn \in Messages
  BY InvFacts
<1>3. Extends /\ cur' = cur /\ Times' = Times BY <1>1, <1>2, HistoryStays
<1>4. e \in StreamEvents BY <1>0, <1>1, <1>2 DEF StreamEvents
<1>5. UpdateTells(e)' /\ EndTells(e)' BY <1>0 DEF UpdateTells, EndTells
<1>6. UNCHANGED <<state, command, reread>> BY <1>1 DEF phone
<1>7. \E d \in StreamEvents : tell(d) /\ UpdateTells(d)' /\ EndTells(d)' BY <1>1, <1>4, <1>5
<1> QED BY <1>1, <1>2, <1>3, <1>6, <1>7, TurnGoesOn

(* A write of the message of the running turn, and the event that tells it. *)
LEMMA WritesFacts ==
  ASSUME ThreadAssumption, ThreadInv, worker # "none", writes(cur.turn)
  PROVE  /\ Extends /\ cur'.turn = cur.turn /\ now' = now + 1
         /\ cur.turn \in Messages /\ cur.revs[cur.turn] + 1 \in 1..MaxRevision
         /\ ended # NoEnd => cur'.revs[ended.turn] = cur.revs[ended.turn]
         /\ \E e \in StreamEvents : tell(e) /\ UpdateTells(e)' /\ EndTells(e)'
         /\ \A n \in Times : n \in Times'
<1>m. PICK m : m = cur.turn OBVIOUS
<1>e. PICK e : e = [type |-> "message.updated", message |-> m, revision |-> cur.revs[m] + 1]
  OBVIOUS
<1>1. cur.revs[m] < MaxRevision /\ hist' = Append(hist, raised(m)) /\ tell(e)
  BY <1>m, <1>e DEF writes, becomes
<1>2. /\ ThreadTypes /\ HistoryInv /\ EndIsOwed /\ m \in Messages /\ m \in DOMAIN cur.revs
      /\ \A i \in DOMAIN cur.revs : cur.revs[i] \in 1..MaxRevision /\ cur.revs[i] \in Nat
  BY <1>m, InvFacts
<1>3. /\ raised(m) \in Windows /\ raised(m).turn = cur.turn
      /\ Within(cur.revs, raised(m).revs)
      /\ DOMAIN raised(m).revs = DOMAIN cur.revs
      /\ raised(m).revs[m] = cur.revs[m] + 1
      /\ \A i \in DOMAIN cur.revs \ {m} : raised(m).revs[i] = cur.revs[i]
  BY <1>1, <1>2, MessageRaised
<1>4. /\ now' = now + 1 /\ cur' = raised(m) /\ hist'[now + 1] = raised(m)
      /\ now + 1 \in Times' /\ \A n \in Times : n \in Times'
  BY <1>1, <1>2, <1>3, HistoryAppended
<1>5. Extends BY <1>1, <1>3 DEF Extends
<1>6. cur.revs[m] + 1 \in 1..MaxRevision BY <1>1, <1>2 DEF ThreadAssumption
<1>7. e \in StreamEvents BY <1>e, <1>2, <1>6 DEF StreamEvents
<1>8. UpdateTells(e)' BY <1>e, <1>m, <1>2, <1>3, <1>4 DEF UpdateTells
<1>9. EndTells(e)' BY <1>e DEF EndTells
<1>10. ended # NoEnd => cur'.revs[ended.turn] = cur.revs[ended.turn]
  BY <1>m, <1>2, <1>3, <1>4 DEF EndIsOwed
<1> QED BY <1>m,  <1>1, <1>2, <1>3, <1>4, <1>5, <1>6, <1>7, <1>8, <1>9, <1>10

LEMMA UpdateKeeps ==
  ASSUME ThreadAssumption, ThreadInv, update PROVE ThreadInv'
<1>1. /\ worker = "running" /\ writes(cur.turn)
      /\ UNCHANGED <<worker, asked, ended, other, state, command, reread, left>>
  BY DEF update, phone
<1>2. /\ asked \in [Messages -> 0..MaxRevision]
      /\ (worker = "none") = (cur.turn = Nobody)
      /\ other \in [run : CommandStates, left : Nat] /\ other.run.since \in Times
      /\ command \in CommandStates /\ command.since \in Times
      /\ left \in [commands : Nat, losses : Nat, heard : BOOLEAN]
  BY InvFacts
<1>3. /\ Extends /\ cur'.turn = cur.turn
      /\ ended # NoEnd => cur'.revs[ended.turn] = cur.revs[ended.turn]
      /\ \E e \in StreamEvents : tell(e) /\ UpdateTells(e)' /\ EndTells(e)'
      /\ \A n \in Times : n \in Times'
  BY <1>1, WritesFacts
<1> QED BY <1>1, <1>2, <1>3, TurnGoesOn

LEMMA AskKeeps ==
  ASSUME ThreadAssumption, ThreadInv, ask PROVE ThreadInv'
<1>1. /\ worker = "asking" /\ worker' = "running" /\ writes(cur.turn)
      /\ asked' = [asked EXCEPT ![cur.turn] = cur.revs[cur.turn] + 1]
      /\ UNCHANGED <<ended, other, state, command, reread, left>>
  BY DEF ask, phone
<1>2. /\ asked \in [Messages -> 0..MaxRevision]
      /\ (worker = "none") = (cur.turn = Nobody)
      /\ other \in [run : CommandStates, left : Nat] /\ other.run.since \in Times
      /\ command \in CommandStates /\ command.since \in Times
      /\ left \in [commands : Nat, losses : Nat, heard : BOOLEAN]
  BY InvFacts
<1>3. /\ Extends /\ cur'.turn = cur.turn
      /\ cur.turn \in Messages /\ cur.revs[cur.turn] + 1 \in 1..MaxRevision
      /\ ended # NoEnd => cur'.revs[ended.turn] = cur.revs[ended.turn]
      /\ \E e \in StreamEvents : tell(e) /\ UpdateTells(e)' /\ EndTells(e)'
      /\ \A n \in Times : n \in Times'
  BY <1>1, WritesFacts
<1>4. cur.revs[cur.turn] + 1 \in 0..MaxRevision BY <1>3 DEF ThreadAssumption
<1>5. asked' \in [Messages -> 0..MaxRevision] BY <1>1, <1>2, <1>4
<1> QED BY <1>1, <1>2, <1>3, <1>5, TurnGoesOn

LEMMA OpenKeeps ==
  ASSUME ThreadAssumption, ThreadInv, open PROVE ThreadInv'
<1> DEFINE w == [revs |-> cur.revs, pause |-> cur.turn, turn |-> cur.turn]
<1>1. /\ worker = "running" /\ worker' = "asking" /\ becomes([cur EXCEPT !.pause = cur.turn])
      /\ UNCHANGED <<asked, ended, other, stream, state, command, reread, left>>
  BY DEF open, phone
<1>2. /\ ThreadTypes /\ HistoryInv /\ asked \in [Messages -> 0..MaxRevision]
      /\ (worker = "none") = (cur.turn = Nobody)
      /\ other \in [run : CommandStates, left : Nat] /\ other.run.since \in Times
      /\ command \in CommandStates /\ command.since \in Times
      /\ left \in [commands : Nat, losses : Nat, heard : BOOLEAN]
      /\ cur \in Windows /\ cur.turn \in Ids
  BY InvFacts
<1>3. hist' = Append(hist, w)
  <2>1. [cur EXCEPT !.pause = cur.turn] = w BY <1>2 DEF Windows
  <2> HIDE DEF w
  <2> QED BY <2>1, <1>1 DEF becomes
<1>4. w \in Windows BY <1>2, WindowFields, WindowMade
<1>5. w.revs = cur.revs /\ w.turn = cur.turn /\ Within(cur.revs, cur.revs)
  BY <1>2, WindowFields, WithinReflexive
<1> HIDE DEF w
<1>6. cur' = w /\ \A n \in Times : n \in Times' BY <1>2, <1>3, <1>4, HistoryAppended
<1>7. Extends BY <1>3, <1>4, <1>5 DEF Extends
<1> QED BY <1>1, <1>2, <1>5, <1>6, <1>7, TurnGoesOn

(* The turn ends, by itself or by recovery; its event is owed.              *)
LEMMA EndingKeeps ==
  ASSUME ThreadAssumption, ThreadInv, worker # "none", ended = NoEnd,
         becomes([cur EXCEPT !.turn = Nobody]), worker' = "none", NEW read \in BOOLEAN,
         ended' = [turn |-> cur.turn, since |-> now + 1, read |-> read],
         ~read => cur.revs[cur.turn] < MaxRevision,
         UNCHANGED <<asked, other, stream, phone, left>>
  PROVE  ThreadInv'
<1> DEFINE w == [revs |-> cur.revs, pause |-> cur.pause, turn |-> Nobody]
<1>1. /\ ThreadTypes /\ HistoryInv /\ asked \in [Messages -> 0..MaxRevision]
      /\ (worker = "none") = (cur.turn = Nobody)
      /\ other \in [run : CommandStates, left : Nat] /\ other.run.since \in Times
      /\ command \in CommandStates /\ command.since \in Times
      /\ left \in [commands : Nat, losses : Nat, heard : BOOLEAN]
      /\ stream \in [since : Nat \ {0}, snapshot : BOOLEAN, events : Seq(StreamEvents)]
      /\ cur \in Windows /\ cur.turn \in Messages /\ cur.turn \in DOMAIN cur.revs
      /\ cur.turn \in Ids /\ now \in Nat
  BY InvFacts
<1>2. hist' = Append(hist, w)
  <2>1. cur = [revs |-> cur.revs, pause |-> cur.pause, turn |-> cur.turn] BY <1>1 DEF Windows
  <2>2. [cur EXCEPT !.turn = Nobody] = w BY <2>1
  <2> HIDE DEF w
  <2> QED BY <2>2 DEF becomes
<1>3. w \in Windows
  <2>1. Nobody \in Ids BY DEF Ids
  <2> QED BY <2>1, <1>1, WindowFields, WindowMade
<1>4. w.revs = cur.revs /\ w.turn = Nobody /\ Within(cur.revs, cur.revs)
  BY <1>1, WindowFields, WithinReflexive
<1> HIDE DEF w
<1>5. /\ cur' = w /\ now' = now + 1 /\ hist'[now + 1] = w /\ Times' = Times \cup {now + 1}
      /\ \A n \in Times : hist'[n] = hist[n]
  BY <1>1, <1>2, <1>3, HistoryAppended
<1>6. Extends BY <1>2, <1>3, <1>4 DEF Extends
<1>7. cur.turn # Nobody BY <1>1
<1>8. /\ ended' \in [turn : Ids, since : Nat \ {0}, read : BOOLEAN] /\ ended'.since \in Times'
      /\ ended'.turn = cur.turn /\ ended'.since = now + 1 /\ ended'.read = read
  BY <1>1, <1>5
<1>9. EndIsOwed'
  <2>1. ended'.turn \in DOMAIN cur'.revs /\ ended'.turn # cur'.turn
    BY <1>1, <1>4, <1>5, <1>7, <1>8
  <2>2. ~ended'.read => cur'.revs[ended'.turn] < MaxRevision BY <1>4, <1>5, <1>8
  <2>3. ASSUME NEW n \in Times', hist'[n].turn = ended'.turn PROVE n < ended'.since
    <3>1. n # now + 1 BY <2>3, <1>4, <1>5, <1>7, <1>8
    <3>2. n \in 1..now BY <3>1, <1>5 DEF Times
    <3> QED BY <3>2, <1>1, <1>8
  <2>4. ASSUME NEW n \in ended'.since..now' PROVE hist'[n].turn \in {Nobody, cur'.turn}
    <3>1. n = now + 1 BY <1>1, <1>5, <1>8
    <3> QED BY <3>1, <1>5
  <2> QED BY <2>1, <2>2, <2>3, <2>4 DEF EndIsOwed
<1>10. ASSUME NEW m \in Messages, LiveTurn(m) PROVE LiveTurn(m)'
  <2>1. m # ended.turn
    <3>1. ended.turn = Nobody BY DEF NoEnd
    <3> QED BY <3>1 DEF Messages, Nobody
  <2>2. Told' = Told BY DEF Told
  <2>3. EndsTold' = EndsTold BY <2>2 DEF EndsTold
  <2> QED BY <2>1, <2>3, <1>8, <1>10 DEF LiveTurn
<1>11. \A e \in Told' : e \in Told BY DEF Told
<1>12. UNCHANGED <<state, command, reread>> BY DEF phone
<1>13. worker' \in {"none", "queued", "running", "asking"} /\ (worker' = "none") = (cur'.turn = Nobody)
  BY <1>4, <1>5
<1>14. other'.run.since \in Times' /\ command'.since \in Times' BY <1>1, <1>5, <1>12
<1> QED BY <1>1, <1>6, <1>8, <1>9, <1>10, <1>11, <1>12, <1>13, <1>14, ServerKeeps

LEMMA TurnEndsKeeps ==
  ASSUME ThreadAssumption, ThreadInv, finish PROVE ThreadInv'
<1>1. /\ worker # "none" /\ ended = NoEnd
      /\ becomes([cur EXCEPT !.turn = Nobody]) /\ worker' = "none"
      /\ ended' = [turn |-> cur.turn, since |-> now + 1, read |-> TRUE]
      /\ UNCHANGED <<asked, other, stream, phone, left>>
  BY DEF finish
<1> QED BY <1>1, EndingKeeps

LEMMA RecoverKeeps ==
  ASSUME ThreadAssumption, ThreadInv, recover PROVE ThreadInv'
<1>1. /\ worker # "none" /\ ended = NoEnd /\ cur.revs[cur.turn] < MaxRevision
      /\ becomes([cur EXCEPT !.turn = Nobody]) /\ worker' = "none"
      /\ ended' = [turn |-> cur.turn, since |-> now + 1, read |-> FALSE]
      /\ UNCHANGED <<asked, other, stream, phone, left>>
  BY DEF recover
<1> QED BY <1>1, EndingKeeps

(* A window shows states of the history since its read began, in the order  *)
(* of its three steps.                                                      *)
LEMMA WindowsSinceFacts ==
  ASSUME ThreadAssumption, ThreadTypes, NEW since \in Times, NEW w \in windowsSince(since)
  PROVE  /\ w \in Windows
         /\ \E i, k \in Times : /\ since <= i /\ i <= k /\ k <= now
                                /\ w.revs = hist[i].revs /\ w.turn = hist[k].turn
<1> DEFINE seen(i, j, k) == [revs |-> hist[i].revs, pause |-> hist[j].pause, turn |-> hist[k].turn]
<1>1. PICK i \in since..now : \E j \in i..now : \E k \in j..now : w = seen(i, j, k)
  BY DEF windowsSince
<1>a. PICK j \in i..now : \E k \in j..now : w = seen(i, j, k) BY <1>1
<1>b. PICK k \in j..now : w = seen(i, j, k) BY <1>a
<1>2. since \in Nat /\ 1 <= since /\ now \in Nat BY HistoryFields DEF Times
<1>3. i \in Times /\ j \in Times /\ k \in Times /\ since <= i /\ i <= k /\ k <= now
  BY <1>1, <1>a, <1>b, <1>2 DEF Times
<1>4. w.revs = hist[i].revs /\ w.turn = hist[k].turn BY <1>b
<1>5. w \in Windows
  <2>1. hist[i] \in Windows /\ hist[j] \in Windows /\ hist[k] \in Windows
    BY <1>3, HistoryFields
  <2> QED BY <2>1, <1>b, WindowFields, WindowMade
<1> QED BY <1>3, <1>4, <1>5

LEMMA EndToldKeeps ==
  ASSUME ThreadAssumption, ThreadInv, Extends, cur'.turn = cur.turn,
         ended # NoEnd, ended' = NoEnd,
         NEW e \in StreamEvents, e.type = "turn.finished", e.turn = ended.turn,
         tell(e), EndTells(e)', UNCHANGED <<worker, asked, other, phone, left>>
  PROVE  ThreadInv'
<1>1. /\ ThreadTypes /\ HistoryInv /\ worker \in {"none", "queued", "running", "asking"}
      /\ (worker = "none") = (cur.turn = Nobody) /\ asked \in [Messages -> 0..MaxRevision]
      /\ other \in [run : CommandStates, left : Nat] /\ other.run.since \in Times
      /\ stream \in [since : Nat \ {0}, snapshot : BOOLEAN, events : Seq(StreamEvents)]
      /\ stream.events \in Seq(StreamEvents)
      /\ command \in CommandStates /\ command.since \in Times /\ 1 \in Times
      /\ left \in [commands : Nat, losses : Nat, heard : BOOLEAN]
  BY InvFacts
<1>2. \A n \in Times : n \in Times' BY <1>1, ExtendsFacts
<1>3. ended' \in [turn : Ids, since : Nat \ {0}, read : BOOLEAN] /\ ended'.since \in Times'
  BY <1>1, <1>2 DEF NoEnd, Ids
<1>4. EndIsOwed' BY DEF EndIsOwed
<1>5. /\ Told' = Told \cup {e}
      /\ stream'.since = stream.since /\ stream'.snapshot = stream.snapshot
      /\ stream' \in [since : Nat \ {0}, snapshot : BOOLEAN, events : Seq(StreamEvents)]
  BY <1>1, ToldMore
<1>6. UpdateTells(e)' BY DEF UpdateTells
<1>7. \A d \in Told' : d \in Told \/ (UpdateTells(d)' /\ EndTells(d)')
  <2>1. ASSUME NEW d \in Told' PROVE d \in Told \/ (UpdateTells(d)' /\ EndTells(d)')
    <3>1. d = e \/ d \in Told BY <1>5
    <3> QED BY <3>1, <1>6
  <2> QED BY <2>1
<1>8. ASSUME NEW m \in Messages, LiveTurn(m) PROVE LiveTurn(m)'
  <2>1. EndsTold \subseteq EndsTold' /\ e \in EndsTold' BY <1>5 DEF EndsTold
  <2> QED BY <2>1, <1>8 DEF LiveTurn
<1>9. UNCHANGED <<state, command, reread>> BY DEF phone
<1> QED BY <1>1, <1>2, <1>3, <1>4, <1>5, <1>7, <1>8, <1>9, ServerKeeps

LEMMA FinishedKeeps ==
  ASSUME ThreadAssumption, ThreadInv, finished PROVE ThreadInv'
<1>1. ended # NoEnd /\ ended' = NoEnd /\ UNCHANGED <<worker, asked, other, phone, left>>
  BY DEF finished
<1>m. PICK m : m = ended.turn OBVIOUS
<1>2. /\ ThreadTypes /\ HistoryInv /\ EndIsOwed /\ ended.since \in Times
      /\ now \in Nat /\ now \in Times /\ cur = hist[now] /\ cur \in Windows
      /\ stream.since \in Times /\ cur.turn \in Ids
  BY InvFacts
<1>3. /\ m \in DOMAIN cur.revs /\ m # cur.turn
      /\ ~ended.read => cur.revs[m] < MaxRevision
      /\ \A n \in Times : hist[n].turn = m => n < ended.since
      /\ \A n \in ended.since..now : hist[n].turn \in {Nobody, cur.turn}
  BY <1>1, <1>2, <1>m DEF EndIsOwed
<1>4. m \in Messages BY <1>2, <1>3, WindowFields
<1>5. CASE ended.read
  <2>1. /\ UNCHANGED hist
        /\ \E w \in windowsSince(ended.since) :
             tell([type |-> "turn.finished", turn |-> ended.turn, window |-> {w}])
    BY <1>1, <1>5 DEF finished
  <2>2. PICK w \in windowsSince(ended.since) :
          tell([type |-> "turn.finished", turn |-> ended.turn, window |-> {w}])
    BY <2>1
  <2>3. PICK e : e = [type |-> "turn.finished", turn |-> m, window |-> {w}] OBVIOUS
  <2>4. tell(e) BY <2>2, <2>3, <1>m
  <2>5. w \in Windows BY <1>2, WindowsSinceFacts
  <2>6. PICK i \in Times, k \in Times :
          ended.since <= i /\ i <= k /\ k <= now /\ w.revs = hist[i].revs /\ w.turn = hist[k].turn
    BY <1>2, WindowsSinceFacts
  <2>7. e \in StreamEvents BY <2>3, <2>5, <1>4 DEF StreamEvents
  <2>8. Extends /\ now' = now /\ cur' = cur /\ Times' = Times /\ hist' = hist
    BY <2>1, <1>2, HistoryStays
  <2>9. stream'.since = stream.since BY <2>4 DEF tell
  <2>10. /\ \E n \in Times : w.revs = hist[n].revs
         /\ \A n \in Times : hist[n].turn = m => Within(hist[n].revs, w.revs)
         /\ w.turn # Nobody => \E n \in stream.since..now : hist[n].turn = w.turn
    <3>0. \A n \in Times : n \in Nat /\ n <= now BY <1>2 DEF Times
    <3>1. ASSUME NEW n \in Times, hist[n].turn = m PROVE Within(hist[n].revs, w.revs)
      <4>1. n <= i
        <5>1. n < ended.since BY <3>1, <1>3
        <5>2. ended.since \in Nat /\ i \in Nat /\ n \in Nat BY <3>0, <1>2
        <5> QED BY <5>1, <5>2, <2>6
      <4> QED BY <4>1, <2>6, <1>2 DEF HistoryInv
    <3>2. ASSUME w.turn # Nobody PROVE \E n \in stream.since..now : hist[n].turn = w.turn
      <4>1. k \in ended.since..now
        <5>1. ended.since \in Nat /\ i \in Nat /\ k \in Nat BY <3>0, <1>2
        <5> QED BY <5>1, <2>6, <1>2
      <4>2. w.turn = hist[now].turn BY <4>1, <3>2, <2>6, <1>2, <1>3
      <4>3. now \in stream.since..now
        <5>1. stream.since \in Nat /\ stream.since <= now BY <3>0, <1>2
        <5> QED BY <5>1, <1>2
      <4> QED BY <4>2, <4>3
    <3> QED BY <3>1, <3>2, <2>6
  <2>11. EndTells(e)'
    <3>1. \A v \in e.window : v = w BY <2>3
    <3>2. e.turn = m BY <2>3
    <3> QED BY <3>1, <3>2, <2>8, <2>9, <2>10, <1>3 DEF EndTells
  <2>12. e.type = "turn.finished" /\ e.turn = ended.turn BY <2>3, <1>m
  <2> QED BY <2>4, <2>7, <2>8, <2>11, <2>12, <1>1, EndToldKeeps
<1>6. CASE ~ended.read
  <2>1. /\ becomes(raised(m))
        /\ tell([type |-> "turn.finished", turn |-> m, window |-> {}])
    BY <1>1, <1>6, <1>m DEF finished
  <2>2. PICK e : e = [type |-> "turn.finished", turn |-> m, window |-> {}] OBVIOUS
  <2>3. tell(e) /\ hist' = Append(hist, raised(m)) BY <2>1, <2>2 DEF becomes
  <2>4. /\ raised(m) \in Windows /\ raised(m).turn = cur.turn
        /\ Within(cur.revs, raised(m).revs) /\ DOMAIN raised(m).revs = DOMAIN cur.revs
    BY <1>2, <1>3, <1>6, MessageRaised
  <2>5. cur' = raised(m) BY <2>3, <2>4, <1>2, HistoryAppended
  <2>6. Extends BY <2>3, <2>4 DEF Extends
  <2>7. e \in StreamEvents BY <2>2, <1>4 DEF StreamEvents
  <2>8. EndTells(e)' BY <2>2, <2>4, <2>5, <1>3 DEF EndTells
  <2>9. e.type = "turn.finished" /\ e.turn = ended.turn BY <2>2, <1>m
  <2> QED BY <2>3, <2>4, <2>5, <2>6, <2>7, <2>8, <2>9, <1>1, EndToldKeeps
<1> QED BY <1>5, <1>6

LEMMA UnpublishedKeeps ==
  ASSUME ThreadAssumption, ThreadInv, unpublished PROVE ThreadInv'
<1>1. /\ ended' = NoEnd /\ left.losses > 0
      /\ left' = [left EXCEPT !.losses = @ - 1, !.heard = FALSE]
      /\ UNCHANGED <<hist, worker, asked, other, stream, state, command, reread>>
  BY DEF unpublished, phone
<1>2. /\ ThreadTypes /\ worker \in {"none", "queued", "running", "asking"}
      /\ (worker = "none") = (cur.turn = Nobody) /\ asked \in [Messages -> 0..MaxRevision]
      /\ other \in [run : CommandStates, left : Nat] /\ other.run.since \in Times
      /\ stream \in [since : Nat \ {0}, snapshot : BOOLEAN, events : Seq(StreamEvents)]
      /\ command \in CommandStates /\ command.since \in Times /\ 1 \in Times
      /\ left \in [commands : Nat, losses : Nat, heard : BOOLEAN]
  BY InvFacts
<1>3. Extends /\ cur' = cur /\ Times' = Times BY <1>1, <1>2, HistoryStays
<1>4. left' \in [commands : Nat, losses : Nat, heard : BOOLEAN] /\ ~left'.heard
  <2>1. left.losses - 1 \in Nat BY <1>1, <1>2
  <2> QED BY <2>1, <1>1, <1>2
<1>5. ended' \in [turn : Ids, since : Nat \ {0}, read : BOOLEAN] /\ ended'.since \in Times'
  BY <1>1, <1>2, <1>3 DEF NoEnd, Ids
<1>6. EndIsOwed' BY <1>1 DEF EndIsOwed
<1>7. \A e \in Told' : e \in Told BY <1>1 DEF Told
<1> QED BY <1>1, <1>2, <1>3, <1>4, <1>5, <1>6, <1>7, ServerKeeps

-----------------------------------------------------------------------------
(* What a window, or a revision, does to the thread.                       *)

(* A thread t that a window of state i made of the thread: nothing of it is *)
(* ahead of the server, it is whole, and it is past every state that the    *)
(* thread was comparable with, unless that state is later than the window.  *)
LEMMA WindowMerges ==
  ASSUME ThreadAssumption, ThreadTypes, HistoryInv, NothingAhead, Whole,
         NEW w \in Windows, NEW i \in Times, w.revs = hist[i].revs, NEW t \in Windows,
         \/ t.revs = w.revs /\ Within(state.thread.revs, w.revs)
         \/ /\ Len(t.revs) = Len(state.thread.revs) /\ Within(state.thread.revs, t.revs)
            /\ \A x \in DOMAIN t.revs :
                 \/ t.revs[x] = state.thread.revs[x]
                 \/ x \in DOMAIN w.revs /\ t.revs[x] = w.revs[x]
            /\ \/ Len(w.revs) < Len(state.thread.revs)
               \/ \E x \in DOMAIN state.thread.revs \cap DOMAIN w.revs :
                    w.revs[x] < state.thread.revs[x]
  PROVE  /\ Within(state.thread.revs, t.revs) /\ Within(t.revs, cur.revs)
         /\ \A n \in Times : Len(hist[n].revs) < Len(t.revs) => Within(hist[n].revs, t.revs)
         /\ \A n \in Times :
              Within(hist[n].revs, state.thread.revs) \/ Within(state.thread.revs, hist[n].revs) =>
                \/ Within(hist[n].revs, t.revs)
                \/ i < n /\ Within(t.revs, hist[n].revs)
<1> DEFINE h == state.thread.revs
           v == w.revs
           u == t.revs
<1>1. /\ h \in Seq(Nat) /\ Len(h) \in Nat /\ DOMAIN h = 1..Len(h)
      /\ v \in Seq(Nat) /\ Len(v) \in Nat /\ DOMAIN v = 1..Len(v)
      /\ u \in Seq(Nat) /\ Len(u) \in Nat /\ DOMAIN u = 1..Len(u)
      /\ \A x \in DOMAIN h : h[x] \in Nat
      /\ \A x \in DOMAIN v : v[x] \in Nat
      /\ \A x \in DOMAIN u : u[x] \in Nat
  BY HistoryFields, WindowFields
<1>2. /\ now \in Nat /\ now \in Times /\ cur = hist[now]
      /\ \A n \in Times : /\ n \in Nat /\ n <= now
                          /\ hist[n].revs \in Seq(Nat) /\ Len(hist[n].revs) \in Nat
                          /\ DOMAIN hist[n].revs = 1..Len(hist[n].revs)
                          /\ \A x \in DOMAIN hist[n].revs : hist[n].revs[x] \in Nat
  BY HistoryFields, WindowFields DEF Times
<1>3. \A a, b \in Times : a <= b => Within(hist[a].revs, hist[b].revs) BY DEF HistoryInv
<1>4. Within(h, cur.revs) BY DEF NothingAhead
<1>5. Within(h, u) OBVIOUS
<1>6. Within(v, cur.revs) BY <1>2, <1>3
<1>7. CASE u = v
  <2>1. \A n \in Times : Len(hist[n].revs) < Len(u) => Within(hist[n].revs, u)
    <3>1. ASSUME NEW n \in Times, Len(hist[n].revs) < Len(u) PROVE Within(hist[n].revs, u)
      <4>1. n <= i
        <5>1. i <= n => Len(v) <= Len(hist[n].revs) BY <1>3 DEF Within
        <5>2. Len(v) \in Nat /\ Len(hist[n].revs) \in Nat /\ n \in Nat /\ i \in Nat
          BY <1>1, <1>2
        <5> QED BY <5>1, <5>2, <3>1, <1>7
      <4> QED BY <4>1, <1>3, <1>7
    <3> QED BY <3>1
  <2>2. \A n \in Times : Within(hist[n].revs, u) \/ (i < n /\ Within(u, hist[n].revs))
    <3>1. ASSUME NEW n \in Times
          PROVE  Within(hist[n].revs, u) \/ (i < n /\ Within(u, hist[n].revs))
      <4>1. n <= i \/ i < n BY <1>2
      <4>2. n <= i => Within(hist[n].revs, u) BY <1>3, <1>7
      <4>3. i < n => i <= n BY <1>2
      <4>4. i < n => Within(u, hist[n].revs) BY <4>3, <1>3, <1>7
      <4> QED BY <4>1, <4>2, <4>4
    <3> QED BY <3>1
  <2> QED BY <2>1, <2>2, <1>5, <1>6, <1>7
<1>8. CASE /\ Len(u) = Len(h) /\ Within(h, u)
           /\ \A x \in DOMAIN u : u[x] = h[x] \/ (x \in DOMAIN v /\ u[x] = v[x])
           /\ \/ Len(v) < Len(h)
              \/ \E x \in DOMAIN h \cap DOMAIN v : v[x] < h[x]
  <2>1. ASSUME NEW s \in Seq(Nat), Within(h, s), \A x \in DOMAIN v : x \in DOMAIN s => v[x] <= s[x]
        PROVE  Within(u, s)
    <3>1. \A x \in DOMAIN u : u[x] <= s[x]
      <4>1. ASSUME NEW x \in DOMAIN u PROVE u[x] <= s[x]
        <5>1. x \in DOMAIN h BY <1>1, <1>8
        <5>2. x \in DOMAIN s
          <6>1. Len(h) <= Len(s) /\ Len(s) \in Nat /\ DOMAIN s = 1..Len(s) BY <2>1 DEF Within
          <6> QED BY <6>1, <5>1, <1>1
        <5>3. h[x] <= s[x] BY <5>1, <2>1 DEF Within
        <5> QED BY <5>2, <5>3, <2>1, <1>8
      <4> QED BY <4>1
    <3>2. Len(u) <= Len(s) BY <2>1, <1>8 DEF Within
    <3> QED BY <3>1, <3>2 DEF Within
  <2>2. Within(u, cur.revs)
    <3>1. cur.revs \in Seq(Nat) BY <1>2
    <3>2. \A x \in DOMAIN v : x \in DOMAIN cur.revs => v[x] <= cur.revs[x] BY <1>6 DEF Within
    <3> QED BY <3>1, <3>2, <2>1, <1>4
  <2>3. \A n \in Times : Len(hist[n].revs) < Len(u) => Within(hist[n].revs, u)
    <3>1. ASSUME NEW n \in Times, Len(hist[n].revs) < Len(u) PROVE Within(hist[n].revs, u)
      <4>1. Within(hist[n].revs, h) BY <3>1, <1>8 DEF Whole
      <4> QED BY <4>1, <1>1, <1>2, <1>5, WithinTransitive
    <3> QED BY <3>1
  <2>4. ASSUME Within(h, v) PROVE FALSE
    <3>1. ~(Len(v) < Len(h)) BY <2>4, <1>1 DEF Within
    <3>2. PICK x \in DOMAIN h \cap DOMAIN v : v[x] < h[x] BY <3>1, <1>8
    <3>3. h[x] <= v[x] BY <2>4 DEF Within
    <3>4. x \in DOMAIN h /\ x \in DOMAIN v OBVIOUS
    <3>5. h[x] \in Nat /\ v[x] \in Nat BY <3>4, <1>1
    <3> QED BY <3>2, <3>3, <3>5
  <2>5. ASSUME NEW n \in Times,
               Within(hist[n].revs, h) \/ Within(h, hist[n].revs)
        PROVE  Within(hist[n].revs, u) \/ (i < n /\ Within(u, hist[n].revs))
    <3>1. CASE Within(hist[n].revs, h) BY <3>1, <1>1, <1>2, <1>5, WithinTransitive
    <3>2. CASE Within(h, hist[n].revs) /\ n <= i
      <4>1. Within(hist[n].revs, v) BY <3>2, <1>3
      <4>2. Within(h, v) BY <3>2, <4>1, <1>1, <1>2, WithinTransitive
      <4> QED BY <4>2, <2>4
    <3>3. CASE Within(h, hist[n].revs) /\ i < n
      <4>1. i <= n BY <3>3, <1>2
      <4>2. Within(v, hist[n].revs) BY <4>1, <1>3
      <4>3. \A x \in DOMAIN v : x \in DOMAIN hist[n].revs => v[x] <= hist[n].revs[x]
        BY <4>2 DEF Within
      <4>4. hist[n].revs \in Seq(Nat) BY <1>2
      <4>5. Within(u, hist[n].revs) BY <4>3, <4>4, <3>3, <2>1
      <4> QED BY <4>5, <3>3
    <3>4. n <= i \/ i < n BY <1>2
    <3> QED BY <3>1, <3>2, <3>3, <3>4, <2>5
  <2> QED BY <2>2, <2>3, <2>5, <1>5
<1> QED BY <1>7, <1>8

LEMMA ServerStays ==
  ASSUME UNCHANGED server
  PROVE  /\ hist' = hist /\ worker' = worker /\ asked' = asked /\ ended' = ended
         /\ now' = now /\ cur' = cur /\ Times' = Times
BY DEF server, now, cur, Times

(* A read that is issued now will settle: whatever the phone shows was      *)
(* there before.                                                            *)
LEMMA SettlesAfresh ==
  ASSUME ThreadAssumption, ThreadTypes, UNCHANGED server, EndedOnly', NothingAhead',
         stream'.since \in Times, state' \in ThreadStates,
         WillSettle(reread') => reread'.since = now
  PROVE  Settling'
<1> SUFFICES ASSUME WillSettle(reread')
             PROVE  /\ stream'.snapshot => stream'.since <= reread'.since
                    /\ \A n \in reread'.since..now' : hist'[n].turn \notin state'.finished
                    /\ Len(state'.thread.revs) <= Len(hist'[reread'.since].revs)
                    /\ \A p \in DOMAIN state'.thread.revs :
                         state'.thread.revs[p] > hist'[reread'.since].revs[p] =>
                           \E n \in reread'.since..now' : hist'[n].turn = p
  BY DEF Settling, WillSettle
<1>1. hist' = hist /\ now' = now /\ cur' = cur BY ServerStays
<1>2. /\ now \in Nat /\ cur = hist[now] /\ cur.revs \in Seq(Nat) /\ reread'.since = now
      /\ state'.thread \in Windows
  BY HistoryFields DEF ThreadStates
<1>3. stream'.since <= now BY DEF Times
<1>4. \A n \in now..now : n = now BY <1>2
<1>5. cur.turn \notin state'.finished BY <1>1 DEF EndedOnly
<1>6. Within(state'.thread.revs, cur.revs) BY <1>1 DEF NothingAhead
<1>7. ASSUME NEW p \in DOMAIN state'.thread.revs PROVE ~(state'.thread.revs[p] > cur.revs[p])
  <2>1. state'.thread.revs[p] <= cur.revs[p] BY <1>6 DEF Within
  <2>2. state'.thread.revs[p] \in Nat BY <1>2, WindowFields
  <2>3. cur.revs[p] \in Nat
    <3>1. Len(state'.thread.revs) \in Nat /\ p \in 1..Len(state'.thread.revs) BY <1>2, WindowFields
    <3>2. Len(cur.revs) \in Nat /\ Len(state'.thread.revs) <= Len(cur.revs)
      BY <1>2, <1>6 DEF Within
    <3> QED BY <3>1, <3>2, <1>2
  <2> QED BY <2>1, <2>2, <2>3
<1>8. Len(state'.thread.revs) <= Len(cur.revs) BY <1>6 DEF Within
<1> QED BY <1>1, <1>2, <1>3, <1>4, <1>5, <1>7, <1>8

(* The read under way after a window, or an event.                          *)
LEMMA AfterFacts ==
  ASSUME ThreadAssumption, ThreadTypes, NEW again \in BOOLEAN,
         NEW r, r = afterWindow(again) \/ r = afterEvent(again)
  PROVE  /\ r \in [since : Nat, fresh : BOOLEAN, again : BOOLEAN] /\ r.since \in 0..now
         /\ again => \A n \in Times : Awaits(r, n)
         /\ \A n \in Times : Awaits(reread, n) => Awaits(r, n)
         /\ r = afterWindow(again) /\ WillSettle(r) => r.since = now
         /\ r = afterEvent(again) /\ WillSettle(r) =>
              r.since = now \/ (~again /\ WillSettle(reread) /\ r.since = reread.since)
<1>1. /\ reread \in [since : Nat, fresh : BOOLEAN, again : BOOLEAN] /\ reread.since \in 0..now
      /\ now \in Nat /\ now # 0
  BY HistoryFields DEF ThreadTypes, Times
<1>2. \A n \in Times : n \in Nat /\ n <= now BY <1>1 DEF Times
<1>3. CASE reread.since # 0 /\ r = afterWindow(again)
  <2>1. r = [reread EXCEPT !.fresh = FALSE, !.again = reread.again \/ again]
    BY <1>3 DEF afterWindow
  <2>2. /\ r.since = reread.since /\ ~r.fresh /\ r.again = (reread.again \/ again)
        /\ r \in [since : Nat, fresh : BOOLEAN, again : BOOLEAN]
    BY <2>1, <1>1
  <2>3. ~WillSettle(r) BY <2>2 DEF WillSettle
  <2>4. again => \A n \in Times : Awaits(r, n) BY <2>2, <1>3 DEF Awaits
  <2>5. \A n \in Times : Awaits(reread, n) => Awaits(r, n) BY <2>2, <1>3 DEF Awaits
  <2> QED BY <2>2, <2>3, <2>4, <2>5, <1>1
<1>4. CASE reread.since # 0 /\ r = afterEvent(again)
  <2>1. r = [reread EXCEPT !.again = reread.again \/ again] BY <1>4 DEF afterEvent
  <2>2. /\ r.since = reread.since /\ r.fresh = reread.fresh /\ r.again = (reread.again \/ again)
        /\ r \in [since : Nat, fresh : BOOLEAN, again : BOOLEAN]
    BY <2>1, <1>1
  <2>3. WillSettle(r) => ~again /\ WillSettle(reread) BY <2>2, <1>4 DEF WillSettle
  <2>4. again => \A n \in Times : Awaits(r, n) BY <2>2, <1>4 DEF Awaits
  <2>5. \A n \in Times : Awaits(reread, n) => Awaits(r, n) BY <2>2, <1>4 DEF Awaits
  <2>6. r = afterWindow(again) /\ WillSettle(r) => r.since = now
    <3>1. r = afterWindow(again) => ~r.fresh BY <1>1, <1>4 DEF afterWindow
    <3> QED BY <3>1 DEF WillSettle
  <2> QED BY <2>2, <2>3, <2>4, <2>5, <2>6, <1>1
<1>5. CASE reread.since = 0
  <2>1. r = IF again THEN [since |-> now, fresh |-> TRUE, again |-> FALSE] ELSE reread
    BY <1>5 DEF afterWindow, afterEvent
  <2>2. r \in [since : Nat, fresh : BOOLEAN, again : BOOLEAN] /\ r.since \in {0, now}
        /\ (again => r.since = now)
    BY <2>1, <1>1, <1>5
  <2>3. again => \A n \in Times : Awaits(r, n) BY <2>2, <1>1, <1>2 DEF Awaits
  <2>4. \A n \in Times : ~Awaits(reread, n) BY <1>5 DEF Awaits
  <2>5. WillSettle(r) => r.since = now BY <2>2 DEF WillSettle
  <2> QED BY <2>2, <2>3, <2>4, <2>5, <1>1
<1> QED BY <1>3, <1>4, <1>5

(* What stands or falls with the thread, when a window of state i joins it. *)
LEMMA JoinedThread ==
  ASSUME ThreadAssumption, ThreadTypes, HistoryInv, NothingAhead, Whole, SinceSnapshot,
         UNCHANGED server, stream'.since = stream.since,
         NEW s \in ThreadStates, s.known = state.known, s.thread = state.thread,
         s.closed = state.closed,
         NEW w \in Windows, NEW i \in Times, w.revs = hist[i].revs, NEW settles \in BOOLEAN,
         NEW j, j = joinWindow(s, w, settles),
         state'.thread = j.state.thread, state'.known = j.state.known,
         stream'.snapshot => stream.snapshot \/ stream.since <= i
  PROVE  /\ Within(state.thread.revs, state'.thread.revs)
         /\ NothingAhead' /\ Whole' /\ SinceSnapshot'
<1>0. PICK t : t = j.state.thread OBVIOUS
<1>1. /\ t \in Windows /\ j.state.known
      /\ \/ t.revs = w.revs /\ Within(state.thread.revs, w.revs)
         \/ /\ Len(t.revs) = Len(state.thread.revs) /\ Within(state.thread.revs, t.revs)
            /\ \A x \in DOMAIN t.revs :
                 \/ t.revs[x] = state.thread.revs[x]
                 \/ x \in DOMAIN w.revs /\ t.revs[x] = w.revs[x]
            /\ \/ Len(w.revs) < Len(state.thread.revs)
               \/ \E x \in DOMAIN state.thread.revs \cap DOMAIN w.revs :
                    w.revs[x] < state.thread.revs[x]
  <2>1. ~s.known => s.thread = NoThread /\ s.closed = {} BY DEF ThreadTypes
  <2>2. Joined(s, w, settles, j) BY <2>1, JoinFacts
  <2> QED BY <2>2, <1>0 DEF Joined
<1>2. /\ Within(state.thread.revs, t.revs) /\ Within(t.revs, cur.revs)
      /\ \A n \in Times : Len(hist[n].revs) < Len(t.revs) => Within(hist[n].revs, t.revs)
      /\ \A n \in Times :
           Within(hist[n].revs, state.thread.revs) \/ Within(state.thread.revs, hist[n].revs) =>
             \/ Within(hist[n].revs, t.revs)
             \/ i < n /\ Within(t.revs, hist[n].revs)
  BY <1>1, WindowMerges
<1>3. state'.thread = t /\ state'.known BY <1>0, <1>1
<1>4. hist' = hist /\ cur' = cur /\ Times' = Times BY ServerStays
<1>5. NothingAhead' BY <1>2, <1>3, <1>4 DEF NothingAhead
<1>6. Whole' BY <1>2, <1>3, <1>4 DEF Whole
<1>7. stream.since \in Times BY DEF ThreadTypes
<1>8. \/ Within(hist[stream.since].revs, state.thread.revs)
      \/ (~stream.snapshot /\ Within(state.thread.revs, hist[stream.since].revs))
  BY DEF SinceSnapshot
<1>9. \/ Within(hist[stream.since].revs, t.revs)
      \/ (~stream'.snapshot /\ Within(t.revs, hist[stream.since].revs))
  <2>1. CASE Within(hist[stream.since].revs, state.thread.revs)
    <3>1. /\ hist[stream.since].revs \in Seq(Nat) /\ state.thread.revs \in Seq(Nat)
          /\ t.revs \in Seq(Nat)
      BY <1>1, <1>7, HistoryFields, WindowFields
    <3> QED BY <3>1, <2>1, <1>2, WithinTransitive
  <2>2. CASE ~stream.snapshot /\ Within(state.thread.revs, hist[stream.since].revs)
    <3>1. \/ Within(hist[stream.since].revs, t.revs)
          \/ i < stream.since /\ Within(t.revs, hist[stream.since].revs)
      BY <2>2, <1>2, <1>7
    <3>2. i < stream.since => ~stream'.snapshot
      <4>1. i \in Nat /\ stream.since \in Nat BY <1>7, HistoryFields
      <4> QED BY <4>1, <2>2
    <3> QED BY <3>1, <3>2
  <2> QED BY <2>1, <2>2, <1>8
<1>10. SinceSnapshot' BY <1>3, <1>4, <1>9 DEF SinceSnapshot
<1> QED BY <1>2, <1>3, <1>5, <1>6, <1>10

(* A window that does not settle the thread: the answer of a command, the   *)
(* snapshot of a connection or the window of an end.                        *)
LEMMA WindowJoins ==
  ASSUME ThreadAssumption, ThreadInv, UNCHANGED server, stream'.since = stream.since,
         NEW s \in ThreadStates, s.known = state.known, s.thread = state.thread,
         s.closed = state.closed,
         state.finished \subseteq s.finished, s.finished \subseteq DOMAIN cur.revs \ {cur.turn},
         NEW w \in Windows, NEW i \in Times, w.revs = hist[i].revs,
         NEW j, j = joinWindow(s, w, FALSE),
         state' \in ThreadStates, state'.thread = j.state.thread, state'.known = j.state.known,
         state'.finished = s.finished,
         NEW again \in BOOLEAN, j.reread => again, reread' = afterWindow(again),
         stream.snapshot => stream'.snapshot,
         stream'.snapshot => stream.snapshot \/ stream.since <= i,
         left'.heard => left.heard,
         w.turn # Nobody =>
           \E k \in Times : /\ w.turn = hist[k].turn
                            /\ \/ stream.since <= k
                               \/ i <= k /\ \A m \in Messages : LiveTurn(m) => LiveTurn(m)',
         \A m \in Messages : LiveTurn(m) =>
           \/ LiveTurn(m)'
           \/ /\ m \in s.finished
              /\ \A n \in Times : hist[n].turn = m => Within(hist[n].revs, w.revs)
  PROVE  PhoneInv' /\ HeardInv'
<1> DEFINE t == state'.thread
<1>1. /\ ThreadTypes /\ HistoryInv /\ PhoneInv /\ HeardInv
      /\ EndedOnly /\ NothingAhead /\ Whole /\ SinceSnapshot /\ stream.since \in Times
  BY InvFacts DEF PhoneInv
<1>2. hist' = hist /\ cur' = cur /\ Times' = Times /\ now' = now BY ServerStays
<1>3. Within(state.thread.revs, t.revs) /\ NothingAhead' /\ Whole' /\ SinceSnapshot'
  BY <1>1, JoinedThread
<1>4. EndedOnly' BY <1>2 DEF EndedOnly
<1>5. reread' = afterWindow(again) \/ reread' = afterEvent(again) OBVIOUS
<1>6. /\ again => \A n \in Times : Awaits(reread', n)
      /\ \A n \in Times : Awaits(reread, n) => Awaits(reread', n)
      /\ WillSettle(reread') => reread'.since = now
  BY <1>1, <1>5, AfterFacts
<1>7. Settling' BY <1>1, <1>3, <1>4, <1>6, SettlesAfresh
<1>8. PhoneInv' BY <1>3, <1>4, <1>7 DEF PhoneInv
<1>9. ~s.known => s.thread = NoThread /\ s.closed = {} BY <1>1 DEF ThreadTypes
<1>10. ~again =>
         /\ t.turn = w.turn /\ w.turn \notin s.finished
         /\ s.known /\ w.turn # Nobody /\ Within(w.revs, s.thread.revs) => s.thread.turn # Nobody
         /\ t.revs = w.revs
  <2>1. Joined(s, w, FALSE, j) BY <1>9, JoinFacts
  <2> QED BY <2>1 DEF Joined
<1>11. ASSUME left'.heard PROVE EndsHeard' /\ TurnShown' /\ MessagesShown'
  <2>1. EndsHeard /\ TurnShown /\ MessagesShown BY <1>1, <1>11 DEF HeardInv
  <2>2. \A n \in Times : n \in Nat /\ n <= now /\ (hist[n].turn # Nobody => hist[n].turn \in Messages)
    BY <1>1, HistoryFields, WindowFields DEF Times, Ids
  <2>3. ASSUME NEW n \in stream.since..now, hist[n].turn # Nobody,
               NEW m, m = hist[n].turn
        PROVE  LiveTurn(m)' \/ m \in s.finished
    <3>1. n \in Times BY <2>2, <1>1 DEF Times
    <3>2. m \in Messages BY <3>1, <2>2, <2>3
    <3>3. LiveTurn(m) \/ m \in state.finished BY <2>1, <2>3 DEF EndsHeard
    <3> QED BY <3>2, <3>3
  <2>4. EndsHeard'
    <3>1. ASSUME NEW n \in stream.since..now, hist[n].turn # Nobody
          PROVE  LiveTurn(hist[n].turn)' \/ hist[n].turn \in s.finished
      <4>1. PICK m : m = hist[n].turn OBVIOUS
      <4>2. LiveTurn(m)' \/ m \in s.finished BY <4>1, <3>1, <2>3
      <4>3. LiveTurn(m)' => LiveTurn(hist[n].turn)' BY <4>1, <1>2 DEF LiveTurn
      <4> QED BY <4>1, <4>2, <4>3
    <3> QED BY <3>1, <1>2 DEF EndsHeard
  <2>5. ASSUME t.turn # Nobody, ~again, stream'.snapshot 
        PROVE  (\E m \in Messages : LiveTurn(m)') \/ Awaits(reread', stream.since)
    <3>1. t.turn = w.turn /\ w.turn \notin s.finished /\ w.turn # Nobody BY <2>5, <1>10
    <3>2. PICK k \in Times : /\ w.turn = hist[k].turn
                             /\ \/ stream.since <= k
                                \/ i <= k /\ \A m \in Messages : LiveTurn(m) => LiveTurn(m)'
      BY <3>1
    <3>3. CASE stream.since <= k
      <4>1. k \in stream.since..now BY <3>3, <2>2, <1>1
      <4>2. PICK m : m = hist[k].turn OBVIOUS
      <4>3. LiveTurn(m)' \/ m \in s.finished BY <4>1, <4>2, <3>1, <3>2, <2>3
      <4>4. m \in Messages /\ m \notin s.finished BY <4>2, <3>1, <3>2, <2>2
      <4> QED BY <4>3, <4>4
    <3>4. CASE ~(stream.since <= k)
      <4>1. i <= k /\ \A m \in Messages : LiveTurn(m) => LiveTurn(m)' BY <3>2, <3>4
      <4>2. i <= stream.since /\ ~(stream.since <= i) BY <4>1, <3>4, <2>2, <1>1
      <4>3. stream.snapshot BY <4>2, <2>5
      <4>4. Within(hist[stream.since].revs, state.thread.revs) /\ state.known
        BY <4>3, <1>1 DEF SinceSnapshot
      <4>5. Within(w.revs, state.thread.revs)
        <5>1. Within(hist[i].revs, hist[stream.since].revs) BY <4>2, <1>1 DEF HistoryInv
        <5>2. /\ hist[i].revs \in Seq(Nat) /\ hist[stream.since].revs \in Seq(Nat)
              /\ state.thread.revs \in Seq(Nat)
          BY <1>1, HistoryFields
        <5> QED BY <5>1, <5>2, <4>4, WithinTransitive
      <4>6. state.thread.turn # Nobody BY <4>4, <4>5, <3>1, <2>5, <1>10
      <4>7. (\E m \in Messages : LiveTurn(m)) \/ Awaits(reread, stream.since)
        BY <4>3, <4>6, <2>1 DEF TurnShown
      <4>8. CASE \E m \in Messages : LiveTurn(m) BY <4>8, <4>1
      <4>9. CASE Awaits(reread, stream.since) BY <4>9, <1>1, <1>6
      <4> QED BY <4>7, <4>8, <4>9
    <3> QED BY <3>3, <3>4
  <2>6. TurnShown'
    <3>1. again => Awaits(reread', stream.since) BY <1>1, <1>6
    <3>2. t.turn # Nobody =>
            (\E m \in Messages : LiveTurn(m)') \/ ~stream'.snapshot \/ Awaits(reread', stream.since)
      BY <3>1, <2>5
    <3> QED BY <3>2 DEF TurnShown, Awaits
  <2>7. ASSUME NEW n \in Times, hist[n].turn # Nobody, NEW m, m = hist[n].turn
        PROVE  \/ Within(hist[n].revs, t.revs) \/ LiveTurn(m)'
               \/ (~stream'.snapshot /\ n <= stream.since)
               \/ Awaits(reread', n)
    <3>0. /\ hist[n].revs \in Seq(Nat) /\ hist[stream.since].revs \in Seq(Nat)
          /\ state.thread.revs \in Seq(Nat) /\ t.revs \in Seq(Nat)
      BY <1>1, HistoryFields, WindowFields DEF ThreadStates
    <3>1. \/ Within(hist[n].revs, state.thread.revs) \/ LiveTurn(m)
          \/ (~stream.snapshot /\ n <= stream.since)
          \/ Awaits(reread, n)
      BY <2>1, <2>7 DEF MessagesShown
    <3>2. CASE Within(hist[n].revs, state.thread.revs) BY <3>0, <3>2, <1>3, WithinTransitive
    <3>3. CASE LiveTurn(m)
      <4>1. m \in Messages BY <2>2, <2>7
      <4>2. LiveTurn(m)' \/ Within(hist[n].revs, w.revs) BY <4>1, <3>3, <2>7
      <4>3. again \/ t.revs = w.revs BY <1>10
      <4> QED BY <4>2, <4>3, <1>6
    <3>4. CASE ~stream.snapshot /\ n <= stream.since
      <4>1. CASE stream'.snapshot
        <5>1. Within(hist[stream.since].revs, t.revs) BY <4>1, <1>2, <1>3 DEF SinceSnapshot
        <5>2. Within(hist[n].revs, hist[stream.since].revs) BY <3>4, <1>1 DEF HistoryInv
        <5> QED BY <5>1, <5>2, <3>0, WithinTransitive
      <4> QED BY <4>1, <3>4
    <3>5. CASE Awaits(reread, n) BY <3>5, <1>6
    <3> QED BY <3>1, <3>2, <3>3, <3>4, <3>5
  <2>8. MessagesShown'
    <3>1. ASSUME NEW n \in Times, hist[n].turn # Nobody
          PROVE  \/ Within(hist[n].revs, t.revs) \/ LiveTurn(hist[n].turn)'
                 \/ (~stream'.snapshot /\ n <= stream.since)
                 \/ Awaits(reread', n)
      <4>1. PICK m : m = hist[n].turn OBVIOUS
      <4>2. LiveTurn(m)' => LiveTurn(hist[n].turn)' BY <4>1, <1>2 DEF LiveTurn
      <4> QED BY <4>1, <4>2, <3>1, <2>7
    <3> QED BY <3>1, <1>2 DEF MessagesShown, Awaits
  <2> QED BY <2>4, <2>6, <2>8
<1> QED BY <1>8, <1>11 DEF HeardInv

-----------------------------------------------------------------------------
(* Every step of the phone keeps the invariant.                            *)

LEMMA PhoneMoves ==
  ASSUME ThreadAssumption, ThreadInv, UNCHANGED <<server, other>>,
         stream' \in [since : Nat \ {0}, snapshot : BOOLEAN, events : Seq(StreamEvents)],
         stream'.since \in Times,
         \A e \in Told' : e \in Told /\ stream'.since = stream.since,
         state' \in ThreadStates,
         ~state'.known => state'.thread = NoThread /\ state'.closed = {},
         command' \in CommandStates, command'.since \in Times,
         reread' \in [since : Nat, fresh : BOOLEAN, again : BOOLEAN], reread'.since \in 0..now,
         left' \in [commands : Nat, losses : Nat, heard : BOOLEAN],
         PhoneInv', HeardInv'
  PROVE  ThreadInv'
<1>1. /\ hist' = hist /\ worker' = worker /\ asked' = asked /\ ended' = ended
      /\ now' = now /\ cur' = cur /\ Times' = Times
  BY ServerStays
<1>2. ThreadTypes /\ HistoryInv /\ LastEnd /\ EndIsOwed /\ EventsTell BY InvFacts
<1>3. ThreadTypes' BY <1>1, <1>2 DEF ThreadTypes
<1>4. HistoryInv' BY <1>1, <1>2 DEF HistoryInv
<1>5. LastEnd' BY <1>1, <1>2 DEF LastEnd
<1>6. EndIsOwed' BY <1>1, <1>2 DEF EndIsOwed
<1>7. ASSUME NEW e \in Told' PROVE UpdateTells(e)' /\ EndTells(e)'
  <2>1. UpdateTells(e) /\ EndTells(e) BY <1>2, <1>7 DEF EventsTell
  <2>2. stream'.since = stream.since BY <1>7
  <2>3. UpdateTells(e)' BY <2>1, <1>1 DEF UpdateTells
  <2>4. EndTells(e)' BY <2>1, <2>2, <1>1 DEF EndTells
  <2> QED BY <2>3, <2>4
<1>8. EventsTell' BY <1>7 DEF EventsTell
<1> QED BY <1>3, <1>4, <1>5, <1>6, <1>8 DEF ThreadInv, ServerInv

LEMMA LiveStays ==
  ASSUME UNCHANGED server, NEW m, LiveTurn(m),
         m # ended.turn /\ m # cur.turn => \A e \in EndsTold : e.turn = m => e \in Told'
  PROVE  LiveTurn(m)'
<1>1. cur' = cur /\ ended' = ended BY ServerStays
<1>2. CASE m = cur.turn \/ m = ended.turn BY <1>1, <1>2 DEF LiveTurn
<1>3. CASE m # ended.turn /\ m # cur.turn
  <2>1. PICK e \in EndsTold : e.turn = m BY <1>3 DEF LiveTurn
  <2>2. e \in EndsTold' BY <2>1, <1>3 DEF EndsTold
  <2> QED BY <2>1, <2>2 DEF LiveTurn
<1> QED BY <1>2, <1>3

LEMMA AnsweredFacts ==
  ASSUME NEW s \in ThreadStates, NEW q \in Ids
  PROVE  /\ pauseAnswered(s, q) \in ThreadStates
         /\ pauseAnswered(s, q).thread = s.thread /\ pauseAnswered(s, q).known = s.known
         /\ pauseAnswered(s, q).finished = s.finished
         /\ s.closed \subseteq pauseAnswered(s, q).closed
<1>1. CASE q = Nobody BY <1>1 DEF pauseAnswered
<1>2. CASE q # Nobody
  <2>1. pauseAnswered(s, q) = [s EXCEPT !.closed = @ \cup {q}] BY <1>2 DEF pauseAnswered
  <2>2. q \in Messages BY <1>2 DEF Ids
  <2>3. s.closed \cup {q} \in SUBSET Messages BY <2>2 DEF ThreadStates
  <2> QED BY <2>1, <2>3 DEF ThreadStates
<1> QED BY <1>1, <1>2

LEMMA StateFacts ==
  ASSUME ThreadAssumption, ThreadInv
  PROVE  /\ state \in ThreadStates /\ state.thread \in Windows /\ state.thread.pause \in Ids
         /\ state.finished \subseteq DOMAIN cur.revs \ {cur.turn}
         /\ ~state.known => state.thread = NoThread /\ state.closed = {}
         /\ reread \in [since : Nat, fresh : BOOLEAN, again : BOOLEAN] /\ reread.since \in 0..now
<1>1. ThreadTypes /\ EndedOnly BY InvFacts DEF PhoneInv
<1>2. state.thread \in Windows BY <1>1, HistoryFields
<1> QED BY <1>1, <1>2, WindowFields DEF ThreadTypes, EndedOnly

LEMMA RespondsKeeps ==
  ASSUME ThreadAssumption, ThreadInv, responds PROVE ThreadInv'
<1>1. PICK w \in windowsSince(command.since) :
        /\ state' = IF command.kind \in {"answer", "dismiss"} /\ command.ok
                    THEN pauseAnswered(joinWindow(state, w, FALSE).state, command.pause)
                    ELSE joinWindow(state, w, FALSE).state
        /\ reread' = afterWindow(joinWindow(state, w, FALSE).reread)
  BY DEF responds
<1>2. command' = NoCommand /\ UNCHANGED <<server, other, stream, left>> BY DEF responds
<1>3. /\ ThreadTypes /\ command.since \in Times /\ command.pause \in Ids /\ 1 \in Times
      /\ left \in [commands : Nat, losses : Nat, heard : BOOLEAN]
      /\ stream \in [since : Nat \ {0}, snapshot : BOOLEAN, events : Seq(StreamEvents)]
      /\ stream.since \in Times
  BY InvFacts DEF CommandStates
<1>4. w \in Windows BY <1>3, WindowsSinceFacts
<1>5. PICK i \in Times, k \in Times :
        i <= k /\ w.revs = hist[i].revs /\ w.turn = hist[k].turn
  BY <1>3, WindowsSinceFacts
<1>6. PICK s : s = state OBVIOUS
<1>7. PICK j : j = joinWindow(s, w, FALSE) OBVIOUS
<1>8. s \in ThreadStates /\ (~s.known => s.thread = NoThread /\ s.closed = {})
      /\ s.finished \subseteq DOMAIN cur.revs \ {cur.turn}
  BY <1>6, StateFacts
<1>9. Joined(s, w, FALSE, j) BY <1>4, <1>7, <1>8, JoinFacts
<1>10. /\ j.state \in ThreadStates /\ j.state.known /\ j.state.finished = s.finished
       /\ j.reread \in BOOLEAN
  BY <1>9 DEF Joined
<1>11. /\ state' \in ThreadStates /\ state'.thread = j.state.thread /\ state'.known
       /\ state'.known = j.state.known /\ state'.finished = s.finished
  BY <1>1, <1>3, <1>6, <1>7, <1>10, AnsweredFacts
<1>12. reread' = afterWindow(j.reread) BY <1>1, <1>6, <1>7
<1>13. /\ reread' \in [since : Nat, fresh : BOOLEAN, again : BOOLEAN] /\ reread'.since \in 0..now
  BY <1>3, <1>10, <1>12, AfterFacts
<1>14. Told' = Told BY <1>2 DEF Told
<1>15. \A m \in Messages : LiveTurn(m) => LiveTurn(m)'
  BY <1>2, <1>14, LiveStays DEF EndsTold
<1>16. PhoneInv' /\ HeardInv'
  <2>1. w.turn # Nobody =>
           \E n \in Times : /\ w.turn = hist[n].turn
                            /\ \/ stream.since <= n
                               \/ i <= n /\ \A m \in Messages : LiveTurn(m) => LiveTurn(m)'
    BY <1>5, <1>15
  <2>2. s.known = state.known /\ s.thread = state.thread /\ s.closed = state.closed
        /\ state.finished \subseteq s.finished
    BY <1>6
  <2>3. stream'.since = stream.since /\ stream'.snapshot = stream.snapshot /\ left' = left
        /\ UNCHANGED server
    BY <1>2
  <2>4. j.reread => j.reread OBVIOUS
  <2> QED BY <2>1, <2>2, <2>3, <2>4, <1>4, <1>5, <1>7, <1>8, <1>10, <1>11, <1>12, <1>15, WindowJoins
<1> QED BY <1>2, <1>3, <1>11, <1>13, <1>14, <1>16, NoCommandIs, PhoneMoves

LEMMA OnSnapshotKeeps ==
  ASSUME ThreadAssumption, ThreadInv, onSnapshot PROVE ThreadInv'
<1>1. PICK w \in windowsSince(stream.since) :
        /\ state' = joinWindow(state, w, FALSE).state
        /\ reread' = afterWindow(joinWindow(state, w, FALSE).reread)
  BY DEF onSnapshot
<1>2. /\ stream' = [stream EXCEPT !.snapshot = TRUE]
      /\ UNCHANGED <<server, other, command, left>>
  BY DEF onSnapshot
<1>3. /\ ThreadTypes /\ command \in CommandStates /\ command.since \in Times
      /\ left \in [commands : Nat, losses : Nat, heard : BOOLEAN]
      /\ stream \in [since : Nat \ {0}, snapshot : BOOLEAN, events : Seq(StreamEvents)]
      /\ stream.since \in Times
  BY InvFacts
<1>4. w \in Windows BY <1>3, WindowsSinceFacts
<1>5. PICK i \in Times, k \in Times :
        stream.since <= i /\ i <= k /\ w.revs = hist[i].revs /\ w.turn = hist[k].turn
  BY <1>3, WindowsSinceFacts
<1>6. PICK s : s = state OBVIOUS
<1>7. PICK j : j = joinWindow(s, w, FALSE) OBVIOUS
<1>8. s \in ThreadStates /\ (~s.known => s.thread = NoThread /\ s.closed = {})
      /\ s.finished \subseteq DOMAIN cur.revs \ {cur.turn}
  BY <1>6, StateFacts
<1>9. Joined(s, w, FALSE, j) BY <1>4, <1>7, <1>8, JoinFacts
<1>10. /\ j.state \in ThreadStates /\ j.state.known /\ j.state.finished = s.finished
       /\ j.reread \in BOOLEAN
  BY <1>9 DEF Joined
<1>11. /\ state' \in ThreadStates /\ state'.thread = j.state.thread /\ state'.known
       /\ state'.known = j.state.known /\ state'.finished = s.finished
  BY <1>1, <1>6, <1>7, <1>10
<1>12. reread' = afterWindow(j.reread) BY <1>1, <1>6, <1>7
<1>13. /\ reread' \in [since : Nat, fresh : BOOLEAN, again : BOOLEAN] /\ reread'.since \in 0..now
  BY <1>3, <1>10, <1>12, AfterFacts
<1>14. /\ stream'.since = stream.since /\ stream'.snapshot /\ stream'.events = stream.events
       /\ stream' \in [since : Nat \ {0}, snapshot : BOOLEAN, events : Seq(StreamEvents)]
  BY <1>2, <1>3
<1>15. Told' = Told BY <1>14 DEF Told
<1>16. \A m \in Messages : LiveTurn(m) => LiveTurn(m)'
  BY <1>2, <1>15, LiveStays DEF EndsTold
<1>17. PhoneInv' /\ HeardInv'
  <2>1. w.turn # Nobody =>
           \E n \in Times : /\ w.turn = hist[n].turn
                            /\ \/ stream.since <= n
                               \/ i <= n /\ \A m \in Messages : LiveTurn(m) => LiveTurn(m)'
    BY <1>5, <1>16
  <2>2. s.known = state.known /\ s.thread = state.thread /\ s.closed = state.closed
        /\ state.finished \subseteq s.finished
    BY <1>6
  <2>3. left' = left /\ UNCHANGED server BY <1>2
  <2>4. j.reread => j.reread OBVIOUS
  <2> QED BY <2>1, <2>2, <2>3, <2>4, <1>4, <1>5, <1>7, <1>8, <1>10, <1>11, <1>12, <1>14, <1>16,
        WindowJoins
<1> QED BY <1>2, <1>3, <1>11, <1>13, <1>14, <1>15, <1>17, PhoneMoves

(* An event that brings no window.                                          *)
LEMMA EventWithoutWindow ==
  ASSUME ThreadAssumption, ThreadInv, UNCHANGED server,
         stream'.since = stream.since, stream.snapshot, stream'.snapshot,
         state' \in ThreadStates, state'.known = state.known,
         state'.thread.turn = state.thread.turn,
         Len(state'.thread.revs) = Len(state.thread.revs),
         Within(state.thread.revs, state'.thread.revs), Within(state'.thread.revs, cur.revs),
         \A p \in DOMAIN state'.thread.revs :
           \/ state'.thread.revs[p] = state.thread.revs[p]
           \/ \E n \in Times : /\ hist[n].turn = p /\ p \in DOMAIN hist[n].revs
                               /\ hist[n].revs[p] = state'.thread.revs[p],
         state.finished \subseteq state'.finished,
         state'.finished \subseteq DOMAIN cur.revs \ {cur.turn},
         NEW again \in BOOLEAN, reread' = afterEvent(again),
         again \/ state'.finished = state.finished,
         left'.heard => left.heard,
         \A m \in Messages : LiveTurn(m) => LiveTurn(m)' \/ (again /\ m \in state'.finished)
  PROVE  PhoneInv' /\ HeardInv'
<1> DEFINE h == state.thread.revs
           u == state'.thread.revs
<1>1. /\ ThreadTypes /\ HistoryInv /\ HeardInv
      /\ EndedOnly /\ NothingAhead /\ Whole /\ SinceSnapshot /\ Settling /\ stream.since \in Times
  BY InvFacts DEF PhoneInv
<1>2. hist' = hist /\ cur' = cur /\ Times' = Times /\ now' = now BY ServerStays
<1>3a. /\ h \in Seq(Nat) /\ Len(h) \in Nat /\ DOMAIN h = 1..Len(h)
       /\ u \in Seq(Nat) /\ Len(u) \in Nat /\ DOMAIN u = 1..Len(u)
       /\ (\A p \in DOMAIN u : u[p] \in Nat) /\ (\A p \in DOMAIN h : h[p] \in Nat)
  BY StateFacts, WindowFields DEF ThreadStates
<1>3b. DOMAIN u = DOMAIN h BY <1>3a
<1>3c. now \in Nat /\ \A n \in Times : n \in Nat /\ n <= now
  BY <1>1, HistoryFields DEF Times
<1>3d. \A n \in Times : /\ hist[n].revs \in Seq(Nat) /\ Len(hist[n].revs) \in Nat
                        /\ DOMAIN hist[n].revs = 1..Len(hist[n].revs)
                        /\ \A x \in DOMAIN hist[n].revs : hist[n].revs[x] \in Nat
                        /\ hist[n].turn # Nobody => hist[n].turn \in Messages
  BY <1>1, HistoryFields, WindowFields DEF Ids
<1>4. EndedOnly' BY <1>2 DEF EndedOnly
<1>5. NothingAhead' BY <1>2 DEF NothingAhead
<1>6. ASSUME NEW n \in Times, Within(hist[n].revs, h) PROVE Within(hist[n].revs, u)
  BY <1>3a, <1>3b, <1>3c, <1>3d, <1>6, WithinTransitive
<1>7. Whole' BY <1>1, <1>2, <1>6 DEF Whole
<1>8. SinceSnapshot' BY <1>1, <1>2, <1>6 DEF SinceSnapshot
<1>9. reread' = afterWindow(again) \/ reread' = afterEvent(again) OBVIOUS
<1>10. /\ again => \A n \in Times : Awaits(reread', n)
       /\ \A n \in Times : Awaits(reread, n) => Awaits(reread', n)
       /\ WillSettle(reread') =>
            reread'.since = now \/ (~again /\ WillSettle(reread) /\ reread'.since = reread.since)
  BY <1>1, <1>9, AfterFacts
<1>11. Settling'
  <2>1. CASE WillSettle(reread') => reread'.since = now
    BY <2>1, <1>1, <1>4, <1>5, SettlesAfresh
  <2>2. CASE WillSettle(reread') /\ reread'.since # now
    <3> DEFINE at == reread.since
    <3>1. ~again /\ WillSettle(reread) /\ reread'.since = at BY <2>2, <1>10
    <3>2. state'.finished = state.finished BY <3>1
    <3>3. /\ stream.snapshot => stream.since <= at
          /\ \A n \in at..now : hist[n].turn \notin state.finished
          /\ Len(h) <= Len(hist[at].revs)
          /\ \A p \in DOMAIN h : h[p] > hist[at].revs[p] => \E n \in at..now : hist[n].turn = p
      BY <3>1, <1>1 DEF Settling
    <3>4. at \in Times
      <4>1. at # 0 BY <3>1 DEF WillSettle
      <4> QED BY <4>1, <1>3a, <1>3b, <1>3c, <1>3d, StateFacts DEF Times
    <3>5. ASSUME NEW p \in DOMAIN u, u[p] > hist[at].revs[p]
          PROVE  \E n \in at..now : hist[n].turn = p
      <4>1. CASE u[p] = h[p] BY <4>1, <3>3, <3>5, <1>3a, <1>3b, <1>3c, <1>3d
      <4>2. CASE \E n \in Times : /\ hist[n].turn = p /\ p \in DOMAIN hist[n].revs
                                  /\ hist[n].revs[p] = u[p]
        <5>1. PICK n \in Times : /\ hist[n].turn = p /\ p \in DOMAIN hist[n].revs
                                 /\ hist[n].revs[p] = u[p]
          BY <4>2
        <5>2. p \in DOMAIN hist[at].revs
          <6>1. p \in 1..Len(h) /\ Len(h) <= Len(hist[at].revs) BY <3>3, <1>3a, <1>3b, <1>3c, <1>3d
          <6>2. Len(hist[at].revs) \in Nat /\ DOMAIN hist[at].revs = 1..Len(hist[at].revs)
            BY <3>4, <1>3a, <1>3b, <1>3c, <1>3d
          <6>3. Len(h) \in Nat /\ p \in Nat /\ 1 <= p /\ p <= Len(h) BY <6>1, <1>3a, <1>3b, <1>3c,
                <1>3d
          <6>4. p \in 1..Len(hist[at].revs) BY <6>1, <6>2, <6>3
          <6> QED BY <6>2, <6>4
        <5>3. hist[n].revs[p] \in Nat /\ hist[at].revs[p] \in Nat /\ n \in Nat /\ at \in Nat
          BY <5>1, <5>2, <3>4, <1>3a, <1>3b, <1>3c, <1>3d
        <5>4. n <= at => hist[n].revs[p] <= hist[at].revs[p]
          <6>1. n <= at => Within(hist[n].revs, hist[at].revs) BY <3>4, <1>1 DEF HistoryInv
          <6> QED BY <6>1, <5>1 DEF Within
        <5>5. ~(n <= at) BY <5>1, <5>3, <5>4, <3>5
        <5>6. n \in at..now BY <5>3, <5>5, <1>3a, <1>3b, <1>3c, <1>3d
        <5> QED BY <5>1, <5>6
      <4> QED BY <4>1, <4>2, <3>5
    <3>6. Len(u) <= Len(hist[at].revs) BY <3>3
    <3>7. /\ reread'.since = at
          /\ \A n \in at..now' : hist'[n].turn \notin state'.finished
      BY <3>1, <3>2, <3>3, <1>2
    <3> HIDE DEF at
    <3> QED BY <3>3, <3>5, <3>6, <3>7, <1>2 DEF Settling
  <2> QED BY <2>1, <2>2
<1>12. PhoneInv' BY <1>4, <1>5, <1>7, <1>8, <1>11 DEF PhoneInv
<1>13. ASSUME left'.heard PROVE EndsHeard' /\ TurnShown' /\ MessagesShown'
  <2>1. EndsHeard /\ TurnShown /\ MessagesShown BY <1>1, <1>13 DEF HeardInv
  <2>2. ASSUME NEW n \in Times, hist[n].turn # Nobody, LiveTurn(hist[n].turn)
        PROVE  LiveTurn(hist[n].turn)' \/ (again /\ hist[n].turn \in state'.finished)
    <3>1. PICK m : m = hist[n].turn OBVIOUS
    <3>2. LiveTurn(m)' \/ (again /\ m \in state'.finished) BY <3>1, <2>2, <1>3a, <1>3b, <1>3c, <1>3d
    <3>3. LiveTurn(m)' => LiveTurn(hist[n].turn)' BY <3>1, <1>2 DEF LiveTurn
    <3> QED BY <3>1, <3>2, <3>3
  <2>3. ASSUME NEW n \in stream.since..now, hist[n].turn # Nobody
        PROVE  LiveTurn(hist[n].turn)' \/ hist[n].turn \in state'.finished
    <3>1. n \in Times BY <1>1, <1>3a, <1>3b, <1>3c, <1>3d DEF Times
    <3>2. LiveTurn(hist[n].turn) \/ hist[n].turn \in state.finished BY <2>1, <2>3 DEF EndsHeard
    <3> QED BY <3>1, <3>2, <2>2, <2>3
  <2>4. EndsHeard' BY <2>3, <1>2 DEF EndsHeard
  <2>5. state'.thread.turn # Nobody =>
          (\E m \in Messages : LiveTurn(m)') \/ Awaits(reread', stream.since)
    <3>1. state.thread.turn # Nobody =>
            (\E m \in Messages : LiveTurn(m)) \/ Awaits(reread, stream.since)
      BY <2>1 DEF TurnShown
    <3> QED BY <3>1, <1>1, <1>10
  <2>6. TurnShown' BY <2>5 DEF TurnShown, Awaits
  <2>7. ASSUME NEW n \in Times, hist[n].turn # Nobody
        PROVE  Within(hist[n].revs, u) \/ LiveTurn(hist[n].turn)' \/ Awaits(reread', n)
    <3>1. Within(hist[n].revs, h) \/ LiveTurn(hist[n].turn) \/ Awaits(reread, n)
      BY <2>1, <2>7 DEF MessagesShown
    <3>2. CASE Within(hist[n].revs, h) BY <3>2, <1>6
    <3>3. CASE LiveTurn(hist[n].turn) BY <3>3, <2>2, <2>7, <1>10
    <3>4. CASE Awaits(reread, n) BY <3>4, <1>10
    <3> QED BY <3>1, <3>2, <3>3, <3>4
  <2>8. MessagesShown' BY <2>7, <1>2 DEF MessagesShown, Awaits
  <2> QED BY <2>4, <2>6, <2>8
<1> QED BY <1>12, <1>13 DEF HeardInv

LEMMA EventFields ==
  ASSUME NEW e \in StreamEvents
  PROVE  /\ e.type \in {"turn.started", "message.updated", "turn.finished"}
         /\ e.type = "turn.started" => e.turn \in Messages
         /\ e.type = "message.updated" => e.message \in Messages /\ e.revision \in 1..MaxRevision
         /\ e.type = "turn.finished" =>
              e.turn \in Messages /\ (e.window = {} \/ \E w \in Windows : e.window = {w})
<1>1. CASE e \in [type : {"turn.started"}, turn : Messages] BY <1>1
<1>2. CASE e \in [type : {"message.updated"}, message : Messages, revision : 1..MaxRevision]
  BY <1>2
<1>3. CASE e \in [type : {"turn.finished"}, turn : Messages, window : {{}} \cup {{w} : w \in Windows}]
  BY <1>3
<1> QED BY <1>1, <1>2, <1>3 DEF StreamEvents

LEMMA EventHeard ==
  ASSUME ThreadAssumption, ThreadInv, onEvent, NEW e, e = Head(stream.events)
  PROVE  /\ e \in StreamEvents /\ UpdateTells(e) /\ EndTells(e)
         /\ stream.snapshot /\ stream'.snapshot /\ stream'.since = stream.since
         /\ stream' \in [since : Nat \ {0}, snapshot : BOOLEAN, events : Seq(StreamEvents)]
         /\ \A d \in Told' : d \in Told
         /\ \A m \in Messages : LiveTurn(m) => LiveTurn(m)' \/ (e.type = "turn.finished" /\ e.turn = m)
         /\ UNCHANGED <<server, other, command, left>>
         /\ state' = applyAssistantStreamEvent(state, e).state
         /\ reread' = IF isWindow(e) THEN afterWindow(applyAssistantStreamEvent(state, e).reread)
                      ELSE afterEvent(applyAssistantStreamEvent(state, e).reread)
<1>1. /\ stream.snapshot /\ stream.events # <<>> /\ stream' = [stream EXCEPT !.events = Tail(@)]
      /\ UNCHANGED <<server, other, command, left>>
      /\ state' = applyAssistantStreamEvent(state, e).state
      /\ reread' = IF isWindow(e) THEN afterWindow(applyAssistantStreamEvent(state, e).reread)
                   ELSE afterEvent(applyAssistantStreamEvent(state, e).reread)
  BY DEF onEvent
<1>2. stream \in [since : Nat \ {0}, snapshot : BOOLEAN, events : Seq(StreamEvents)] /\ EventsTell
  BY InvFacts
<1>3. /\ Told = Told' \cup {e} /\ e \in StreamEvents
      /\ stream'.since = stream.since /\ stream'.snapshot = stream.snapshot
      /\ stream' \in [since : Nat \ {0}, snapshot : BOOLEAN, events : Seq(StreamEvents)]
  BY <1>1, <1>2, ToldLess
<1>4. UpdateTells(e) /\ EndTells(e) BY <1>2, <1>3 DEF EventsTell
<1>5. ASSUME NEW m \in Messages, LiveTurn(m), ~(e.type = "turn.finished" /\ e.turn = m)
      PROVE LiveTurn(m)'
  <2>1. \A d \in EndsTold : d.turn = m => d \in Told' BY <1>3, <1>5 DEF EndsTold
  <2> QED BY <2>1, <1>1, <1>5, LiveStays
<1> QED BY <1>1, <1>3, <1>4, <1>5

LEMMA StartedKeeps ==
  ASSUME ThreadAssumption, ThreadInv, onEvent, NEW e, e = Head(stream.events),
         e.type = "turn.started"
  PROVE  ThreadInv'
<1>1. /\ e \in StreamEvents /\ stream.snapshot /\ stream'.snapshot /\ stream'.since = stream.since
      /\ stream' \in [since : Nat \ {0}, snapshot : BOOLEAN, events : Seq(StreamEvents)]
      /\ \A d \in Told' : d \in Told
      /\ \A m \in Messages : LiveTurn(m) => LiveTurn(m)'
      /\ UNCHANGED <<server, other, command, left>>
      /\ state' = applyAssistantStreamEvent(state, e).state
      /\ reread' = IF isWindow(e) THEN afterWindow(applyAssistantStreamEvent(state, e).reread)
                   ELSE afterEvent(applyAssistantStreamEvent(state, e).reread)
  <2>1. \A m \in Messages : LiveTurn(m) => LiveTurn(m)' \/ (e.type = "turn.finished" /\ e.turn = m)
    BY EventHeard
  <2>2. e.type # "turn.finished" OBVIOUS
  <2> QED BY <2>1, <2>2, EventHeard
<1>2. e.turn \in Messages BY <1>1, EventFields
<1>3. state' = [state EXCEPT !.tracked = e.turn] /\ reread' = afterEvent(FALSE)
  BY <1>1 DEF applyAssistantStreamEvent, isWindow
<1>4. /\ ThreadTypes /\ command \in CommandStates /\ command.since \in Times
      /\ left \in [commands : Nat, losses : Nat, heard : BOOLEAN] /\ stream.since \in Times
      /\ NothingAhead
  BY InvFacts DEF PhoneInv
<1>5. /\ state \in ThreadStates /\ state.thread \in Windows
      /\ state.finished \subseteq DOMAIN cur.revs \ {cur.turn}
      /\ ~state.known => state.thread = NoThread /\ state.closed = {}
  BY StateFacts
<1>6. /\ state' \in ThreadStates /\ state'.known = state.known /\ state'.thread = state.thread
      /\ state'.finished = state.finished /\ state'.closed = state.closed
  BY <1>2, <1>3, <1>5 DEF ThreadStates, Ids
<1>7. Within(state.thread.revs, state.thread.revs) /\ Within(state.thread.revs, cur.revs)
  BY <1>4, <1>5, WindowFields, WithinReflexive DEF NothingAhead
<1>8. PhoneInv' /\ HeardInv'
  BY <1>1, <1>3, <1>5, <1>6, <1>7, EventWithoutWindow
<1>9. /\ reread' \in [since : Nat, fresh : BOOLEAN, again : BOOLEAN] /\ reread'.since \in 0..now
  BY <1>3, <1>4, AfterFacts
<1> QED BY <1>1, <1>4, <1>5, <1>6, <1>8, <1>9, PhoneMoves

LEMMA MessageUpdatedKeeps ==
  ASSUME ThreadAssumption, ThreadInv, onEvent, NEW e, e = Head(stream.events),
         e.type = "message.updated"
  PROVE  ThreadInv'
<1>1. /\ e \in StreamEvents /\ stream.snapshot /\ stream'.snapshot /\ stream'.since = stream.since
      /\ stream' \in [since : Nat \ {0}, snapshot : BOOLEAN, events : Seq(StreamEvents)]
      /\ \A d \in Told' : d \in Told
      /\ \A m \in Messages : LiveTurn(m) => LiveTurn(m)'
      /\ UNCHANGED <<server, other, command, left>>
      /\ state' = applyAssistantStreamEvent(state, e).state
      /\ reread' = IF isWindow(e) THEN afterWindow(applyAssistantStreamEvent(state, e).reread)
                   ELSE afterEvent(applyAssistantStreamEvent(state, e).reread)
      /\ UpdateTells(e)
  <2>1. \A m \in Messages : LiveTurn(m) => LiveTurn(m)' \/ (e.type = "turn.finished" /\ e.turn = m)
    BY EventHeard
  <2>2. e.type # "turn.finished" OBVIOUS
  <2> QED BY <2>1, <2>2, EventHeard
<1>a. PICK m : m = e.message OBVIOUS
<1>r. PICK r : r = e.revision OBVIOUS
<1>2. m \in Messages /\ r \in 1..MaxRevision BY <1>1, <1>a, <1>r, EventFields
<1>3. /\ state' = applyMessageUpdated(state, m, r).state
      /\ reread' = afterEvent(applyMessageUpdated(state, m, r).reread)
  BY <1>1, <1>a, <1>r DEF applyAssistantStreamEvent, isWindow
<1>4. /\ ThreadTypes /\ HistoryInv /\ command \in CommandStates /\ command.since \in Times
      /\ left \in [commands : Nat, losses : Nat, heard : BOOLEAN] /\ stream.since \in Times
      /\ NothingAhead /\ now \in Times /\ cur = hist[now]
  BY InvFacts DEF PhoneInv
<1>5. /\ state \in ThreadStates /\ state.thread \in Windows
      /\ state.finished \subseteq DOMAIN cur.revs \ {cur.turn}
      /\ ~state.known => state.thread = NoThread /\ state.closed = {}
  BY StateFacts
<1>6. PICK n \in Times : hist[n].turn = m /\ m \in DOMAIN hist[n].revs /\ hist[n].revs[m] = r
  BY <1>1, <1>a, <1>r DEF UpdateTells
<1>7. Within(state.thread.revs, state.thread.revs) /\ Within(state.thread.revs, cur.revs)
  BY <1>4, <1>5, WindowFields, WithinReflexive DEF NothingAhead
<1>8. CASE ~state.known \/ m \notin DOMAIN state.thread.revs \/ state.thread.revs[m] >= r
  <2>1. state' = state /\ \E again \in BOOLEAN : reread' = afterEvent(again)
    <3>1. CASE ~state.known \/ m \notin DOMAIN state.thread.revs
      BY <3>1, <1>3 DEF applyMessageUpdated
    <3>2. CASE ~(~state.known \/ m \notin DOMAIN state.thread.revs) /\ state.thread.revs[m] >= r
      BY <3>2, <1>3 DEF applyMessageUpdated
    <3> QED BY <3>1, <3>2, <1>8
  <2>2. PICK again \in BOOLEAN : reread' = afterEvent(again) BY <2>1
  <2>3. PhoneInv' /\ HeardInv'
    BY <2>1, <2>2, <1>1, <1>5, <1>7, EventWithoutWindow
  <2>4. reread' \in [since : Nat, fresh : BOOLEAN, again : BOOLEAN] /\ reread'.since \in 0..now
    BY <2>2, <1>4, AfterFacts
  <2> QED BY <2>1, <2>3, <2>4, <1>1, <1>4, <1>5, PhoneMoves
<1>9. CASE ~(~state.known \/ m \notin DOMAIN state.thread.revs \/ state.thread.revs[m] >= r)
  <2> DEFINE h == state.thread
             u == [h.revs EXCEPT ![m] = r]
  <2>1. state' = [state EXCEPT !.thread.revs[m] = r] /\ reread' = afterEvent(FALSE)
    BY <1>3, <1>9 DEF applyMessageUpdated
  <2>2. /\ h.revs \in Seq(Nat) /\ Len(h.revs) \in Nat /\ DOMAIN h.revs = 1..Len(h.revs)
        /\ Len(h.revs) <= MaxMessages /\ h.pause \in Ids /\ h.turn \in Ids
        /\ \A i \in DOMAIN h.revs : h.revs[i] \in 1..MaxRevision /\ h.revs[i] \in Nat
        /\ h = [revs |-> h.revs, pause |-> h.pause, turn |-> h.turn]
    <3>1. h = [revs |-> h.revs, pause |-> h.pause, turn |-> h.turn] BY <1>5 DEF Windows
    <3> QED BY <3>1, <1>5, WindowFields
  <2>3. m \in DOMAIN h.revs /\ h.revs[m] <= r /\ r \in Nat
    <3>1. r \in Nat BY <1>2 DEF ThreadAssumption
    <3>2. h.revs[m] \in Nat BY <2>2, <1>9
    <3> QED BY <3>1, <3>2, <1>9
  <2>4. /\ u \in [1..Len(h.revs) -> 1..MaxRevision] /\ u[m] = r
        /\ \A i \in DOMAIN h.revs \ {m} : u[i] = h.revs[i]
    BY <2>2, <2>3, <1>2
  <2>5. u \in Seq(1..MaxRevision) /\ Len(u) = Len(h.revs)
    <3> HIDE DEF u
    <3> QED BY <2>2, <2>4, FunctionIsSequence
  <2>6. state' = [state EXCEPT !.thread = [revs |-> u, pause |-> h.pause, turn |-> h.turn]]
    <3>1. [h EXCEPT !.revs[m] = r] = [revs |-> u, pause |-> h.pause, turn |-> h.turn]
      BY <2>2
    <3>2. state' = [state EXCEPT !.thread = [h EXCEPT !.revs[m] = r]] BY <2>1, <1>5 DEF ThreadStates
    <3> QED BY <3>1, <3>2
  <2>7. [revs |-> u, pause |-> h.pause, turn |-> h.turn] \in Windows
    <3> HIDE DEF u
    <3> QED BY <2>2, <2>5, WindowMade
  <2> HIDE DEF u
  <2>8. /\ state' \in ThreadStates /\ state'.known = state.known
        /\ state'.thread = [revs |-> u, pause |-> h.pause, turn |-> h.turn]
        /\ state'.finished = state.finished /\ state'.closed = state.closed
    <3> DEFINE x == [revs |-> u, pause |-> h.pause, turn |-> h.turn]
    <3>1. x \in Windows /\ state' = [state EXCEPT !.thread = x] BY <2>6, <2>7
    <3> HIDE DEF x
    <3>2. /\ state' \in ThreadStates /\ state'.known = state.known /\ state'.thread = x
          /\ state'.finished = state.finished /\ state'.closed = state.closed
      BY <3>1, <1>5 DEF ThreadStates
    <3> QED BY <3>2 DEF x
  <2>9. state'.thread.revs = u /\ state'.thread.turn = h.turn BY <2>8
  <2>10. DOMAIN u = DOMAIN h.revs BY <2>2, <2>4
  <2>11. Within(h.revs, u)
    <3>1. \A i \in DOMAIN h.revs : h.revs[i] <= u[i] BY <2>2, <2>3, <2>4
    <3> QED BY <3>1, <2>2, <2>5 DEF Within
  <2>12. Within(u, cur.revs)
    <3>1. r <= cur.revs[m]
      <4>1. n <= now BY DEF Times
      <4>2. Within(hist[n].revs, cur.revs) BY <4>1, <1>4 DEF HistoryInv
      <4> QED BY <4>2, <1>6 DEF Within
    <3>2. \A i \in DOMAIN u : u[i] <= cur.revs[i]
      <4>1. \A i \in DOMAIN h.revs : h.revs[i] <= cur.revs[i] BY <1>7 DEF Within
      <4> QED BY <4>1, <3>1, <2>4, <2>10
    <3>3. Len(u) <= Len(cur.revs) BY <1>7, <2>5 DEF Within
    <3> QED BY <3>2, <3>3 DEF Within
  <2>13. \A p \in DOMAIN u : \/ u[p] = h.revs[p]
                             \/ \E k \in Times : /\ hist[k].turn = p /\ p \in DOMAIN hist[k].revs
                                                 /\ hist[k].revs[p] = u[p]
    BY <2>4, <2>10, <1>6
  <2>14. PhoneInv' /\ HeardInv'
    <3>1. /\ state'.thread.turn = state.thread.turn
          /\ Len(state'.thread.revs) = Len(state.thread.revs)
          /\ Within(state.thread.revs, state'.thread.revs) /\ Within(state'.thread.revs, cur.revs)
      BY <2>5, <2>9, <2>11, <2>12
    <3>2. \A p \in DOMAIN state'.thread.revs :
            \/ state'.thread.revs[p] = state.thread.revs[p]
            \/ \E k \in Times : /\ hist[k].turn = p /\ p \in DOMAIN hist[k].revs
                                /\ hist[k].revs[p] = state'.thread.revs[p]
      BY <2>9, <2>13
    <3>3. /\ reread' = afterEvent(FALSE) /\ FALSE \in BOOLEAN
          /\ state'.finished = state.finished /\ state.finished \subseteq state'.finished
          /\ state'.finished \subseteq DOMAIN cur.revs \ {cur.turn}
      BY <2>1, <2>8, <1>5
    <3>4. /\ UNCHANGED server /\ (left'.heard => left.heard)
          /\ \A q \in Messages : LiveTurn(q) => LiveTurn(q)' \/ (FALSE /\ q \in state'.finished)
      BY <1>1
    <3>5. state' \in ThreadStates /\ state'.known = state.known BY <2>8
    <3> QED BY <3>1, <3>2, <3>3, <3>4, <3>5, <1>1, EventWithoutWindow
  <2>15. reread' \in [since : Nat, fresh : BOOLEAN, again : BOOLEAN] /\ reread'.since \in 0..now
    BY <2>1, <1>4, AfterFacts
  <2>16. state'.known BY <2>8, <1>9
  <2> QED BY <2>8, <2>14, <2>15, <2>16, <1>1, <1>4, PhoneMoves
<1> QED BY <1>8, <1>9

LEMMA HeldPauseFacts ==
  ASSUME ThreadAssumption, NEW s \in ThreadStates, NEW w \in Windows
  PROVE  /\ withHeldPause(s, w) \in Windows
         /\ withHeldPause(s, w).revs = w.revs /\ withHeldPause(s, w).turn = w.turn
<1>1. w = [revs |-> w.revs, pause |-> w.pause, turn |-> w.turn] BY DEF Windows
<1>2. s.thread.pause \in Ids
  <2>1. s.thread \in Windows BY DEF ThreadStates
  <2> QED BY <2>1, WindowFields
<1>3. CASE s.known
  <2>1. withHeldPause(s, w) = [revs |-> w.revs, pause |-> s.thread.pause, turn |-> w.turn]
    BY <1>1, <1>3 DEF withHeldPause
  <2>2. [revs |-> w.revs, pause |-> s.thread.pause, turn |-> w.turn] \in Windows
    BY <1>2, WindowFields, WindowMade
  <2> QED BY <2>1, <2>2
<1>4. CASE ~s.known BY <1>4 DEF withHeldPause
<1> QED BY <1>3, <1>4

(* The window w of an end, as it is or with the question that is shown.     *)
LEMMA EndedWindowKeeps ==
  ASSUME ThreadAssumption, ThreadInv, onEvent, NEW e, e = Head(stream.events),
         e.type = "turn.finished", NEW w \in Windows, e.window = {w},
         NEW s \in ThreadStates, s.known = state.known, s.thread = state.thread,
         s.closed = state.closed, s.finished = state.finished \cup {e.turn},
         NEW v \in Windows, v.revs = w.revs, v.turn = w.turn,
         NEW j, j = joinWindow(s, v, FALSE),
         state' \in ThreadStates, state'.thread = j.state.thread, state'.known = j.state.known,
         state'.finished = j.state.finished,
         NEW again \in BOOLEAN, j.reread => again, reread' = afterWindow(again)
  PROVE  ThreadInv'
<1>1. /\ EndTells(e) /\ stream.snapshot /\ stream'.snapshot /\ stream'.since = stream.since
      /\ stream' \in [since : Nat \ {0}, snapshot : BOOLEAN, events : Seq(StreamEvents)]
      /\ \A d \in Told' : d \in Told
      /\ \A m \in Messages : LiveTurn(m) => LiveTurn(m)' \/ (e.type = "turn.finished" /\ e.turn = m)
      /\ UNCHANGED <<server, other, command, left>>
  BY EventHeard
<1>2. /\ ThreadTypes /\ command \in CommandStates /\ command.since \in Times
      /\ left \in [commands : Nat, losses : Nat, heard : BOOLEAN] /\ stream.since \in Times
      /\ now \in Nat
  BY InvFacts
<1>3. /\ state.finished \subseteq DOMAIN cur.revs \ {cur.turn}
      /\ ~state.known => state.thread = NoThread /\ state.closed = {}
  BY StateFacts
<1>4. /\ e.turn \in DOMAIN cur.revs /\ e.turn # cur.turn
      /\ \E n \in Times : w.revs = hist[n].revs
      /\ \A n \in Times : hist[n].turn = e.turn => Within(hist[n].revs, w.revs)
      /\ w.turn # Nobody => \E n \in stream.since..now : hist[n].turn = w.turn
  BY <1>1 DEF EndTells
<1>5. PICK i \in Times : w.revs = hist[i].revs BY <1>4
<1>6. Joined(s, v, FALSE, j) BY <1>3, JoinFacts
<1>7. j.state.known /\ j.state.finished = s.finished BY <1>6 DEF Joined
<1>8. state.finished \subseteq s.finished /\ s.finished \subseteq DOMAIN cur.revs \ {cur.turn}
  BY <1>3, <1>4
<1>9. v.turn # Nobody =>
        \E k \in Times : /\ v.turn = hist[k].turn
                         /\ \/ stream.since <= k
                            \/ i <= k /\ \A m \in Messages : LiveTurn(m) => LiveTurn(m)'
  <2>1. ASSUME NEW n \in stream.since..now PROVE n \in Times /\ stream.since <= n
    BY <1>2 DEF Times
  <2> QED BY <2>1, <1>4
<1>10. \A m \in Messages : LiveTurn(m) =>
         \/ LiveTurn(m)'
         \/ /\ m \in s.finished
            /\ \A n \in Times : hist[n].turn = m => Within(hist[n].revs, v.revs)
  <2>1. ASSUME NEW m \in Messages, LiveTurn(m), ~LiveTurn(m)'
        PROVE  /\ m \in s.finished
               /\ \A n \in Times : hist[n].turn = m => Within(hist[n].revs, v.revs)
    <3>1. e.turn = m BY <2>1, <1>1
    <3> QED BY <3>1, <1>4
  <2> QED BY <2>1
<1>11. PhoneInv' /\ HeardInv'
  <2>1. /\ UNCHANGED server /\ (left'.heard => left.heard) /\ state'.finished = s.finished
        /\ v.revs = hist[i].revs
    BY <1>1, <1>5, <1>7
  <2> QED BY <2>1, <1>1, <1>8, <1>9, <1>10, WindowJoins
<1>12. /\ reread' \in [since : Nat, fresh : BOOLEAN, again : BOOLEAN] /\ reread'.since \in 0..now
  BY <1>2, AfterFacts
<1> QED BY <1>1, <1>2, <1>7, <1>11, <1>12, PhoneMoves

LEMMA TurnFinishedKeeps ==
  ASSUME ThreadAssumption, ThreadInv, onEvent, NEW e, e = Head(stream.events),
         e.type = "turn.finished"
  PROVE  ThreadInv'
<1>1. /\ e \in StreamEvents /\ EndTells(e)
      /\ stream.snapshot /\ stream'.snapshot /\ stream'.since = stream.since
      /\ stream' \in [since : Nat \ {0}, snapshot : BOOLEAN, events : Seq(StreamEvents)]
      /\ \A d \in Told' : d \in Told
      /\ \A m \in Messages : LiveTurn(m) => LiveTurn(m)' \/ (e.type = "turn.finished" /\ e.turn = m)
      /\ UNCHANGED <<server, other, command, left>>
      /\ state' = applyAssistantStreamEvent(state, e).state
      /\ reread' = IF isWindow(e) THEN afterWindow(applyAssistantStreamEvent(state, e).reread)
                   ELSE afterEvent(applyAssistantStreamEvent(state, e).reread)
  BY EventHeard
<1>2. e.turn \in Messages /\ (e.window = {} \/ \E w \in Windows : e.window = {w})
  BY <1>1, EventFields
<1>3. /\ state' = applyTurnFinished(state, e.turn, e.window).state
      /\ reread' = IF e.window # {}
                   THEN afterWindow(applyTurnFinished(state, e.turn, e.window).reread)
                   ELSE afterEvent(applyTurnFinished(state, e.turn, e.window).reread)
  BY <1>1 DEF applyAssistantStreamEvent, isWindow
<1>4. /\ ThreadTypes /\ command \in CommandStates /\ command.since \in Times
      /\ left \in [commands : Nat, losses : Nat, heard : BOOLEAN] /\ stream.since \in Times
      /\ NothingAhead
  BY InvFacts DEF PhoneInv
<1>5. /\ state \in ThreadStates /\ state.thread \in Windows /\ state.thread.pause \in Ids
      /\ state.finished \subseteq DOMAIN cur.revs \ {cur.turn}
      /\ ~state.known => state.thread = NoThread /\ state.closed = {}
  BY StateFacts
<1>6. PICK s : s = [state EXCEPT !.tracked = IF state.tracked = e.turn THEN Nobody ELSE @,
                                 !.finished = @ \cup {e.turn}]
  OBVIOUS
<1>7. /\ s \in ThreadStates /\ s.known = state.known /\ s.thread = state.thread
      /\ s.closed = state.closed /\ s.finished = state.finished \cup {e.turn}
  <2>1. Nobody \in Ids BY DEF Ids
  <2>2. (IF state.tracked = e.turn THEN Nobody ELSE state.tracked) \in Ids
    BY <2>1, <1>5 DEF ThreadStates
  <2>3. state.finished \cup {e.turn} \in SUBSET Messages BY <1>2, <1>5 DEF ThreadStates
  <2> QED BY <2>2, <2>3, <1>5, <1>6 DEF ThreadStates
<1>8. CASE e.window = {}
  <2>1. applyTurnFinished(state, e.turn, e.window) = [state |-> s, reread |-> TRUE]
    BY <1>6, <1>8 DEF applyTurnFinished
  <2>2. state' = s /\ reread' = afterEvent(TRUE)
    <3>1. applyTurnFinished(state, e.turn, e.window).state = s
          /\ applyTurnFinished(state, e.turn, e.window).reread = TRUE
      BY <2>1
    <3> QED BY <3>1, <1>3, <1>8
  <2>3. e.turn \in DOMAIN cur.revs /\ e.turn # cur.turn BY <1>1 DEF EndTells
  <2>4. /\ state.finished \subseteq state'.finished
        /\ state'.finished \subseteq DOMAIN cur.revs \ {cur.turn}
        /\ e.turn \in state'.finished
    BY <2>2, <2>3, <1>5, <1>7
  <2>5. Within(state.thread.revs, state.thread.revs) /\ Within(state.thread.revs, cur.revs)
    BY <1>4, <1>5, WindowFields, WithinReflexive DEF NothingAhead
  <2>6. \A m \in Messages : LiveTurn(m) => LiveTurn(m)' \/ (TRUE /\ m \in state'.finished)
    BY <2>4, <1>1
  <2>7. PhoneInv' /\ HeardInv'
    <3>1. /\ UNCHANGED server /\ (left'.heard => left.heard) /\ state'.thread = state.thread
          /\ state' \in ThreadStates /\ state'.known = state.known
      BY <2>2, <1>1, <1>7
    <3>2. TRUE \in BOOLEAN /\ (TRUE \/ state'.finished = state.finished) OBVIOUS
    <3> QED BY <3>1, <3>2, <2>2, <2>4, <2>5, <2>6, <1>1, EventWithoutWindow
  <2>8. /\ reread' \in [since : Nat, fresh : BOOLEAN, again : BOOLEAN] /\ reread'.since \in 0..now
    BY <2>2, <1>4, AfterFacts
  <2> QED BY <2>2, <2>7, <2>8, <1>1, <1>4, <1>5, <1>7, PhoneMoves
<1>9. CASE \E w \in Windows : e.window = {w}
  <2>1. PICK w \in Windows : e.window = {w} BY <1>9
  <2>2. (CHOOSE x \in e.window : TRUE) = w /\ e.window # {} BY <2>1
  <2>3. CASE state.tracked = e.turn
    <3>1. PICK j : j = joinWindow(s, w, FALSE) OBVIOUS
    <3>2. applyTurnFinished(state, e.turn, e.window) = withPauseSeenClosed(state, j)
      BY <3>1, <2>2, <2>3, <1>6 DEF applyTurnFinished
    <3>3. Joined(s, w, FALSE, j) BY <3>1, <1>5, <1>7, JoinFacts
    <3>4. j.state \in ThreadStates /\ j.reread \in BOOLEAN BY <3>3 DEF Joined
    <3>5. j = [state |-> j.state, reread |-> j.reread] BY <3>1 DEF joinWindow
    <3>6. /\ state' \in ThreadStates /\ state'.thread = j.state.thread
          /\ state'.known = j.state.known /\ state'.finished = j.state.finished
          /\ reread' = afterWindow(j.reread)
      <4>1. CASE j.state.thread.pause = state.thread.pause
        <5>1. withPauseSeenClosed(state, j) = j BY <4>1 DEF withPauseSeenClosed
        <5> QED BY <5>1, <3>2, <3>4, <2>2, <1>3
      <4>2. CASE j.state.thread.pause # state.thread.pause
        <5>1. withPauseSeenClosed(state, j)
                = [state |-> pauseAnswered(j.state, state.thread.pause), reread |-> j.reread]
          BY <4>2, <3>5 DEF withPauseSeenClosed
        <5> QED BY <5>1, <3>2, <3>4, <2>2, <1>3, <1>5, AnsweredFacts
      <4> QED BY <4>1, <4>2
    <3>7. j.reread => j.reread OBVIOUS
    <3> QED BY <3>1, <3>4, <3>6, <3>7, <2>1, <1>7, EndedWindowKeeps
  <2>4. CASE state.tracked # e.turn
    <3>1. PICK v : v = withHeldPause(state, w) OBVIOUS
    <3>2. PICK j : j = joinWindow(s, v, FALSE) OBVIOUS
    <3>3. applyTurnFinished(state, e.turn, e.window) = [j EXCEPT !.reread = TRUE]
      BY <3>1, <3>2, <2>2, <2>4, <1>6 DEF applyTurnFinished
    <3>4. v \in Windows /\ v.revs = w.revs /\ v.turn = w.turn
      BY <3>1, <1>5, HeldPauseFacts
    <3>5. Joined(s, v, FALSE, j) BY <3>2, <3>4, <1>5, <1>7, JoinFacts
    <3>6. j.state \in ThreadStates /\ j.reread \in BOOLEAN BY <3>5 DEF Joined
    <3>7. j = [state |-> j.state, reread |-> j.reread] BY <3>2 DEF joinWindow
    <3>8. [j EXCEPT !.reread = TRUE].state = j.state /\ [j EXCEPT !.reread = TRUE].reread = TRUE
      BY <3>7
    <3>9. state' = j.state /\ reread' = afterWindow(TRUE) BY <3>3, <3>8, <2>2, <1>3
    <3>10. (j.reread => TRUE) /\ TRUE \in BOOLEAN OBVIOUS
    <3> QED BY <3>2, <3>4, <3>6, <3>9, <3>10, <2>1, <1>7, EndedWindowKeeps
  <2> QED BY <2>3, <2>4
<1> QED BY <1>2, <1>8, <1>9

LEMMA RereadsKeeps ==
  ASSUME ThreadAssumption, ThreadInv, rereads PROVE ThreadInv'
<1>0. PICK s, settles : s = state /\ settles = reread.fresh OBVIOUS
<1>1. /\ reread.since # 0 /\ UNCHANGED <<server, other, stream, command, left>>
      /\ \E w \in windowsSince(reread.since) :
           LET applied == applyAssistantReread(s, w, settles)
           IN /\ state' = applied.state
              /\ reread' = IF reread.again \/ applied.reread
                           THEN [since |-> now, fresh |-> TRUE, again |-> FALSE] ELSE NoReread
  BY <1>0 DEF rereads
<1>2. PICK w \in windowsSince(reread.since) :
        /\ state' = applyAssistantReread(s, w, settles).state
        /\ reread' = IF reread.again \/ applyAssistantReread(s, w, settles).reread
                     THEN [since |-> now, fresh |-> TRUE, again |-> FALSE] ELSE NoReread
  BY <1>1
<1>3. /\ ThreadTypes /\ HistoryInv /\ HeardInv /\ command \in CommandStates /\ command.since \in Times
      /\ left \in [commands : Nat, losses : Nat, heard : BOOLEAN]
      /\ stream \in [since : Nat \ {0}, snapshot : BOOLEAN, events : Seq(StreamEvents)]
      /\ stream.since \in Times /\ now \in Nat /\ now \in Times
      /\ EndedOnly /\ NothingAhead /\ Whole /\ SinceSnapshot /\ Settling
  BY InvFacts DEF PhoneInv
<1>4. /\ state \in ThreadStates /\ state.thread \in Windows
      /\ ~state.known => state.thread = NoThread /\ state.closed = {}
      /\ reread \in [since : Nat, fresh : BOOLEAN, again : BOOLEAN] /\ reread.since \in 0..now
  BY StateFacts
<1>5. reread.since \in Times /\ settles \in BOOLEAN /\ now # 0 BY <1>0, <1>1, <1>3, <1>4 DEF Times
<1>6. w \in Windows BY <1>3, <1>5, WindowsSinceFacts
<1>7. PICK i \in Times, k \in Times :
        reread.since <= i /\ i <= k /\ w.revs = hist[i].revs /\ w.turn = hist[k].turn
  <2>1. PICK since \in Times : since = reread.since /\ w \in windowsSince(since) BY <1>2, <1>5
  <2>2. \E i, k \in Times : /\ since <= i /\ i <= k /\ k <= now
                           /\ w.revs = hist[i].revs /\ w.turn = hist[k].turn
    BY <2>1, <1>3, WindowsSinceFacts
  <2> QED BY <2>1, <2>2
<1>8. PICK j : j = joinWindow(s, w, settles) OBVIOUS
<1>9. s \in ThreadStates /\ (~s.known => s.thread = NoThread /\ s.closed = {}) BY <1>0, <1>4
<1>10. Joined(s, w, settles, j) BY <1>5, <1>6, <1>8, <1>9, JoinFacts
<1>11. /\ j.state \in ThreadStates /\ j.reread \in BOOLEAN /\ j.state.known
       /\ j.state.finished = state.finished
  BY <1>0, <1>10 DEF Joined
<1>12. state' = j.state /\ \/ reread'.since = now
                           \/ reread' = NoReread /\ ~reread.again /\ (settles \/ ~j.reread)
  <2>1. j = [state |-> j.state, reread |-> j.reread] BY <1>8 DEF joinWindow
  <2>2. applyAssistantReread(s, w, settles).state = j.state
        /\ (applyAssistantReread(s, w, settles).reread <=> j.reread /\ ~settles)
    BY <2>1, <1>8 DEF applyAssistantReread
  <2>3. CASE reread.again \/ applyAssistantReread(s, w, settles).reread
    BY <2>2, <2>3, <1>2
  <2>4. CASE ~(reread.again \/ applyAssistantReread(s, w, settles).reread)
    BY <2>2, <2>4, <1>2
  <2> QED BY <2>3, <2>4
<1>13. /\ reread' \in [since : Nat, fresh : BOOLEAN, again : BOOLEAN]
       /\ WillSettle(reread') => reread'.since = now
       /\ reread'.since \in 0..now
  <2>1. /\ [since |-> now, fresh |-> TRUE, again |-> FALSE] \in [since : Nat, fresh : BOOLEAN, again : BOOLEAN]
        /\ NoReread \in [since : Nat, fresh : BOOLEAN, again : BOOLEAN] /\ NoReread.since = 0
    BY <1>3 DEF NoReread
  <2> QED BY <2>1, <1>2, <1>3 DEF WillSettle
<1>14. hist' = hist /\ cur' = cur /\ Times' = Times /\ now' = now /\ UNCHANGED server
  BY <1>1, ServerStays
<1>15. /\ Within(state.thread.revs, state'.thread.revs)
       /\ NothingAhead' /\ Whole' /\ SinceSnapshot'
  <2>1. /\ s.known = state.known /\ s.thread = state.thread /\ s.closed = state.closed
        /\ state'.thread = j.state.thread /\ state'.known = j.state.known
        /\ stream'.since = stream.since /\ stream'.snapshot = stream.snapshot
    BY <1>0, <1>1, <1>12
  <2> QED BY <2>1, <1>3, <1>5, <1>6, <1>7, <1>8, <1>9, <1>14, JoinedThread
<1>16. EndedOnly' BY <1>3, <1>11, <1>12, <1>14 DEF EndedOnly
<1>17. Settling'
  <2>1. stream'.since \in Times /\ state' \in ThreadStates BY <1>1, <1>3, <1>11, <1>12
  <2> QED BY <2>1, <1>3, <1>13, <1>14, <1>15, <1>16, SettlesAfresh
<1>18. PhoneInv' BY <1>15, <1>16, <1>17 DEF PhoneInv
<1>19. Told' = Told BY <1>1 DEF Told
<1>20. ASSUME left'.heard PROVE EndsHeard' /\ TurnShown' /\ MessagesShown'
  <2>0. left.heard /\ stream' = stream BY <1>1, <1>20
  <2>1. EndsHeard /\ TurnShown /\ MessagesShown BY <2>0, <1>3 DEF HeardInv
  <2>2. \A m : LiveTurn(m) => LiveTurn(m)'
    <3>1. ASSUME NEW m, LiveTurn(m) PROVE LiveTurn(m)'
      BY <3>1, <1>14, <1>19, LiveStays DEF EndsTold
    <3> QED BY <3>1
  <2>3. ASSUME NEW n \in Times, LiveTurn(hist[n].turn) PROVE LiveTurn(hist[n].turn)'
    <3>1. PICK m : m = hist[n].turn OBVIOUS
    <3>2. LiveTurn(m)' BY <3>1, <2>2, <2>3
    <3> QED BY <3>1, <3>2, <1>14 DEF LiveTurn
  <2>4. \A n \in Times : n \in Nat /\ n <= now /\ (hist[n].turn # Nobody => hist[n].turn \in Messages)
    BY <1>3, HistoryFields, WindowFields DEF Times, Ids
  <2>5. EndsHeard'
    <3>1. \A n \in stream.since..now : n \in Times BY <2>4, <1>3 DEF Times
    <3> QED BY <3>1, <2>0, <2>1, <2>3, <1>11, <1>12, <1>14 DEF EndsHeard
  <2>6. CASE reread'.since = now
    <3>1. \A n \in Times : Awaits(reread', n) BY <2>4, <2>6, <1>5 DEF Awaits
    <3>2. TurnShown' BY <3>1, <2>0, <1>3 DEF TurnShown, Awaits
    <3>3. MessagesShown' BY <3>1, <1>14 DEF MessagesShown, Awaits
    <3> QED BY <3>2, <3>3, <2>5
  <2>7. CASE ~reread.again /\ (settles \/ ~j.reread)
    <3> DEFINE t == state'.thread
               h == state.thread
    <3>1. /\ t \in Windows /\ h \in Windows /\ t.revs \in Seq(Nat) /\ h.revs \in Seq(Nat)
          /\ Len(h.revs) \in Nat /\ Len(t.revs) \in Nat
          /\ DOMAIN h.revs = 1..Len(h.revs) /\ DOMAIN w.revs = 1..Len(w.revs)
          /\ w.revs \in Seq(Nat) /\ Len(w.revs) \in Nat
          /\ \A x \in DOMAIN h.revs : h.revs[x] \in Nat
          /\ \A x \in DOMAIN w.revs : w.revs[x] \in Nat
      <4>1. t \in Windows /\ h \in Windows BY <1>4, <1>11, <1>12 DEF ThreadStates
      <4> HIDE DEF t, h
      <4> QED BY <4>1, <1>6, WindowFields
    <3>2. /\ \A n \in Times : hist[n].revs \in Seq(Nat) /\ Len(hist[n].revs) \in Nat
          /\ \A n \in Times : DOMAIN hist[n].revs = 1..Len(hist[n].revs)
          /\ \A n \in Times : \A x \in DOMAIN hist[n].revs : hist[n].revs[x] \in Nat
      BY <1>3, HistoryFields, WindowFields
    <3>3. ASSUME settles
          PROVE  /\ stream.snapshot => stream.since <= reread.since
                 /\ \A n \in reread.since..now : hist[n].turn \notin state.finished
                 /\ Len(h.revs) <= Len(hist[reread.since].revs)
                 /\ \A p \in DOMAIN h.revs :
                      h.revs[p] > hist[reread.since].revs[p] =>
                        \E n \in reread.since..now : hist[n].turn = p
      <4>1. WillSettle(reread) BY <3>3, <2>7, <1>0, <1>1 DEF WillSettle
      <4> QED BY <4>1, <1>3 DEF Settling
    <3>4. t.turn = w.turn /\ w.turn \notin state.finished
      <4>1. CASE ~settles
        BY <4>1, <2>7, <1>0, <1>10, <1>12 DEF Joined
      <4>2. CASE settles
        <5>1. k \in reread.since..now
          <6>1. reread.since \in Nat /\ i \in Nat /\ k \in Nat /\ k <= now BY <2>4, <1>5
          <6> QED BY <6>1, <1>3, <1>7
        <5>2. w.turn \notin state.finished BY <5>1, <4>2, <3>3, <1>7
        <5> QED BY <5>2, <4>2, <1>0, <1>10, <1>12 DEF Joined
      <4> QED BY <4>1, <4>2
    <3>5. ASSUME t.turn # Nobody, stream.snapshot PROVE \E m \in Messages : LiveTurn(m)
      <4>0. /\ stream.since \in Nat /\ reread.since \in Nat /\ i \in Nat /\ k \in Nat /\ k <= now
            /\ hist[k].turn \in Messages
        BY <2>4, <3>4, <3>5, <1>3, <1>5, <1>7
      <4>1. CASE stream.since <= k
        <5>1. k \in stream.since..now BY <4>0, <4>1, <1>3
        <5>2. LiveTurn(hist[k].turn) \/ hist[k].turn \in state.finished
          BY <5>1, <3>4, <3>5, <2>1, <1>7 DEF EndsHeard
        <5> QED BY <5>2, <4>0, <3>4, <1>7
      <4>2. CASE ~(stream.since <= k)
        <5>1. ~(stream.since <= reread.since) /\ i <= stream.since BY <4>0, <4>2, <1>7
        <5>2. ~settles BY <5>1, <3>3, <3>5
        <5>3. Within(hist[stream.since].revs, h.revs) /\ state.known
          BY <3>5, <1>3 DEF SinceSnapshot
        <5>4. Within(hist[i].revs, hist[stream.since].revs) BY <5>1, <1>3 DEF HistoryInv
        <5>5. Within(w.revs, h.revs)
          <6>1. /\ hist[i].revs \in Seq(Nat) /\ hist[stream.since].revs \in Seq(Nat)
                /\ h.revs \in Seq(Nat) /\ w.revs = hist[i].revs
            BY <3>1, <3>2, <1>3, <1>7
          <6> QED BY <6>1, <5>3, <5>4, WithinTransitive
        <5>6. h.turn # Nobody
          BY <5>2, <5>3, <5>5, <3>4, <3>5, <2>7, <1>0, <1>10 DEF Joined
        <5>7. (\E m \in Messages : LiveTurn(m)) \/ Awaits(reread, stream.since)
          BY <5>6, <3>5, <2>1 DEF TurnShown
        <5> QED BY <5>1, <5>7, <2>7 DEF Awaits
      <4> QED BY <4>1, <4>2
    <3>6. TurnShown' BY <3>5, <2>0, <2>2 DEF TurnShown
    <3>7. ASSUME NEW n \in Times, hist[n].turn # Nobody, ~LiveTurn(hist[n].turn),
                 ~(~stream.snapshot /\ n <= stream.since)
          PROVE  Within(hist[n].revs, t.revs)
      <4>0. /\ n \in Nat /\ reread.since \in Nat /\ i \in Nat /\ stream.since \in Nat
            /\ hist[n].turn \in Messages
        BY <2>4, <3>7, <1>3, <1>5
      <4>1. Within(hist[n].revs, h.revs) \/ Awaits(reread, n)
        BY <2>1, <3>7 DEF MessagesShown
      <4>2. CASE Within(hist[n].revs, h.revs)
        <5>1. hist[n].revs \in Seq(Nat) BY <3>2
        <5>2. Within(h.revs, t.revs) BY <1>15
        <5> HIDE DEF h, t
        <5> QED BY <5>1, <5>2, <4>2, <3>1, WithinTransitive
      <4>3. CASE Awaits(reread, n) /\ ~Within(hist[n].revs, h.revs)
        <5>1. n <= reread.since BY <4>3, <2>7 DEF Awaits
        <5>2. n <= i BY <5>1, <4>0, <1>7
        <5>3. Within(hist[n].revs, w.revs) BY <5>2, <1>3, <1>7 DEF HistoryInv
        <5>4. CASE t.revs = w.revs BY <5>3, <5>4
        <5>5. CASE t.revs # w.revs
          <6>1. /\ settles
                /\ \/ Len(w.revs) < Len(h.revs)
                   \/ \E x \in DOMAIN h.revs \cap DOMAIN w.revs : w.revs[x] < h.revs[x]
            BY <5>5, <2>7, <1>0, <1>10, <1>12 DEF Joined
          <6>2. Within(hist[reread.since].revs, w.revs)
            BY <1>3, <1>5, <1>7 DEF HistoryInv
          <6>3. Len(h.revs) <= Len(hist[reread.since].revs) BY <6>1, <3>3
          <6>4. /\ Len(hist[reread.since].revs) \in Nat
                /\ DOMAIN hist[reread.since].revs = 1..Len(hist[reread.since].revs)
                /\ \A x \in DOMAIN hist[reread.since].revs : hist[reread.since].revs[x] \in Nat
            BY <3>2, <1>5
          <6>5. ~(Len(w.revs) < Len(h.revs))
            <7>1. Len(hist[reread.since].revs) <= Len(w.revs) BY <6>2 DEF Within
            <7> QED BY <7>1, <6>3, <6>4, <3>1
          <6>6. PICK p \in DOMAIN h.revs \cap DOMAIN w.revs : w.revs[p] < h.revs[p]
            BY <6>1, <6>5
          <6>7. p \in DOMAIN h.revs /\ p \in DOMAIN w.revs /\ p \in Nat /\ 1 <= p /\ p <= Len(h.revs)
            BY <6>6, <3>1
          <6>8. p \in DOMAIN hist[reread.since].revs BY <6>3, <6>4, <6>7, <3>1
          <6>9. hist[reread.since].revs[p] <= w.revs[p] BY <6>2, <6>8 DEF Within
          <6>10. /\ h.revs[p] \in Nat /\ w.revs[p] \in Nat /\ hist[reread.since].revs[p] \in Nat
            BY <6>4, <6>7, <6>8, <3>1
          <6>11. h.revs[p] > hist[reread.since].revs[p] BY <6>6, <6>9, <6>10
          <6>12. PICK m \in reread.since..now : hist[m].turn = p BY <6>1, <6>7, <6>11, <3>3
          <6>13. /\ m \in Times /\ n <= m /\ reread.since <= m
                 /\ hist[m].turn \notin state.finished /\ hist[m].turn # Nobody
            <7>1. m \in Times /\ reread.since <= m BY <6>12, <1>5 DEF Times
            <7>2. n <= m BY <7>1, <5>1, <4>0, <2>4
            <7>3. hist[m].turn \notin state.finished BY <6>1, <6>12, <3>3
            <7>4. hist[m].turn # Nobody BY <6>7, <6>12 DEF Nobody
            <7> QED BY <7>1, <7>2, <7>3, <7>4
          <6>14. CASE hist[n].turn = p
            <7>1. stream.since <= m
              <8>1. CASE stream.snapshot
                <9>1. stream.since <= reread.since BY <8>1, <6>1, <3>3
                <9> QED BY <9>1, <6>13, <4>0, <2>4
              <8>2. CASE ~stream.snapshot
                <9>1. ~(n <= stream.since) BY <8>2, <3>7
                <9> QED BY <9>1, <6>13, <4>0, <2>4
              <8> QED BY <8>1, <8>2
            <7>2. m \in stream.since..now BY <7>1, <6>12, <6>13, <4>0, <2>4, <1>3
            <7>3. LiveTurn(hist[m].turn) BY <7>2, <6>13, <2>1 DEF EndsHeard
            <7>4. hist[m].turn = hist[n].turn BY <6>12, <6>14
            <7> QED BY <7>3, <7>4, <3>7
          <6>15. CASE hist[n].turn # p
            <7>1. Len(hist[n].revs) < p
              BY <6>12, <6>13, <6>15, <3>7, <1>3 DEF HistoryInv
            <7>2. Len(hist[n].revs) < Len(h.revs)
              <8>1. Len(hist[n].revs) \in Nat BY <3>2
              <8> QED BY <8>1, <7>1, <6>7, <3>1
            <7>3. Within(hist[n].revs, h.revs) BY <7>2, <1>3 DEF Whole
            <7> QED BY <7>3, <4>3
          <6> QED BY <6>14, <6>15
        <5> QED BY <5>4, <5>5
      <4> QED BY <4>1, <4>2, <4>3
    <3>8. MessagesShown'
      <4>1. ASSUME NEW n \in Times, hist[n].turn # Nobody
            PROVE  \/ Within(hist[n].revs, t.revs) \/ LiveTurn(hist[n].turn)'
                   \/ (~stream.snapshot /\ n <= stream.since)
        BY <4>1, <3>7, <2>3
      <4> QED BY <4>1, <2>0, <1>14 DEF MessagesShown
    <3> QED BY <3>6, <3>8, <2>5
  <2> QED BY <2>6, <2>7, <1>12
<1>21. HeardInv' BY <1>20 DEF HeardInv
<1>22. /\ stream' \in [since : Nat \ {0}, snapshot : BOOLEAN, events : Seq(StreamEvents)]
       /\ stream'.since \in Times /\ \A e \in Told' : e \in Told /\ stream'.since = stream.since
  BY <1>1, <1>3, <1>19
<1> QED BY <1>1, <1>3, <1>11, <1>12, <1>13, <1>18, <1>21, <1>22, PhoneMoves

LEMMA RereadFailsKeeps ==
  ASSUME ThreadAssumption, ThreadInv, rereadFails PROVE ThreadInv'
<1>1. /\ left.losses > 0 /\ left' = [left EXCEPT !.losses = @ - 1, !.heard = FALSE]
      /\ reread' = IF reread.again THEN [since |-> now, fresh |-> TRUE, again |-> FALSE]
                   ELSE NoReread
      /\ UNCHANGED <<server, other, stream, state, command>>
  BY DEF rereadFails
<1>2. /\ ThreadTypes /\ command \in CommandStates /\ command.since \in Times
      /\ left \in [commands : Nat, losses : Nat, heard : BOOLEAN]
      /\ stream \in [since : Nat \ {0}, snapshot : BOOLEAN, events : Seq(StreamEvents)]
      /\ stream.since \in Times /\ now \in Nat
      /\ EndedOnly /\ NothingAhead /\ Whole /\ SinceSnapshot
  BY InvFacts DEF PhoneInv
<1>3. state \in ThreadStates /\ (~state.known => state.thread = NoThread /\ state.closed = {})
  BY StateFacts
<1>4. /\ reread' \in [since : Nat, fresh : BOOLEAN, again : BOOLEAN]
      /\ WillSettle(reread') => reread'.since = now
      /\ reread'.since \in 0..now
  <2>1. /\ [since |-> now, fresh |-> TRUE, again |-> FALSE] \in [since : Nat, fresh : BOOLEAN, again : BOOLEAN]
        /\ NoReread \in [since : Nat, fresh : BOOLEAN, again : BOOLEAN] /\ NoReread.since = 0
    BY <1>2 DEF NoReread
  <2> QED BY <2>1, <1>1, <1>2 DEF WillSettle
<1>5. left' \in [commands : Nat, losses : Nat, heard : BOOLEAN] /\ ~left'.heard
  <2>1. left.losses - 1 \in Nat BY <1>1, <1>2
  <2> QED BY <2>1, <1>1, <1>2
<1>6. hist' = hist /\ cur' = cur /\ Times' = Times BY <1>1, ServerStays
<1>7. EndedOnly' /\ NothingAhead' /\ Whole' /\ SinceSnapshot'
  BY <1>1, <1>2, <1>6 DEF EndedOnly, NothingAhead, Whole, SinceSnapshot
<1>8. Settling' BY <1>1, <1>2, <1>3, <1>4, <1>7, SettlesAfresh
<1>9. PhoneInv' /\ HeardInv' BY <1>5, <1>7, <1>8 DEF PhoneInv, HeardInv
<1>10. \A e \in Told' : e \in Told /\ stream'.since = stream.since BY <1>1 DEF Told
<1> QED BY <1>1, <1>2, <1>3, <1>4, <1>5, <1>9, <1>10, PhoneMoves

LEMMA ReconnectsKeeps ==
  ASSUME ThreadAssumption, ThreadInv, reconnects PROVE ThreadInv'
<1>1. /\ left.losses > 0 /\ left' = [left EXCEPT !.losses = @ - 1]
      /\ stream' = [since |-> now, snapshot |-> FALSE, events |-> <<>>]
      /\ UNCHANGED <<server, other, state, command, reread>>
  BY DEF reconnects, phone
<1>2. /\ ThreadTypes /\ HeardInv /\ command \in CommandStates /\ command.since \in Times
      /\ left \in [commands : Nat, losses : Nat, heard : BOOLEAN]
      /\ now \in Nat /\ now \in Times /\ cur = hist[now]
      /\ EndedOnly /\ NothingAhead /\ Whole /\ Settling
  BY InvFacts DEF PhoneInv
<1>3. /\ state \in ThreadStates /\ (~state.known => state.thread = NoThread /\ state.closed = {})
      /\ reread \in [since : Nat, fresh : BOOLEAN, again : BOOLEAN] /\ reread.since \in 0..now
  BY StateFacts
<1>4. /\ stream'.since = now /\ ~stream'.snapshot /\ stream'.events = <<>>
      /\ stream' \in [since : Nat \ {0}, snapshot : BOOLEAN, events : Seq(StreamEvents)]
  <2>1. now \in Nat \ {0} BY <1>2 DEF Times
  <2> QED BY <2>1, <1>1
<1>5. Told' = {} BY <1>4 DEF Told
<1>6. hist' = hist /\ cur' = cur /\ Times' = Times /\ now' = now BY <1>1, ServerStays
<1>7. left' \in [commands : Nat, losses : Nat, heard : BOOLEAN] /\ left'.heard = left.heard
  BY <1>1, <1>2
<1>8. EndedOnly' /\ NothingAhead' /\ Whole'
  BY <1>1, <1>2, <1>6 DEF EndedOnly, NothingAhead, Whole
<1>9. SinceSnapshot' BY <1>1, <1>2, <1>4, <1>6 DEF SinceSnapshot, NothingAhead
<1>10. Settling' BY <1>1, <1>2, <1>4, <1>6 DEF Settling
<1>11. EndsHeard'
  <2>1. \A n \in now..now : n = now BY <1>2
  <2>2. LiveTurn(cur.turn)' BY DEF LiveTurn
  <2>3. ASSUME NEW n \in now..now PROVE LiveTurn(hist[n].turn)'
    <3>1. n = now /\ hist'[n] = cur' BY <2>1, <1>2, <1>6
    <3> QED BY <3>1, <2>2 DEF LiveTurn
  <2> QED BY <2>3, <1>4, <1>6 DEF EndsHeard
<1>12. TurnShown' BY <1>4 DEF TurnShown
<1>13. MessagesShown'
  <2>1. \A n \in Times : n <= now BY DEF Times
  <2> QED BY <2>1, <1>4, <1>6 DEF MessagesShown
<1>14. PhoneInv' /\ HeardInv'
  BY <1>8, <1>9, <1>10, <1>11, <1>12, <1>13 DEF PhoneInv, HeardInv
<1> QED BY <1>1, <1>2, <1>3, <1>4, <1>5, <1>7, <1>14, PhoneMoves

-----------------------------------------------------------------------------
(* The invariant holds at first and in every step.                         *)

LEMMA InitThreadInv ==
  ASSUME ThreadAssumption, ThreadInit PROVE ThreadInv
<1>1. /\ hist = <<NoThread>> /\ worker = "none" /\ asked = [m \in Messages |-> 0]
      /\ ended = NoEnd /\ other = [run |-> NoCommand, left |-> MaxOther]
      /\ stream = [since |-> 1, snapshot |-> FALSE, events |-> <<>>]
      /\ state = [known |-> FALSE, thread |-> NoThread, tracked |-> Nobody,
                  finished |-> {}, closed |-> {}]
      /\ command = [NoCommand EXCEPT !.kind = "reload"] /\ reread = NoReread
      /\ left = [commands |-> MaxCommands, losses |-> MaxLosses, heard |-> TRUE]
  BY DEF ThreadInit
<1>2. /\ MaxMessages \in Nat /\ MaxLosses \in Nat /\ MaxCommands \in Nat /\ MaxOther \in Nat
      /\ MaxRevision \in Nat
  BY DEF ThreadAssumption
<1>3. NoThread \in Windows /\ NoThread.revs = <<>> /\ NoThread.turn = Nobody BY NoThreadIsWindow
<1>4. /\ hist \in Seq(Windows) /\ hist # <<>> /\ now = 1 /\ hist[1] = NoThread /\ cur = NoThread
      /\ Times = {1}
  <2>1. hist \in Seq(Windows) /\ hist # <<>> /\ Len(hist) = 1 /\ hist[1] = NoThread BY <1>1, <1>3
  <2> QED BY <2>1 DEF now, cur, Times
<1>5. Told = {} BY <1>1 DEF Told
<1>6. ThreadTypes
  <2>1. asked \in [Messages -> 0..MaxRevision] BY <1>1, <1>2
  <2>2. ended \in [turn : Ids, since : Nat \ {0}, read : BOOLEAN] /\ ended.since \in Times
    BY <1>1, <1>4 DEF NoEnd, Ids
  <2>3. other \in [run : CommandStates, left : Nat] /\ other.run.since \in Times
    BY <1>1, <1>2, <1>4, NoCommandIs
  <2>4. /\ stream \in [since : Nat \ {0}, snapshot : BOOLEAN, events : Seq(StreamEvents)]
        /\ stream.since \in Times
    BY <1>1, <1>4
  <2>5. state \in ThreadStates /\ (~state.known => state.thread = NoThread /\ state.closed = {})
    BY <1>1, <1>3 DEF ThreadStates, Ids
  <2>6. command \in CommandStates /\ command.since \in Times
    <3>1. command = [kind |-> "reload", todo |-> <<>>, pause |-> Nobody, since |-> 1, ok |-> TRUE]
      BY <1>1 DEF NoCommand
    <3>2. <<>> \in Seq({"accept", "close", "trace"}) OBVIOUS
    <3> QED BY <3>1, <3>2, <1>4 DEF CommandStates, Ids
  <2>7. /\ reread \in [since : Nat, fresh : BOOLEAN, again : BOOLEAN] /\ reread.since \in 0..now
        /\ left \in [commands : Nat, losses : Nat, heard : BOOLEAN]
    BY <1>1, <1>2, <1>4 DEF NoReread
  <2> QED BY <1>1, <1>4, <2>1, <2>2, <2>3, <2>4, <2>5, <2>6, <2>7 DEF ThreadTypes
<1>7. HistoryInv
  <2>1. <<>> \in Seq(Nat) /\ Len(<<>>) = 0 OBVIOUS
  <2>2. Within(<<>>, <<>>) BY <2>1, WithinEmpty
  <2> QED BY <1>1, <1>3, <1>4, <2>1, <2>2 DEF HistoryInv, Nobody
<1>8. ServerInv
  <2>1. LastEnd BY <1>3, <1>4 DEF LastEnd
  <2> QED BY <1>1, <1>5, <1>7, <2>1 DEF ServerInv, EndIsOwed, EventsTell
<1>9. PhoneInv
  <2>0. <<>> \in Seq(Nat) OBVIOUS
  <2>1. Within(<<>>, <<>>) BY <2>0, WithinEmpty
  <2>2. /\ state.finished = {} /\ state.thread.revs = <<>> /\ ~stream.snapshot /\ stream.since = 1
        /\ hist[1].revs = <<>> /\ cur.revs = <<>>
    BY <1>1, <1>3, <1>4
  <2>3. ~WillSettle(reread) BY <1>1 DEF WillSettle, NoReread
  <2>4. Whole BY <1>4, <2>1, <2>2 DEF Whole
  <2> QED BY <1>1, <2>1, <2>2, <2>3, <2>4
          DEF PhoneInv, EndedOnly, NothingAhead, SinceSnapshot, Settling
<1>10. HeardInv
  <2>1. /\ stream.since = 1 /\ hist[1].turn = Nobody /\ state.thread.turn = Nobody
    BY <1>1, <1>3, <1>4
  <2>2. 1..now = {1} BY <1>4
  <2> QED BY <1>4, <2>1, <2>2 DEF HeardInv, EndsHeard, TurnShown, MessagesShown
<1> QED BY <1>6, <1>8, <1>9, <1>10 DEF ThreadInv

LEMMA EventKeeps ==
  ASSUME ThreadAssumption, ThreadInv, onEvent PROVE ThreadInv'
<1>1. PICK e : e = Head(stream.events) OBVIOUS
<1>2. e \in StreamEvents BY <1>1, EventHeard
<1>3. e.type \in {"turn.started", "message.updated", "turn.finished"} BY <1>2, EventFields
<1>4. CASE e.type = "turn.started" BY <1>1, <1>4, StartedKeeps
<1>5. CASE e.type = "message.updated" BY <1>1, <1>5, MessageUpdatedKeeps
<1>6. CASE e.type = "turn.finished" BY <1>1, <1>6, TurnFinishedKeeps
<1> QED BY <1>3, <1>4, <1>5, <1>6

LEMMA NothingKeeps ==
  ASSUME ThreadInv, UNCHANGED threadVars PROVE ThreadInv'
<1>1. /\ UNCHANGED <<hist, worker, asked, ended, other, stream, state, command, reread, left>>
      /\ now' = now /\ cur' = cur /\ Times' = Times /\ Told' = Told
  BY DEF threadVars, now, cur, Times, Told
<1>2. EndsTold' = EndsTold BY <1>1 DEF EndsTold
<1>3. \A m : LiveTurn(m)' = LiveTurn(m) BY <1>1, <1>2 DEF LiveTurn
<1>4. ThreadTypes' BY <1>1 DEF ThreadInv, ThreadTypes
<1>5. ServerInv'
  BY <1>1 DEF ThreadInv, ServerInv, HistoryInv, LastEnd, EndIsOwed, EventsTell, UpdateTells,
        EndTells
<1>6. PhoneInv'
  BY <1>1 DEF ThreadInv, PhoneInv, EndedOnly, NothingAhead, Whole, SinceSnapshot, Settling
<1>7. HeardInv'
  <2>1. ASSUME left'.heard PROVE EndsHeard' /\ TurnShown' /\ MessagesShown'
    <3>1. EndsHeard /\ TurnShown /\ MessagesShown BY <2>1, <1>1 DEF ThreadInv, HeardInv
    <3>2. EndsHeard' BY <3>1, <1>1, <1>2 DEF EndsHeard, LiveTurn
    <3>3. TurnShown' BY <3>1, <1>1, <1>2 DEF TurnShown, LiveTurn
    <3>4. MessagesShown' BY <3>1, <1>1, <1>2 DEF MessagesShown, LiveTurn
    <3> QED BY <3>2, <3>3, <3>4
  <2> QED BY <2>1 DEF HeardInv
<1> QED BY <1>4, <1>5, <1>6, <1>7 DEF ThreadInv

LEMMA ThreadInvStep ==
  ASSUME ThreadAssumption, ThreadInv, [ThreadNext]_threadVars PROVE ThreadInv'
<1>1. CASE Phone
  BY <1>1, RespondsKeeps, RereadsKeeps, OnSnapshotKeeps, EventKeeps DEF Phone
<1>2. CASE Server
  BY <1>2, CommandStepKeeps, OtherStepKeeps, RunsTurnKeeps, UpdateKeeps, OpenKeeps, AskKeeps,
     TurnEndsKeeps, RecoverKeeps, FinishedKeeps DEF Server
<1>3. CASE unreachable \/ rereadFails \/ reconnects \/ unpublished
  BY <1>3, UnreachableKeeps, RereadFailsKeeps, ReconnectsKeeps, UnpublishedKeeps
<1>4. CASE \E kind \in Commands : begins(kind) BY <1>4, BeginsKeeps
<1>5. CASE \E kind \in OtherCommands : otherBegins(kind) BY <1>5, OtherBeginsKeeps
<1>6. CASE UNCHANGED threadVars BY <1>6, NothingKeeps
<1> QED BY <1>1, <1>2, <1>3, <1>4, <1>5, <1>6 DEF ThreadNext

(* Where the last turn ended is one state only.                             *)
LEMMA LastEndIs ==
  ASSUME ThreadAssumption, ThreadInv, cur.turn = Nobody
  PROVE  /\ lastEnd \in Times
         /\ lastEnd = 1 \/ (/\ lastEnd - 1 \in Times /\ hist[lastEnd - 1].turn # Nobody
                            /\ hist[lastEnd].revs = hist[lastEnd - 1].revs)
<1>1. LastEnd /\ now \in Nat BY InvFacts
<1>2. PICK n \in Times :
        /\ n = 1 \/ (hist[n - 1].turn # Nobody /\ hist[n].revs = hist[n - 1].revs)
        /\ \A k \in n..now : hist[k].turn = Nobody
  BY <1>1 DEF LastEnd
<1>3. PICK c : c = lastEnd OBVIOUS
<1>4. /\ c \in 1..now /\ (c = 1 \/ hist[c - 1].turn # Nobody)
      /\ \A k \in c..now : hist[k].turn = Nobody
  BY <1>2, <1>3 DEF lastEnd, Times
<1>5. c \in Nat /\ n \in Nat /\ 1 <= n /\ n <= now /\ 1 <= c /\ c <= now BY <1>1, <1>2, <1>4
      DEF Times
<1>6. ~(c < n)
  <2>1. ASSUME c < n PROVE FALSE
    <3>1. n # 1 /\ n - 1 \in c..now BY <2>1, <1>1, <1>5
    <3> QED BY <3>1, <1>2, <1>4
  <2> QED BY <2>1
<1>7. ~(n < c)
  <2>1. ASSUME n < c PROVE FALSE
    <3>1. c # 1 /\ c - 1 \in n..now BY <2>1, <1>1, <1>5
    <3> QED BY <3>1, <1>2, <1>4
  <2> QED BY <2>1
<1>8. c = n BY <1>5, <1>6, <1>7
<1>9. n # 1 => n - 1 \in Times BY <1>1, <1>5 DEF Times
<1> QED BY <1>2, <1>3, <1>8, <1>9

LEMMA InvIsSound ==
  ASSUME ThreadAssumption, ThreadInv PROVE ThreadSound
<1>1. ThreadTypes /\ HeardInv BY InvFacts
<1>2. ThreadTypeOK
  <2>1. \A i \in DOMAIN hist : hist[i] \in Windows BY <1>1 DEF ThreadTypes
  <2> QED BY <1>1, <2>1 DEF ThreadTypeOK, ThreadTypes, ThreadStates, Ids, Times
<1>3. ASSUME left.heard, quiet PROVE
        /\ state.thread.turn = Nobody
        /\ Len(state.thread.revs) >= Len(hist[lastEnd].revs)
        /\ \A i \in DOMAIN hist[lastEnd].revs : state.thread.revs[i] >= hist[lastEnd].revs[i]
  <2>1. /\ reread.since = 0 /\ stream.snapshot /\ stream.events = <<>>
        /\ worker = "none" /\ ended = NoEnd
    BY <1>3 DEF quiet
  <2>2. cur.turn = Nobody BY <2>1, InvFacts
  <2>3. EndsTold = {} BY <2>1 DEF Told, EndsTold
  <2>4. \A m : LiveTurn(m) => m = Nobody BY <2>1, <2>2, <2>3 DEF LiveTurn, NoEnd
  <2>5. \A m \in Messages : ~LiveTurn(m) BY <2>4 DEF Messages, Nobody
  <2>6. \A n : ~Awaits(reread, n) BY <2>1 DEF Awaits
  <2>7. TurnShown /\ MessagesShown BY <1>1, <1>3 DEF HeardInv
  <2>8. state.thread.turn = Nobody BY <2>1, <2>5, <2>6, <2>7 DEF TurnShown
  <2>9. PICK n : n = lastEnd OBVIOUS
  <2>10. /\ n \in Times
         /\ n = 1 \/ (/\ n - 1 \in Times /\ hist[n - 1].turn # Nobody
                      /\ hist[n].revs = hist[n - 1].revs)
    BY <2>2, <2>9, LastEndIs
  <2>11. Within(hist[n].revs, state.thread.revs)
    <3>1. CASE n = 1
      <4>1. hist[1].revs = <<>> BY NoThreadIsWindow, InvFacts DEF HistoryInv
      <4>2. state.thread.revs \in Seq(Nat) BY <1>1, HistoryFields
      <4> QED BY <3>1, <4>1, <4>2, WithinEmpty
    <3>2. CASE n # 1
      <4>1. n - 1 \in Times /\ hist[n - 1].turn # Nobody /\ hist[n].revs = hist[n - 1].revs
        BY <3>2, <2>10
      <4>2. Within(hist[n - 1].revs, state.thread.revs)
        BY <4>1, <2>1, <2>4, <2>6, <2>7 DEF MessagesShown
      <4> QED BY <4>1, <4>2
    <3> QED BY <3>1, <3>2
  <2>12. /\ hist[n].revs \in Seq(Nat) /\ state.thread.revs \in Seq(Nat) BY <1>1, <2>10,
        HistoryFields
  <2>13. /\ Len(state.thread.revs) >= Len(hist[n].revs)
         /\ \A i \in DOMAIN hist[n].revs : state.thread.revs[i] >= hist[n].revs[i]
    BY <2>11, <2>12 DEF Within
  <2> QED BY <2>8, <2>9, <2>13
<1> QED BY <1>2, <1>3 DEF ThreadSound, QuietIsIdle

LEMMA ThreadInvAlways ==
  ASSUME ThreadAssumption PROVE ThreadSpec => []ThreadInv
<1>1. ThreadInit => ThreadInv BY InitThreadInv
<1>2. ThreadInv /\ [ThreadNext]_threadVars => ThreadInv' BY ThreadInvStep
<1> QED BY <1>1, <1>2, PTL DEF ThreadSpec

(* Unless a re-read or a publication fails unheard, a phone with nothing    *)
(* under way shows no turn, and every message as it was at the last end of  *)
(* a turn or later, whatever windows, events, snapshots and broken          *)
(* connections came before (rule 3 of assistant-thread-merge.ts:            *)
(* vouchedWindow, applyTurnFinished, applyAssistantReread).                 *)
THEOREM ThreadIsSound == ThreadAssumption => (ThreadSpec => []ThreadSound)
<1> SUFFICES ASSUME ThreadAssumption PROVE ThreadSpec => []ThreadSound
  OBVIOUS
<1>1. ThreadInv => ThreadSound BY InvIsSound
<1> QED BY <1>1, ThreadInvAlways, PTL

-----------------------------------------------------------------------------
(* No step of the phone takes anything back.                               *)

Forward ==
  /\ Within(state.thread.revs, state'.thread.revs)
  /\ \A q \in state.closed : state.thread.pause # q => state'.thread.pause # q

LEMMA SameThreadIsForward ==
  ASSUME ThreadAssumption, ThreadInv, state'.thread = state.thread PROVE Forward
<1>1. state.thread.revs \in Seq(Nat) BY InvFacts, HistoryFields
<1> QED BY <1>1, WithinReflexive DEF Forward

LEMMA JoinIsForward ==
  ASSUME ThreadAssumption, ThreadInv, NEW s \in ThreadStates, s.known = state.known,
         s.thread = state.thread, s.closed = state.closed,
         NEW w \in Windows, NEW settles \in BOOLEAN, NEW j, j = joinWindow(s, w, settles),
         state'.thread = j.state.thread
  PROVE  Forward
<1>1. ~s.known => s.thread = NoThread /\ s.closed = {} BY StateFacts
<1>2. Joined(s, w, settles, j) BY <1>1, JoinFacts
<1>3. PICK t : t = j.state.thread OBVIOUS
<1>4. /\ Within(s.thread.revs, t.revs)
      /\ \A q \in s.closed : s.thread.pause # q => t.pause # q
  BY <1>2, <1>3 DEF Joined
<1>5. state'.thread = t BY <1>3
<1> QED BY <1>4, <1>5 DEF Forward

LEMMA RespondsForward ==
  ASSUME ThreadAssumption, ThreadInv, responds PROVE Forward
<1>1. PICK w \in windowsSince(command.since) :
        state' = IF command.kind \in {"answer", "dismiss"} /\ command.ok
                 THEN pauseAnswered(joinWindow(state, w, FALSE).state, command.pause)
                 ELSE joinWindow(state, w, FALSE).state
  BY DEF responds
<1>2. ThreadTypes /\ command.since \in Times /\ command.pause \in Ids
  BY InvFacts DEF CommandStates
<1>3. w \in Windows BY <1>2, WindowsSinceFacts
<1>4. PICK s : s = state OBVIOUS
<1>5. PICK j : j = joinWindow(s, w, FALSE) OBVIOUS
<1>6. s \in ThreadStates /\ (~s.known => s.thread = NoThread /\ s.closed = {})
  BY <1>4, StateFacts
<1>7. j.state \in ThreadStates BY <1>3, <1>5, <1>6, JoinFacts DEF Joined
<1>8. state'.thread = j.state.thread BY <1>1, <1>2, <1>4, <1>5, <1>7, AnsweredFacts
<1>9. s.known = state.known /\ s.thread = state.thread /\ s.closed = state.closed BY <1>4
<1> QED BY <1>3, <1>5, <1>6, <1>8, <1>9, JoinIsForward

LEMMA RereadsForward ==
  ASSUME ThreadAssumption, ThreadInv, rereads PROVE Forward
<1>1. PICK s, settles : s = state /\ settles = reread.fresh OBVIOUS
<1>2. reread.since # 0 /\ \E w \in windowsSince(reread.since) :
        state' = applyAssistantReread(s, w, settles).state
  BY <1>1 DEF rereads
<1>3. /\ ThreadTypes /\ s \in ThreadStates /\ settles \in BOOLEAN
      /\ reread.since \in Times
  <2>1. /\ ThreadTypes /\ now \in Nat /\ state \in ThreadStates
        /\ reread \in [since : Nat, fresh : BOOLEAN, again : BOOLEAN] /\ reread.since \in 0..now
    BY InvFacts, StateFacts
  <2> QED BY <2>1, <1>1, <1>2 DEF Times
<1>4. PICK w : w \in windowsSince(reread.since) /\ state' = applyAssistantReread(s, w, settles).state
  BY <1>2
<1>5. w \in Windows
  <2>1. PICK since \in Times : since = reread.since BY <1>3
  <2> QED BY <2>1, <1>3, <1>4, WindowsSinceFacts
<1>6. PICK j : j = joinWindow(s, w, settles) OBVIOUS
<1>7. state' = j.state
  <2>1. j = [state |-> j.state, reread |-> j.reread] BY <1>6 DEF joinWindow
  <2> QED BY <2>1, <1>4, <1>6 DEF applyAssistantReread
<1>8. s.known = state.known /\ s.thread = state.thread /\ s.closed = state.closed BY <1>1
<1> QED BY <1>3, <1>5, <1>6, <1>7, <1>8, JoinIsForward

LEMMA SnapshotForward ==
  ASSUME ThreadAssumption, ThreadInv, onSnapshot PROVE Forward
<1>1. PICK w \in windowsSince(stream.since) : state' = joinWindow(state, w, FALSE).state
  BY DEF onSnapshot
<1>2. w \in Windows BY <1>1, InvFacts, WindowsSinceFacts
<1>3. PICK s : s = state OBVIOUS
<1>4. PICK j : j = joinWindow(s, w, FALSE) OBVIOUS
<1>5. s \in ThreadStates BY <1>3, StateFacts
<1>6. /\ s.known = state.known /\ s.thread = state.thread /\ s.closed = state.closed
      /\ state'.thread = j.state.thread
  BY <1>1, <1>3, <1>4
<1> QED BY <1>2, <1>4, <1>5, <1>6, JoinIsForward

LEMMA MessageWritten ==
  ASSUME ThreadAssumption, NEW h \in Windows, NEW m \in DOMAIN h.revs, NEW r \in Nat, h.revs[m] <= r
  PROVE  Within(h.revs, [h EXCEPT !.revs[m] = r].revs) /\ [h EXCEPT !.revs[m] = r].pause = h.pause
<1>1. h = [revs |-> h.revs, pause |-> h.pause, turn |-> h.turn] BY DEF Windows
<1>2. PICK q : q = h.revs OBVIOUS
<1>3. PICK u : u = [q EXCEPT ![m] = r] OBVIOUS
<1>4. [h EXCEPT !.revs[m] = r].revs = u /\ [h EXCEPT !.revs[m] = r].pause = h.pause
  BY <1>1, <1>2, <1>3
<1>5. q \in Seq(Nat) /\ m \in DOMAIN q /\ q[m] <= r BY <1>2, WindowFields
<1>6. /\ Len(u) = Len(q) /\ Len(q) \in Nat /\ u[m] = r
      /\ \A i \in DOMAIN q : q[i] \in Nat /\ (i # m => u[i] = q[i])
  BY <1>3, <1>5
<1>7. \A i \in DOMAIN q : q[i] <= u[i] BY <1>5, <1>6
<1>8. Within(q, u) BY <1>6, <1>7 DEF Within
<1> QED BY <1>2, <1>4, <1>8

LEMMA MessageUpdatedForward ==
  ASSUME ThreadAssumption, ThreadInv, NEW m, NEW r \in Nat,
         state' = applyMessageUpdated(state, m, r).state
  PROVE  Forward
<1>1. state \in ThreadStates /\ state.thread \in Windows BY StateFacts
<1>2. CASE ~state.known \/ m \notin DOMAIN state.thread.revs
  <2>1. state' = state BY <1>2 DEF applyMessageUpdated
  <2> QED BY <2>1, SameThreadIsForward
<1>3. CASE ~(~state.known \/ m \notin DOMAIN state.thread.revs)
  <2>1. CASE state.thread.revs[m] >= r
    <3>1. state' = state BY <1>3, <2>1 DEF applyMessageUpdated
    <3> QED BY <3>1, SameThreadIsForward
  <2>2. CASE ~(state.thread.revs[m] >= r)
    <3>1. PICK h : h = state.thread OBVIOUS
    <3>2. h \in Windows /\ m \in DOMAIN h.revs BY <3>1, <1>1, <1>3
    <3>3. h.revs[m] <= r
      <4>1. h.revs[m] \in Nat BY <3>2, WindowFields
      <4> QED BY <4>1, <3>1, <2>2
    <3>4. state'.thread = [h EXCEPT !.revs[m] = r]
      <4>1. state' = [state EXCEPT !.thread.revs[m] = r] BY <1>3, <2>2 DEF applyMessageUpdated
      <4> QED BY <4>1, <3>1, <1>1 DEF ThreadStates
    <3>5. PICK t : t = [h EXCEPT !.revs[m] = r] OBVIOUS
    <3>6. Within(h.revs, t.revs) /\ t.pause = h.pause BY <3>2, <3>3, <3>5, MessageWritten
    <3>7. state'.thread = t BY <3>4, <3>5
    <3> QED BY <3>1, <3>6, <3>7 DEF Forward
  <2> QED BY <2>1, <2>2
<1> QED BY <1>2, <1>3

LEMMA TurnFinishedForward ==
  ASSUME ThreadAssumption, ThreadInv, NEW m \in Messages, NEW window,
         window = {} \/ \E w \in Windows : window = {w},
         state' = applyTurnFinished(state, m, window).state
  PROVE  Forward
<1>1. /\ state \in ThreadStates /\ state.thread.pause \in Ids
      /\ (~state.known => state.thread = NoThread /\ state.closed = {})
  BY StateFacts
<1>2. PICK s : s = [state EXCEPT !.tracked = IF state.tracked = m THEN Nobody ELSE @,
                                 !.finished = @ \cup {m}]
  OBVIOUS
<1>3. /\ s \in ThreadStates /\ s.known = state.known /\ s.thread = state.thread
      /\ s.closed = state.closed
  <2>1. Nobody \in Ids BY DEF Ids
  <2>2. (IF state.tracked = m THEN Nobody ELSE state.tracked) \in Ids
    BY <2>1, <1>1 DEF ThreadStates
  <2>3. state.finished \cup {m} \in SUBSET Messages BY <1>1 DEF ThreadStates
  <2> QED BY <2>2, <2>3, <1>1, <1>2 DEF ThreadStates
<1>4. CASE window = {}
  <2>1. applyTurnFinished(state, m, window) = [state |-> s, reread |-> TRUE]
    BY <1>2, <1>4 DEF applyTurnFinished
  <2>2. state'.thread = state.thread BY <2>1, <1>3
  <2> QED BY <2>2, SameThreadIsForward
<1>5. CASE \E w \in Windows : window = {w}
  <2>1. PICK w \in Windows : window = {w} BY <1>5
  <2>2. (CHOOSE x \in window : TRUE) = w /\ window # {} BY <2>1
  <2>3. CASE state.tracked = m
    <3>1. PICK j : j = joinWindow(s, w, FALSE) OBVIOUS
    <3>2. applyTurnFinished(state, m, window) = withPauseSeenClosed(state, j)
      BY <3>1, <2>2, <2>3, <1>2 DEF applyTurnFinished
    <3>3. j.state \in ThreadStates BY <3>1, <1>1, <1>3, JoinFacts DEF Joined
    <3>4. j = [state |-> j.state, reread |-> j.reread] BY <3>1 DEF joinWindow
    <3>5. state'.thread = j.state.thread
      <4>1. CASE j.state.thread.pause = state.thread.pause
        BY <4>1, <3>2 DEF withPauseSeenClosed
      <4>2. CASE j.state.thread.pause # state.thread.pause
        <5>1. withPauseSeenClosed(state, j)
                = [state |-> pauseAnswered(j.state, state.thread.pause), reread |-> j.reread]
          BY <4>2, <3>4 DEF withPauseSeenClosed
        <5> QED BY <5>1, <3>2, <3>3, <1>1, AnsweredFacts
      <4> QED BY <4>1, <4>2
    <3> QED BY <3>1, <3>5, <1>3, JoinIsForward
  <2>4. CASE state.tracked # m
    <3>1. PICK v : v = withHeldPause(state, w) OBVIOUS
    <3>2. PICK j : j = joinWindow(s, v, FALSE) OBVIOUS
    <3>3. applyTurnFinished(state, m, window) = [j EXCEPT !.reread = TRUE]
      BY <3>1, <3>2, <2>2, <2>4, <1>2 DEF applyTurnFinished
    <3>4. v \in Windows BY <3>1, <1>1, HeldPauseFacts
    <3>5. j = [state |-> j.state, reread |-> j.reread] BY <3>2 DEF joinWindow
    <3>6. [j EXCEPT !.reread = TRUE].state = j.state BY <3>5
    <3>7. state'.thread = j.state.thread BY <3>3, <3>6
    <3> QED BY <3>2, <3>4, <3>7, <1>3, JoinIsForward
  <2> QED BY <2>3, <2>4
<1> QED BY <1>4, <1>5

LEMMA EventForward ==
  ASSUME ThreadAssumption, ThreadInv, onEvent PROVE Forward
<1>1. PICK e : e = Head(stream.events) OBVIOUS
<1>2. e \in StreamEvents /\ state' = applyAssistantStreamEvent(state, e).state
  BY <1>1, EventHeard
<1>3. CASE e.type = "turn.started"
  <2>1. state' = [state EXCEPT !.tracked = e.turn]
    BY <1>2, <1>3 DEF applyAssistantStreamEvent
  <2>2. state'.thread = state.thread BY <2>1, StateFacts DEF ThreadStates
  <2> QED BY <2>2, SameThreadIsForward
<1>4. CASE e.type = "message.updated"
  <2>1. PICK m, r : m = e.message /\ r = e.revision OBVIOUS
  <2>2. r \in Nat
    <3>1. r \in 1..MaxRevision BY <1>2, <1>4, <2>1, EventFields
    <3> QED BY <3>1 DEF ThreadAssumption
  <2>3. state' = applyMessageUpdated(state, m, r).state
    BY <1>2, <1>4, <2>1 DEF applyAssistantStreamEvent
  <2> QED BY <2>2, <2>3, MessageUpdatedForward
<1>5. CASE e.type = "turn.finished"
  <2>1. PICK m, window : m = e.turn /\ window = e.window OBVIOUS
  <2>2. m \in Messages /\ (window = {} \/ \E w \in Windows : window = {w})
    BY <1>2, <1>5, <2>1, EventFields
  <2>3. state' = applyTurnFinished(state, m, window).state
    BY <1>2, <1>5, <2>1 DEF applyAssistantStreamEvent
  <2> QED BY <2>2, <2>3, TurnFinishedForward
<1> QED BY <1>2, <1>3, <1>4, <1>5, EventFields

LEMMA OthersLeaveThread ==
  ASSUME ThreadNext, ~Phone PROVE UNCHANGED state
<1>1. CASE Server
  BY <1>1 DEF Server, commandSteps, otherSteps, runsTurn, update, open, ask, finish, recover,
              finished, phone
<1>2. CASE unreachable \/ rereadFails \/ reconnects \/ unpublished
  BY <1>2 DEF unreachable, rereadFails, reconnects, unpublished, phone
<1>3. CASE \E kind \in Commands : begins(kind) BY <1>3 DEF begins
<1>4. CASE \E kind \in OtherCommands : otherBegins(kind) BY <1>4 DEF otherBegins, phone
<1> QED BY <1>1, <1>2, <1>3, <1>4 DEF ThreadNext

LEMMA StepIsForward ==
  ASSUME ThreadAssumption, ThreadInv, ThreadNext PROVE Forward
<1>1. CASE Phone
  BY <1>1, RespondsForward, RereadsForward, SnapshotForward, EventForward DEF Phone
<1>2. CASE ~Phone
  <2>1. state'.thread = state.thread BY <1>2, OthersLeaveThread
  <2> QED BY <2>1, SameThreadIsForward
<1> QED BY <1>1, <1>2

(* No message of the thread is lost or goes back to an earlier revision,    *)
(* and a question that was answered, dismissed or seen closed does not come *)
(* back once it has left the screen, in whatever order windows, snapshots,  *)
(* re-reads and events arrive (mergeAssistantChatWindow, reopensClosed).    *)
THEOREM ThreadMovesForward == ThreadAssumption => (ThreadSpec => ThreadForward)
<1> SUFFICES ASSUME ThreadAssumption PROVE ThreadSpec => ThreadForward
  OBVIOUS
<1>1. ThreadInv /\ [ThreadNext]_threadVars =>
        [\A i \in DOMAIN state.thread.revs :
           /\ i \in DOMAIN state'.thread.revs
           /\ state'.thread.revs[i] >= state.thread.revs[i]]_threadVars
  <2> SUFFICES ASSUME ThreadInv, ThreadNext, NEW i \in DOMAIN state.thread.revs
               PROVE  /\ i \in DOMAIN state'.thread.revs
                      /\ state'.thread.revs[i] >= state.thread.revs[i]
    OBVIOUS
  <2>1. Within(state.thread.revs, state'.thread.revs) BY StepIsForward DEF Forward
  <2>2. state.thread \in Windows /\ state'.thread \in Windows
    <3>1. ThreadInv' BY ThreadInvStep
    <3> QED BY <3>1 DEF ThreadInv, ThreadTypes, ThreadStates
  <2>3. PICK r, t : r = state.thread.revs /\ t = state'.thread.revs OBVIOUS
  <2>4. r \in Seq(Nat) /\ t \in Seq(Nat) BY <2>2, <2>3, WindowFields
  <2>5. Within(r, t) /\ i \in DOMAIN r BY <2>1, <2>3
  <2>6. i \in DOMAIN t /\ t[i] >= r[i] BY <2>4, <2>5 DEF Within
  <2> QED BY <2>3, <2>6
<1>2. ThreadInv /\ [ThreadNext]_threadVars =>
        [\A q \in state.closed : state.thread.pause # q => state'.thread.pause # q]_threadVars
  BY StepIsForward DEF Forward
<1> QED BY <1>1, <1>2, ThreadInvAlways, PTL DEF ThreadSpec, ThreadForward, NeverBack, NeverReopens
============================================================================
