---------------------------- MODULE MCConversation ----------------------------
(***************************************************************************)
(* The turns of a conversation and the budget they hold on small           *)
(* instances, given by the .cfg file, and in the same run of TLC further   *)
(* instances of what meets them there: the budget again, and the question  *)
(* that pauses the conversation.                                           *)
(* They are modelled one by one: a behaviour is one of the component that  *)
(* part names, and the others rest in their initial states.  A component   *)
(* with several instances here has several sets of bounds and faults.      *)
(***************************************************************************)
EXTENDS AssistantTurn, AssistantBudget, TLC

CONSTANTS x1, x2, y1, y2

Actors == {x1, x2}    \* requests in flight
Commands == {y1, y2}  \* commands of the clients
Symmetric == Permutations(Actors) \cup Permutations(Commands)

VARIABLES
    part,
    spent2, record2, taken2, row2, ender2, caller2, day2, losses2,
    now, pause, keyEnds, receipt, running, route, asked, ends, stored,
    accepts, unsure, died

budgetVars2 == <<spent2, record2, taken2, row2, ender2, caller2, day2, losses2>>
pauseVars == <<now, pause, keyEnds, receipt, running, route, asked, ends, stored,
               accepts, unsure, died>>
allVars == <<part, vars, budgetVars, budgetVars2, pauseVars>>

BothCapped == [k \in {"company", "global"} |-> IF k = "company" THEN 3 ELSE 2]
Tight == [k \in {"company", "global"} |-> IF k = "company" THEN 2 ELSE 1]
OneCapped == [k \in {"company", "global"} |-> IF k = "company" THEN 3 ELSE 0]

(* The budget of the .cfg file: each command has a conversation of its own. *)
OwnConversation == [c \in {"c1", "c2"} |-> c]

(* One request of a command at a time, one loss.                           *)
Orderly == INSTANCE AssistantBudget WITH
    Caller <- Actors \cup {"r3"}, ClientCommand <- {"c1"}, Conversation <- {"v1"},
    ConversationOf <- [c \in {"c1"} |-> "v1"], Route <- {"chat", "answer"},
    Cap <- BothCapped, MaxDay <- 1, Overlap <- FALSE,
    Loss <- {"refused", "lost", "unknown", "crash"}, MaxLosses <- 1,
    spent <- spent2, record <- record2, taken <- taken2, row <- row2, ender <- ender2,
    caller <- caller2, day <- day2, losses <- losses2

(* Overlapping requests by every route, no loss.                           *)
Rest == INSTANCE AssistantBudget WITH
    Caller <- Actors, ClientCommand <- {"c1"}, Conversation <- {"v1"},
    ConversationOf <- [c \in {"c1"} |-> "v1"], Route <- {"chat", "answer", "continue"},
    Cap <- BothCapped, MaxDay <- 1, Overlap <- TRUE, Loss <- {}, MaxLosses <- 0,
    spent <- spent2, record <- record2, taken <- taken2, row <- row2, ender <- ender2,
    caller <- caller2, day <- day2, losses <- losses2

(* Two days, two losses.                                                   *)
Faulty == INSTANCE AssistantBudget WITH
    Caller <- Actors, ClientCommand <- {"c1"}, Conversation <- {"v1"},
    ConversationOf <- [c \in {"c1"} |-> "v1"], Route <- {"chat", "typed", "continue"},
    Cap <- OneCapped, MaxDay <- 2, Overlap <- TRUE,
    Loss <- {"refused", "lost", "unknown", "crash"}, MaxLosses <- 2,
    spent <- spent2, record <- record2, taken <- taken2, row <- row2, ender <- ender2,
    caller <- caller2, day <- day2, losses <- losses2

(* Replies of claimHold are lost.                                          *)
LostReplies == INSTANCE AssistantBudget WITH
    Caller <- Actors, ClientCommand <- {"c1"}, Conversation <- {"v1"},
    ConversationOf <- [c \in {"c1"} |-> "v1"], Route <- {"chat", "answer"},
    Cap <- OneCapped, MaxDay <- 1, Overlap <- TRUE,
    Loss <- {"lostClaim", "refused"}, MaxLosses <- 2,
    spent <- spent2, record <- record2, taken <- taken2, row <- row2, ender <- ender2,
    caller <- caller2, day <- day2, losses <- losses2

(* Two questions in a row.                                                 *)
Questions == INSTANCE AssistantPause WITH
    Requests <- Actors, Commands <- {"c1"}, Used <- {"answer", "abandon", "chat"},
    Ttl <- 1, Hold <- 1, CommandTtl <- 1, MaxTime <- 0, MaxQuestions <- 2,
    Crashes <- 0, turn <- running, req <- route

(* Two commands answer one question.                                       *)
Answers == INSTANCE AssistantPause WITH
    Requests <- Actors, Commands <- Commands, Used <- {"answer", "chat"},
    Ttl <- 1, Hold <- 1, CommandTtl <- 1, MaxTime <- 0, MaxQuestions <- 1,
    Crashes <- 0, turn <- running, req <- route

(* Cards of Sho and refused cards.                                         *)
Sho == INSTANCE AssistantPause WITH
    Requests <- Actors, Commands <- {"c1"}, Used <- {"decline", "chat", "sho"},
    Ttl <- 2, Hold <- 1, CommandTtl <- 2, MaxTime <- 0, MaxQuestions <- 2,
    Crashes <- 0, turn <- running, req <- route

(* Two questions dropped in time or late.                                  *)
Late == INSTANCE AssistantPause WITH
    Requests <- Actors, Commands <- {"c1"}, Used <- {"decline", "abandon", "chat"},
    Ttl <- 2, Hold <- 1, CommandTtl <- 2, MaxTime <- 1, MaxQuestions <- 2,
    Crashes <- 0, turn <- running, req <- route

(* A request dies.                                                         *)
Deaths == INSTANCE AssistantPause WITH
    Requests <- Actors, Commands <- {"c1"}, Used <- {"answer", "chat"},
    Ttl <- 1, Hold <- 1, CommandTtl <- 1, MaxTime <- 1, MaxQuestions <- 1,
    Crashes <- 1, turn <- running, req <- route

ASSUME TurnAssumption /\ BudgetAssumption
ASSUME Orderly!BudgetAssumption /\ Rest!BudgetAssumption
ASSUME Faulty!BudgetAssumption /\ LostReplies!BudgetAssumption
ASSUME Questions!PauseAssumption /\ Answers!PauseAssumption
ASSUME Sho!PauseAssumption /\ Late!PauseAssumption /\ Deaths!PauseAssumption

BudgetParts == {"orderly", "rest", "faulty", "lostReplies"}
PauseParts == {"questions", "answers", "sho", "late", "deaths"}

MCInit ==
    /\ part \in {"turn", "racing"} \cup BudgetParts \cup PauseParts
    /\ Init
    /\ BudgetInit
    /\ CASE part = "rest" -> Rest!BudgetInit
         [] part = "faulty" -> Faulty!BudgetInit
         [] part = "lostReplies" -> LostReplies!BudgetInit
         [] OTHER -> Orderly!BudgetInit
    /\ CASE part = "questions" -> Questions!Init
         [] part = "answers" -> Answers!Init
         [] part = "sho" -> Sho!Init
         [] part = "late" -> Late!Init
         [] OTHER -> Deaths!Init

TurnNext ==
    part = "turn" /\ Next /\ UNCHANGED <<part, budgetVars, budgetVars2, pauseVars>>

RacingNext ==
    part = "racing" /\ BudgetNext /\ UNCHANGED <<part, vars, budgetVars2, pauseVars>>

BudgetNext2 ==
    /\ \/ part = "orderly" /\ Orderly!BudgetNext
       \/ part = "rest" /\ Rest!BudgetNext
       \/ part = "faulty" /\ Faulty!BudgetNext
       \/ part = "lostReplies" /\ LostReplies!BudgetNext
    /\ UNCHANGED <<part, vars, budgetVars, pauseVars>>

PauseNext ==
    /\ \/ part = "questions" /\ Questions!Next
       \/ part = "answers" /\ Answers!Next
       \/ part = "sho" /\ Sho!Next
       \/ part = "late" /\ Late!Next
       \/ part = "deaths" /\ Deaths!Next
    /\ UNCHANGED <<part, vars, budgetVars, budgetVars2>>

MCNext == TurnNext \/ RacingNext \/ BudgetNext2 \/ PauseNext

MCSpec == MCInit /\ [][MCNext]_allVars

-----------------------------------------------------------------------------
(* Every variable of the questions has its type.                           *)
Typed ==
    CASE part = "questions" -> Questions!TypeOK
      [] part = "answers" -> Answers!TypeOK
      [] part = "sho" -> Sho!TypeOK
      [] part = "late" -> Late!TypeOK
      [] part = "deaths" -> Deaths!TypeOK

(* A question ends in one way only, whatever requests race for it, retry,  *)
(* expire or die (the compare-and-set of claim and dropOpenPause).         *)
EndsOnce ==
    CASE part \in {"questions", "sho", "late"} -> Questions!EndsOnce
      [] part \in {"answers", "deaths"} -> Answers!EndsOnce
      [] OTHER -> TRUE

(* A claim is held by a request that answers it, or its question ended, or *)
(* its request did not end knowing (both the claim and the command are     *)
(* given back).                                                            *)
ClaimIsOwned ==
    CASE part \in {"questions", "sho", "late"} -> Questions!ClaimIsOwned
      [] part = "answers" -> Answers!ClaimIsOwned
      [] OTHER -> TRUE

(* A command that no request works on stays spent only where something     *)
(* durable was stored under it, or its attempt did not end knowing.        *)
SpentIsStored ==
    CASE part \in {"questions", "sho", "late"} -> Questions!SpentIsStored
      [] part = "answers" -> Answers!SpentIsStored
      [] part = "deaths" -> Deaths!SpentIsStored
      [] OTHER -> TRUE

(* While the trace of a cancelled card is written no other question takes  *)
(* the slot before the hold is over (whileHeld and ABANDON_HOLD_MS).       *)
HeldWhileTraced ==
    part \in PauseParts => Late!HeldWhileTraced

-----------------------------------------------------------------------------
(* What is checked of each component, named parts of one invariant.        *)

(* Questions: each ends once, its claim and its commands are owned or      *)
(* spent on something stored, and the slot is held while a trace is        *)
(* written.                                                                *)
QuestionsSound ==
    part \in PauseParts =>
        Typed /\ EndsOnce /\ ClaimIsOwned /\ SpentIsStored /\ HeldWhileTraced

(* What the .cfg file's instances leave: the budget is sound where         *)
(* requests of a command do not overlap, at rest, over two days with       *)
(* losses, and when claimHold's reply is lost; and the questions are.      *)
ConversationSound ==
    /\ CASE part = "orderly" -> Orderly!BudgetSound
         [] part = "rest" -> Rest!BudgetSound
         [] part = "faulty" -> Faulty!BudgetSound
         [] part = "lostReplies" -> LostReplies!BudgetSound
         [] OTHER -> TRUE
    /\ QuestionsSound
=============================================================================
