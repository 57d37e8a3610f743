-------------------------- MODULE MCConversationFair --------------------------
(***************************************************************************)
(* Document signing on a small instance, given by the .cfg file, and what  *)
(* must happen in the end between a client and the server: with fairness,  *)
(* the request of a cancelled document, the turns of a conversation, the   *)
(* streams that carry their events, the thread on the phone and the        *)
(* submissions of an idempotent action.  A behaviour is one of the         *)
(* component that part names; the others rest in their initial states.     *)
(***************************************************************************)
EXTENDS DocumentSigning, Sequences

CONSTANTS p1, p2, c1, c2, Refused

VARIABLES
    part,
    turn, msg, log, history, card, job, exhausted, body, listed, rec, released,
    req, failed,
    db, due, published, hub, st, slot, presence, session, shutdown, dropped, faults,
    hist, worker, asked, ended, other, stream, state, command, reread, left,
    kept, store, binding, live, pc, sent, grant, att, answer, offer, window, win,
    effects, failures

turnVars == <<turn, msg, log, history, card, job, exhausted, body, listed, rec,
              released, req, failed>>
streamVars == <<db, due, published, hub, st, slot, presence, session, shutdown,
                dropped, faults>>
threadVars == <<hist, worker, asked, ended, other, stream, state, command, reread,
                left>>
submitVars == <<kept, store, binding, live, pc, sent, grant, att, answer, offer,
                window, win, effects, failures>>
allVars == <<part, vars, turnVars, streamVars, threadVars, submitVars>>

(* A crash or a failed call, and a job that may never run.                 *)
Turns == INSTANCE AssistantTurn WITH
    Command <- {"c1"}, Request <- {"r1", "r2"}, MaxCards <- 0, MaxRuns <- 1,
    MaxNotes <- 0, Fault <- {"crash", "store"}, MaxFaults <- 1, faults <- failed

(* Clients that need not read, a sign-out and a shutdown.                  *)
Streams == INSTANCE AssistantStream WITH
    Streams <- {"s1"}, Limit <- 1, PendingMax <- 1, Ttl <- 1, SlowStores <- FALSE,
    MaxWrites <- 1, MaxLosses <- 1, MaxFaults <- 0,
    Happens <- {"heartbeat", "signOut", "shutdown"}

Thread == INSTANCE AssistantThread WITH
    MaxMessages <- 2, MaxRevision <- 2, MaxLosses <- 1, MaxCommands <- 1, MaxOther <- 0,
    Commands <- {"send"}, OtherCommands <- {}, Recovery <- TRUE, Unreliable <- FALSE

(* Two clients confirm under one key, each with its own challenges.        *)
Submits == INSTANCE ActionSubmit WITH
    Callers <- {c1, c2}, Keys <- {"k1"}, Payloads <- {"p1"},
    Requests <- [c \in {c1, c2} |-> {<<"k1", "p1">>}],
    Shares <- [c \in {c1, c2} |-> {c}], Modes <- {"confirm"}, Attempts <- 1 .. 6,
    Challenges <- 1 .. 4, BindsPreview <- TRUE, NoAttempt <- None,
    NoChallenge <- None, NoPayload <- None, Unissued <- None, NoAnswer <- None,
    MaxWindows <- 1, MaxFaults <- 2, row <- kept, req <- sent, faults <- failures

ASSUME SigningAssumption
ASSUME Turns!TurnAssumption /\ Streams!StreamAssumption /\ Thread!ThreadAssumption
ASSUME Submits!SubmitAssumption /\ Submits!FreshAssumption /\ Submits!AnswerAssumption

MCInit ==
    /\ part \in {"signing", "turns", "streams", "thread", "submits"}
    /\ Init
    /\ Turns!Init
    /\ Streams!Init
    /\ Thread!ThreadInit
    /\ Submits!Init

InSigning ==
    part = "signing" /\ UNCHANGED <<part, turnVars, streamVars, threadVars, submitVars>>
InTurns ==
    part = "turns" /\ UNCHANGED <<part, vars, streamVars, threadVars, submitVars>>
InStreams ==
    part = "streams" /\ UNCHANGED <<part, vars, turnVars, threadVars, submitVars>>
InThread ==
    part = "thread" /\ UNCHANGED <<part, vars, turnVars, streamVars, submitVars>>
InSubmits ==
    part = "submits" /\ UNCHANGED <<part, vars, turnVars, streamVars, threadVars>>

MCNext ==
    \/ InSigning /\ Next
    \/ InTurns /\ Turns!Next
    \/ InStreams /\ Streams!Next
    \/ InThread /\ Thread!ThreadNext
    \/ InSubmits /\ Submits!Next

(* Fairness.                                                               *)
(*   signing: the delivery of documents.cancelled is retried;              *)
(*   turns: the clock runs, and the sweep is scheduled every minute and    *)
(*     goes on; nothing is assumed of the workers and the jobs;            *)
(*   streams: Redis and Postgres answer, ioredis reconnects, timers fire;  *)
(*     no client has to read or leave;                                     *)
(*   thread: what arrives at the phone is applied;                         *)
(*   submits: a client submits until it has an answer, its request is      *)
(*     carried on, and the lease of an attempt nobody runs ends.           *)
FairSigning == WF_vars(part = "signing" /\ abandonRequest)

FairTurns ==
    /\ WF_turnVars(part = "turns" /\ Turns!listOverdueTurns)
    /\ WF_turnVars(part = "turns" /\ Turns!becomeLate("c1"))
    /\ WF_turnVars(part = "turns" /\ Turns!sweepOverdueTurn("c1"))

FairStreams ==
    /\ WF_streamVars(part = "streams" /\ Streams!answersCommand)
    /\ WF_streamVars(part = "streams" /\ Streams!reconnects)
    /\ WF_streamVars(part = "streams" /\ Streams!allClosed)
    /\ WF_streamVars(part = "streams" /\ Streams!Requests("s1"))
    /\ WF_streamVars(part = "streams" /\ Streams!Beats("s1"))
    /\ WF_streamVars(part = "streams" /\ Streams!Releases("s1"))
    /\ WF_streamVars(part = "streams" /\ Streams!heartbeat("s1"))

FairThread == WF_threadVars(part = "thread" /\ Thread!Phone)

FairSubmits ==
    /\ \A c \in {c1, c2} : /\ WF_submitVars(part = "submits" /\ Submits!Submit(c))
                           /\ WF_submitVars(part = "submits" /\ Submits!Proceed(c))
    /\ WF_submitVars(part = "submits" /\ ~Submits!Holder("k1") /\ Submits!leaseExpires("k1"))

FairSpec ==
    /\ MCInit /\ [][MCNext]_allVars
    /\ FairSigning /\ FairTurns /\ FairStreams /\ FairThread /\ FairSubmits

-----------------------------------------------------------------------------
(* What must happen.  A component at rest keeps all but the last promise.  *)

(* Every accepted turn ends, also when its job, its worker and its         *)
(* dead-letter job are lost (sweepOverdueTurn).                            *)
EveryTurnEnds == Turns!EveryTurnEnds

(* closeAll returns, though no client reads (the abort before the queue is *)
(* awaited).                                                               *)
CloseAllReturns == Streams!CloseAllReturns

(* A session that is signed out elsewhere ends its stream, also that of a  *)
(* client which does not read (beat).                                      *)
SignedOutEnds == Streams!SignedOutEnds

(* Once the server is done with its turns, the phone stops reading and     *)
(* shows no turn, through a broken connection and a recovery               *)
(* (applyTurnFinished, the re-reads).                                      *)
SettlesDown == Thread!SettlesDown

(* A client that keeps submitting is answered, through crashes, failures,  *)
(* commits in doubt and lost takeovers (executeAction, reserve).           *)
EventuallyAnswered == part = "submits" => Submits!EventuallyAnswered

-----------------------------------------------------------------------------
(* Clients settle: streams end at a shutdown and after a sign-out, and the *)
(* phone comes to rest.                                                    *)
ClientsSettle == CloseAllReturns /\ SignedOutEnds /\ SettlesDown
=============================================================================
