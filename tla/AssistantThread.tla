--------------------------- MODULE AssistantThread ---------------------------
(***************************************************************************)
(* The thread that a phone shows: windows that answer its commands and its *)
(* own re-reads, the snapshot of each connection and the events of a turn, *)
(* joined by assistant-thread-merge.ts and mergeAssistantChatWindow, and   *)
(* the re-reads and the latch of use-assistant-conversation.ts.            *)
(*                                                                         *)
(* The server is a history of states.  A window is read in three steps,    *)
(* messages, open question, running turn, so it shows three states of the  *)
(* history in this order, none older than the start of the read.  A        *)
(* message is known by its position and a copy of it by its revision; a    *)
(* turn, and the question it may ask, has the position of its placeholder. *)
(***************************************************************************)
EXTENDS Integers, Sequences, FiniteSets

CONSTANTS
  MaxMessages,   \* messages of the conversation
  MaxRevision,   \* writes of a message
  MaxLosses,     \* connections that break
  MaxCommands,   \* commands of this phone
  MaxOther,      \* commands of another device
  Commands,      \* what this phone may do
  OtherCommands, \* what another device may do
  Recovery,      \* may a turn end by recovery
  Unreliable     \* may a re-read or a publication fail

ThreadAssumption ==
  /\ {MaxMessages, MaxLosses, MaxCommands, MaxOther} \subseteq Nat
  /\ MaxRevision \in Nat \ {0}
  /\ Commands \cup OtherCommands \subseteq {"send", "answer", "dismiss"}
  /\ Recovery \in BOOLEAN /\ Unreliable \in BOOLEAN

VARIABLES
  hist,     \* the states of the server: messages, open question, running turn
  worker,   \* how far the run of the turn is
  asked,    \* of a question, the revision of its message that has its part
  ended,    \* the event that the end of a turn still owes: turn, since, read
  other,    \* the other device: the command under way, commands left
  stream,   \* the connection: since when, whether its snapshot came, events
  state,    \* AssistantThreadState, and whether a window was shown at all
  command,  \* the phone's command under way
  reread,   \* the phone's read under way, and whether another must follow
  left      \* commands and losses left to this phone; did every failure show

threadVars == <<hist, worker, asked, ended, other, stream, state, command, reread, left>>
server == <<hist, worker, asked, ended>>
phone == <<state, command, reread>>

Messages == 1..MaxMessages
Nobody == 0
cur == hist[Len(hist)]
now == Len(hist)
NoEnd == [turn |-> Nobody, since |-> 1, read |-> FALSE]
NoCommand == [kind |-> "none", todo |-> <<>>, pause |-> Nobody, since |-> 1, ok |-> TRUE]
NoReread == [since |-> 0, fresh |-> FALSE, again |-> FALSE]
NoThread == [revs |-> <<>>, pause |-> Nobody, turn |-> Nobody]

Revisions == UNION {[1..n -> 1..MaxRevision] : n \in 0..MaxMessages}
Windows == [revs : Revisions, pause : Messages \cup {Nobody}, turn : Messages \cup {Nobody}]

ThreadTypeOK ==
  /\ \A i \in DOMAIN hist : hist[i] \in Windows
  /\ worker \in {"none", "queued", "running", "asking"}
  /\ asked \in [Messages -> 0..MaxRevision]
  /\ state.thread \in Windows
  /\ state.known \in BOOLEAN /\ state.tracked \in Messages \cup {Nobody}
  /\ state.finished \subseteq Messages /\ state.closed \subseteq Messages
  /\ reread.since \in 0..now /\ command.since \in 1..now
  /\ ~state.known => state.thread = NoThread

ThreadInit ==
  /\ hist = <<NoThread>> /\ worker = "none" /\ asked = [m \in Messages |-> 0]
  /\ ended = NoEnd /\ other = [run |-> NoCommand, left |-> MaxOther]
  /\ stream = [since |-> 1, snapshot |-> FALSE, events |-> <<>>]
  /\ state = [known |-> FALSE, thread |-> NoThread, tracked |-> Nobody,
              finished |-> {}, closed |-> {}]
  /\ command = [NoCommand EXCEPT !.kind = "reload"] /\ reread = NoReread
  /\ left = [commands |-> MaxCommands, losses |-> MaxLosses, heard |-> TRUE]

becomes(s) == hist' = Append(hist, s)
tell(e) == stream' = [stream EXCEPT !.events = Append(@, e)]

(* The windows that a read which began at state n may return by now. *)
windowsSince(n) ==
  UNION {UNION {{[revs |-> hist[i].revs, pause |-> hist[j].pause, turn |-> hist[k].turn] :
                   k \in j..now} : j \in i..now} : i \in n..now}

-----------------------------------------------------------------------------
(* The server: commands, turns, their events. *)
raised(m) == [cur EXCEPT !.revs[m] = @ + 1]

(* What a command does, step by step; an accept that finds a turn running   *)
(* is refused, and one for an answer gives the question back.               *)
stepOf(c) ==
  CASE Head(c.todo) = "accept" /\ cur.turn = Nobody ->
         /\ Len(cur.revs) < MaxMessages
         /\ becomes([cur EXCEPT !.revs = Append(@, 1), !.turn = Len(cur.revs) + 1])
         /\ worker' = "queued"
    [] Head(c.todo) = "accept" /\ cur.turn # Nobody ->
         /\ becomes(IF c.kind = "answer" THEN [cur EXCEPT !.pause = c.pause] ELSE cur)
         /\ UNCHANGED worker
    [] Head(c.todo) = "close" ->
         /\ becomes([cur EXCEPT !.pause = IF @ = c.pause THEN Nobody ELSE @])
         /\ UNCHANGED worker
    [] OTHER ->
         /\ Len(cur.revs) < MaxMessages
         /\ becomes([cur EXCEPT !.revs = Append(@, 1)]) /\ UNCHANGED worker

refused(c) == Head(c.todo) = "accept" /\ cur.turn # Nobody
stepped(c) == [c EXCEPT !.todo = IF refused(c) THEN <<>> ELSE Tail(@), !.since = now + 1,
                        !.ok = ~refused(c)]

newCommand(kind, pause) ==
  [kind |-> kind, pause |-> pause, since |-> now, ok |-> TRUE,
   todo |-> CASE kind = "send" -> IF pause = Nobody THEN <<"accept">> ELSE <<"accept", "close">>
              [] kind = "answer" -> <<"close", "accept">>
              [] OTHER -> <<"close", "trace">>]

otherBegins(kind) ==
  /\ other.run.kind = "none" /\ other.left > 0
  /\ kind # "send" => cur.pause # Nobody
  /\ other' = [run |-> newCommand(kind, cur.pause), left |-> other.left - 1]
  /\ UNCHANGED <<server, stream, phone, left>>

otherSteps ==
  /\ other.run.todo # <<>> /\ stepOf(other.run)
  /\ other' = [other EXCEPT !.run = IF Len(stepped(@).todo) = 0 THEN NoCommand ELSE stepped(@)]
  /\ UNCHANGED <<asked, ended, stream, phone, left>>

runsTurn ==
  /\ worker = "queued" /\ worker' = "running"
  /\ tell([type |-> "turn.started", turn |-> cur.turn])
  /\ UNCHANGED <<hist, asked, ended, other, phone, left>>

writes(m) ==
  /\ cur.revs[m] < MaxRevision /\ becomes(raised(m))
  /\ tell([type |-> "message.updated", message |-> m, revision |-> cur.revs[m] + 1])

update ==
  /\ worker = "running" /\ writes(cur.turn)
  /\ UNCHANGED <<worker, asked, ended, other, phone, left>>

(* The question is open before the message that asks it is written. *)
open ==
  /\ worker = "running" /\ cur.pause = Nobody /\ asked[cur.turn] = 0
  /\ cur.revs[cur.turn] < MaxRevision
  /\ becomes([cur EXCEPT !.pause = cur.turn]) /\ worker' = "asking"
  /\ UNCHANGED <<asked, ended, other, stream, phone, left>>

ask ==
  /\ worker = "asking" /\ worker' = "running" /\ writes(cur.turn)
  /\ asked' = [asked EXCEPT ![cur.turn] = cur.revs[cur.turn] + 1]
  /\ UNCHANGED <<ended, other, phone, left>>

finish ==
  /\ worker = "running" /\ ended = NoEnd
  /\ becomes([cur EXCEPT !.turn = Nobody]) /\ worker' = "none"
  /\ ended' = [turn |-> cur.turn, since |-> now + 1, read |-> TRUE]
  /\ UNCHANGED <<asked, other, stream, phone, left>>

(* Recovery ends the turn, settles its text and reports the end without a   *)
(* window.                                                                  *)
recover ==
  /\ Recovery /\ worker # "none" /\ ended = NoEnd /\ cur.revs[cur.turn] < MaxRevision
  /\ becomes([cur EXCEPT !.turn = Nobody]) /\ worker' = "none"
  /\ ended' = [turn |-> cur.turn, since |-> now + 1, read |-> FALSE]
  /\ UNCHANGED <<asked, other, stream, phone, left>>

finished ==
  /\ ended # NoEnd /\ ended' = NoEnd
  /\ IF ended.read
     THEN /\ \E w \in windowsSince(ended.since) :
               tell([type |-> "turn.finished", turn |-> ended.turn, window |-> {w}])
          /\ UNCHANGED hist
     ELSE /\ becomes(raised(ended.turn))
          /\ tell([type |-> "turn.finished", turn |-> ended.turn, window |-> {}])
  /\ UNCHANGED <<worker, asked, other, phone, left>>

(* The end is not published, or its window could not be read. *)
unpublished ==
  /\ Unreliable /\ ended # NoEnd /\ left.losses > 0 /\ ended' = NoEnd
  /\ left' = [left EXCEPT !.losses = @ - 1, !.heard = FALSE]
  /\ UNCHANGED <<hist, worker, asked, other, stream, phone>>

-----------------------------------------------------------------------------
(* assistant-chat.ts: where a window stands, and how it is merged.          *)
shared(h, w) == 1..(IF Len(h.revs) < Len(w.revs) THEN Len(h.revs) ELSE Len(w.revs))

order(h, w) ==
  CASE \E i \in shared(h, w) : w.revs[i] < h.revs[i] -> "behind"
    [] shared(h, w) = {} /\ w.revs # <<>> -> "ahead"
    [] Len(w.revs) < Len(h.revs) -> "behind"
    [] Len(w.revs) = Len(h.revs) /\ \A i \in shared(h, w) : w.revs[i] = h.revs[i] -> "same"
    [] OTHER -> "ahead"

laterOf(h, w, i) == IF i \in DOMAIN w.revs /\ w.revs[i] > h.revs[i] THEN w.revs[i] ELSE h.revs[i]

merge(h, w) ==
  IF order(h, w) = "behind"
  THEN [h EXCEPT !.revs = [i \in DOMAIN h.revs |-> laterOf(h, w, i)]]
  ELSE [w EXCEPT !.revs = [i \in DOMAIN w.revs |->
                              IF i \in DOMAIN h.revs THEN laterOf(h, w, i) ELSE w.revs[i]]]

-----------------------------------------------------------------------------
(* assistant-thread-merge.ts *)
reopensAsked(h, pause) ==
  /\ h.pause = Nobody /\ pause # Nobody
  /\ pause \in DOMAIN h.revs /\ asked[pause] # 0 /\ h.revs[pause] >= asked[pause]

(* Mutation: closed questions are not remembered. *)
reopensClosedForgotten(s, pause) == FALSE
reopensClosed(s, pause) == pause \in s.closed

turnStillRunning(s) == IF s.thread.turn \in s.finished THEN Nobody ELSE s.thread.turn

withHeldPause(s, w) == IF s.known THEN [w EXCEPT !.pause = s.thread.pause] ELSE w

vouchedWindow(s, w, settles) ==
  LET at == IF s.known THEN order(s.thread, w) ELSE "ahead"
      doubted == at = "same" /\ ~settles
      restores == \/ doubted /\ s.thread.turn = Nobody /\ w.turn # Nobody
                  \/ w.turn \in s.finished
      reopens == reopensClosed(s, w.pause) \/ (doubted /\ reopensAsked(s.thread, w.pause))
      vouched == [withHeldPause(s, w) EXCEPT !.turn = IF restores THEN turnStillRunning(s) ELSE @]
  IN IF at = "behind" /\ ~settles THEN [window |-> w, reread |-> TRUE, stands |-> FALSE]
     ELSE IF restores \/ reopens
     THEN [window |-> vouched, reread |-> TRUE, stands |-> at = "behind"]
     ELSE [window |-> w, reread |-> FALSE, stands |-> at = "behind"]

settleTracked(s) == IF s.thread.turn = Nobody THEN [s EXCEPT !.tracked = Nobody] ELSE s

joinWindow(s, w, settles) ==
  LET v == vouchedWindow(s, w, settles)
      merged == IF s.known THEN merge(s.thread, v.window) ELSE v.window
      thread == IF v.stands THEN [merged EXCEPT !.turn = v.window.turn, !.pause = v.window.pause]
                ELSE merged
  IN [state |-> settleTracked([s EXCEPT !.known = TRUE, !.thread = thread]),
      reread |-> v.reread]

(* Mutation: a re-read leaves the question as it is shown. *)
applyAssistantRereadHolds(s, w, settles) ==
  LET applied == joinWindow(s, withHeldPause(s, w), settles)
  IN [applied EXCEPT !.reread = @ /\ ~settles]

applyAssistantReread(s, w, settles) ==
  LET applied == joinWindow(s, w, settles)
  IN [applied EXCEPT !.reread = @ /\ ~settles]

pauseAnswered(s, q) == IF q = Nobody THEN s ELSE [s EXCEPT !.closed = @ \cup {q}]

withPauseSeenClosed(s, applied) ==
  IF applied.state.thread.pause = s.thread.pause THEN applied
  ELSE [applied EXCEPT !.state = pauseAnswered(@, s.thread.pause)]

applyMessageUpdated(s, m, revision) ==
  IF ~s.known \/ m \notin DOMAIN s.thread.revs THEN [state |-> s, reread |-> TRUE]
  ELSE [state |-> IF s.thread.revs[m] >= revision THEN s
                  ELSE [s EXCEPT !.thread.revs[m] = revision],
        reread |-> FALSE]

(* Mutation: an end is applied and nothing is read again. *)
applyTurnFinishedTrusts(s, turn, window) ==
  LET tracked == s.tracked = turn
      told == [s EXCEPT !.tracked = IF tracked THEN Nobody ELSE @,
                        !.finished = @ \cup {turn}]
  IN IF window = {} THEN [state |-> told, reread |-> FALSE]
     ELSE LET w == CHOOSE w \in window : TRUE
          IN IF tracked THEN withPauseSeenClosed(s, joinWindow(told, w, FALSE))
             ELSE joinWindow(told, withHeldPause(s, w), FALSE)

applyTurnFinished(s, turn, window) ==
  LET tracked == s.tracked = turn
      told == [s EXCEPT !.tracked = IF tracked THEN Nobody ELSE @,
                        !.finished = @ \cup {turn}]
  IN IF window = {} THEN [state |-> told, reread |-> TRUE]
     ELSE LET w == CHOOSE w \in window : TRUE
          IN IF tracked THEN withPauseSeenClosed(s, joinWindow(told, w, FALSE))
             ELSE [joinWindow(told, withHeldPause(s, w), FALSE) EXCEPT !.reread = TRUE]

applyAssistantStreamEvent(s, e) ==
  CASE e.type = "turn.started" -> [state |-> [s EXCEPT !.tracked = e.turn], reread |-> FALSE]
    [] e.type = "message.updated" -> applyMessageUpdated(s, e.message, e.revision)
    [] OTHER -> applyTurnFinished(s, e.turn, e.window)

isWindow(e) == e.type = "turn.finished" /\ e.window # {}

-----------------------------------------------------------------------------
(* use-assistant-conversation.ts.  A window since a re-read was issued, and *)
(* the re-read no longer settles; one read at a time, one more if asked.    *)
afterWindow(again) ==
  IF reread.since # 0 THEN [reread EXCEPT !.fresh = FALSE, !.again = @ \/ again]
  ELSE IF again THEN [since |-> now, fresh |-> TRUE, again |-> FALSE] ELSE reread

afterEvent(again) ==
  IF reread.since # 0 THEN [reread EXCEPT !.again = @ \/ again]
  ELSE IF again THEN [since |-> now, fresh |-> TRUE, again |-> FALSE] ELSE reread

begins(kind) ==
  /\ command.kind = "none" /\ left.commands > 0
  /\ kind # "send" => state.thread.pause # Nobody
  /\ command' = newCommand(kind, IF kind = "send" THEN cur.pause ELSE state.thread.pause)
  /\ left' = [left EXCEPT !.commands = @ - 1]
  /\ UNCHANGED <<server, other, stream, state, reread>>

commandSteps ==
  /\ command.todo # <<>> /\ stepOf(command) /\ command' = stepped(command)
  /\ UNCHANGED <<asked, ended, other, stream, state, reread, left>>

responds ==
  /\ command.kind # "none" /\ command.todo = <<>> /\ command' = NoCommand
  /\ \E w \in windowsSince(command.since) :
       LET applied == joinWindow(state, w, FALSE)
       IN /\ state' = IF command.kind \in {"answer", "dismiss"} /\ command.ok
                      THEN pauseAnswered(applied.state, command.pause) ELSE applied.state
          /\ reread' = afterWindow(applied.reread)
  /\ UNCHANGED <<server, other, stream, left>>

(* The answer of a command is lost; the phone keeps what it shows. *)
unreachable ==
  /\ command.kind # "none" /\ command.todo = <<>> /\ left.losses > 0
  /\ command' = NoCommand /\ left' = [left EXCEPT !.losses = @ - 1]
  /\ UNCHANGED <<server, other, stream, state, reread>>

rereads ==
  /\ reread.since # 0
  /\ \E w \in windowsSince(reread.since) :
       LET applied == applyAssistantReread(state, w, reread.fresh)
       IN /\ state' = applied.state
          /\ reread' = IF reread.again \/ applied.reread
                       THEN [since |-> now, fresh |-> TRUE, again |-> FALSE] ELSE NoReread
  /\ UNCHANGED <<server, other, stream, command, left>>

(* A re-read that fails is dropped in silence. *)
rereadFails ==
  /\ Unreliable /\ reread.since # 0 /\ left.losses > 0
  /\ left' = [left EXCEPT !.losses = @ - 1, !.heard = FALSE]
  /\ reread' = IF reread.again THEN [since |-> now, fresh |-> TRUE, again |-> FALSE]
               ELSE NoReread
  /\ UNCHANGED <<server, other, stream, state, command>>

onSnapshot ==
  /\ ~stream.snapshot /\ stream' = [stream EXCEPT !.snapshot = TRUE]
  /\ \E w \in windowsSince(stream.since) :
       LET applied == joinWindow(state, w, FALSE)
       IN state' = applied.state /\ reread' = afterWindow(applied.reread)
  /\ UNCHANGED <<server, other, command, left>>

onEvent ==
  /\ stream.snapshot /\ stream.events # <<>>
  /\ LET e == Head(stream.events)
         applied == applyAssistantStreamEvent(state, e)
     IN /\ state' = applied.state
        /\ reread' = IF isWindow(e) THEN afterWindow(applied.reread)
                     ELSE afterEvent(applied.reread)
  /\ stream' = [stream EXCEPT !.events = Tail(@)]
  /\ UNCHANGED <<server, other, command, left>>

(* A connection breaks: its events are gone, the next begins anew. *)
reconnects ==
  /\ left.losses > 0 /\ left' = [left EXCEPT !.losses = @ - 1]
  /\ stream' = [since |-> now, snapshot |-> FALSE, events |-> <<>>]
  /\ UNCHANGED <<server, other, phone>>

-----------------------------------------------------------------------------
Phone == responds \/ rereads \/ onSnapshot \/ onEvent
Server == commandSteps \/ otherSteps \/ runsTurn \/ update \/ open \/ ask \/ finish \/ recover \/ finished

ThreadNext ==
  \/ Phone \/ Server \/ unreachable \/ rereadFails
  \/ reconnects \/ unpublished
  \/ \E kind \in Commands : begins(kind)
  \/ \E kind \in OtherCommands : otherBegins(kind)

ThreadSpec == ThreadInit /\ [][ThreadNext]_threadVars

-----------------------------------------------------------------------------

quiet ==
  /\ command.kind = "none" /\ reread.since = 0 /\ stream.snapshot /\ stream.events = <<>>
  /\ worker = "none" /\ ended = NoEnd /\ other.run.kind = "none"

(* The last state in which a turn ran, and what was silent since.           *)
lastEnd == CHOOSE n \in 1..now : /\ n = 1 \/ hist[n - 1].turn # Nobody
                                 /\ \A k \in n..now : hist[k].turn = Nobody

(* Rule 3: when nothing is under way, the phone shows no turn and every     *)
(* message as it was when the last turn ended, or later.                    *)
QuietIsIdle ==
  quiet =>
    /\ state.thread.turn = Nobody
    /\ Len(state.thread.revs) >= Len(hist[lastEnd].revs)
    /\ \A i \in DOMAIN hist[lastEnd].revs : state.thread.revs[i] >= hist[lastEnd].revs[i]

(* ... and the question that was open then, or one of what is open since.   *)
QuietShowsQuestion ==
  quiet => state.thread.pause \in {hist[k].pause : k \in lastEnd..now}

(* The thread is of its type, and at rest as rule 3 says, unless a re-read  *)
(* or a publication failed, of which the phone hears nothing.               *)
ThreadSound == ThreadTypeOK /\ (left.heard => QuietIsIdle)

(* No message of the thread goes back to an earlier revision or is lost,    *)
(* whatever windows and events arrive in whatever order                     *)
(* (mergeAssistantChatWindow).                                              *)
NeverBack ==
  [][\A i \in DOMAIN state.thread.revs :
       /\ i \in DOMAIN state'.thread.revs
       /\ state'.thread.revs[i] >= state.thread.revs[i]]_threadVars

(* A question that this phone answered, dismissed or saw closed does not    *)
(* come back once it has left the screen (reopensClosed).                   *)
NeverReopens ==
  [][\A q \in state.closed : state.thread.pause # q => state'.thread.pause # q]_threadVars

(* What no step of the phone does: take a message back or show a closed     *)
(* question again.                                                          *)
ThreadForward == NeverBack /\ NeverReopens

(* Rule 3 ends: once the server is done with its turns, the phone stops     *)
(* reading ("Re-reading is not polling") and shows no turn, whatever order  *)
(* windows and events came in and whichever of them a broken connection     *)
(* took away.                                                               *)
SettlesDown ==
  <>[](worker = "none" /\ ended = NoEnd)
    => <>[](state.thread.turn = Nobody /\ reread.since = 0)
=============================================================================
