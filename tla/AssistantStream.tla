--------------------------- MODULE AssistantStream ---------------------------
(***************************************************************************)
(* The event streams of one person on one conversation, in one process of  *)
(* the API: GET /assistant/kit/events takes a slot, subscribes to the hub, *)
(* reads a snapshot, then writes the snapshot and every published event,   *)
(* while heartbeats renew its leases in Redis and check the session.       *)
(*                                                                         *)
(* Writes of the conversation are numbered: a snapshot or an event is the  *)
(* number of the write it shows.  A stream is a connection; a client that  *)
(* comes back is another stream.  Streams also name the channel entries    *)
(* of the hub: an entry has the name of the stream that created it.        *)
(***************************************************************************)
EXTENDS Integers, Sequences, FiniteSets, SequencesExt

CONSTANTS
  Streams,
  Limit,       \* ASSISTANT_STREAMS_PER_USER
  PendingMax,  \* ASSISTANT_STREAM_PENDING_WRITES_MAX
  Ttl,         \* ASSISTANT_PRESENCE_TTL_MS, in heartbeats
  SlowStores,  \* may a request to a store outlast a heartbeat
  Happens,     \* what may happen besides: see Outside
  MaxWrites, MaxLosses, MaxFaults,
  None

Outside == {"heartbeat", "leave", "idle", "signOut", "shutdown"}

StreamAssumption ==
  /\ IsFiniteSet(Streams) /\ None \notin Streams /\ SlowStores \in BOOLEAN
  /\ Happens \subseteq Outside
  /\ {Limit, PendingMax, Ttl} \subseteq Nat \ {0}
  /\ {MaxWrites, MaxLosses, MaxFaults} \subseteq Nat

VARIABLES
  db,        \* number of writes of the conversation in Postgres
  due,       \* the write that the worker has yet to publish, or 0
  published, \* writes whose event Redis accepted
  hub,       \* the subscriber connection and the channel's entry
  st,        \* the streams
  slot,      \* heartbeats left to a stream's slot
  presence,  \* heartbeats left to a stream's presence
  session,   \* is the person still signed in
  shutdown,  \* the process: running, closing, or every stream closed
  dropped,   \* streams one of whose releases failed
  faults     \* requests to a store that failed, up to MaxFaults

vars == <<db, due, published, hub, st, slot, presence, session, shutdown, dropped, faults>>
redis == <<slot, presence>>
worker == <<db, due, published>>

NewStream ==
  [at |-> "new", entry |-> None, stop |-> FALSE, gone |-> FALSE, closed |-> FALSE,
   deliver |-> FALSE, pending |-> <<>>, out |-> <<>>, got |-> <<>>, snapshot |-> 0,
   beat |-> "none"]

Setup == {"subscribing", "reading", "read"}
Body == {"entering", "entered", "open"}
Cleanup == {"draining", "unsubscribing", "leaving", "releasing"}
Over == {"new", "refused", "failed", "done"}

TypeOK ==
  /\ db \in 0..MaxWrites /\ due \in 0..MaxWrites /\ published \subseteq 1..MaxWrites
  /\ hub.up \in BOOLEAN /\ hub.subscribed \in BOOLEAN /\ hub.losses \in 0..MaxLosses
  /\ hub.channel \in Streams \cup {None} /\ hub.ready \in [Streams -> {"no", "yes", "failed"}]
  /\ \A s \in Streams :
       /\ st[s].at \in Setup \cup Body \cup Cleanup \cup Over \cup {"unsubscribed"}
       /\ st[s].entry \in Streams \cup {None}
       /\ Len(st[s].pending) <= PendingMax /\ Len(st[s].out) <= PendingMax
       /\ st[s].beat \in {"none", "session", "enter", "refresh"}
       /\ st[s].at \in Body \/ st[s].out = <<>>
  /\ slot \in [Streams -> 0..Ttl] /\ presence \in [Streams -> 0..Ttl]
  /\ session \in BOOLEAN /\ shutdown.at \in {"running", "closing", "closed"}
  /\ dropped \subseteq Streams /\ faults \in 0..MaxFaults

Init ==
  /\ db = 0 /\ due = 0 /\ published = {}
  /\ hub = [up |-> TRUE, subscribed |-> FALSE, wire |-> <<>>, commands |-> <<>>,
            channel |-> None, ready |-> [s \in Streams |-> "no"], losses |-> 0]
  /\ st = [s \in Streams |-> NewStream]
  /\ slot = [s \in Streams |-> 0] /\ presence = [s \in Streams |-> 0]
  /\ session = TRUE /\ shutdown = [at |-> "running", streams |-> {}]
  /\ dropped = {} /\ faults = 0

Snapshot(n) == [frame |-> "snapshot", write |-> n]
Event(n) == [frame |-> "event", write |-> n]
Heartbeat == [frame |-> "heartbeat", write |-> 0]

started(r) == r.at \in Body \cup Cleanup
end(r) == [r EXCEPT !.closed = TRUE]
requestStop(r) == [r EXCEPT !.stop = TRUE, !.closed = @ \/ started(r)]

(* A frame is counted before it is queued; one too many ends the stream. *)
enqueue(r, frame) ==
  IF r.closed THEN r
  ELSE IF Len(r.out) + 1 > PendingMax THEN end(r)
  ELSE [r EXCEPT !.out = Append(@, frame)]

onEvent(r, n) ==
  IF r.deliver THEN enqueue(r, Event(n))
  ELSE IF r.stop THEN r
  ELSE IF Len(r.pending) + 1 > PendingMax THEN requestStop([r EXCEPT !.pending = <<>>])
  ELSE [r EXCEPT !.pending = Append(@, n)]

listeners(e) == {s \in Streams : st[s].entry = e}
step(s, at) == st' = [st EXCEPT ![s].at = at]
fault == faults < MaxFaults /\ faults' = faults + 1
sent(s) == \A i \in DOMAIN hub.commands : hub.commands[i].by # s

-----------------------------------------------------------------------------
(* The worker: a write, then the event that reports it. *)
write ==
  /\ db < MaxWrites /\ due = 0
  /\ db' = db + 1 /\ due' = db + 1
  /\ UNCHANGED <<published, hub, st, redis, session, shutdown, dropped, faults>>

publish ==
  /\ due # 0 /\ due' = 0 /\ published' = published \cup {due}
  /\ hub' = IF hub.subscribed THEN [hub EXCEPT !.wire = Append(@, due)] ELSE hub
  /\ UNCHANGED <<db, st, redis, session, shutdown, dropped, faults>>

(* Logged and forgotten: the write stands without its event. *)
publishFails ==
  /\ due # 0 /\ due' = 0 /\ fault
  /\ UNCHANGED <<db, published, hub, st, redis, session, shutdown, dropped>>

-----------------------------------------------------------------------------
(* The hub: commands of one connection in order, one entry per channel. *)
answersCommand ==
  /\ hub.up /\ hub.commands # <<>>
  /\ LET c == Head(hub.commands) IN
       hub' = [hub EXCEPT !.commands = Tail(@), !.subscribed = c.op = "subscribe",
                          !.ready[c.by] = IF c.op = "subscribe" THEN "yes" ELSE @]
  /\ UNCHANGED <<worker, st, redis, session, shutdown, dropped, faults>>

onMessage ==
  /\ hub.wire # <<>>
  /\ hub' = [hub EXCEPT !.wire = Tail(@)]
  /\ st' = [s \in Streams |-> IF hub.channel # None /\ st[s].entry = hub.channel
                              THEN onEvent(st[s], Head(hub.wire)) ELSE st[s]]
  /\ UNCHANGED <<worker, redis, session, shutdown, dropped, faults>>

(* Every listener hears of the loss and the entry is forgotten; commands    *)
(* without an answer are sent again on the next connection.                 *)
onClose ==
  /\ hub.up /\ hub.losses < MaxLosses
  /\ hub' = [hub EXCEPT !.up = FALSE, !.subscribed = FALSE, !.wire = <<>>,
                        !.channel = None, !.losses = @ + 1]
  /\ st' = [s \in Streams |-> IF hub.channel # None /\ st[s].entry = hub.channel
                              THEN requestStop(st[s]) ELSE st[s]]
  /\ UNCHANGED <<worker, redis, session, shutdown, dropped, faults>>

reconnects ==
  /\ ~hub.up /\ hub' = [hub EXCEPT !.up = TRUE]
  /\ UNCHANGED <<worker, st, redis, session, shutdown, dropped, faults>>

(* The client gives up on the commands that wait for a connection. *)
commandsFail ==
  /\ ~hub.up /\ hub.commands # <<>> /\ fault
  /\ LET lost == {hub.commands[i].by : i \in {j \in DOMAIN hub.commands :
                                                hub.commands[j].op = "subscribe"}}
     IN hub' = [hub EXCEPT !.commands = <<>>,
                           !.ready = [s \in Streams |-> IF s \in lost THEN "failed" ELSE @[s]]]
  /\ UNCHANGED <<worker, st, redis, session, shutdown, dropped>>

subscribed(s) ==
  IF hub.channel # None THEN hub
  ELSE [hub EXCEPT !.channel = s, !.commands = Append(@, [op |-> "subscribe", by |-> s])]

(* Mutation: an entry that was replaced is released as if it were the current one. *)
releasedStale(s) ==
  IF listeners(st[s].entry) = {s}
  THEN [hub EXCEPT !.channel = None,
                   !.commands = Append(@, [op |-> "unsubscribe", by |-> s])]
  ELSE hub

(* The last listener of the current entry takes the subscription with it. *)
released(s) ==
  IF listeners(st[s].entry) = {s} /\ hub.channel = st[s].entry
  THEN [hub EXCEPT !.channel = None,
                   !.commands = Append(@, [op |-> "unsubscribe", by |-> s])]
  ELSE hub

-----------------------------------------------------------------------------
(* The request, up to the first byte of the answer. *)
acquired(s) == Cardinality({t \in Streams : slot[t] > 0}) < Limit

request(s) ==
  /\ st[s].at = "new" /\ shutdown.at = "running" /\ session
  /\ IF acquired(s)
     THEN /\ slot' = [slot EXCEPT ![s] = Ttl]
          /\ hub' = subscribed(s)
          /\ st' = [st EXCEPT ![s].at = "subscribing", ![s].entry = hub'.channel]
     ELSE step(s, "refused") /\ UNCHANGED <<slot, hub>>
  /\ UNCHANGED <<worker, presence, session, shutdown, dropped, faults>>

(* The script may have run when its answer is lost. *)
requestFails(s) ==
  /\ st[s].at = "new" /\ shutdown.at = "running" /\ acquired(s) /\ fault
  /\ slot' = [slot EXCEPT ![s] = Ttl] /\ dropped' = dropped \cup {s}
  /\ step(s, "failed")
  /\ UNCHANGED <<worker, hub, presence, session, shutdown>>

subscribes(s) ==
  /\ st[s].at = "subscribing"
  /\ \/ hub.ready[st[s].entry] = "yes" /\ step(s, "reading") /\ UNCHANGED hub
     \/ /\ hub.ready[st[s].entry] = "failed"
        /\ hub' = released(s)
        /\ st' = [st EXCEPT ![s].at = "unsubscribed", ![s].entry = None]
  /\ UNCHANGED <<worker, redis, session, shutdown, dropped, faults>>

readsSnapshot(s) ==
  /\ st[s].at = "reading"
  /\ st' = [st EXCEPT ![s].at = "read", ![s].snapshot = db]
  /\ UNCHANGED <<worker, hub, redis, session, shutdown, dropped, faults>>

readFails(s) ==
  /\ st[s].at = "reading" /\ fault
  /\ hub' = released(s)
  /\ st' = [st EXCEPT ![s].at = "unsubscribed", ![s].entry = None]
  /\ UNCHANGED <<worker, redis, session, shutdown, dropped>>

(* A request that fails before its stream starts gives its slot back. *)
givesUp(s) ==
  /\ st[s].at = "unsubscribed" /\ sent(s) /\ step(s, "failed")
  /\ \/ slot' = [slot EXCEPT ![s] = 0] /\ UNCHANGED <<dropped, faults>>
     \/ fault /\ dropped' = dropped \cup {s} /\ UNCHANGED slot
  /\ UNCHANGED <<worker, hub, presence, session, shutdown>>

-----------------------------------------------------------------------------
(* The stream. *)
starts(s) ==
  /\ st[s].at = "read"
  /\ st' = [st EXCEPT ![s].at = IF st[s].stop \/ st[s].gone THEN "entered" ELSE "entering",
                      ![s].closed = st[s].stop \/ st[s].gone]
  /\ UNCHANGED <<worker, hub, redis, session, shutdown, dropped, faults>>

entersPresence(s) ==
  /\ st[s].at = "entering"
  /\ step(s, "entered") /\ presence' = [presence EXCEPT ![s] = Ttl]
  /\ UNCHANGED <<worker, hub, slot, session, shutdown, dropped, faults>>

(* The snapshot first, then what arrived meanwhile, then the rest. *)
opened(r) ==
  LET flushed == FoldLeft(LAMBDA q, n : enqueue(q, Event(n)),
                          enqueue(r, Snapshot(r.snapshot)), r.pending)
  IN [flushed EXCEPT !.at = "open", !.deliver = TRUE, !.pending = <<>>]

opens(s) ==
  /\ st[s].at = "entered"
  /\ st' = [st EXCEPT ![s] = opened(@)]
  /\ UNCHANGED <<worker, hub, redis, session, shutdown, dropped, faults>>

(* The socket takes the frame at the head; nothing obliges a client to read. *)
clientReads(s) ==
  /\ st[s].at = "open" /\ ~st[s].closed /\ st[s].out # <<>>
  /\ st' = [st EXCEPT ![s].out = Tail(@),
                      ![s].got = IF Head(st[s].out) = Heartbeat THEN @
                                 ELSE Append(@, Head(st[s].out))]
  /\ UNCHANGED <<worker, hub, redis, session, shutdown, dropped, faults>>

disconnects(s) ==
  /\ "leave" \in Happens /\ st[s].at \in Setup \cup Body /\ ~st[s].gone
  /\ st' = [st EXCEPT ![s].gone = TRUE, ![s].closed = @ \/ started(st[s])]
  /\ UNCHANGED <<worker, hub, redis, session, shutdown, dropped, faults>>

idle(s) ==
  /\ "idle" \in Happens /\ st[s].at = "open" /\ ~st[s].closed
  /\ st' = [st EXCEPT ![s] = end(@)]
  /\ UNCHANGED <<worker, hub, redis, session, shutdown, dropped, faults>>

-----------------------------------------------------------------------------
(* Heartbeats, and the leases that they renew. *)
less(n) == IF n = 0 THEN 0 ELSE n - 1
beats(r) == r.at = "open" /\ ~r.closed /\ r.beat = "none"

heartbeat(s) ==
  /\ "heartbeat" \in Happens
  /\ slot[s] + presence[s] > 0 \/ beats(st[s])
  /\ \/ SlowStores
     \/ /\ st[s].beat = "none"
        /\ st[s].at \in Setup \cup {"entering", "entered"} => slot[s] = Ttl
  /\ slot' = [slot EXCEPT ![s] = less(@)] /\ presence' = [presence EXCEPT ![s] = less(@)]
  /\ st' = [st EXCEPT ![s].beat = IF beats(st[s]) THEN "session" ELSE @]
  /\ UNCHANGED <<worker, hub, session, shutdown, dropped, faults>>

getSession(s) ==
  /\ st[s].beat = "session"
  /\ st' = [st EXCEPT ![s].beat = IF session /\ ~st[s].closed THEN "enter" ELSE "none",
                      ![s].closed = @ \/ ~session]
  /\ UNCHANGED <<worker, hub, redis, session, shutdown, dropped, faults>>

beatEnters(s) ==
  /\ st[s].beat = "enter"
  /\ st' = [st EXCEPT ![s].beat = "refresh"]
  /\ presence' = [presence EXCEPT ![s] = Ttl]
  /\ UNCHANGED <<worker, hub, slot, session, shutdown, dropped, faults>>

beatRefreshes(s) ==
  /\ st[s].beat = "refresh"
  /\ st' = [st EXCEPT ![s] = enqueue([@ EXCEPT !.beat = "none"], Heartbeat)]
  /\ slot' = [slot EXCEPT ![s] = Ttl]
  /\ UNCHANGED <<worker, hub, presence, session, shutdown, dropped, faults>>

beatFails(s) ==
  /\ st[s].beat # "none" /\ fault
  /\ st' = [st EXCEPT ![s] = end([@ EXCEPT !.beat = "none"])]
  /\ UNCHANGED <<worker, hub, redis, session, shutdown, dropped>>

enterFails(s) ==
  /\ st[s].at = "entering" /\ fault
  /\ st' = [st EXCEPT ![s] = end([@ EXCEPT !.at = "open"])]
  /\ UNCHANGED <<worker, hub, redis, session, shutdown, dropped>>

signsOut ==
  /\ "signOut" \in Happens /\ session /\ session' = FALSE
  /\ UNCHANGED <<worker, hub, st, redis, shutdown, dropped, faults>>

-----------------------------------------------------------------------------
(* The end of a stream: abort, then the queue, the beat, the three releases. *)
aborted(r) == [r EXCEPT !.at = "draining", !.out = <<>>]

aborts(s) ==
  /\ st[s].at = "open" /\ st[s].closed
  /\ st' = [st EXCEPT ![s] = aborted(@)]
  /\ UNCHANGED <<worker, hub, redis, session, shutdown, dropped, faults>>

drained(s) == st[s].out = <<>> /\ st[s].beat = "none"

unsubscribes(s) ==
  /\ st[s].at = "draining" /\ drained(s)
  /\ hub' = released(s)
  /\ st' = [st EXCEPT ![s].at = "unsubscribing", ![s].deliver = FALSE, ![s].entry = None]
  /\ UNCHANGED <<worker, redis, session, shutdown, dropped, faults>>

unsubscribed(s) ==
  /\ st[s].at = "unsubscribing" /\ sent(s)
  /\ step(s, "leaving")
  /\ UNCHANGED <<worker, hub, redis, session, shutdown, dropped, faults>>

leavesPresence(s) ==
  /\ st[s].at = "leaving" /\ step(s, "releasing")
  /\ \/ presence' = [presence EXCEPT ![s] = 0] /\ UNCHANGED <<dropped, faults>>
     \/ fault /\ dropped' = dropped \cup {s} /\ UNCHANGED presence
  /\ UNCHANGED <<worker, hub, slot, session, shutdown>>

releasesSlot(s) ==
  /\ st[s].at = "releasing" /\ step(s, "done")
  /\ \/ slot' = [slot EXCEPT ![s] = 0] /\ UNCHANGED <<dropped, faults>>
     \/ fault /\ dropped' = dropped \cup {s} /\ UNCHANGED slot
  /\ UNCHANGED <<worker, hub, presence, session, shutdown>>

-----------------------------------------------------------------------------
(* Shutdown: no request is accepted any more, every open stream is ended,   *)
(* and their releases are awaited.                                          *)
live == {s \in Streams : started(st[s])}

closeAll ==
  /\ "shutdown" \in Happens /\ shutdown.at = "running"
  /\ shutdown' = [at |-> "closing", streams |-> live]
  /\ st' = [s \in Streams |-> IF s \in live THEN end(st[s]) ELSE st[s]]
  /\ UNCHANGED <<worker, hub, redis, session, dropped, faults>>

allClosed ==
  /\ shutdown.at = "closing" /\ \A s \in shutdown.streams : st[s].at = "done"
  /\ shutdown' = [shutdown EXCEPT !.at = "closed"]
  /\ UNCHANGED <<worker, hub, st, redis, session, dropped, faults>>

-----------------------------------------------------------------------------
Requests(s) == \/ subscribes(s) \/ readsSnapshot(s) \/ givesUp(s)
               \/ starts(s) \/ entersPresence(s) \/ opens(s)
Beats(s) == getSession(s) \/ beatEnters(s) \/ beatRefreshes(s)
Releases(s) == \/ aborts(s) \/ unsubscribes(s) \/ unsubscribed(s)
               \/ leavesPresence(s) \/ releasesSlot(s)

Next ==
  \/ write \/ publish \/ publishFails
  \/ answersCommand \/ onMessage \/ onClose \/ reconnects \/ commandsFail
  \/ \E s \in Streams :
       \/ request(s) \/ requestFails(s) \/ readFails(s)
       \/ clientReads(s) \/ disconnects(s) \/ idle(s)
       \/ heartbeat(s) \/ beatFails(s) \/ enterFails(s)
       \/ Requests(s) \/ Beats(s) \/ Releases(s)
  \/ signsOut \/ closeAll \/ allClosed

Spec == Init /\ [][Next]_vars

-----------------------------------------------------------------------------
held(s) == {st[s].got[i].write : i \in DOMAIN st[s].got}
             \cup {st[s].out[i].write : i \in DOMAIN st[s].out}
             \cup {st[s].pending[i] : i \in DOMAIN st[s].pending}
             \cup {hub.wire[i] : i \in DOMAIN hub.wire}

(* "Subscribed before reading, so nothing published between the read and    *)
(* the subscription is missed": a stream that has its snapshot and is not   *)
(* ending has, or is about to get, every published event that the snapshot  *)
(* does not show.                                                           *)
NoGap ==
  \A s \in Streams :
    st[s].at \in {"read"} \cup Body /\ ~st[s].closed /\ ~st[s].stop =>
      \A n \in published : n <= st[s].snapshot \/ n \in held(s)

(* "what keeps the snapshot first and the events in publish order": a       *)
(* client reads one snapshot, then events, each once and in their order.    *)
SnapshotThenEvents ==
  \A s \in Streams : \A i \in DOMAIN st[s].got :
    /\ (st[s].got[i].frame = "snapshot") = (i = 1)
    /\ i > 2 => st[s].got[i - 1].write < st[s].got[i].write

(* A stream that is over leaves neither slot nor presence behind, unless    *)
(* the release itself failed: a heartbeat in flight "cannot put back what   *)
(* the lines below remove".                                                 *)
LeavesNothing ==
  \A s \in Streams :
    st[s].at \in {"refused", "failed", "done"} /\ s \notin dropped =>
      slot[s] = 0 /\ presence[s] = 0

(* While stores answer within a heartbeat, no slot lapses under an open     *)
(* stream, whatever its client does, and a person stays within the limit.   *)
WithinLimit ==
  Cardinality({s \in Streams : st[s].at \in Setup \cup Body /\ ~st[s].closed}) <= Limit

(* closeAll returns: "waiting for the queue cannot hang on a client that    *)
(* stopped reading".                                                        *)
CloseAllReturns == []<>(shutdown.at # "closing")

(* "a session signed out or revoked elsewhere ends the stream", also that   *)
(* of a client which does not read.                                         *)
SignedOutEnds ==
  \A s \in Streams : []<>(session \/ st[s].at \notin Body)
=============================================================================
