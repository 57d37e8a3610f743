--------------------------- MODULE AggregateLog ---------------------------
(***************************************************************************)
(* What the outbox promises its readers: one log per aggregate, in which   *)
(* the n-th event is the one with aggregateSequence n.  A transaction      *)
(* appends all of its events in one step, at the ends of the logs, and     *)
(* does so at most once; nothing is inserted earlier, changed or removed.  *)
(***************************************************************************)
EXTENDS Naturals, Sequences

CONSTANTS Tx, Aggregates, Owner(_)  \* Owner(e): the transaction of event e

VARIABLES
    log,     \* [Aggregates -> sequence of events]
    written  \* the transactions that have committed

Init ==
    /\ log = [a \in Aggregates |-> <<>>]
    /\ written = {}

(* Transaction t commits: what it adds follows what was there.             *)
Write(t) ==
    /\ t \notin written
    /\ written' = written \cup {t}
    /\ \A a \in Aggregates :
         /\ Len(log[a]) <= Len(log'[a])
         /\ \A n \in 1 .. Len(log[a]) : log'[a][n] = log[a][n]
         /\ \A n \in (Len(log[a]) + 1) .. Len(log'[a]) : Owner(log'[a][n]) = t

Next == \E t \in Tx : Write(t)

Spec == Init /\ [][Next]_<<log, written>>
============================================================================
