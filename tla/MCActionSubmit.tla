--------------------------- MODULE MCActionSubmit ---------------------------
(***************************************************************************)
(* Small instances of ActionSubmit for TLC.  In a behaviour either all     *)
(* requests are gated or none is, and gated ones may meet fewer faults.    *)
(***************************************************************************)
EXTENDS ActionSubmit, TLC

CONSTANT MaxGatedFaults

VARIABLE gated

AnyRequest == [c \in Callers |-> Keys \X Payloads]
AllShare == [c \in Callers |-> Callers]

Symmetry == Permutations(Callers) \cup Permutations(Payloads)

OfOneKind ==
    /\ \A c \in Callers : pc'[c] # "idle" => (gated <=> req'[c].mode # "plain")
    /\ gated => faults' <= MaxGatedFaults

MCInit == Init /\ gated \in {m # "plain" : m \in Modes}
MCNext == Next /\ OfOneKind /\ UNCHANGED gated
MCSpec == MCInit /\ [][MCNext]_<<vars, gated>>

=============================================================================
