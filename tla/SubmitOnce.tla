----------------------------- MODULE SubmitOnce -----------------------------
(***************************************************************************)
(* What the idempotency protocol promises a client.  A key has retention   *)
(* windows; in each window the action takes effect at most once, and every *)
(* result a client is given for the key is the result of that one effect   *)
(* on the input the client sent.                                           *)
(***************************************************************************)
EXTENDS Naturals

CONSTANTS Callers, Keys, Windows, Effects, NoAnswer, Refused

VARIABLES
    window,   \* the key's current retention window
    effects,  \* effects[k][w]: what the action did for key k in window w
    answer    \* the last thing a caller was told

Init ==
    /\ window = [k \in Keys |-> 0]
    /\ effects = [k \in Keys |-> [w \in Windows |-> {}]]
    /\ answer = [c \in Callers |-> NoAnswer]

(* The one effect of the window, which a caller may be told of at once or  *)
(* never (its connection is lost after the commit).                        *)
Perform(k, e) ==
    /\ effects[k][window[k]] = {}
    /\ effects' = [effects EXCEPT ![k] = [effects[k] EXCEPT ![window[k]] = {e}]]
    /\ UNCHANGED window
    /\ \/ UNCHANGED answer
       \/ \E c \in Callers : answer' = [answer EXCEPT ![c] = e]

(* A later caller is told of the effect of the current window.             *)
Tell(c, k, e) ==
    /\ e \in effects[k][window[k]]
    /\ answer' = [answer EXCEPT ![c] = e]
    /\ UNCHANGED <<window, effects>>

(* A caller asks again, or is refused.                                     *)
Ask(c) ==
    /\ \E a \in {NoAnswer, Refused} : answer' = [answer EXCEPT ![c] = a]
    /\ UNCHANGED <<window, effects>>

(* Retention has passed and the key is used again.                         *)
Reopen(k) ==
    /\ window' = [window EXCEPT ![k] = @ + 1]
    /\ UNCHANGED <<effects, answer>>

Next ==
    \/ \E c \in Callers : Ask(c)
    \/ \E k \in Keys : Reopen(k)
    \/ \E k \in Keys, e \in Effects : Perform(k, e)
    \/ \E c \in Callers, k \in Keys, e \in Effects : Tell(c, k, e)

Spec == Init /\ [][Next]_<<window, effects, answer>>

=============================================================================
