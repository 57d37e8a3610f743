----------------------------- MODULE RateLimit -----------------------------
(***************************************************************************)
(* The rate-limit step of the pipeline (rate-limit/create-rate-limit-hook  *)
(* .ts) for one action and one client, on the token bucket in Redis        *)
(* (token-bucket.ts, and the script in stores/redis.ts of api and worker). *)
(*                                                                         *)
(* Time is counted in ticks, PerSec to the second.  Tokens are counted in  *)
(* units of 1 / Window token: a tick refills Limit units, a request takes  *)
(* Window of them.  A process reads its own clock and then sends the       *)
(* script; Redis runs scripts one at a time, in the order they arrive.     *)
(***************************************************************************)
EXTENDS Integers, Sequences, FiniteSets

CONSTANTS
    Processes,
    Limit,      \* requests per window
    Seconds,    \* windowSec
    PerSec,     \* ticks in a second
    Rotation,   \* ticks after which the key of a client changes
    MaxTime,    \* bound on the time
    MaxSkew,    \* how far a process's clock may be ahead of the time
    MaxDelay    \* how long a script may be on its way

RateAssumption ==
    /\ Limit \in Nat \ {0} /\ Seconds \in Nat \ {0} /\ PerSec \in Nat \ {0}
    /\ Rotation \in Nat \ {0}
    /\ MaxTime \in Nat /\ MaxSkew \in Nat /\ MaxDelay \in Nat

Window == Seconds * PerSec
Time == 0 .. MaxTime
Clock == 0 .. (MaxTime + MaxSkew)
BucketKeys == 0 .. ((MaxTime + MaxSkew) \div Rotation)
Classes == {"read", "mutation", "public"}
Unset == -1

VARIABLES
    now,      \* the time
    skew,     \* [Processes -> how far its clock is ahead]
    request,  \* [Processes -> the request it handles, NoRequest for none]
    bucket,   \* [BucketKeys -> the hash under that key, NoBucket for none]
    grants,   \* [BucketKeys -> when the requests that got its tokens were made]
    hint,     \* [BucketKeys -> when the client last refused was told to come back]
    admitted  \* [BucketKeys -> how many requests other than reads passed]

rateVars == <<now, skew, request, bucket, grants, hint, admitted>>

NoRequest == [class |-> "none", stamp |-> Unset, sentAt |-> Unset]
NoBucket == [tokens |-> Unset, updatedAt |-> Unset, setAt |-> Unset]

RateInit ==
    /\ now = 0
    /\ skew = [p \in Processes |-> 0]
    /\ request = [p \in Processes |-> NoRequest]
    /\ bucket = [k \in BucketKeys |-> NoBucket]
    /\ grants = [k \in BucketKeys |-> <<>>]
    /\ hint = [k \in BucketKeys |-> Unset]
    /\ admitted = [k \in BucketKeys |-> 0]

LowerOf(m, n) == IF m <= n THEN m ELSE n
HigherOf(m, n) == IF m <= n THEN n ELSE m
CeilDiv(m, n) == (m + n - 1) \div n

----------------------------------------------------------------------------
(* The script.                                                             *)

(* EXPIRE: a hash that was not written for two windows is gone.            *)
live(k) == bucket[k] # NoBucket /\ now - bucket[k].setAt < 2 * Window

(* The tokens in the bucket at the given clock reading.                    *)
refilled(k, stamp) ==
    IF live(k)
    THEN LowerOf(Limit * Window,
                 bucket[k].tokens
                   + HigherOf(0, stamp - bucket[k].updatedAt) * Limit)
    ELSE Limit * Window

(* Seconds until a whole token has refilled.                               *)
retryAfter(tokens) == HigherOf(1, CeilDiv(Window - tokens, Limit * PerSec))

(* Mutation: a refused request leaves the time of the last refill. *)
storedKeepsTime(k, tokens, stamp) ==
    [tokens |-> IF tokens < Window THEN tokens ELSE tokens - Window,
     updatedAt |-> IF tokens < Window /\ live(k) THEN bucket[k].updatedAt ELSE stamp,
     setAt |-> now]

(* HSET: the bucket's time becomes the stamp, also when it goes back.      *)
stored(k, tokens, stamp) ==
    [tokens |-> IF tokens < Window THEN tokens ELSE tokens - Window,
     updatedAt |-> stamp,
     setAt |-> now]

script(k, stamp, sentAt) ==
    LET tokens == refilled(k, stamp)
        allowed == tokens >= Window
    IN  /\ bucket' = [bucket EXCEPT ![k] = stored(k, tokens, stamp)]
        /\ grants' = IF allowed THEN [grants EXCEPT ![k] = Append(@, sentAt)]
                     ELSE grants
        /\ hint' = [hint EXCEPT ![k] =
              IF allowed THEN Unset ELSE now + retryAfter(tokens) * PerSec]

----------------------------------------------------------------------------
(* The hook.                                                               *)

(* resolveScopeKey: the HMAC of an IP changes with the rotation window.    *)
keyOf(stamp) == stamp \div Rotation

(* enforce: read the clock, send the script.                               *)
enforce(p, c) ==
    /\ request[p] = NoRequest
    /\ request' = [request EXCEPT ![p] =
          [class |-> c, stamp |-> now + skew[p], sentAt |-> now]]
    /\ UNCHANGED <<now, skew, bucket, grants, hint, admitted>>

(* The request goes on, or RateLimitError.                                 *)
Decide(p, ok) ==
    /\ admitted' = [admitted EXCEPT ![keyOf(request[p].stamp)] =
          @ + IF ok /\ request[p].class # "read" THEN 1 ELSE 0]
    /\ request' = [request EXCEPT ![p] = NoRequest]

(* The script runs and its answer arrives.                                 *)
consume(p) ==
    LET q == request[p] IN
    /\ q # NoRequest
    /\ script(keyOf(q.stamp), q.stamp, q.sentAt)
    /\ Decide(p, refilled(keyOf(q.stamp), q.stamp) >= Window)
    /\ UNCHANGED <<now, skew>>

(* Only reads of an authenticated principal pass without the store.        *)
failsOpen(c) == c = "read"

(* The store fails: before the script ran, or its answer is lost.          *)
storeFails(p) ==
    LET q == request[p] IN
    /\ q # NoRequest
    /\ \/ UNCHANGED <<bucket, grants, hint>>
       \/ script(keyOf(q.stamp), q.stamp, q.sentAt)
    /\ Decide(p, failsOpen(q.class))
    /\ UNCHANGED <<now, skew>>

----------------------------------------------------------------------------
(* Time passes; no script is on its way for longer than MaxDelay.          *)
tick ==
    /\ now < MaxTime
    /\ \A p \in Processes :
         request[p] # NoRequest => now - request[p].sentAt < MaxDelay
    /\ now' = now + 1
    /\ UNCHANGED <<skew, request, bucket, grants, hint, admitted>>

(* The clock of a process is set.                                          *)
stepClock(p, s) ==
    /\ s # skew[p]
    /\ skew' = [skew EXCEPT ![p] = s]
    /\ UNCHANGED <<now, request, bucket, grants, hint, admitted>>

RateNext ==
    \/ tick
    \/ \E p \in Processes :
         \/ \E c \in Classes : enforce(p, c)
         \/ consume(p) \/ storeFails(p)
         \/ \E s \in 0 .. MaxSkew : stepClock(p, s)

RateSpec == RateInit /\ [][RateNext]_rateVars

----------------------------------------------------------------------------
(* Every variable has its type; a bucket holds at most Limit tokens.       *)
Requests == {NoRequest} \cup [class : Classes, stamp : Clock, sentAt : Time]
Buckets == {NoBucket} \cup
    [tokens : 0 .. Limit * Window, updatedAt : Clock, setAt : Time]

RateTypeOK ==
    /\ now \in Time
    /\ skew \in [Processes -> 0 .. MaxSkew]
    /\ request \in [Processes -> Requests]
    /\ bucket \in [BucketKeys -> Buckets]
    /\ grants \in [BucketKeys -> Seq(Time)]
    /\ hint \in [BucketKeys -> {Unset} \cup Nat]
    /\ admitted \in [BucketKeys -> Nat]

(* Of the requests made in any stretch of time, a bucket lets through at   *)
(* most its capacity and what is refilled during the stretch: "at most     *)
(* limit requests per windowSec burst", "the bucket regains limit tokens   *)
(* per windowSec" (RateLimitConsumeRequest in token-bucket.ts).            *)
BurstBound ==
    \A k \in BucketKeys : \A s \in Time : \A e \in s .. MaxTime :
        Cardinality({i \in DOMAIN grants[k] : grants[k][i] \in s .. e}) * Window
          <= Limit * Window + (e - s) * Limit

(* A client that comes back when it was told to, with no other request     *)
(* counted since, gets its token: "the client hint is never optimistic"    *)
(* (createInMemoryRateLimitStore).                                         *)
NeverOptimistic ==
    \A k \in BucketKeys :
        hint[k] # Unset /\ now >= hint[k] => refilled(k, now) >= Window

(* Whatever the store does, a public request or a mutation that passes has *)
(* paid a token of its own bucket (failsOpen: "fail-closed").              *)
MutationsMetered == \A k \in BucketKeys : admitted[k] <= Len(grants[k])

(* What is checked of the limiter, the first two with exact clocks and     *)
(* scripts that arrive at once (the script, enforce).                      *)
RequestsMetered ==
    /\ RateTypeOK
    /\ MaxSkew = 0 /\ MaxDelay = 0 => BurstBound /\ NeverOptimistic
    /\ MutationsMetered
============================================================================
