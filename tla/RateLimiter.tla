----------------------------- MODULE RateLimiter -----------------------------
(***************************************************************************)
(* util/rateLimiter.ts: at most so many requests per key and time window.  *)
(* The counter of a key lives in Redis.  Each request reads it, increments *)
(* it and, if it found none, asks Redis to drop it at the end of the       *)
(* window; the three are separate calls, and other requests, the end of    *)
(* the window or the death of the process may come between them.           *)
(***************************************************************************)
EXTENDS Naturals, FiniteSets

CONSTANTS
    Callers,        \* requests that may be under way together
    MaxRequests,    \* allowed per window (RATE_LIMIT_MAX)
    NoKey,          \* Redis has no counter
    MaxDeaths       \* bound on processes that die inside limit

ASSUME LimiterAssumption ==
    /\ IsFiniteSet(Callers) /\ Callers # {}
    /\ MaxRequests \in Nat \ {0}
    /\ NoKey \notin [count : Nat, expires : BOOLEAN]
    /\ MaxDeaths \in Nat

VARIABLES
    counter,    \* NoKey, or its count and whether it has an expiry
    caller,     \* where each request is and what it read
    deaths,     \* bound
    torn        \* did a window end, or a process die, inside a call of limit?

limiterVars == <<counter, caller, deaths, torn>>

Outside == [pc |-> "get", seen |-> 0]

LimiterInit ==
    /\ counter = NoKey
    /\ caller = [r \in Callers |-> Outside]
    /\ deaths = 0
    /\ torn = FALSE

Count == IF counter = NoKey THEN 0 ELSE counter.count

CallerAt(r, label) == caller[r].pc = label

\* A read that lets one request too many through.
GetAtMax(r) ==
    /\ CallerAt(r, "get")
    /\ Count <= MaxRequests
    /\ caller' = [caller EXCEPT ![r] = [pc |-> "incr", seen |-> Count]]
    /\ UNCHANGED <<counter, deaths, torn>>

\* A request that reads a counter below the limit goes on with what it read.
Get(r) ==
    /\ CallerAt(r, "get")
    /\ Count < MaxRequests
    /\ caller' = [caller EXCEPT ![r] = [pc |-> "incr", seen |-> Count]]
    /\ UNCHANGED <<counter, deaths, torn>>

\* A request that finds the counter at the limit is refused and leaves no trace.
Refuse(r) ==
    /\ CallerAt(r, "get")
    /\ Count >= MaxRequests
    /\ UNCHANGED limiterVars

\* INCR keeps an expiry and creates a missing key without one.
Incremented ==
    IF counter = NoKey THEN [count |-> 1, expires |-> FALSE]
                       ELSE [counter EXCEPT !.count = @ + 1]

\* An increment that forgets what the read found.
IncrWithoutExpire(r) ==
    /\ CallerAt(r, "incr")
    /\ counter' = Incremented
    /\ caller' = [caller EXCEPT ![r] = Outside]
    /\ UNCHANGED <<deaths, torn>>

Incr(r) ==
    /\ CallerAt(r, "incr")
    /\ counter' = Incremented
    /\ caller' = [caller EXCEPT ![r] = IF @.seen = 0 THEN [@ EXCEPT !.pc = "expire"]
                                                       ELSE Outside]
    /\ UNCHANGED <<deaths, torn>>

Expire(r) ==
    /\ CallerAt(r, "expire")
    /\ counter' = IF counter = NoKey THEN NoKey ELSE [counter EXCEPT !.expires = TRUE]
    /\ caller' = [caller EXCEPT ![r] = Outside]
    /\ UNCHANGED <<deaths, torn>>

\* The process dies, or a call to Redis rejects, after the counter was incremented
\* or before.
Die(r) ==
    /\ ~CallerAt(r, "get")
    /\ deaths < MaxDeaths
    /\ deaths' = deaths + 1
    /\ caller' = [caller EXCEPT ![r] = Outside]
    /\ torn' = TRUE
    /\ UNCHANGED counter

\* Redis drops a counter that has an expiry; one without is kept for good.
WindowEnds ==
    /\ counter # NoKey /\ counter.expires
    /\ counter' = NoKey
    /\ torn' = (torn \/ \E r \in Callers : ~CallerAt(r, "get"))
    /\ UNCHANGED <<caller, deaths>>

Call(r) == Get(r) \/ Refuse(r) \/ Incr(r) \/ Expire(r)

LimiterNext == WindowEnds \/ \E r \in Callers : Call(r) \/ Die(r)

LimiterSpec == LimiterInit /\ [][LimiterNext]_limiterVars

\* Redis drops what has expired, and a request that was read goes on.
LimiterFairness ==
    /\ WF_limiterVars(WindowEnds)
    /\ \A r \in Callers : WF_limiterVars(Incr(r)) /\ WF_limiterVars(Expire(r))

FairLimiterSpec == LimiterSpec /\ LimiterFairness

-----------------------------------------------------------------------------
(* Properties *)

\* Types; a request that passed has read a counter below the limit.
LimiterTypeOK ==
    /\ counter \in [count : Nat, expires : BOOLEAN] \cup {NoKey}
    /\ caller \in [Callers -> [pc : {"get", "incr", "expire"}, seen : 0 .. MaxRequests - 1]]
    /\ deaths \in 0 .. MaxDeaths
    /\ torn \in BOOLEAN

\* The read and the increment are two calls, so requests that read together may
\* all pass: a window lets through at most one less than the requests that can be
\* under way together beyond the limit.
OverrunBounded == Count <= MaxRequests + Cardinality(Callers) - 1

\* As long as no window ended and no process died inside a call, every counter
\* goes away at the end of its window and the next requests are served.
ServedAgain == [](~torn) => (counter # NoKey ~> counter = NoKey)

=============================================================================
