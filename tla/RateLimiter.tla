----------------------------- MODULE RateLimiter -----------------------------
(***************************************************************************)
(* The rate limiter of the Anker client (internal/anker/ratelimit.go),     *)
(* called by any number of goroutines, and how main sets it up.            *)
(*                                                                         *)
(* Wait reads the clock three times under its mutex: for the cleanup and   *)
(* the count (`seen`), in time.Until (`asked`), and after its sleep, for   *)
(* the time it records.  The list of requests is a set of numbered records: *)
(* Wait counts them and looks for the oldest, their order does not matter.  *)
(* GetStats, which only reads, is left out, and so are the counters that   *)
(* nothing reads (endpointCounters).                                       *)
(***************************************************************************)
EXTENDS Integers, FiniteSets

CONSTANTS Callers, Endpoints,
          Window,             \* time.Minute
          DefaultLimit, DefaultDelay,
          EndpointLimits,     \* values of endpoint_limit
          RequestDelays,      \* values of request_delay
          LastCall,           \* bound: no call begins after it
          Never, NoOne, Unset

ASSUME ConstantsAssumption ==
    /\ Window \in Nat
    /\ DefaultLimit \in Nat \ {0} /\ DefaultDelay \in Nat \ {0}
    /\ EndpointLimits \subseteq Int /\ RequestDelays \subseteq Int
    /\ Never \notin Nat /\ NoOne \notin Callers /\ Unset \notin Int

VARIABLES endpointLimit, requestDelay,   \* what the limiter goes by
          requests,          \* its history, cleaned of old requests
          lastRequestTime,
          mu,                \* the caller that holds the mutex
          pc,                \* where each caller is in Wait
          endpoint,          \* the endpoint each caller asks for
          seen, asked, throttle,   \* locals of the caller that holds mu
          now,
          configured,        \* endpoint_limit, once main has applied it
          granted            \* history: every request ever let through

limiterVars == <<endpointLimit, requestDelay, configured>>
localVars == <<seen, asked, throttle>>
vars == <<limiterVars, requests, lastRequestTime, mu, pc, endpoint, localVars,
          now, granted>>

Request == [id : Nat, endpoint : Endpoints, at : Nat]

Init == /\ endpointLimit = DefaultLimit
        /\ requestDelay = DefaultDelay
        /\ requests = {}
        /\ lastRequestTime = Never
        /\ mu = NoOne
        /\ pc = [c \in Callers |-> "idle"]
        /\ endpoint \in [Callers -> Endpoints]
        /\ seen = 0 /\ asked = 0 /\ throttle = 0
        /\ now = 0
        /\ configured = Unset
        /\ granted = {}

\* Mutant of Configure: the delay is applied whatever it is.
ConfigureUnchecked(limit, delay) ==
    /\ configured = Unset
    /\ configured' = limit
    /\ endpointLimit' = IF limit > 0 THEN limit ELSE endpointLimit
    /\ requestDelay' = delay
    /\ UNCHANGED <<requests, lastRequestTime, mu, pc, endpoint, localVars, now,
                   granted>>

\* main applies the configuration, before the first request.
Configure(limit, delay) ==
    /\ configured = Unset
    /\ configured' = limit
    /\ endpointLimit' = IF limit > 0 THEN limit ELSE endpointLimit
    /\ requestDelay' = IF delay > 0 THEN delay ELSE requestDelay
    /\ UNCHANGED <<requests, lastRequestTime, mu, pc, endpoint, localVars, now,
                   granted>>
------------------------------------------------------------------------------
(* Wait *)

Call(c, e) == /\ configured # Unset
              /\ pc[c] = "idle" /\ now <= LastCall
              /\ pc' = [pc EXCEPT ![c] = "lock"]
              /\ endpoint' = [endpoint EXCEPT ![c] = e]
              /\ UNCHANGED <<limiterVars, requests, lastRequestTime, mu,
                             localVars, now, granted>>

\* Mutants of Recent: a cutoff of half a window; none.
RecentHalf(t) == {r \in requests : r.at > t - (Window \div 2)}
RecentAll(t) == requests

\* The requests of the last window, as of t.
Recent(t) == {r \in requests : r.at > t - Window}

\* The mutex is taken and the history cleaned.
Lock(c) == /\ pc[c] = "lock" /\ mu = NoOne
           /\ mu' = c
           /\ pc' = [pc EXCEPT ![c] = "count"]
           /\ seen' = now
           /\ requests' = Recent(now)
           /\ UNCHANGED <<limiterVars, lastRequestTime, endpoint, asked,
                          throttle, now, granted>>

SameRequests(e) == {r \in Recent(seen) : r.endpoint = e}

\* Mutant of LimitReached: one request too late.
LimitPassed(e) == Cardinality(SameRequests(e)) > endpointLimit

LimitReached(e) == /\ endpointLimit > 0
                   /\ Cardinality(SameRequests(e)) >= endpointLimit

\* Mutant of OldestTime: the newest request.
NewestTime(e) == CHOOSE t \in {r.at : r \in SameRequests(e)} :
                    \A r \in SameRequests(e) : r.at <= t

OldestTime(e) == CHOOSE t \in {r.at : r \in SameRequests(e)} :
                    \A r \in SameRequests(e) : t <= r.at

\* Until the oldest request leaves the window, by the clock as it is now.
LimitWait(e) == IF LimitReached(e) /\ OldestTime(e) + Window > now
                THEN OldestTime(e) + Window - now
                ELSE 0

\* What is left of the delay, by the clock as it was when Wait began.
DelayWait == IF lastRequestTime = Never \/ requestDelay <= seen - lastRequestTime
             THEN 0
             ELSE requestDelay - (seen - lastRequestTime)

Throttle(c) == /\ pc[c] = "count"
               /\ asked' = now
               /\ throttle' = IF DelayWait > LimitWait(endpoint[c])
                              THEN DelayWait
                              ELSE LimitWait(endpoint[c])
               /\ pc' = [pc EXCEPT ![c] = "sleep"]
               /\ UNCHANGED <<limiterVars, requests, lastRequestTime, mu,
                              endpoint, seen, now, granted>>

WakeAt == asked + throttle

\* Mutant of Record: a return that does not unlock.
RecordLocked(c) ==
    /\ pc[c] = "sleep" /\ now >= WakeAt
    /\ LET r == [id |-> Cardinality(granted), endpoint |-> endpoint[c],
                 at |-> now]
       IN  requests' = requests \cup {r} /\ granted' = granted \cup {r}
    /\ lastRequestTime' = now
    /\ pc' = [pc EXCEPT ![c] = "idle"]
    /\ UNCHANGED <<limiterVars, mu, endpoint, localVars, now>>

\* Mutant of Record: it records the time at which Wait began.
RecordSeen(c) ==
    /\ pc[c] = "sleep" /\ now >= WakeAt
    /\ LET r == [id |-> Cardinality(granted), endpoint |-> endpoint[c],
                 at |-> seen]
       IN  requests' = requests \cup {r} /\ granted' = granted \cup {r}
    /\ lastRequestTime' = seen
    /\ mu' = NoOne
    /\ pc' = [pc EXCEPT ![c] = "idle"]
    /\ UNCHANGED <<limiterVars, endpoint, localVars, now>>

\* The sleep is over; the request is recorded and the mutex given back.
Record(c) ==
    /\ pc[c] = "sleep" /\ now >= WakeAt
    /\ LET r == [id |-> Cardinality(granted), endpoint |-> endpoint[c],
                 at |-> now]
       IN  requests' = requests \cup {r} /\ granted' = granted \cup {r}
    /\ lastRequestTime' = now
    /\ mu' = NoOne
    /\ pc' = [pc EXCEPT ![c] = "idle"]
    /\ UNCHANGED <<limiterVars, endpoint, localVars, now>>
------------------------------------------------------------------------------
\* Time goes on.  After LastCall it does so only for a caller that sleeps.
Tick == /\ now < LastCall \/ \E c \in Callers : pc[c] = "sleep" /\ now < WakeAt
        /\ now' = now + 1
        /\ UNCHANGED <<limiterVars, requests, lastRequestTime, mu, pc, endpoint,
                       localVars, granted>>

Wait(c) == Lock(c) \/ Throttle(c) \/ Record(c)

Next == \/ \E limit \in EndpointLimits, delay \in RequestDelays :
              Configure(limit, delay)
        \/ \E c \in Callers, e \in Endpoints : Call(c, e)
        \/ \E c \in Callers : Wait(c)
        \/ Tick

Spec == Init /\ [][Next]_vars

\* A Go mutex that is handed to waiters in turn once they starve, and
\* goroutines that are scheduled.
FairSpec == /\ Spec
            /\ WF_vars(Tick)
            /\ \A c \in Callers : /\ SF_vars(Lock(c))
                                  /\ WF_vars(Throttle(c))
                                  /\ WF_vars(Record(c))
------------------------------------------------------------------------------
(* Properties *)

TypeOk == /\ endpointLimit \in Nat /\ requestDelay \in Nat
          /\ configured \in EndpointLimits \cup {Unset}
          /\ requests \subseteq Request
          /\ granted \subseteq Request /\ IsFiniteSet(granted)
          /\ lastRequestTime \in Nat \cup {Never}
          /\ mu \in Callers \cup {NoOne}
          /\ pc \in [Callers -> {"idle", "lock", "count", "sleep"}]
          /\ endpoint \in [Callers -> Endpoints]
          /\ seen \in Nat /\ asked \in Nat /\ throttle \in Nat
          /\ now \in Nat

\* Whatever the order of the callers, wherever time passes between the three
\* readings of the clock, and although the history is cleaned, Wait grants
\* only what a limiter grants that remembers everything (ratelimit.go:63-112).
SW == INSTANCE SlidingWindow WITH limit <- endpointLimit,
                                   delay <- requestDelay

ImplementsSlidingWindow == SW!Spec

\* No endpoint gets more requests in any window than the limit.
WindowRespected == SW!WindowRespected

\* Why.  Kept: no request that still counts has been cleaned away.  Mutex:
\* mu is the caller between Lock and Record, and what it saw is not older than
\* any request.  Full: no window so far holds more than the limit.  Slept: when
\* the sleep of a caller is over its endpoint has room and the delay is over.
HoldsMutex(c) == pc[c] \in {"count", "sleep"}
Kept == /\ requests \subseteq granted
        /\ \A r \in granted :
              r.at > (IF mu = NoOne THEN now ELSE seen) - Window => r \in requests
Numbered == \A r \in granted : r.id < Cardinality(granted)
Latest == /\ lastRequestTime = Never => granted = {}
          /\ lastRequestTime # Never => lastRequestTime <= now
          /\ \A r \in granted : lastRequestTime # Never /\ r.at <= lastRequestTime
Mutex == /\ \A c \in Callers : HoldsMutex(c) <=> mu = c
         /\ configured = Unset => granted = {} /\ \A c \in Callers : pc[c] = "idle"
         /\ mu # NoOne =>
               /\ seen <= now
               /\ lastRequestTime # Never => lastRequestTime <= seen
Full == endpointLimit > 0 =>
           \A e \in Endpoints, t \in 0..now :
              Cardinality(SW!InWindow(e, t)) <= endpointLimit
Since(e, t) == {r \in granted : r.endpoint = e /\ r.at > t - Window}
RoomAt(e, t) == endpointLimit > 0 => Cardinality(Since(e, t)) < endpointLimit
Slept == \A c \in Callers : pc[c] = "sleep" =>
            /\ RoomAt(endpoint[c], WakeAt)
            /\ lastRequestTime # Never => WakeAt >= lastRequestTime + requestDelay
            /\ asked <= now
Admission == Kept /\ Numbered /\ Latest /\ Mutex /\ Full /\ Slept

\* The history stays short: between two cleanups it holds at most one request
\* more for an endpoint than the limit (ratelimit.go:115-126).
HistoryBounded ==
    endpointLimit > 0 =>
       \A e \in Endpoints :
          Cardinality({r \in requests : r.endpoint = e}) <= endpointLimit + 1

\* No caller sleeps longer than it has to, but for the time between the
\* readings of the clock: at every instant before, its request would be one
\* too many or too early (ratelimit.go:74-99).
NoNeedlessWait ==
    \A c \in Callers : pc[c] = "sleep" =>
       \A t \in now..(WakeAt - 1 - (asked - seen)) :
          \/ ~RoomAt(endpoint[c], t)
          \/ t - lastRequestTime < requestDelay

\* Every call returns, however many callers there are and although Wait
\* sleeps with the mutex held (ratelimit.go:64, 103).
EveryWaitEnds == \A c \in Callers : pc[c] = "lock" ~> pc[c] = "idle"
==============================================================================
